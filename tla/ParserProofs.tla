---------------------------- MODULE ParserProofs ----------------------------
(***************************************************************************)
(* The parser owns what it allocates once, and the tree of a template it   *)
(* accepts stands for its tokens: OwnedOnce, EveryTokenOnce, ClosingsMatch *)
(* and LatestBlocks of Parser, for every set of templates.  So does        *)
(* AcceptedIffBalanced: it accepts those whose tags are balanced.          *)
(*                                                                         *)
(* OwnedOnce speaks of what can be reached from the calls in progress.     *)
(* That is not inductive: a step changes what is reached by adding a block *)
(* that nothing leads to, or by freeing one.  Owned says it of all that    *)
(* was not freed: a node has one parent at most, leads to nothing freed    *)
(* and to nodes made after it, and what the calls in progress hold has no  *)
(* parent at all.  What is reached is then part of what was not freed,     *)
(* for that is closed.                                                     *)
(*                                                                         *)
(* The others speak of a tree that is complete.  Track says of the part    *)
(* that was read what they say of all: the nodes in the order of their     *)
(* allocation are in the order of their tokens, and what is below a node   *)
(* was allocated without a break, so that the calls in progress divide     *)
(* what is alive between them.                                             *)
(*                                                                         *)
(* The last one compares the parser to the tags that are open by the       *)
(* tokens alone.  Fits says how: of the calls in progress those for        *)
(* alternatives stand for no tag, each other one for a tag of its kind.    *)
(***************************************************************************)
EXTENDS Parser, SequenceTheorems, FiniteSetTheorems, WellFoundedInduction, TLAPS

-----------------------------------------------------------------------------
(* Trees: N nodes, K[p] the children of p, fr the freed ones, R the roots. *)
Upward(N, K) == \A p \in 1 .. N : K[p] \subseteq p + 1 .. N

Owned(N, K, fr, R) ==
  /\ Upward(N, K)
  /\ \A p \in (1 .. N) \ fr : K[p] \cap fr = {} /\ K[p] \cap R = {}
  /\ \A p, q \in (1 .. N) \ fr : \A c \in K[p] : c \in K[q] => p = q
  /\ R \subseteq (1 .. N) \ fr

(* The nodes allocated by one call: they have no children, but for a       *)
(* condition, which has its branch.                                        *)
Grown(N, K, M, L) ==
  /\ N <= M
  /\ \A p \in 1 .. N : L[p] = K[p]
  /\ \A p \in N + 1 .. M : L[p] = {} \/ (p = N + 1 /\ M = N + 2 /\ L[p] = {N + 2})

(* New nodes leave the others alone, be the first of them freed at once or *)
(* not.                                                                    *)
LEMMA GrowOwned ==
  ASSUME NEW N \in Nat, NEW K, NEW fr, NEW R, Owned(N, K, fr, R), fr \subseteq 1 .. N,
         NEW M \in Nat, NEW L, Grown(N, K, M, L),
         NEW gone, gone \subseteq {N + 1},
         NEW S, S \subseteq R \cup ({N + 1} \ gone), S \subseteq 1 .. M
  PROVE  Owned(M, L, fr \cup gone, S)
<1>1. \A p \in 1 .. M : p \in 1 .. N \/ p \in N + 1 .. M
  BY DEF Grown
<1>2. ASSUME NEW p \in 1 .. N
      PROVE  /\ L[p] = K[p] /\ K[p] \subseteq p + 1 .. M
             /\ K[p] \subseteq p + 1 .. N /\ N + 1 \notin K[p] /\ p # N + 1
             /\ p \in 1 .. M
  BY DEF Grown, Owned, Upward
<1>3. ASSUME NEW p \in N + 1 .. M
      PROVE  /\ L[p] \subseteq p + 1 .. M /\ L[p] \subseteq {N + 2}
             /\ L[p] # {} => p = N + 1
             /\ p \notin fr
  BY DEF Grown
<1>4. N + 2 \notin fr \cup gone /\ N + 2 \notin S /\ N + 1 \notin fr
  BY DEF Owned
<1>5. Upward(M, L)
  BY <1>1, <1>2, <1>3 DEF Upward
<1>6. ASSUME NEW p \in (1 .. M) \ (fr \cup gone)
      PROVE  L[p] \cap (fr \cup gone) = {} /\ L[p] \cap S = {}
  <2>1. CASE p \in 1 .. N
    <3>1. K[p] \cap fr = {} /\ K[p] \cap R = {}
      BY <1>6, <2>1 DEF Owned
    <3> QED
      BY <3>1, <2>1, <1>2
  <2>2. CASE p \in N + 1 .. M
    BY <2>2, <1>3, <1>4
  <2> QED
    BY <1>1, <2>1, <2>2
<1>7. ASSUME NEW p \in (1 .. M) \ (fr \cup gone), NEW q \in (1 .. M) \ (fr \cup gone),
             NEW c \in L[p], c \in L[q]
      PROVE  p = q
  <2>1. CASE p \in 1 .. N /\ q \in 1 .. N
    <3>1. p \in (1 .. N) \ fr /\ q \in (1 .. N) \ fr /\ c \in K[p] /\ c \in K[q]
      BY <2>1, <1>2, <1>7
    <3> QED
      BY <3>1 DEF Owned
  <2>2. CASE p \in 1 .. N /\ q \in N + 1 .. M
    <3>1. c = N + 2 /\ c \in p + 1 .. N
      BY <2>2, <1>2, <1>3, <1>7
    <3> QED
      BY <3>1
  <2>3. CASE p \in N + 1 .. M /\ q \in 1 .. N
    <3>1. c = N + 2 /\ c \in q + 1 .. N
      BY <2>3, <1>2, <1>3, <1>7
    <3> QED
      BY <3>1
  <2>4. CASE p \in N + 1 .. M /\ q \in N + 1 .. M
    BY <2>4, <1>3, <1>7
  <2> QED
    BY <1>1, <2>1, <2>2, <2>3, <2>4
<1>8. S \subseteq (1 .. M) \ (fr \cup gone)
  BY <1>4 DEF Owned
<1> QED
  BY <1>5, <1>6, <1>7, <1>8 DEF Owned

(* A root becomes a child.                                                 *)
Pushed(N, K, p0, v, L) ==
  L[p0] = K[p0] \cup {v} /\ \A p \in (1 .. N) \ {p0} : L[p] = K[p]

(* It has no other parent.                                                 *)
LEMMA PushOwned ==
  ASSUME NEW N \in Nat, NEW K, NEW fr, NEW R, Owned(N, K, fr, R),
         NEW p0 \in (1 .. N) \ fr, NEW v \in R, p0 < v,
         NEW L, Pushed(N, K, p0, v, L),
         NEW S, S \subseteq R \ {v}
  PROVE  Owned(N, L, fr, S)
<1>1. v \in (1 .. N) \ fr /\ v \in p0 + 1 .. N
  BY DEF Owned
<1>2. Upward(N, L)
  BY <1>1 DEF Owned, Upward, Pushed
<1>3. \A p \in (1 .. N) \ fr : v \notin K[p]
  BY DEF Owned
<1>4. ASSUME NEW p \in (1 .. N) \ fr
      PROVE  L[p] \cap fr = {} /\ L[p] \cap S = {}
  <2>1. K[p] \cap fr = {} /\ K[p] \cap R = {}
    BY DEF Owned
  <2>2. L[p] \subseteq K[p] \cup {v}
    BY <1>4 DEF Pushed
  <2> QED
    BY <1>1, <2>1, <2>2
<1>5. ASSUME NEW p \in (1 .. N) \ fr, NEW q \in (1 .. N) \ fr, NEW c \in L[p], c \in L[q]
      PROVE  p = q
  <2>1. CASE c = v
    <3>1. p = p0 /\ q = p0
      BY <2>1, <1>3, <1>5 DEF Pushed
    <3> QED
      BY <3>1
  <2>2. CASE c # v
    <3>1. c \in K[p] /\ c \in K[q]
      BY <2>2, <1>5 DEF Pushed
    <3> QED
      BY <3>1 DEF Owned
  <2> QED
    BY <2>1, <2>2
<1>6. S \subseteq (1 .. N) \ fr
  BY DEF Owned
<1> QED
  BY <1>2, <1>4, <1>5, <1>6 DEF Owned

(* A root is freed, and its children go to another node.                   *)
LEMMA AdoptOwned ==
  ASSUME NEW N \in Nat, NEW K, NEW fr, NEW R, Owned(N, K, fr, R),
         NEW p0 \in (1 .. N) \ fr, NEW v \in R, p0 < v,
         NEW L, L[p0] \subseteq K[p0] \cup K[v], \A p \in (1 .. N) \ {p0} : L[p] = K[p],
         NEW S, S \subseteq R \ {v}
  PROVE  Owned(N, L, fr \cup {v}, S)
<1>1. /\ v \in (1 .. N) \ fr /\ v \in p0 + 1 .. N
      /\ K[v] \subseteq v + 1 .. N /\ K[v] \subseteq p0 + 1 .. N /\ v \notin K[v]
  BY DEF Owned, Upward
<1>2. Upward(N, L)
  <2>1. L[p0] \subseteq p0 + 1 .. N
    BY <1>1 DEF Owned, Upward
  <2> QED
    BY <2>1 DEF Owned, Upward
<1>3. \A p \in (1 .. N) \ fr : v \notin K[p]
  BY DEF Owned
<1>4. ASSUME NEW p \in (1 .. N) \ (fr \cup {v})
      PROVE  L[p] \cap (fr \cup {v}) = {} /\ L[p] \cap S = {}
  <2>1. K[p] \cap fr = {} /\ K[p] \cap R = {} /\ K[v] \cap fr = {} /\ K[v] \cap R = {}
    BY <1>1 DEF Owned
  <2>2. v \notin K[p] /\ v \notin K[v]
    BY <1>3, <1>1
  <2>3. L[p] \subseteq K[p] \cup K[v]
    BY <1>4
  <2> QED
    BY <2>1, <2>2, <2>3
<1>5. ASSUME NEW p \in (1 .. N) \ (fr \cup {v}), NEW q \in (1 .. N) \ (fr \cup {v}),
             NEW c \in L[p], c \in L[q]
      PROVE  p = q
  <2>1. (p # p0 => c \in K[p]) /\ (q # p0 => c \in K[q])
    BY <1>5
  <2>2. (c \in K[p] \/ c \in K[v]) /\ (c \in K[q] \/ c \in K[v])
    BY <1>5
  <2>3. c \in K[v] => ~(c \in K[p]) /\ ~(c \in K[q])
    BY <1>1 DEF Owned
  <2>4. c \in K[p] /\ c \in K[q] => p = q
    BY DEF Owned
  <2> QED
    BY <2>1, <2>2, <2>3, <2>4
<1>6. S \subseteq (1 .. N) \ (fr \cup {v})
  BY DEF Owned
<1> QED
  BY <1>2, <1>4, <1>5, <1>6 DEF Owned

(* Nodes are freed with all that leads to them.                            *)
LEMMA ReleaseOwned ==
  ASSUME NEW N \in Nat, NEW K, NEW fr, NEW R, Owned(N, K, fr, R),
         NEW gone, \A p \in (1 .. N) \ fr : \A c \in K[p] : c \in gone => p \in gone,
         NEW S, S \subseteq R \ gone
  PROVE  Owned(N, K, fr \cup gone, S)
<1>1. \A p \in (1 .. N) \ (fr \cup gone) : K[p] \cap (fr \cup gone) = {} /\ K[p] \cap S = {}
  BY DEF Owned
<1>2. \A p, q \in (1 .. N) \ (fr \cup gone) : \A c \in K[p] : c \in K[q] => p = q
  BY DEF Owned
<1>3. S \subseteq (1 .. N) \ (fr \cup gone)
  BY DEF Owned
<1> QED
  BY <1>1, <1>2, <1>3 DEF Owned

(* A set of numbers has a least member,                                    *)
LEMMA Least ==
  ASSUME NEW S, S \subseteq Nat, S # {}
  PROVE  \E n \in S : \A m \in S : n <= m
<1> DEFINE R == OpToRel(<, Nat)
<1>1. IsWellFoundedOn(R, Nat)
  BY NatLessThanWellFounded
<1>2. \A x, y \in Nat : <<x, y>> \in R <=> x < y
  BY DEF OpToRel
<1> HIDE DEF R
<1>3. PICK x \in S : \A y \in S : ~ (<<y, x>> \in R)
  BY <1>1, WFMin
<1>4. ASSUME NEW y \in S PROVE x <= y
  <2>1. x \in Nat /\ y \in Nat /\ ~ (y < x)
    BY <1>2, <1>3, <1>4
  <2> QED
    BY <2>1
<1> QED
  BY <1>4

(* and a greatest one if there is a bound.                                 *)
LEMMA Greatest ==
  ASSUME NEW N \in Nat, NEW S, S \subseteq 0 .. N, S # {}
  PROVE  \E n \in S : \A m \in S : m <= n
<1> DEFINE T == {m \in 0 .. N : N - m \in S}
<1>1. T \subseteq Nat
  OBVIOUS
<1>2. T # {}
  <2>1. PICK m : m \in S
    OBVIOUS
  <2>2. N - m \in 0 .. N /\ N - (N - m) = m
    BY <2>1
  <2>3. N - m \in T
    BY <2>1, <2>2
  <2> QED
    BY <2>3
<1>3. PICK k \in T : \A j \in T : k <= j
  BY <1>1, <1>2, Least
<1>4. ASSUME NEW m \in S PROVE m <= N - k
  <2>1. m \in 0 .. N /\ N - m \in 0 .. N /\ N - (N - m) = m
    BY <1>4
  <2>2. N - m \in T
    BY <1>4, <2>1
  <2>3. k <= N - m /\ k \in 0 .. N
    BY <1>3, <2>2
  <2> QED
    BY <2>1, <2>3
<1> QED
  BY <1>3, <1>4

-----------------------------------------------------------------------------
(* What is below a node: the least set with it that is closed under K.     *)
ClosedUnder(N, K, S) == \A p \in 1 .. N : p \in S => K[p] \subseteq S

Reached(N, K, n) ==
  {x \in 1 .. N : \A S \in SUBSET (1 .. N) : n \in S /\ ClosedUnder(N, K, S) => x \in S}

(* It is closed,                                                           *)
LEMMA ReachedClosed ==
  ASSUME NEW N \in Nat, NEW K, Upward(N, K), NEW n \in 1 .. N
  PROVE  n \in Reached(N, K, n) /\ ClosedUnder(N, K, Reached(N, K, n))
<1>1. ASSUME NEW p \in 1 .. N, p \in Reached(N, K, n), NEW c \in K[p]
      PROVE  c \in Reached(N, K, n)
  <2>1. c \in 1 .. N
    BY DEF Upward
  <2>2. ASSUME NEW S \in SUBSET (1 .. N), n \in S, ClosedUnder(N, K, S)
        PROVE  c \in S
    <3>1. p \in S
      BY <1>1, <2>2 DEF Reached
    <3> QED
      BY <2>2, <3>1 DEF ClosedUnder
  <2> QED
    BY <2>1, <2>2 DEF Reached
<1> QED
  BY <1>1 DEF Reached, ClosedUnder

(* in any closed set with the node,                                        *)
LEMMA ReachedLeast ==
  ASSUME NEW N, NEW K, NEW n, NEW S, S \subseteq 1 .. N, n \in S, ClosedUnder(N, K, S)
  PROVE  Reached(N, K, n) \subseteq S
BY DEF Reached

(* of numbers that are no smaller than its own,                            *)
LEMMA ReachedAbove ==
  ASSUME NEW N \in Nat, NEW K, Upward(N, K), NEW n \in 1 .. N
  PROVE  Reached(N, K, n) \subseteq n .. N
<1>1. n .. N \subseteq 1 .. N /\ n \in n .. N
  OBVIOUS
<1>2. ASSUME NEW p \in 1 .. N, p \in n .. N PROVE K[p] \subseteq n .. N
  <2>1. K[p] \subseteq p + 1 .. N
    BY DEF Upward
  <2> QED
    BY <1>2, <2>1
<1>3. ClosedUnder(N, K, n .. N)
  BY <1>2 DEF ClosedUnder
<1> QED
  BY <1>1, <1>3, ReachedLeast

(* and each but the node has a parent in it.                               *)
LEMMA ReachedParent ==
  ASSUME NEW N \in Nat, NEW K, Upward(N, K), NEW n \in 1 .. N,
         NEW x \in Reached(N, K, n), x # n
  PROVE  \E p \in Reached(N, K, n) : x \in K[p]
<1> SUFFICES ASSUME \A p \in Reached(N, K, n) : x \notin K[p] PROVE FALSE
  OBVIOUS
<1>1. n \in Reached(N, K, n) /\ ClosedUnder(N, K, Reached(N, K, n))
  BY ReachedClosed
<1> DEFINE S == Reached(N, K, n) \ {x}
<1>2. S \subseteq 1 .. N /\ n \in S
  BY <1>1 DEF Reached
<1>3. ClosedUnder(N, K, S)
  BY <1>1 DEF ClosedUnder
<1>4. Reached(N, K, n) \subseteq S
  <2> HIDE DEF S
  <2> QED
    BY <1>2, <1>3, ReachedLeast
<1> QED
  BY <1>4

(* It is the node, and what is below its children.                         *)
LEMMA ReachedIs ==
  ASSUME NEW N \in Nat, NEW K, Upward(N, K), NEW n \in 1 .. N
  PROVE  Reached(N, K, n) = {n} \cup UNION {Reached(N, K, c) : c \in K[n]}
<1> DEFINE S == {n} \cup UNION {Reached(N, K, c) : c \in K[n]}
<1>1. K[n] \subseteq 1 .. N
  BY DEF Upward
<1>2. S \subseteq 1 .. N /\ n \in S
  BY DEF Reached
<1>3. ClosedUnder(N, K, S)
  <2> SUFFICES ASSUME NEW p \in 1 .. N, p \in S, NEW d \in K[p] PROVE d \in S
    BY DEF ClosedUnder
  <2>1. CASE p = n
    <3>1. d \in Reached(N, K, d)
      BY <2>1, <1>1, ReachedClosed
    <3> QED
      BY <2>1, <3>1
  <2>2. CASE p # n
    <3>1. PICK c \in K[n] : p \in Reached(N, K, c)
      BY <2>2
    <3>2. ClosedUnder(N, K, Reached(N, K, c))
      BY <1>1, ReachedClosed
    <3>3. d \in Reached(N, K, c)
      BY <3>1, <3>2 DEF ClosedUnder
    <3> QED
      BY <3>3
  <2> QED
    BY <2>1, <2>2
<1>4. Reached(N, K, n) \subseteq S
  <2> HIDE DEF S
  <2> QED
    BY <1>2, <1>3, ReachedLeast
<1>5. S \subseteq Reached(N, K, n)
  <2>1. n \in Reached(N, K, n) /\ ClosedUnder(N, K, Reached(N, K, n))
    BY ReachedClosed
  <2>2. ASSUME NEW c \in K[n] PROVE Reached(N, K, c) \subseteq Reached(N, K, n)
    <3>1. c \in Reached(N, K, n) /\ Reached(N, K, n) \subseteq 1 .. N
      BY <2>1 DEF ClosedUnder, Reached
    <3> QED
      BY <2>1, <3>1, ReachedLeast
  <2> QED
    BY <2>1, <2>2
<1> QED
  BY <1>4, <1>5

(* So a function that is given by its children's values is this one.       *)
Tree(N, K, t) == t = [m \in 1 .. N |-> {m} \cup UNION {t[c] : c \in K[m]}]

(* There is one such function on the nodes, and it is Reached: of two that *)
(* differ take the greatest place where they do.                           *)
LEMMA TreeIs ==
  ASSUME NEW N \in Nat, NEW K, Upward(N, K), NEW t, Tree(N, K, t)
  PROVE  \A n \in 1 .. N : t[n] = Reached(N, K, n)
<1> DEFINE S == {n \in 1 .. N : t[n] # Reached(N, K, n)}
<1> SUFFICES ASSUME S # {} PROVE FALSE
  OBVIOUS
<1>1. S \subseteq 0 .. N
  OBVIOUS
<1>2. PICK n \in S : \A m \in S : m <= n
  <2> HIDE DEF S
  <2> QED
    BY <1>1, Greatest
<1>3. K[n] \subseteq n + 1 .. N
  BY DEF Upward
<1>4. \A c \in K[n] : t[c] = Reached(N, K, c)
  <2> TAKE c \in K[n]
  <2>1. c \in 1 .. N /\ ~(c <= n)
    BY <1>3
  <2> QED
    BY <2>1, <1>2
<1>5. t[n] = {n} \cup UNION {t[c] : c \in K[n]}
  BY DEF Tree
<1>6. Reached(N, K, n) = {n} \cup UNION {Reached(N, K, c) : c \in K[n]}
  BY ReachedIs
<1> QED
  BY <1>4, <1>5, <1>6

(* And there is one.                                                       *)
LEMMA TreeExists ==
  ASSUME NEW N \in Nat, NEW K, Upward(N, K)
  PROVE  \E t : Tree(N, K, t)
<1> DEFINE t == [n \in 1 .. N |-> Reached(N, K, n)]
<1>1. ASSUME NEW m \in 1 .. N
      PROVE  t[m] = {m} \cup UNION {t[c] : c \in K[m]}
  <2>1. \A c \in K[m] : t[c] = Reached(N, K, c)
    BY DEF Upward
  <2>2. Reached(N, K, m) = {m} \cup UNION {Reached(N, K, c) : c \in K[m]}
    BY ReachedIs
  <2>3. UNION {t[c] : c \in K[m]} = UNION {Reached(N, K, c) : c \in K[m]}
    BY <2>1
  <2> QED
    BY <2>2, <2>3
<1>2. t = [n \in 1 .. N |-> t[n]]
  OBVIOUS
<1> HIDE DEF t
<1>3. Tree(N, K, t)
  BY <1>1, <1>2 DEF Tree
<1> QED
  BY <1>3

-----------------------------------------------------------------------------
(* Below of Parser is what is reached from a node.                         *)
Kids == [n \in Nodes |-> Children(n)]

(* So what is below a node is what is reached from it.                     *)
LEMMA BelowIs ==
  ASSUME Len(node) \in Nat, Upward(Len(node), Kids), NEW n \in Nodes
  PROVE  Below(n) = Reached(Len(node), Kids, n)
<1> DEFINE Fits(t) == t = [m \in 1 .. Len(node) |-> {m} \cup UNION {t[c] : c \in Children(m)}]
           tree    == CHOOSE t : Fits(t)
<1>1. \A t : Fits(t) <=> Tree(Len(node), Kids, t)
  <2> TAKE t
  <2>1. \A m \in 1 .. Len(node) : Kids[m] = Children(m)
    BY DEF Kids, Nodes
  <2> QED
    BY <2>1 DEF Tree
<1>2. \E t : Fits(t)
  <2> HIDE DEF Fits
  <2> QED
    BY <1>1, TreeExists
<1>3. Fits(tree)
  <2> HIDE DEF Fits
  <2> QED
    BY <1>2
<1>4. Below(n) = tree[n]
  BY Zenon DEF Below
<1>5. tree[n] = Reached(Len(node), Kids, n)
  <2> HIDE DEF Fits, tree
  <2>1. Tree(Len(node), Kids, tree) /\ n \in 1 .. Len(node)
    BY <1>1, <1>3 DEF Nodes
  <2> QED
    BY <2>1, TreeIs
<1> QED
  BY <1>4, <1>5

-----------------------------------------------------------------------------
(* What the variables are.                                                 *)
Types == {"template", "content", "variable", "BREAK", "EXTENDS", "FOR", "IF", "branch",
          "BLOCK", "CLOSE", "unknown"}

Words == {TokenAt(toks, i) : i \in 1 .. Len(toks) + 1} \cup {NoName}

NodeSet == [type : Types, from : Nat, to : Nat, name : Words,
            expr : {"whole", "none", "hole"}, subs : Seq(Nat), next : Nat]

FrameSet == [kind : {"template", "FOR", "IF", "BLOCK"}, blk : Nat, node : Nat]

Typed ==
  /\ toks \in Sources
  /\ cur \in 1 .. Len(toks) + 1
  /\ errors \in Nat /\ pc \in Modes
  /\ node \in Seq(NodeSet) /\ Len(node) > 0
  /\ freed \subseteq Nodes
  /\ val \in 0 .. Len(node)
  /\ tblocks \in [Names -> 0 .. Len(node)]

(* Each error is pushed at a token of its own.                             *)
FewErrors == errors <= IF pc \in {"body", "return"} THEN cur - 1 ELSE cur

(* The calls in progress: each was made for a block that was allocated     *)
(* after what the calls around it were made for.                           *)
FrameOK(f) ==
  /\ f.kind # "template" /\ f.blk \in Nodes /\ f.node \in f.blk .. Len(node)
  /\ node[f.blk].type = f.kind
  /\ f.kind = "IF" => node[f.blk].next = f.node
  /\ f.kind # "IF" => f.node = f.blk
  /\ f.kind = "BLOCK" => node[f.blk].name \in Names

Frames ==
  /\ stack \in Seq(FrameSet) /\ Len(stack) > 0
  /\ stack[1] = Template
  /\ \A k \in 2 .. Len(stack) : FrameOK(stack[k])
  /\ \A k \in 2 .. Len(stack) : \A j \in 1 .. k - 1 : stack[j].node < stack[k].blk

(* A block that came back is newer than the body it came back to, and a    *)
(* closing tag comes back to the body of a tag.                            *)
Value ==
  pc = "return" =>
    /\ val \in Nodes /\ Top.node < val
    /\ node[val].type = "CLOSE" => Len(stack) > 1

NoTwice ==
  \A n \in Nodes : \A j, k \in DOMAIN node[n].subs :
    j # k => node[n].subs[j] # node[n].subs[k]

(* Nothing in the tree leads to what a call in progress was made for, nor  *)
(* to the block that came back.                                            *)
Roots ==
  {1} \cup {stack[k].blk : k \in 2 .. Len(stack)} \cup (IF pc = "return" THEN {val} ELSE {})

Keeps == pc \notin {"crashed", "rejected"} => Owned(Len(node), Kids, freed, Roots)

IInv ==
  /\ Typed /\ FewErrors /\ Frames /\ Value /\ NoTwice
  /\ Upward(Len(node), Kids) /\ Keeps

(* The calls' blocks and branches are there.                               *)
LEMMA FrameTyped ==
  ASSUME Typed, Frames, NEW k \in DOMAIN stack
  PROVE  /\ stack[k].kind = "template" <=> k = 1
         /\ stack[k].blk \in 0 .. Len(node) /\ stack[k].node \in Nodes
         /\ k # 1 => FrameOK(stack[k]) /\ k \in 2 .. Len(stack)
<1>1. Len(node) \in Nat /\ Len(node) > 0 /\ Len(stack) \in Nat /\ k \in 1 .. Len(stack)
  BY DEF Typed, Frames
<1>2. CASE k = 1
  BY <1>1, <1>2 DEF Frames, Template, Nodes
<1>3. CASE k # 1
  <2>1. k \in 2 .. Len(stack)
    BY <1>1, <1>3
  <2>2. FrameOK(stack[k])
    BY <2>1 DEF Frames
  <2>3. stack[k].kind # "template" /\ stack[k].blk \in Nodes
        /\ stack[k].node \in stack[k].blk .. Len(node)
    BY <2>2 DEF FrameOK
  <2>4. stack[k].blk \in 0 .. Len(node) /\ stack[k].node \in Nodes
    BY <1>1, <2>3 DEF Nodes
  <2> QED
    BY <1>3, <2>1, <2>2, <2>3, <2>4
<1> QED
  BY <1>2, <1>3

(* What is alive leads to nothing that is freed,                           *)
LEMMA AliveClosed ==
  ASSUME IInv, pc \notin {"crashed", "rejected"}
  PROVE  /\ ClosedUnder(Len(node), Kids, Nodes \ freed)
         /\ Roots \subseteq Nodes \ freed /\ Len(node) \in Nat
<1> USE DEF IInv
<1>1. Len(node) \in Nat
  BY DEF Typed
<1>2. Owned(Len(node), Kids, freed, Roots)
  BY DEF Keeps
<1>3. ASSUME NEW p \in 1 .. Len(node), p \in Nodes \ freed, NEW c \in Kids[p]
      PROVE  c \in Nodes \ freed
  <2>1. c \in p + 1 .. Len(node) /\ c \notin freed
    BY <1>2, <1>3 DEF Owned, Upward
  <2> QED
    BY <1>1, <1>3, <2>1 DEF Nodes
<1> QED
  BY <1>1, <1>2, <1>3 DEF ClosedUnder, Owned, Nodes

(* the bodies being read are,                                              *)
LEMMA BodiesAlive ==
  ASSUME IInv, pc \notin {"crashed", "rejected"}, NEW k \in DOMAIN stack
  PROVE  stack[k].node \in Nodes \ freed
<1> USE DEF IInv
<1> DEFINE alive == Nodes \ freed
<1>1. ClosedUnder(Len(node), Kids, alive) /\ Roots \subseteq alive /\ Len(node) \in Nat
  BY AliveClosed
<1>2. CASE k = 1
  <2>1. stack[k].node = 1
    BY <1>2 DEF Frames, Template
  <2> QED
    BY <1>1, <2>1 DEF Roots
<1>3. CASE k # 1
  <2>1. FrameOK(stack[k]) /\ k \in 2 .. Len(stack) /\ stack[k].node \in Nodes
    BY <1>3, FrameTyped
  <2>2. stack[k].blk \in alive
    BY <1>1, <2>1 DEF Roots
  <2>3. CASE stack[k].kind = "IF"
    <3>1. stack[k].node = node[stack[k].blk].next /\ stack[k].node # 0
      BY <1>1, <2>1, <2>3 DEF FrameOK, Nodes
    <3>2. stack[k].node \in Kids[stack[k].blk]
      BY <3>1, <2>2 DEF Kids, Children
    <3>3. \A p \in 1 .. Len(node) : p \in alive => Kids[p] \subseteq alive
      BY <1>1 DEF ClosedUnder
    <3> QED
      BY <2>2, <3>2, <3>3 DEF Nodes
  <2>4. CASE stack[k].kind # "IF"
    BY <2>1, <2>2, <2>4 DEF FrameOK
  <2> QED
    BY <2>3, <2>4
<1> QED
  BY <1>2, <1>3

(* and so is all below something alive.                                    *)
LEMMA BelowAlive ==
  ASSUME IInv, pc \notin {"crashed", "rejected"}, NEW n \in Nodes \ freed
  PROVE  Below(n) \subseteq Nodes \ freed /\ Below(n) = Reached(Len(node), Kids, n)
<1> USE DEF IInv
<1> DEFINE alive == Nodes \ freed
<1>1. ClosedUnder(Len(node), Kids, alive) /\ Len(node) \in Nat /\ alive \subseteq 1 .. Len(node)
  BY AliveClosed DEF Nodes
<1>2. Below(n) = Reached(Len(node), Kids, n)
  BY <1>1, BelowIs
<1>3. n \in alive
  OBVIOUS
<1> HIDE DEF alive
<1>4. Reached(Len(node), Kids, n) \subseteq alive
  BY <1>1, <1>3, ReachedLeast
<1> QED
  BY <1>2, <1>4 DEF alive

(* What the calls hold is not freed.                                       *)
LEMMA HeldAlive ==
  ASSUME IInv, pc \notin {"crashed", "rejected"}
  PROVE  Held \subseteq Nodes \ freed
<1>1. Roots \subseteq Nodes \ freed
  BY AliveClosed
<1>2. \A k \in 2 .. Len(stack) : stack[k].blk \in Nodes \ freed
  BY <1>1 DEF Roots
<1>3. pc = "return" => val \in Nodes \ freed
  BY <1>1 DEF Roots
<1> QED
  BY <1>2, <1>3, BodiesAlive, BelowAlive DEF Held

(* The invariant is as strong as it has to be.                             *)
LEMMA OwnedOnceHolds == IInv => OwnedOnce
<1> SUFFICES ASSUME IInv PROVE OwnedOnce
  OBVIOUS
<1> USE DEF IInv
<1>1. TypeOK
  <2>1. Len(toks) \in Nat
    BY SourceAssumption DEF Typed
  <2>2. cur \in 1 .. Len(toks) + 2 /\ errors \in 0 .. Len(toks) + 2
    BY <2>1 DEF Typed, FewErrors
  <2> QED
    BY <2>2, FrameTyped DEF TypeOK, Typed, Nodes
<1>2. ASSUME pc \notin {"crashed", "rejected"}
      PROVE  /\ Held \cap freed = {}
             /\ \A n \in Held : Cardinality({p \in Held : n \in Children(p)}) <= 1
             /\ \A n \in Held : \A j, k \in DOMAIN node[n].subs :
                  j # k => node[n].subs[j] # node[n].subs[k]
  <2>1. Held \subseteq Nodes \ freed
    BY <1>2, HeldAlive
  <2>2. ASSUME NEW n \in Held PROVE Cardinality({p \in Held : n \in Children(p)}) <= 1
    <3> DEFINE P == {p \in Held : n \in Children(p)}
    <3>1. \A p, q \in P : p = q
      <4> SUFFICES ASSUME NEW p \in P, NEW q \in P PROVE p = q
        OBVIOUS
      <4>1. /\ p \in (1 .. Len(node)) \ freed /\ n \in Kids[p]
            /\ q \in (1 .. Len(node)) \ freed /\ n \in Kids[q]
        BY <2>1 DEF Kids, Nodes
      <4> QED
        BY <4>1, <1>2 DEF Keeps, Owned
    <3>2. CASE P = {}
      BY <3>2, FS_EmptySet
    <3>3. CASE P # {}
      <4>1. PICK p : P = {p}
        BY <3>1, <3>3
      <4>2. Cardinality(P) = 1
        <5> HIDE DEF P
        <5> QED
          BY <4>1, FS_Singleton
      <4> QED
        BY <4>2
    <3> QED
      BY <3>2, <3>3
  <2> QED
    BY <2>1, <2>2 DEF NoTwice
<1> QED
  BY <1>1, <1>2 DEF OwnedOnce

-----------------------------------------------------------------------------
(* An empty template has a root and nothing else.                          *)
LEMMA InitIInv == Init => IInv
<1> SUFFICES ASSUME Init PROVE IInv
  OBVIOUS
<1> USE DEF Init, Leaf, Node
<1>1. Len(toks) \in Nat
  BY SourceAssumption
<1>2. /\ node[1] \in NodeSet /\ node \in Seq(NodeSet) /\ Len(node) = 1
      /\ node[1].subs = << >> /\ node[1].next = 0
  BY DEF NodeSet, Types, Words
<1>3. Typed
  BY <1>1, <1>2 DEF Typed, Modes, Nodes
<1>4. FewErrors
  BY DEF FewErrors
<1>5. Len(stack) = 1 /\ stack \in Seq(FrameSet) /\ stack[1] = Template
  BY DEF Template, FrameSet
<1>6. Frames
  BY <1>5 DEF Frames
<1>7. Nodes = {1} /\ Kids[1] = {} /\ 1 .. Len(node) = {1}
  BY <1>2 DEF Nodes, Kids, Children
<1>8. NoTwice /\ Value
  BY <1>2, <1>7 DEF NoTwice, Value
<1>9. Upward(Len(node), Kids)
  BY <1>7 DEF Upward
<1>10. Roots = {1}
  BY <1>5 DEF Roots
<1>11. Keeps
  BY <1>7, <1>9, <1>10 DEF Keeps, Owned
<1> QED
  BY <1>3, <1>4, <1>6, <1>8, <1>9, <1>11 DEF IInv

-----------------------------------------------------------------------------
(* What a call of parser_parse_block allocates has no bodies yet; of two   *)
(* nodes, the second is the branch of the first.                           *)
Fresh(made) ==
  /\ made \in Seq(NodeSet)
  /\ \A i \in DOMAIN made :
       /\ made[i].subs = << >>
       /\ made[i].next # 0 => i = 1 /\ Len(made) = 2 /\ made[i].next = Len(node) + 2

(* New nodes have no bodies yet, and the tree grows as GrowOwned wants it. *)
LEMMA Growth ==
  ASSUME Typed, NoTwice, toks' = toks, NEW made, Fresh(made), node' = node \o made
  PROVE  /\ node' \in Seq(NodeSet') /\ Len(node') \in Nat
         /\ Len(made) \in Nat /\ Len(node') = Len(node) + Len(made)
         /\ \A p \in Nodes : node'[p] = node[p]
         /\ \A i \in DOMAIN made : node'[Len(node) + i] = made[i]
         /\ NoTwice'
         /\ Grown(Len(node), Kids, Len(node'), Kids')
<1>1. /\ node \in Seq(NodeSet) /\ made \in Seq(NodeSet) /\ Len(node) \in Nat /\ Len(made) \in Nat
      /\ DOMAIN made = 1 .. Len(made)
  BY DEF Typed, Fresh
<1>2. NodeSet' = NodeSet
  BY DEF NodeSet, Words, TokenAt
<1>3. /\ node' \in Seq(NodeSet) /\ Len(node') = Len(node) + Len(made)
      /\ \A p \in 1 .. Len(node) : node'[p] = node[p]
      /\ \A i \in 1 .. Len(made) : node'[Len(node) + i] = made[i]
  <2>1. \A i \in 1 .. Len(made) :
          /\ Len(node) + i \in 1 .. Len(node) + Len(made)
          /\ ~(Len(node) + i <= Len(node)) /\ Len(node) + i - Len(node) = i
    BY <1>1
  <2> QED
    BY <1>1, <2>1, ConcatProperties
<1>4. ASSUME NEW p \in Len(node) + 1 .. Len(node')
      PROVE  /\ node'[p].subs = << >>
             /\ node'[p].next # 0 =>
                  p = Len(node) + 1 /\ Len(node') = Len(node) + 2 /\ node'[p].next = Len(node) + 2
  <2>1. PICK i \in 1 .. Len(made) : p = Len(node) + i
    <3>1. p - Len(node) \in 1 .. Len(made) /\ p = Len(node) + (p - Len(node))
      BY <1>1, <1>3
    <3> QED
      BY <3>1
  <2>2. node'[p] = made[i]
    BY <1>3, <2>1
  <2> QED
    <3>1. /\ made[i].subs = << >>
          /\ made[i].next # 0 => i = 1 /\ Len(made) = 2 /\ made[i].next = Len(node) + 2
      BY <1>1 DEF Fresh
    <3>2. i = 1 /\ Len(made) = 2 => p = Len(node) + 1 /\ Len(node') = Len(node) + 2
      BY <1>1, <1>3, <2>1
    <3> QED
      BY <2>2, <3>1, <3>2
<1>5. \A p \in Nodes' : p \in 1 .. Len(node) \/ p \in Len(node) + 1 .. Len(node')
  BY <1>1, <1>3 DEF Nodes
<1>6. NoTwice'
  <2> SUFFICES ASSUME NEW n \in Nodes', NEW j \in DOMAIN node'[n].subs,
                      NEW k \in DOMAIN node'[n].subs, j # k
               PROVE  node'[n].subs[j] # node'[n].subs[k]
    BY DEF NoTwice
  <2>1. CASE n \in 1 .. Len(node)
    BY <1>3, <2>1 DEF NoTwice, Nodes
  <2>2. CASE n \in Len(node) + 1 .. Len(node')
    BY <1>4, <2>2
  <2> QED
    BY <1>5, <2>1, <2>2
<1>7. \A p \in 1 .. Len(node) : Kids'[p] = Kids[p]
  <2> TAKE p \in 1 .. Len(node)
  <2>1. p \in Nodes /\ p \in Nodes' /\ node'[p] = node[p]
    BY <1>1, <1>3 DEF Nodes
  <2> QED
    BY <2>1 DEF Kids, Children
<1>8. ASSUME NEW p \in Len(node) + 1 .. Len(node')
      PROVE  Kids'[p] = {} \/ (p = Len(node) + 1 /\ Len(node') = Len(node) + 2
                                /\ Kids'[p] = {Len(node) + 2})
  <2>1. p \in Nodes'
    BY <1>1, <1>3 DEF Nodes
  <2>2. Kids'[p] = {node'[p].next} \ {0}
    BY <1>4, <2>1 DEF Kids, Children
  <2> QED
    BY <1>1, <1>4, <2>2
<1>9. Grown(Len(node), Kids, Len(node'), Kids')
  BY <1>1, <1>3, <1>7, <1>8 DEF Grown
<1> QED
  BY <1>1, <1>2, <1>3, <1>6, <1>9 DEF Nodes

(* The calls that stay keep what FrameOK says of them, if their blocks do. *)
LEMMA FramesKept ==
  ASSUME Typed, Frames, Len(node') \in Nat, Len(node) <= Len(node'),
         stack' \in {stack, Pop}, Len(stack') > 0,
         \A k \in 2 .. Len(stack') :
           /\ node'[stack[k].blk].type = node[stack[k].blk].type
           /\ node'[stack[k].blk].next = node[stack[k].blk].next
           /\ node'[stack[k].blk].name = node[stack[k].blk].name
  PROVE  Frames'
<1>1. Len(stack) \in Nat /\ stack \in Seq(FrameSet) /\ Len(node) \in Nat
  BY DEF Frames, Typed
<1>2. /\ stack' \in Seq(FrameSet) /\ Len(stack') \in 1 .. Len(stack)
      /\ \A k \in 1 .. Len(stack') : stack'[k] = stack[k]
  <2>1. CASE stack' = stack
    BY <1>1, <2>1
  <2>2. CASE stack' = Pop
    BY <1>1, <2>2 DEF Pop
  <2> QED
    BY <2>1, <2>2
<1>3. \A k \in 2 .. Len(stack') : k \in 2 .. Len(stack) /\ k \in 1 .. Len(stack')
  BY <1>1, <1>2
<1>4. ASSUME NEW k \in 2 .. Len(stack') PROVE FrameOK(stack[k])'
  <2>1. PICK f \in FrameSet : f = stack[k] /\ f = stack'[k]
    BY <1>1, <1>2, <1>3
  <2>2. FrameOK(f)
    BY <2>1, <1>3 DEF Frames
  <2>3. Nodes \subseteq Nodes'
    BY <1>1 DEF Nodes
  <2>4. f.node \in f.blk .. Len(node')
    BY <1>1, <2>2 DEF FrameOK, Nodes, FrameSet
  <2>5. FrameOK(f)'
    BY <2>1, <2>2, <2>3, <2>4 DEF FrameOK
  <2> QED
    BY <2>1, <2>5
<1>5. \A k \in 2 .. Len(stack') : \A j \in 1 .. k - 1 : stack'[j].node < stack'[k].blk
  <2> TAKE k \in 2 .. Len(stack')
  <2> TAKE j \in 1 .. k - 1
  <2>1. j \in 1 .. Len(stack') /\ k \in 2 .. Len(stack) /\ k \in 1 .. Len(stack')
    BY <1>1, <1>2
  <2> QED
    BY <2>1, <1>2 DEF Frames
<1>6. stack'[1] = Template'
  BY <1>2 DEF Frames, Template
<1> QED
  BY <1>2, <1>4, <1>5, <1>6 DEF Frames

(* What a block without a body is made of: the tokens up to the i-th, and  *)
(* the last brace of a closing tag, which closes what is open.             *)
MadeAt(b, i) ==
  /\ b.from = cur /\ cur <= i
  /\ b.to = (IF b.type = "CLOSE" THEN i + 1 ELSE i)
  /\ b.type = "CLOSE" => i + 1 \in 1 .. Len(toks) /\ <<Opening, toks[cur + 2]>> \in Closings
  /\ b.type # "CLOSE" => i \in 1 .. Len(toks)
  /\ b.type \notin {"FOR", "IF", "BLOCK", "branch", "template"}

(* A closing tag that lacks its brace.                                     *)
Unclosed(i) == Type(i) = "PERCENT" /\ Type(i - 1) \in Closers /\ Type(i + 1) # "RBRACE"

(* A failure is an error, but for that.                                    *)
StopsAt(i, n) == n > 0 \/ Unclosed(i)

(* How a case of parser_parse_block may end.  It makes a block of the      *)
(* tokens up to i, with n errors more than before.                         *)
Making ==
  \E b \in NodeSet : \E i \in 1 .. Len(toks) + 1, n \in Nat :
    /\ b.subs = << >> /\ b.next = 0
    /\ b.type = "CLOSE" => Len(stack) > 1
    /\ errors + n <= i - 1 /\ MadeAt(b, i)
    /\ node' = Append(node, b)
    /\ Done(i, n)

(* It fails, and frees the block it has allocated or forgets it.           *)
Failing ==
  \E made : \E i \in 1 .. Len(toks) + 1, n \in Nat : \E gone \in SUBSET {New} :
    /\ Fresh(made)
    /\ gone # {} => Len(made) > 0
    /\ errors + n <= i /\ StopsAt(i, n)
    /\ Fail(i, n, made, gone)

(* It calls for the body of a block, or of the branch of one.              *)
FrameFor(f, made) ==
  /\ Len(made) > 0 /\ f \in FrameSet
  /\ f.kind # "template" /\ f.blk = New /\ made[1].type = f.kind
  /\ f.kind = "IF" => Len(made) = 2 /\ made[1].next = New + 1 /\ f.node = New + 1
  /\ f.kind # "IF" => f.node = New
  /\ f.kind = "BLOCK" => made[1].name \in Names

(* Its header is the tokens up to the i-th; a condition itself has none.   *)
HeaderOf(f, made, i) ==
  /\ Len(made) = (IF f.kind = "IF" THEN 2 ELSE 1)
  /\ made[Len(made)].from = cur /\ made[Len(made)].to = i /\ cur <= i
  /\ f.kind = "IF" => made[1].from = 1 /\ made[1].to = 0 /\ made[2].type = "branch"

Calling ==
  \E made, f : \E i \in 1 .. Len(toks), n \in Nat :
    /\ Fresh(made) /\ FrameFor(f, made) /\ HeaderOf(f, made, i)
    /\ errors + n <= i
    /\ Call(f, i, n, made)

(* The call on top holds one block, and its body belongs to it.            *)
LEMMA TopTyped ==
  ASSUME Typed, Frames
  PROVE  /\ Len(stack) \in Nat /\ Len(stack) \in DOMAIN stack /\ Top = stack[Len(stack)]
         /\ Top.node \in Nodes /\ Top.blk \in 0 .. Len(node)
         /\ Len(stack) > 1 => FrameOK(Top) /\ Len(stack) \in 2 .. Len(stack)
         /\ Len(stack) = 1 => Top = Template
         /\ Top.kind = "template" <=> Len(stack) = 1
         /\ \A k \in 1 .. Len(stack) - 1 : stack[k].node < Top.blk
<1>1. Len(stack) \in Nat /\ Len(stack) \in DOMAIN stack /\ Len(stack) > 0
  BY DEF Frames
<1>2. Top = stack[Len(stack)]
  BY DEF Top
<1>3. /\ stack[Len(stack)].kind = "template" <=> Len(stack) = 1
      /\ stack[Len(stack)].blk \in 0 .. Len(node) /\ stack[Len(stack)].node \in Nodes
      /\ Len(stack) # 1 => FrameOK(stack[Len(stack)]) /\ Len(stack) \in 2 .. Len(stack)
  BY <1>1, FrameTyped
<1>4. Len(stack) = 1 => Top = Template
  BY <1>2 DEF Frames
<1>5. \A k \in 1 .. Len(stack) - 1 : stack[k].node < Top.blk
  <2> TAKE k \in 1 .. Len(stack) - 1
  <2>1. Len(stack) \in 2 .. Len(stack)
    BY <1>1
  <2> QED
    BY <1>2, <2>1 DEF Frames
<1> QED
  BY <1>1, <1>2, <1>3, <1>4, <1>5

(* A block without a body is returned;                                     *)
LEMMA MakingStep ==
  ASSUME IInv, pc = "body", Making
  PROVE  IInv'
<1> USE DEF IInv
<1>1. PICK b \in NodeSet, i \in 1 .. Len(toks) + 1, n \in Nat :
        /\ b.subs = << >> /\ b.next = 0
        /\ b.type = "CLOSE" => Len(stack) > 1
        /\ errors + n <= i - 1
        /\ node' = Append(node, b)
        /\ Done(i, n)
  BY DEF Making
<1> DEFINE made == <<b>>
<1>2. /\ toks' = toks /\ stack' = stack /\ freed' = freed /\ tblocks' = tblocks
      /\ cur' = i /\ errors' = errors + n /\ pc' = "return" /\ val' = Len(node')
  BY <1>1 DEF Done
<1>3. node \in Seq(NodeSet) /\ Len(node) \in Nat /\ node' = node \o made
  <2>1. node \in Seq(NodeSet) /\ Len(node) \in Nat
    BY DEF Typed
  <2> QED
    BY <1>1, <2>1, AppendIsConcat
<1>4. Fresh(made) /\ Len(made) = 1 /\ made[1] = b
  BY <1>1 DEF Fresh
<1> HIDE DEF made
<1>5. /\ node' \in Seq(NodeSet') /\ Len(node') \in Nat /\ Len(node') = Len(node) + 1
      /\ \A p \in Nodes : node'[p] = node[p]
      /\ node'[Len(node) + 1] = b
      /\ NoTwice'
      /\ Grown(Len(node), Kids, Len(node'), Kids')
  <2>1. /\ node' \in Seq(NodeSet') /\ Len(node') \in Nat
        /\ Len(node') = Len(node) + Len(made)
        /\ \A p \in Nodes : node'[p] = node[p]
        /\ \A j \in DOMAIN made : node'[Len(node) + j] = made[j]
        /\ NoTwice'
        /\ Grown(Len(node), Kids, Len(node'), Kids')
    BY <1>2, <1>3, <1>4, Growth
  <2>2. 1 \in DOMAIN made
    BY <1>4 DEF Fresh
  <2> QED
    BY <2>1, <2>2, <1>4
<1>6. Typed'
  <2>1. freed \subseteq Nodes'
    BY <1>3, <1>5 DEF Typed, Nodes
  <2>2. tblocks \in [Names -> 0 .. Len(node')]
    BY <1>3, <1>5 DEF Typed
  <2>3. errors + n \in Nat /\ "return" \in Modes
    BY DEF Typed, Modes
  <2>4. Len(node') > 0 /\ Len(node') \in 0 .. Len(node')
    BY <1>3, <1>5
  <2> QED
    BY <1>2, <1>5, <2>1, <2>2, <2>3, <2>4 DEF Typed
<1>7. FewErrors'
  BY <1>1, <1>2 DEF FewErrors
<1>8. Frames'
  <2>1. Len(node) <= Len(node') /\ Len(stack') > 0 /\ stack' \in {stack, Pop}
    BY <1>2, <1>3, <1>5 DEF Frames
  <2>2. \A k \in 2 .. Len(stack') : node'[stack[k].blk] = node[stack[k].blk]
    BY <1>2, <1>5 DEF Frames, FrameOK
  <2> QED
    BY <1>5, <2>1, <2>2, FramesKept
<1>9. Value'
  <2>1. Top' = Top /\ Top.node \in Nodes
    BY <1>2, TopTyped DEF Top
  <2>2. val' \in Nodes' /\ Top.node < val'
    BY <1>2, <1>3, <1>5, <2>1 DEF Nodes
  <2>3. node'[val'] = b
    BY <1>2, <1>5
  <2> QED
    BY <1>1, <1>2, <2>1, <2>2, <2>3 DEF Value
<1>10. Owned(Len(node'), Kids', freed', Roots')
  <2>1. Roots' = Roots \cup {Len(node) + 1}
    BY <1>2, <1>5 DEF Roots
  <2>2. Owned(Len(node), Kids, freed, Roots)
    BY DEF Keeps
  <2>3. Roots \subseteq 1 .. Len(node')
    BY <1>3, <1>5, <2>2 DEF Owned
  <2>4. Len(node) + 1 \in 1 .. Len(node')
    BY <1>3, <1>5
  <2>5. freed \subseteq 1 .. Len(node)
    BY DEF Typed, Nodes
  <2>6. PICK M, L, S : M \in Nat /\ M = Len(node') /\ L = Kids' /\ S = Roots'
    BY <1>5
  <2>7. /\ Grown(Len(node), Kids, M, L) /\ {} \subseteq {Len(node) + 1}
        /\ S \subseteq Roots \cup ({Len(node) + 1} \ {}) /\ S \subseteq 1 .. M
    BY <1>5, <2>1, <2>3, <2>4, <2>6
  <2>8. Owned(M, L, freed \cup {}, S)
    BY <1>3, <2>2, <2>5, <2>6, <2>7, GrowOwned
  <2> QED
    BY <1>2, <2>6, <2>8
<1>11. Keeps' /\ Upward(Len(node'), Kids')
  BY <1>10 DEF Keeps, Owned
<1> QED
  BY <1>5, <1>6, <1>7, <1>8, <1>9, <1>11

(* what failed was freed before it returns NULL;                           *)
LEMMA FailingStep ==
  ASSUME IInv, pc = "body", Failing
  PROVE  IInv'
<1> USE DEF IInv
<1>1. PICK made : \E i \in 1 .. Len(toks) + 1, n \in Nat : \E gone \in SUBSET {New} :
        /\ Fresh(made)
        /\ gone # {} => Len(made) > 0
        /\ errors + n <= i
        /\ Fail(i, n, made, gone)
  BY DEF Failing
<1>2. PICK i \in 1 .. Len(toks) + 1, n \in Nat : \E gone \in SUBSET {New} :
        /\ Fresh(made)
        /\ gone # {} => Len(made) > 0
        /\ errors + n <= i
        /\ Fail(i, n, made, gone)
  BY <1>1
<1>3. PICK gone :
        /\ gone \subseteq {New} /\ Fresh(made)
        /\ gone # {} => Len(made) > 0
        /\ errors + n <= i
        /\ Fail(i, n, made, gone)
  BY <1>2
<1>4. /\ toks' = toks /\ stack' = stack /\ freed' = freed \cup gone /\ tblocks' = tblocks
      /\ cur' = i /\ errors' = errors + n /\ pc' = "fail" /\ val' = val
      /\ node' = node \o made
  BY <1>3 DEF Fail
<1>5. /\ node' \in Seq(NodeSet') /\ Len(node') \in Nat
      /\ Len(made) \in Nat /\ Len(node') = Len(node) + Len(made)
      /\ \A p \in Nodes : node'[p] = node[p]
      /\ NoTwice'
      /\ Grown(Len(node), Kids, Len(node'), Kids')
  BY <1>3, <1>4, Growth
<1>6. Len(node) \in Nat /\ Len(node) > 0 /\ gone \subseteq 1 .. Len(node')
  <2>1. Len(node) \in Nat /\ Len(node) > 0
    BY DEF Typed
  <2>2. gone # {} => Len(node) + 1 \in 1 .. Len(node')
    BY <1>3, <1>5, <2>1
  <2> QED
    BY <1>3, <2>1, <2>2 DEF New
<1>7. Typed'
  <2>1. freed' \subseteq Nodes'
    BY <1>4, <1>5, <1>6 DEF Typed, Nodes
  <2>2. tblocks \in [Names -> 0 .. Len(node')] /\ val \in 0 .. Len(node')
    BY <1>6, <1>5 DEF Typed
  <2>3. errors + n \in Nat /\ "fail" \in Modes
    BY DEF Typed, Modes
  <2>4. Len(node') > 0
    BY <1>5, <1>6
  <2> QED
    BY <1>4, <1>5, <2>1, <2>2, <2>3, <2>4 DEF Typed
<1>8. FewErrors'
  BY <1>3, <1>4 DEF FewErrors
<1>9. Frames'
  <2>1. Len(node) <= Len(node') /\ Len(stack') > 0 /\ stack' \in {stack, Pop}
    BY <1>4, <1>5, <1>6 DEF Frames
  <2>2. \A k \in 2 .. Len(stack') : node'[stack[k].blk] = node[stack[k].blk]
    BY <1>4, <1>5 DEF Frames, FrameOK
  <2> QED
    BY <1>5, <2>1, <2>2, FramesKept
<1>10. Value'
  BY <1>4 DEF Value
<1>11. Owned(Len(node'), Kids', freed', Roots')
  <2>1. Roots' = Roots
    BY <1>4 DEF Roots
  <2>2. Owned(Len(node), Kids, freed, Roots)
    BY DEF Keeps
  <2>3. Roots \subseteq 1 .. Len(node')
    BY <1>5, <1>6, <2>2 DEF Owned
  <2>4. freed \subseteq 1 .. Len(node)
    BY DEF Typed, Nodes
  <2>5. PICK M, L, S : M \in Nat /\ M = Len(node') /\ L = Kids' /\ S = Roots'
    BY <1>5
  <2>6. /\ Grown(Len(node), Kids, M, L) /\ gone \subseteq {Len(node) + 1}
        /\ S \subseteq Roots \cup ({Len(node) + 1} \ gone) /\ S \subseteq 1 .. M
    BY <1>3, <1>5, <2>1, <2>3, <2>5 DEF New
  <2>7. Owned(M, L, freed \cup gone, S)
    BY <1>6, <2>2, <2>4, <2>5, <2>6, GrowOwned
  <2> QED
    BY <1>4, <2>5, <2>7
<1>12. Keeps' /\ Upward(Len(node'), Kids')
  BY <1>11 DEF Keeps, Owned
<1> QED
  BY <1>5, <1>7, <1>8, <1>9, <1>10, <1>12

(* a block with a body has a frame of its own;                             *)
LEMMA CallingStep ==
  ASSUME IInv, pc = "body", Calling
  PROVE  IInv'
<1> USE DEF IInv
<1>1. PICK made, f : \E i \in 1 .. Len(toks), n \in Nat :
        /\ Fresh(made) /\ FrameFor(f, made)
        /\ errors + n <= i
        /\ Call(f, i, n, made)
  BY DEF Calling
<1>2. PICK i \in 1 .. Len(toks), n \in Nat :
        /\ Fresh(made) /\ FrameFor(f, made)
        /\ errors + n <= i
        /\ Call(f, i, n, made)
  BY <1>1
<1>3. /\ toks' = toks /\ stack' = Append(stack, f) /\ freed' = freed /\ tblocks' = tblocks
      /\ cur' = i + 1 /\ errors' = errors + n /\ pc' = "body" /\ val' = val
      /\ node' = node \o made
  BY <1>2 DEF Call
<1>4. /\ node' \in Seq(NodeSet') /\ Len(node') \in Nat
      /\ Len(made) \in Nat /\ Len(node') = Len(node) + Len(made)
      /\ \A p \in Nodes : node'[p] = node[p]
      /\ \A j \in DOMAIN made : node'[Len(node) + j] = made[j]
      /\ NoTwice'
      /\ Grown(Len(node), Kids, Len(node'), Kids')
  BY <1>2, <1>3, Growth
<1>5. Len(node) \in Nat /\ Len(node) > 0 /\ Len(made) > 0 /\ Len(toks) \in Nat
  BY <1>2, SourceAssumption DEF Typed, FrameFor
<1>6. Typed'
  <2>1. freed' \subseteq Nodes'
    BY <1>3, <1>4, <1>5 DEF Typed, Nodes
  <2>2. tblocks \in [Names -> 0 .. Len(node')] /\ val \in 0 .. Len(node')
    BY <1>4, <1>5 DEF Typed
  <2>3. errors + n \in Nat /\ "body" \in Modes /\ i + 1 \in 1 .. Len(toks) + 1
    BY <1>5 DEF Typed, Modes
  <2>4. Len(node') > 0
    BY <1>4, <1>5
  <2> QED
    BY <1>3, <1>4, <2>1, <2>2, <2>3, <2>4 DEF Typed
<1>7. FewErrors'
  BY <1>2, <1>3 DEF FewErrors
<1>8. stack \in Seq(FrameSet) /\ f \in FrameSet /\ Len(stack) \in Nat /\ Len(stack) > 0
  BY <1>2 DEF FrameFor, Frames
<1>9. /\ stack' \in Seq(FrameSet) /\ Len(stack') = Len(stack) + 1
      /\ \A k \in 1 .. Len(stack) : stack'[k] = stack[k]
      /\ stack'[Len(stack) + 1] = f
  BY <1>3, <1>8
<1>10. FrameOK(f)'
  <2>1. made[1] = node'[New]
    BY <1>2, <1>4, <1>5 DEF New, Fresh
  <2>2. New \in Nodes' /\ New \in New .. Len(node')
    BY <1>4, <1>5 DEF New, Nodes
  <2>3. f.kind = "IF" => New + 1 \in New .. Len(node')
    <3>1. f.kind = "IF" => Len(made) = 2
      BY <1>2 DEF FrameFor
    <3>2. Len(made) = 2 => Len(node) + 1 + 1 \in Len(node) + 1 .. Len(node')
      BY <1>4, <1>5
    <3> QED
      BY <3>1, <3>2 DEF New
  <2>4. f.node \in f.blk .. Len(node')
    BY <1>2, <2>2, <2>3 DEF FrameFor
  <2> QED
    BY <1>2, <2>1, <2>2, <2>4 DEF FrameFor, FrameOK
<1>11. Frames'
  <2>1. ASSUME NEW k \in 2 .. Len(stack') PROVE FrameOK(stack[k])'
    <3>1. CASE k = Len(stack) + 1
      BY <3>1, <1>9, <1>10
    <3>2. CASE k # Len(stack) + 1
      <4>1. k \in 2 .. Len(stack)
        BY <1>8, <1>9, <3>2
      <4>2. PICK g \in FrameSet : g = stack[k] /\ g = stack'[k]
        BY <1>8, <1>9, <4>1
      <4>3. FrameOK(g)
        BY <4>1, <4>2 DEF Frames
      <4>4. Nodes \subseteq Nodes' /\ g.node \in g.blk .. Len(node')
        BY <1>4, <1>5, <4>3 DEF FrameOK, Nodes, FrameSet
      <4>5. FrameOK(g)'
        BY <1>4, <4>3, <4>4 DEF FrameOK
      <4> QED
        BY <4>2, <4>5
    <3> QED
      BY <3>1, <3>2
  <2>2. ASSUME NEW k \in 2 .. Len(stack'), NEW j \in 1 .. k - 1
        PROVE  stack'[j].node < stack'[k].blk
    <3>1. j \in DOMAIN stack /\ stack'[j] = stack[j]
      BY <1>8, <1>9
    <3>2. CASE k = Len(stack) + 1
      <4>1. stack[j].node \in Nodes
        BY <3>1, FrameTyped
      <4>2. stack'[k].blk = Len(node) + 1
        BY <1>2, <1>9, <3>2 DEF FrameFor, New
      <4> QED
        BY <1>5, <3>1, <4>1, <4>2 DEF Nodes
    <3>3. CASE k # Len(stack) + 1
      <4>1. k \in 2 .. Len(stack) /\ stack'[k] = stack[k]
        BY <1>8, <1>9, <3>3
      <4> QED
        BY <3>1, <4>1 DEF Frames
    <3> QED
      BY <3>2, <3>3
  <2>3. stack'[1] = Template'
    BY <1>8, <1>9 DEF Frames, Template
  <2> QED
    <3>1. stack' \in Seq(FrameSet) /\ Len(stack') > 0
      BY <1>8, <1>9
    <3> QED
      BY <2>1, <2>2, <2>3, <3>1 DEF Frames
<1>12. Value'
  BY <1>3 DEF Value
<1>13. Owned(Len(node'), Kids', freed', Roots')
  <2>1. Roots' = Roots \cup {Len(node) + 1}
    <3>1. Roots = {1} \cup {stack[k].blk : k \in 2 .. Len(stack)}
      BY DEF Roots
    <3>2. Roots' = {1} \cup {stack'[k].blk : k \in 2 .. Len(stack) + 1}
      BY <1>3, <1>9 DEF Roots
    <3>3. \A k : k \in 2 .. Len(stack) + 1 <=> k \in 2 .. Len(stack) \/ k = Len(stack) + 1
      BY <1>8
    <3>4. /\ \A k \in 2 .. Len(stack) : stack'[k].blk = stack[k].blk
          /\ stack'[Len(stack) + 1].blk = Len(node) + 1
      BY <1>2, <1>8, <1>9 DEF FrameFor, New
    <3> QED
      BY <3>1, <3>2, <3>3, <3>4
  <2>2. Owned(Len(node), Kids, freed, Roots)
    BY DEF Keeps
  <2>3. Roots \subseteq 1 .. Len(node')
    BY <1>4, <1>5, <2>2 DEF Owned
  <2>4. Len(node) + 1 \in 1 .. Len(node')
    BY <1>4, <1>5
  <2>5. freed \subseteq 1 .. Len(node)
    BY DEF Typed, Nodes
  <2>6. PICK M, L, S : M \in Nat /\ M = Len(node') /\ L = Kids' /\ S = Roots'
    BY <1>4
  <2>7. /\ Grown(Len(node), Kids, M, L) /\ {} \subseteq {Len(node) + 1}
        /\ S \subseteq Roots \cup ({Len(node) + 1} \ {}) /\ S \subseteq 1 .. M
    BY <1>4, <2>1, <2>3, <2>4, <2>6
  <2>8. Owned(M, L, freed \cup {}, S)
    BY <1>5, <2>2, <2>5, <2>6, <2>7, GrowOwned
  <2> QED
    BY <1>3, <2>6, <2>8
<1>14. Keeps' /\ Upward(Len(node'), Kids')
  BY <1>13 DEF Keeps, Owned
<1> QED
  BY <1>4, <1>6, <1>7, <1>11, <1>12, <1>14

(* and after a null pointer was followed nothing happens.                  *)
LEMMA CrashStep ==
  ASSUME IInv, pc = "body" \/ pc = "fail" \/ pc = "parsed", Crash
  PROVE  IInv'
<1> USE DEF IInv, Crash
<1>1. Typed' /\ Frames' /\ NoTwice'
  BY DEF Typed, Modes, Nodes, NodeSet, Words, TokenAt, Frames, FrameOK, Template, NoTwice
<1>2. FewErrors'
  BY DEF FewErrors, Typed
<1>3. Value' /\ Keeps'
  BY DEF Value, Keeps
<1>4. Kids' = Kids
  BY DEF Kids, Children, Nodes
<1>5. Upward(Len(node'), Kids')
  BY <1>4
<1> QED
  BY <1>1, <1>2, <1>3, <1>5

-----------------------------------------------------------------------------
(* A token that is not the end is one of the template's,                   *)
LEMMA Inside ==
  ASSUME Typed, NEW i, Type(i) # "EOF"
  PROVE  i \in 1 .. Len(toks) /\ TokenAt(toks, i) = toks[i]
<1>1. i \in DOMAIN toks
  BY SourceAssumption DEF Type, TypeAt, TokenAt
<1>2. DOMAIN toks = 1 .. Len(toks)
  BY SourceAssumption DEF Typed
<1> QED
  BY <1>1, <1>2 DEF TokenAt

(* and one that is taken for an identifier is a name.                      *)
LEMMA Identifier ==
  ASSUME Typed, NEW i, Type(i) = "IDENT"
  PROVE  TokenAt(toks, i) \in Names
<1>1. i \in 1 .. Len(toks) /\ TokenAt(toks, i) = toks[i]
  BY Inside
<1>2. toks[i] # "IDENT"
  <2>1. toks \in Seq({toks[j] : j \in DOMAIN toks} \ {"IDENT", "EOF"})
    BY SourceAssumption DEF Typed
  <2> QED
    BY <1>1, <2>1
<1> QED
  BY <1>1, <1>2 DEF Type, TypeAt

(* Matched is how many tokens match.                                       *)
LEMMA MatchedIs ==
  ASSUME NEW i \in Nat, NEW A, NEW ts \in Seq(A)
  PROVE  /\ Matched(i, ts) \in 0 .. Len(ts)
         /\ \A m \in 1 .. Matched(i, ts) : Type(i + m) = ts[m]
         /\ Matched(i, ts) < Len(ts) => Type(i + Matched(i, ts) + 1) # ts[Matched(i, ts) + 1]
<1> DEFINE P(n) == \A m \in 1 .. n : Type(i + m) = ts[m]
           S    == {n \in 0 .. Len(ts) : P(n)}
<1>1. Len(ts) \in Nat /\ 0 \in S
  OBVIOUS
<1>2. PICK n \in S : \A k \in S : k <= n
  <2>1. S \subseteq 0 .. Len(ts) /\ S # {}
    BY <1>1
  <2> HIDE DEF S
  <2> QED
    BY <1>1, <2>1, Greatest
<1>3. ASSUME n < Len(ts) PROVE Type(i + n + 1) # ts[n + 1]
  <2> SUFFICES ASSUME Type(i + n + 1) = ts[n + 1] PROVE FALSE
    OBVIOUS
  <2>1. n + 1 \in 0 .. Len(ts) /\ n \in Nat /\ P(n)
    BY <1>1, <1>3
  <2>2. ASSUME NEW m \in 1 .. n + 1 PROVE Type(i + m) = ts[m]
    <3>1. CASE m = n + 1
      <4>1. i + m = i + n + 1
        BY <2>1, <3>1
      <4> QED
        BY <3>1, <4>1
    <3>2. CASE m # n + 1
      <4>1. m \in 1 .. n
        BY <2>1, <3>2
      <4> QED
        BY <2>1, <4>1
    <3> QED
      BY <3>1, <3>2
  <2>3. n + 1 \in S
    BY <2>1, <2>2
  <2>4. ~(n + 1 <= n)
    BY <2>1
  <2> QED
    BY <1>2, <2>3, <2>4
<1> DEFINE Q(k) == /\ P(k)
                   /\ k < Len(ts) => Type(i + k + 1) # ts[k + 1]
<1>4. n \in 0 .. Len(ts) /\ Q(n)
  BY <1>2, <1>3
<1>5. Matched(i, ts) = CHOOSE k \in 0 .. Len(ts) : Q(k)
  BY DEF Matched
<1> HIDE DEF Q
<1>6. Matched(i, ts) \in 0 .. Len(ts) /\ Q(Matched(i, ts))
  BY <1>4, <1>5
<1> QED
  BY <1>6 DEF Q

(* Tokens that match are in front of the end.                              *)
LEMMA MatchedEnd ==
  ASSUME Typed, NEW i \in Nat, NEW A, NEW ts \in Seq(A), \A m \in DOMAIN ts : ts[m] # "EOF"
  PROVE  /\ Matched(i, ts) \in 0 .. Len(ts)
         /\ Matched(i, ts) # 0 => i + Matched(i, ts) \in 1 .. Len(toks)
         /\ \A m \in 1 .. Matched(i, ts) : Type(i + m) = ts[m]
<1>1. /\ Matched(i, ts) \in 0 .. Len(ts) /\ Len(ts) \in Nat /\ DOMAIN ts = 1 .. Len(ts)
      /\ \A m \in 1 .. Matched(i, ts) : Type(i + m) = ts[m]
  BY MatchedIs
<1>2. ASSUME Matched(i, ts) # 0 PROVE i + Matched(i, ts) \in 1 .. Len(toks)
  <2>1. Matched(i, ts) \in 1 .. Matched(i, ts) /\ Matched(i, ts) \in DOMAIN ts
    BY <1>1, <1>2
  <2>2. Type(i + Matched(i, ts)) # "EOF"
    BY <1>1, <2>1
  <2> QED
    BY <2>2, Inside
<1> QED
  BY <1>1, <1>2

-----------------------------------------------------------------------------
(* Each case of parser_parse_block ends in one of four ways.               *)
Ended == Making \/ Failing \/ Calling \/ Crash

(* New nodes have the types of nodes.                                      *)
LEMMA NodeTyped ==
  ASSUME NEW type \in Types, NEW from \in Nat, NEW to \in Nat,
         NEW name \in Words, NEW expr \in {"whole", "none", "hole"}
  PROVE  /\ Node(type, from, to, name, expr) \in NodeSet
         /\ Node(type, from, to, name, expr).subs = << >>
         /\ Node(type, from, to, name, expr).next = 0
         /\ Node(type, from, to, name, expr).type = type
         /\ Node(type, from, to, name, expr).name = name
         /\ Node(type, from, to, name, expr).from = from
         /\ Node(type, from, to, name, expr).to = to
BY DEF Node, NodeSet

(* So has a leaf.                                                          *)
LEMMA LeafTyped ==
  ASSUME NEW type \in Types, NEW from \in Nat, NEW to \in Nat
  PROVE  /\ Leaf(type, from, to) \in NodeSet
         /\ Leaf(type, from, to).subs = << >>
         /\ Leaf(type, from, to).next = 0
         /\ Leaf(type, from, to).type = type
         /\ Leaf(type, from, to).from = from /\ Leaf(type, from, to).to = to
<1>1. NoName \in Words /\ "whole" \in {"whole", "none", "hole"}
  BY DEF Words
<1> QED
  BY <1>1, NodeTyped DEF Leaf

(* One new node without a branch, or none.                                 *)
LEMMA FreshOne ==
  ASSUME NEW b \in NodeSet, b.subs = << >>, b.next = 0
  PROVE  Fresh(<<b>>) /\ Len(<<b>>) = 1 /\ <<b>>[1] = b /\ Fresh(<< >>)
BY DEF Fresh

(* Where the parser is when it begins a block.                             *)
LEMMA AtBlock ==
  ASSUME Typed, FewErrors, Block
  PROVE  /\ pc = "body" /\ Len(toks) \in Nat /\ cur \in 1 .. Len(toks)
         /\ errors \in Nat /\ errors <= cur - 1 /\ toks \in Sources
         /\ Tag => cur + 1 \in 1 .. Len(toks)
         /\ Tag /\ Keyword # "EOF" => cur + 2 \in 1 .. Len(toks)
<1>1. Len(toks) \in Nat /\ toks \in Sources /\ errors \in Nat
  BY SourceAssumption DEF Typed
<1>2. cur \in 1 .. Len(toks) /\ pc = "body"
  BY Inside DEF Block
<1>3. Tag => cur + 1 \in 1 .. Len(toks)
  BY Inside DEF Tag
<1>4. Tag /\ Keyword # "EOF" => cur + 2 \in 1 .. Len(toks)
  BY Inside DEF Keyword
<1> QED
  BY <1>1, <1>2, <1>3, <1>4 DEF FewErrors

(* A block was made:                                                       *)
LEMMA MakingIs ==
  ASSUME NEW b \in NodeSet, b.subs = << >>, b.next = 0, b.type = "CLOSE" => Len(stack) > 1,
         NEW i \in 1 .. Len(toks) + 1, NEW n \in Nat, errors + n <= i - 1,
         MadeAt(b, i),
         node' = Append(node, b), Done(i, n)
  PROVE  Ended
BY DEF Ended, Making

(* or the case failed,                                                     *)
LEMMA FailingIs ==
  ASSUME NEW made, Fresh(made), NEW i \in 1 .. Len(toks) + 1, NEW n \in Nat, errors + n <= i,
         StopsAt(i, n),
         NEW gone \in SUBSET {New}, gone # {} => Len(made) > 0, Fail(i, n, made, gone)
  PROVE  Ended
BY DEF Ended, Failing

(* or calls for a body.                                                    *)
LEMMA CallingIs ==
  ASSUME NEW made, Fresh(made), NEW f, FrameFor(f, made),
         NEW i \in 1 .. Len(toks), HeaderOf(f, made, i),
         NEW n \in Nat, errors + n <= i, Call(f, i, n, made)
  PROVE  Ended
BY DEF Ended, Calling

(* Content is a block.                                                     *)
LEMMA ContentEnds == ASSUME Typed, FewErrors, Content PROVE Ended
<1>1. pc = "body" /\ Len(toks) \in Nat /\ cur \in 1 .. Len(toks) + 1 /\ errors + 0 <= cur - 1
  BY AtBlock DEF Content
<1>2. "content" \in Types /\ cur \in Nat /\ "content" # "CLOSE"
  BY <1>1 DEF Types
<1>3. node' = Append(node, Leaf("content", cur, cur)) /\ Done(cur, 0)
  BY DEF Content
<1>4. /\ Leaf("content", cur, cur) \in NodeSet
      /\ Leaf("content", cur, cur).subs = << >>
      /\ Leaf("content", cur, cur).next = 0
      /\ Leaf("content", cur, cur).type = "content"
      /\ Leaf("content", cur, cur).from = cur /\ Leaf("content", cur, cur).to = cur
  BY <1>2, LeafTyped
<1>5. MadeAt(Leaf("content", cur, cur), cur)
  BY <1>1, <1>2, <1>4, AtBlock DEF MadeAt, Content
<1> QED
  BY <1>1, <1>2, <1>3, <1>4, <1>5, MakingIs

(* A brace that begins nothing is an error.                                *)
LEMMA StrayBraceEnds == ASSUME Typed, FewErrors, StrayBrace PROVE Ended
<1>1. Len(toks) \in Nat /\ cur \in 1 .. Len(toks) + 1 /\ errors + 1 <= cur
  BY AtBlock DEF StrayBrace
<1>2. Fail(cur, 1, << >>, {}) /\ Fresh(<< >>) /\ StopsAt(cur, 1)
  BY DEF StrayBrace, Fresh, StopsAt
<1> QED
  BY <1>1, <1>2, FailingIs

(* ParseExpr goes on from the token it is given.                           *)
LEMMA ExprTyped ==
  ASSUME toks \in Sources, NEW i \in 1 .. Len(toks) + 1, Len(toks) \in Nat
  PROVE  /\ ParseExpr(toks, i).expr \in {"whole", "none", "hole"}
         /\ ParseExpr(toks, i).cur \in i .. Len(toks) + 1
         /\ ParseExpr(toks, i).cur \in 1 .. Len(toks) + 1
         /\ ParseExpr(toks, i).errors \in Nat
         /\ ParseExpr(toks, i).errors <= ParseExpr(toks, i).cur - i + 1
         /\ ParseExpr(toks, i).crash \in BOOLEAN
<1>1. PICK e : e = ParseExpr(toks, i)
  OBVIOUS
<1>2. /\ e \in [expr : {"whole", "none", "hole"}, cur : Nat, errors : Nat, crash : BOOLEAN]
      /\ i <= e.cur /\ e.cur <= Len(toks) + 1 /\ e.errors <= e.cur - i + 1
  BY <1>1, ParseExprAssumption
<1>3. /\ e.expr \in {"whole", "none", "hole"} /\ e.cur \in Nat
      /\ e.errors \in Nat /\ e.crash \in BOOLEAN
  BY <1>2
<1>4. e.cur \in i .. Len(toks) + 1 /\ e.cur \in 1 .. Len(toks) + 1
  BY <1>2, <1>3
<1> QED
  BY <1>1, <1>2, <1>3, <1>4

(* The sequences of tokens that tags need.                                 *)
LEMMA Headers3 ==
  /\ <<"RBRACE", "RBRACE">> \in Seq({"RBRACE"}) /\ Len(<<"RBRACE", "RBRACE">>) = 2
  /\ \A m \in DOMAIN <<"RBRACE", "RBRACE">> : <<"RBRACE", "RBRACE">>[m] # "EOF"
  /\ Ending \in Seq({"PERCENT", "RBRACE"}) /\ Len(Ending) = 2
  /\ \A m \in DOMAIN Ending : Ending[m] # "EOF"
BY DEF Ending

(* {{ expr }} is a block, or an error, or crashes where expr is freed.     *)
LEMMA VariableEnds == ASSUME Typed, FewErrors, Variable PROVE Ended
<1>1. /\ Len(toks) \in Nat /\ cur \in 1 .. Len(toks) /\ toks \in Sources
      /\ errors \in Nat /\ errors <= cur - 1
  BY AtBlock DEF Variable
<1>2. cur + 1 \in 1 .. Len(toks)
  BY Inside DEF Variable
<1> DEFINE e     == ParseExpr(toks, cur + 2)
           n     == Matched(e.cur, <<"RBRACE", "RBRACE">>)
           blk   == Node("variable", cur, e.cur + 2, NoName, e.expr)
           ended == e.expr # "none" /\ n = 2
<1>3. cur + 2 \in 1 .. Len(toks) + 1
  BY <1>1, <1>2
<1>4. /\ e.expr \in {"whole", "none", "hole"}
      /\ e.cur \in cur + 2 .. Len(toks) + 1 /\ e.cur \in 1 .. Len(toks) + 1
      /\ e.errors \in Nat /\ e.errors <= e.cur - (cur + 2) + 1
  <2> HIDE DEF e
  <2>1. \A i \in 1 .. Len(toks) + 1 : i = cur + 2 =>
          /\ ParseExpr(toks, i).expr \in {"whole", "none", "hole"}
          /\ ParseExpr(toks, i).cur \in i .. Len(toks) + 1
          /\ ParseExpr(toks, i).cur \in 1 .. Len(toks) + 1
          /\ ParseExpr(toks, i).errors \in Nat
          /\ ParseExpr(toks, i).errors <= ParseExpr(toks, i).cur - i + 1
    BY <1>1, ExprTyped
  <2> QED
    BY <1>3, <2>1 DEF e
<1>5. \/ Crash
      \/ ended /\ node' = Append(node, blk) /\ Done(e.cur + 2, e.errors)
      \/ Fail(e.cur + n, e.errors + 1, <<blk>>, {New})
  BY Zenon DEF Variable
<1>6. n \in 0 .. 2 /\ (n # 0 => e.cur + n \in 1 .. Len(toks))
  <2>1. PICK i \in Nat : i = e.cur
    BY <1>4
  <2>2. /\ Matched(i, <<"RBRACE", "RBRACE">>) \in 0 .. Len(<<"RBRACE", "RBRACE">>)
        /\ Matched(i, <<"RBRACE", "RBRACE">>) # 0 =>
             i + Matched(i, <<"RBRACE", "RBRACE">>) \in 1 .. Len(toks)
    BY Headers3, MatchedEnd
  <2> QED
    BY <2>1, <2>2
<1>7. /\ blk \in NodeSet /\ blk.subs = << >> /\ blk.next = 0 /\ blk.type = "variable"
      /\ blk.from = cur /\ blk.to = e.cur + 2
  <2>1. "variable" \in Types /\ NoName \in Words /\ cur \in Nat /\ e.cur + 2 \in Nat
    BY <1>1, <1>4 DEF Types, Words
  <2>2. PICK t \in Types, x \in {"whole", "none", "hole"}, k \in Nat, name \in Words :
          t = "variable" /\ x = e.expr /\ k = e.cur + 2 /\ name = NoName
    BY <1>4, <2>1
  <2>3. cur \in Nat /\ blk = Node(t, cur, k, name, x)
    BY <2>1, <2>2
  <2> HIDE DEF e, blk
  <2> QED
    <3>1. /\ Node(t, cur, k, name, x) \in NodeSet
          /\ Node(t, cur, k, name, x).subs = << >> /\ Node(t, cur, k, name, x).next = 0
          /\ Node(t, cur, k, name, x).type = t
          /\ Node(t, cur, k, name, x).from = cur /\ Node(t, cur, k, name, x).to = k
      BY <2>2, <2>3, NodeTyped
    <3> QED
      BY <2>2, <2>3, <3>1
<1> HIDE DEF e, n, blk
<1>8. CASE Crash
  BY <1>8 DEF Ended
<1>9. CASE ended /\ node' = Append(node, blk) /\ Done(e.cur + 2, e.errors)
  <2>1. e.cur + 2 \in 1 .. Len(toks) + 1 /\ errors + e.errors <= e.cur + 2 - 1
    <3>1. n = 2
      BY <1>9
    <3>2. PICK x \in Nat, c \in 1 .. Len(toks) + 1 : x = e.errors /\ c = e.cur
      BY <1>4
    <3>3. x <= c - (cur + 2) + 1 /\ c + 2 \in 1 .. Len(toks)
      BY <1>4, <1>6, <3>1, <3>2
    <3>4. c + 2 \in 1 .. Len(toks) + 1 /\ errors + x <= c + 2 - 1
      <4>1. PICK u \in Nat, r \in Nat : u = cur /\ r = errors
        BY <1>1
      <4>2. r <= u - 1 /\ x <= c - (u + 2) + 1 /\ c + 2 \in 1 .. Len(toks)
        BY <1>1, <3>3, <4>1
      <4>3. r + x <= c + 2 - 1 /\ c + 2 \in 1 .. Len(toks) + 1
        BY <1>1, <4>2
      <4> QED
        BY <4>1, <4>3
    <3> QED
      BY <3>2, <3>4
  <2>2. blk.type = "CLOSE" => Len(stack) > 1
    BY <1>7
  <2>3. MadeAt(blk, e.cur + 2)
    <3>1. e.cur + 2 \in 1 .. Len(toks) /\ cur <= e.cur + 2
      BY <1>1, <1>4, <1>6, <1>9
    <3> QED
      BY <1>7, <3>1 DEF MadeAt
  <2> QED
    BY <1>4, <1>7, <1>9, <2>1, <2>2, <2>3, MakingIs
<1>10. CASE Fail(e.cur + n, e.errors + 1, <<blk>>, {New})
  <2>1. e.cur + n \in 1 .. Len(toks) + 1 /\ errors + (e.errors + 1) <= e.cur + n
    <3>1. PICK x \in Nat, c \in 1 .. Len(toks) + 1, a \in 0 .. 2 :
            x = e.errors /\ c = e.cur /\ a = n
      BY <1>4, <1>6
    <3>2. x <= c - (cur + 2) + 1 /\ (a # 0 => c + a \in 1 .. Len(toks))
      BY <1>4, <1>6, <3>1
    <3>3. c + a \in 1 .. Len(toks) + 1 /\ errors + (x + 1) <= c + a
      <4>1. errors + (x + 1) <= c
        BY <1>1, <3>1, <3>2
      <4>2. c + a \in 1 .. Len(toks) + 1
        BY <1>1, <3>1, <3>2
      <4>3. errors + (x + 1) \in Nat /\ c <= c + a
        BY <1>1, <3>1
      <4> QED
        BY <4>1, <4>2, <4>3
    <3> QED
      BY <3>1, <3>3
  <2>2. Fresh(<<blk>>) /\ Len(<<blk>>) > 0 /\ e.errors + 1 \in Nat /\ {New} \in SUBSET {New}
    BY <1>4, <1>7, FreshOne
  <2>3. StopsAt(e.cur + n, e.errors + 1)
    BY <1>4 DEF StopsAt
  <2> QED
    BY <1>10, <2>1, <2>2, <2>3, FailingIs
<1> QED
  BY <1>5, <1>8, <1>9, <1>10

(* A tag with a word before its end.                                       *)
LEMMA Header1 ==
  ASSUME NEW t, t # "EOF"
  PROVE  /\ <<t>> \o Ending \in Seq({t, "PERCENT", "RBRACE"})
         /\ Len(<<t>> \o Ending) = 3 /\ (<<t>> \o Ending)[1] = t
         /\ (<<t>> \o Ending)[2] = "PERCENT" /\ (<<t>> \o Ending)[3] = "RBRACE"
         /\ \A m \in DOMAIN (<<t>> \o Ending) : (<<t>> \o Ending)[m] # "EOF"
<1> DEFINE A == {t, "PERCENT", "RBRACE"}
<1>1. /\ <<t>> \in Seq(A) /\ Ending \in Seq(A) /\ Len(Ending) = 2 /\ Len(<<t>>) = 1
      /\ <<t>>[1] = t /\ Ending[1] = "PERCENT" /\ Ending[2] = "RBRACE"
  BY DEF Ending
<1>2. "EOF" \notin A
  OBVIOUS
<1> HIDE DEF A
<1>3. /\ <<t>> \o Ending \in Seq(A) /\ Len(<<t>> \o Ending) = 3
      /\ (<<t>> \o Ending)[1] = t
      /\ (<<t>> \o Ending)[2] = "PERCENT" /\ (<<t>> \o Ending)[3] = "RBRACE"
  <2>1. PICK w, e : w = <<t>> /\ e = Ending
    OBVIOUS
  <2>2. /\ w \in Seq(A) /\ e \in Seq(A) /\ Len(e) = 2 /\ Len(w) = 1 /\ w[1] = t
        /\ e[1] = "PERCENT" /\ e[2] = "RBRACE"
    BY <1>1, <2>1
  <2>3. /\ w \o e \in Seq(A) /\ Len(w \o e) = Len(w) + Len(e)
        /\ \A i \in 1 .. Len(w) + Len(e) :
             (w \o e)[i] = IF i <= Len(w) THEN w[i] ELSE e[i - Len(w)]
    BY <2>2, ConcatProperties
  <2>4. /\ 1 \in 1 .. Len(w) + Len(e) /\ 1 <= Len(w)
        /\ 2 \in 1 .. Len(w) + Len(e) /\ ~(2 <= Len(w)) /\ 2 - Len(w) = 1
        /\ 3 \in 1 .. Len(w) + Len(e) /\ ~(3 <= Len(w)) /\ 3 - Len(w) = 2
    BY <2>2
  <2> QED
    BY <2>1, <2>2, <2>3, <2>4
<1>4. \A m \in DOMAIN (<<t>> \o Ending) : (<<t>> \o Ending)[m] \in A
  BY <1>3
<1> QED
  BY <1>2, <1>3, <1>4 DEF A

(* The header of a tag ends in the template, however much of it is there.  *)
LEMMA HeaderRead ==
  ASSUME Typed, FewErrors, Tag, Keyword # "EOF",
         NEW A, NEW h \in Seq(A), \A m \in DOMAIN h : h[m] # "EOF"
  PROVE  /\ Matched(cur + 2, h) \in 0 .. Len(h)
         /\ cur + 2 + Matched(cur + 2, h) \in 1 .. Len(toks)
         /\ cur + 2 + Matched(cur + 2, h) >= cur + 2
         /\ \A m \in 1 .. Matched(cur + 2, h) : Type(cur + 2 + m) = h[m]
<1>1. cur + 2 \in 1 .. Len(toks) /\ Len(toks) \in Nat /\ cur \in 1 .. Len(toks)
  BY AtBlock DEF Tag
<1>2. PICK k \in Nat : k = cur + 2
  BY <1>1
<1>3. /\ Matched(k, h) \in 0 .. Len(h) /\ Len(h) \in Nat
      /\ Matched(k, h) # 0 => k + Matched(k, h) \in 1 .. Len(toks)
      /\ \A m \in 1 .. Matched(k, h) : Type(k + m) = h[m]
  BY SMTT(30), MatchedEnd
<1> QED
  BY <1>1, <1>2, <1>3

(* Where the parser is when it begins a tag.                               *)
LEMMA AtTag ==
  ASSUME Typed, FewErrors, Tag, Keyword # "EOF"
  PROVE  /\ pc = "body" /\ Len(toks) \in Nat /\ cur \in 1 .. Len(toks) /\ cur \in Nat
         /\ errors \in Nat /\ errors <= cur - 1 /\ toks \in Sources
         /\ cur + 2 \in 1 .. Len(toks)
<1>1. Block
  BY DEF Tag
<1> QED
  BY <1>1, AtBlock

(* {% break %} is a block or an error.                                     *)
LEMMA BreakEnds == ASSUME Typed, FewErrors, Break PROVE Ended
<1>1. Tag /\ Keyword # "EOF"
  BY DEF Break
<1> DEFINE k == cur + 2 + Matched(cur + 2, Ending)
           b == Leaf("BREAK", cur, cur + 4)
<1>2. \/ Matched(cur + 2, Ending) = Len(Ending) /\ node' = Append(node, b) /\ Done(k, 0)
      \/ Fail(k, 1, <<b>>, {New})
  BY DEF Break, Expected
<1>3. k \in 1 .. Len(toks) /\ k >= cur + 2
  BY <1>1, Headers3, HeaderRead
<1>4. cur \in Nat /\ errors \in Nat /\ errors <= cur - 1 /\ Len(toks) \in Nat
  BY <1>1, AtTag
<1>5. /\ b \in NodeSet /\ b.subs = << >> /\ b.next = 0
      /\ b.type = "BREAK" /\ b.from = cur /\ b.to = cur + 4
  <2>1. "BREAK" \in Types /\ cur + 4 \in Nat /\ "BREAK" # "CLOSE"
    BY <1>4 DEF Types
  <2> QED
    BY <1>4, <2>1, LeafTyped
<1>9. ASSUME Matched(cur + 2, Ending) = Len(Ending) PROVE MadeAt(b, k)
  <2>1. k = cur + 4
    BY <1>4, <1>9, Headers3
  <2> HIDE DEF k, b
  <2> QED
    BY <1>3, <1>4, <1>5, <2>1 DEF MadeAt
<1> HIDE DEF k, b
<1>6. /\ k \in 1 .. Len(toks) + 1 /\ errors + 0 <= k - 1 /\ errors + 1 <= k
      /\ Fresh(<<b>>) /\ Len(<<b>>) > 0 /\ StopsAt(k, 1)
  BY <1>3, <1>4, <1>5, FreshOne DEF StopsAt
<1>7. CASE Matched(cur + 2, Ending) = Len(Ending) /\ node' = Append(node, b) /\ Done(k, 0)
  <2>1. 0 \in Nat /\ (b.type = "CLOSE" => Len(stack) > 1)
    BY <1>5
  <2> QED
    BY <1>5, <1>6, <1>7, <1>9, <2>1, MakingIs
<1>8. CASE Fail(k, 1, <<b>>, {New})
  <2>1. 1 \in Nat /\ {New} \in SUBSET {New}
    OBVIOUS
  <2> QED
    BY <1>6, <1>8, <2>1, FailingIs
<1> QED
  BY <1>2, <1>7, <1>8

(* So is {% extends "name" %}.                                             *)
LEMMA ExtendsEnds == ASSUME Typed, FewErrors, Extends PROVE Ended
<1>1. Tag /\ Keyword # "EOF"
  BY DEF Extends
<1> DEFINE h == <<"STRING">> \o Ending
           k == cur + 2 + Matched(cur + 2, h)
           b == Leaf("EXTENDS", cur, cur + 5)
<1>2. \/ Matched(cur + 2, h) = Len(h) /\ node' = Append(node, b) /\ Done(k, 0)
      \/ Fail(k, 1, <<b>>, {New})
  BY DEF Extends, Expected
<1>3. k \in 1 .. Len(toks) /\ k >= cur + 2
  <2>1. h \in Seq({"STRING", "PERCENT", "RBRACE"}) /\ \A m \in DOMAIN h : h[m] # "EOF"
    BY Header1
  <2> HIDE DEF h
  <2> QED
    BY <1>1, <2>1, HeaderRead
<1>4. cur \in Nat /\ errors \in Nat /\ errors <= cur - 1 /\ Len(toks) \in Nat
  BY <1>1, AtTag
<1>5. /\ b \in NodeSet /\ b.subs = << >> /\ b.next = 0
      /\ b.type = "EXTENDS" /\ b.from = cur /\ b.to = cur + 5
  <2>1. "EXTENDS" \in Types /\ cur + 5 \in Nat /\ "EXTENDS" # "CLOSE"
    BY <1>4 DEF Types
  <2> QED
    BY <1>4, <2>1, LeafTyped
<1>9. ASSUME Matched(cur + 2, h) = Len(h) PROVE MadeAt(b, k)
  <2>1. Len(h) = 3
    BY Header1
  <2>2. k = cur + 5
    <3> HIDE DEF h
    <3> QED
      BY <1>4, <1>9, <2>1
  <2> HIDE DEF k, b
  <2> QED
    BY <1>3, <1>4, <1>5, <2>2 DEF MadeAt
<1> HIDE DEF k, b
<1>6. /\ k \in 1 .. Len(toks) + 1 /\ errors + 0 <= k - 1 /\ errors + 1 <= k
      /\ Fresh(<<b>>) /\ Len(<<b>>) > 0 /\ StopsAt(k, 1)
  BY <1>3, <1>4, <1>5, FreshOne DEF StopsAt
<1>7. CASE Matched(cur + 2, h) = Len(h) /\ node' = Append(node, b) /\ Done(k, 0)
  <2>1. 0 \in Nat /\ (b.type = "CLOSE" => Len(stack) > 1)
    BY <1>5
  <2> QED
    BY <1>5, <1>6, <1>7, <1>9, <2>1, MakingIs
<1>8. CASE Fail(k, 1, <<b>>, {New})
  <2>1. 1 \in Nat /\ {New} \in SUBSET {New}
    OBVIOUS
  <2> QED
    BY <1>6, <1>8, <2>1, FailingIs
<1> QED
  BY <1>2, <1>7, <1>8

(* A closing tag is a block if it closes what is open.                     *)
LEMMA CloseEnds == ASSUME Typed, FewErrors, Frames, Close PROVE Ended
<1>1. Tag /\ Keyword # "EOF"
  BY DEF Close, Closers, Closings
<1> DEFINE k == cur + 2
           c == Leaf("CLOSE", cur, cur + 4)
<1>2. \/ Matches /\ Expected(k, Ending) /\ node' = Append(node, c) /\ Done(k + 1, 0)
      \/ Matched(k, Ending) = 1 /\ Fail(k + 1, 0, <<c>>, {New})
      \/ Fail(k, 1, <<c>>, {New})
  BY DEF Close
<1>3. /\ cur \in Nat /\ errors \in Nat /\ errors <= cur - 1 /\ Len(toks) \in Nat
      /\ cur + 2 \in 1 .. Len(toks)
  BY <1>1, AtTag
<1>4. /\ c \in NodeSet /\ c.subs = << >> /\ c.next = 0
      /\ c.type = "CLOSE" /\ c.from = cur /\ c.to = cur + 4
  <2>1. "CLOSE" \in Types /\ cur + 4 \in Nat
    BY <1>3 DEF Types
  <2> QED
    BY <1>3, <2>1, LeafTyped
<1>5. ASSUME Matches PROVE Len(stack) > 1
  <2>1. Opening # "NULL"
    BY <1>5 DEF Matches, Closings
  <2>2. Top # Template
    BY <2>1 DEF Opening, Template
  <2> QED
    BY <2>2, TopTyped DEF Frames
<1> HIDE DEF c
<1>11. ASSUME Matches, Expected(k, Ending) PROVE MadeAt(c, k + 1)
  <2>1. PICK a \in Nat : a = k
    BY <1>3
  <2>2. Matched(a, Ending) = 2
    BY <1>11, <2>1, Headers3 DEF Expected
  <2>3. a + 2 \in 1 .. Len(toks)
    <3>1. Matched(a, Ending) # 0 => a + Matched(a, Ending) \in 1 .. Len(toks)
      BY Headers3, MatchedEnd
    <3> QED
      BY <2>2, <3>1
  <2>4. TokenAt(toks, k) = toks[k] /\ Keyword \in Closers
    BY <1>3 DEF TokenAt, Close
  <2>5. Keyword = toks[k]
    BY <2>4 DEF Keyword, Type, TypeAt, Closers, Closings
  <2>6. <<Opening, toks[k]>> \in Closings
    BY <1>11, <2>5 DEF Matches
  <2> QED
    BY <1>3, <1>4, <2>1, <2>3, <2>6 DEF MadeAt
<1>12. ASSUME Matched(k, Ending) = 1 PROVE StopsAt(k + 1, 0)
  <2>1. PICK a \in Nat : a = k
    BY <1>3
  <2>2. /\ \A m \in 1 .. Matched(a, Ending) : Type(a + m) = Ending[m]
        /\ Matched(a, Ending) < Len(Ending) =>
             Type(a + Matched(a, Ending) + 1) # Ending[Matched(a, Ending) + 1]
        /\ Len(Ending) = 2
    BY Headers3, MatchedIs
  <2>3. Type(a + 1) = Ending[1] /\ Ending[1] = "PERCENT"
    BY <1>12, <2>1, <2>2 DEF Ending
  <2>4. Type(a + 1 + 1) # Ending[1 + 1] /\ Ending[1 + 1] = "RBRACE"
    BY <1>12, <2>1, <2>2 DEF Ending
  <2>5. a + 1 - 1 = a /\ Type(a) \in Closers
    BY <2>1 DEF Close, Keyword
  <2> QED
    BY <2>1, <2>3, <2>4, <2>5 DEF StopsAt, Unclosed
<1>6. /\ k + 1 \in 1 .. Len(toks) + 1 /\ k \in 1 .. Len(toks) + 1
      /\ errors + 0 <= k + 1 - 1 /\ errors + 0 <= k + 1 /\ errors + 1 <= k
      /\ Fresh(<<c>>) /\ Len(<<c>>) > 0
  BY <1>3, <1>4, FreshOne
<1> HIDE DEF k
<1>7. 0 \in Nat /\ 1 \in Nat /\ {New} \in SUBSET {New}
  OBVIOUS
<1>8. CASE Matches /\ Expected(k, Ending) /\ node' = Append(node, c) /\ Done(k + 1, 0)
  <2>1. c.type = "CLOSE" => Len(stack) > 1
    BY <1>5, <1>8
  <2>2. PICK i \in 1 .. Len(toks) + 1 : i = k + 1
    BY <1>6
  <2>3. errors + 0 <= i - 1 /\ Done(i, 0) /\ node' = Append(node, c)
    BY <1>6, <1>8, <2>2
  <2>4. MadeAt(c, i)
    BY <1>8, <1>11, <2>2
  <2> QED
    BY <1>4, <1>7, <2>1, <2>3, <2>4, MakingIs
<1>9. CASE Matched(k, Ending) = 1 /\ Fail(k + 1, 0, <<c>>, {New})
  BY <1>6, <1>7, <1>9, <1>12, FailingIs
<1>10. CASE Fail(k, 1, <<c>>, {New})
  <2>1. StopsAt(k, 1)
    BY DEF StopsAt
  <2> QED
    BY <1>6, <1>7, <1>10, <2>1, FailingIs
<1> QED
  BY <1>2, <1>8, <1>9, <1>10

(* A tag without a keyword is an error.                                    *)
LEMMA NoKeywordEnds == ASSUME Typed, FewErrors, NoKeyword PROVE Ended
<1>1. /\ Len(toks) \in Nat /\ cur \in 1 .. Len(toks) /\ errors \in Nat /\ errors <= cur - 1
      /\ cur + 1 \in 1 .. Len(toks)
  BY AtBlock DEF NoKeyword, Tag
<1> DEFINE b == Leaf("unknown", cur, cur + 2)
<1>2. b \in NodeSet /\ b.subs = << >> /\ b.next = 0
  <2>1. "unknown" \in Types /\ cur + 2 \in Nat /\ cur \in Nat
    BY <1>1 DEF Types
  <2> QED
    BY <2>1, LeafTyped
<1>3. Fail(cur + 2, 1, <<b>>, {})
  BY DEF NoKeyword
<1> HIDE DEF b
<1>4. cur + 2 \in 1 .. Len(toks) + 1 /\ errors + 1 <= cur + 2 /\ Fresh(<<b>>)
      /\ StopsAt(cur + 2, 1)
  BY <1>1, <1>2, FreshOne DEF StopsAt
<1> QED
  BY <1>3, <1>4, FailingIs

(* {% block name %} begins a body.                                         *)
LEMMA TBlockEnds == ASSUME Typed, FewErrors, TBlock PROVE Ended
<1>1. Tag /\ Keyword # "EOF"
  BY DEF TBlock
<1> DEFINE h == <<"IDENT">> \o Ending
           i == cur + 2 + Matched(cur + 2, h)
           b == Node("BLOCK", cur, cur + 5, TokenAt(toks, cur + 3), "whole")
           f == [kind |-> "BLOCK", blk |-> New, node |-> New]
<1>2. \/ Expected(cur + 2, h) /\ Call(f, i, 0, <<b>>)
      \/ Fail(i, 1, <<b>>, {New})
  BY DEF TBlock
<1>3. /\ h \in Seq({"IDENT", "PERCENT", "RBRACE"}) /\ \A m \in DOMAIN h : h[m] # "EOF"
      /\ Len(h) = 3 /\ h[1] = "IDENT"
  BY Header1
<1>4. /\ Matched(cur + 2, h) \in 0 .. Len(h) /\ i \in 1 .. Len(toks) /\ i >= cur + 2
      /\ \A m \in 1 .. Matched(cur + 2, h) : Type(cur + 2 + m) = h[m]
  <2> HIDE DEF h
  <2> QED
    BY <1>1, <1>3, HeaderRead
<1>5. /\ cur \in Nat /\ errors \in Nat /\ errors <= cur - 1 /\ Len(toks) \in Nat
      /\ cur + 2 \in 1 .. Len(toks)
  BY <1>1, AtTag
<1>6. /\ b \in NodeSet /\ b.subs = << >> /\ b.next = 0
      /\ b.type = "BLOCK" /\ b.name = TokenAt(toks, cur + 3)
      /\ b.from = cur /\ b.to = cur + 5
  <2>1. "BLOCK" \in Types /\ cur + 5 \in Nat /\ "whole" \in {"whole", "none", "hole"}
    BY <1>5 DEF Types
  <2>2. TokenAt(toks, cur + 3) \in Words
    BY <1>5 DEF Words
  <2> QED
    BY <1>5, <2>1, <2>2, NodeTyped
<1>7. ASSUME Expected(cur + 2, h) PROVE TokenAt(toks, cur + 3) \in Names
  <2>1. 1 \in 1 .. Matched(cur + 2, h) /\ cur + 2 + 1 = cur + 3
    BY <1>3, <1>5, <1>7 DEF Expected
  <2>2. Type(cur + 3) = "IDENT"
    BY <1>3, <1>4, <2>1
  <2> QED
    BY <2>2, Identifier
<1>8. f \in FrameSet /\ f.kind = "BLOCK" /\ f.blk = New /\ f.node = New
  BY DEF FrameSet, New, Typed
<1>14. ASSUME Expected(cur + 2, h) PROVE i = cur + 5
  BY <1>3, <1>5, <1>14 DEF Expected
<1> HIDE DEF h, i, b, f
<1>9. /\ errors + 0 <= i /\ errors + 1 <= i /\ i \in 1 .. Len(toks) + 1
      /\ Fresh(<<b>>) /\ Len(<<b>>) = 1 /\ <<b>>[1] = b
  BY <1>4, <1>5, <1>6, FreshOne
<1>15. ASSUME Expected(cur + 2, h) PROVE HeaderOf(f, <<b>>, i)
  BY <1>5, <1>6, <1>8, <1>9, <1>14, <1>15 DEF HeaderOf
<1>10. Expected(cur + 2, h) => FrameFor(f, <<b>>)
  BY <1>6, <1>7, <1>8, <1>9 DEF FrameFor
<1>11. 0 \in Nat /\ 1 \in Nat /\ {New} \in SUBSET {New}
  OBVIOUS
<1>12. CASE Expected(cur + 2, h) /\ Call(f, i, 0, <<b>>)
  BY <1>4, <1>9, <1>10, <1>11, <1>12, <1>15, CallingIs
<1>13. CASE Fail(i, 1, <<b>>, {New})
  <2>1. ({New} # {} => Len(<<b>>) > 0) /\ StopsAt(i, 1)
    BY <1>9 DEF StopsAt
  <2> QED
    BY <1>9, <1>11, <1>13, <2>1, FailingIs
<1> QED
  BY <1>2, <1>12, <1>13

(* What an expression in a header comes to: it begins in the template, and *)
(* ends with it at the latest.                                             *)
Parsed(e, i) ==
  /\ e.expr \in {"whole", "none", "hole"}
  /\ e.cur \in 1 .. Len(toks) + 1 /\ e.cur >= i
  /\ e.errors \in Nat /\ errors + e.errors + 1 <= e.cur

(* A header ends like this, and then the body begins, or not.              *)
LEMMA EndingRead ==
  ASSUME Typed, NEW e, NEW i \in Nat, Parsed(e, i)
  PROVE  /\ Matched(e.cur, Ending) \in 0 .. 2
         /\ e.cur + Matched(e.cur, Ending) \in 1 .. Len(toks) + 1
         /\ Matched(e.cur, Ending) = 2 => e.cur + 2 \in 1 .. Len(toks)
         /\ errors + e.errors <= e.cur + 2
         /\ errors + (e.errors + 1) <= e.cur + Matched(e.cur, Ending)
         /\ e.errors + 1 \in Nat /\ e.cur + 2 \in Nat
<1>1. PICK k \in Nat : k = e.cur
  BY DEF Parsed
<1>2. /\ Matched(k, Ending) \in 0 .. Len(Ending) /\ Len(Ending) = 2
      /\ Matched(k, Ending) # 0 => k + Matched(k, Ending) \in 1 .. Len(toks)
  BY Headers3, MatchedEnd
<1>3. k \in 1 .. Len(toks) + 1 /\ e.errors \in Nat /\ errors + e.errors + 1 <= k /\ errors \in Nat
  BY <1>1 DEF Parsed, Typed
<1>4. Len(toks) \in Nat
  BY SourceAssumption DEF Typed
<1>5. PICK n \in 0 .. 2 : n = Matched(k, Ending) /\ (n # 0 => k + n \in 1 .. Len(toks))
  BY <1>2
<1>6. /\ k + n \in 1 .. Len(toks) + 1
      /\ n = 2 => k + 2 \in 1 .. Len(toks)
      /\ errors + e.errors <= k + 2
      /\ errors + (e.errors + 1) <= k + n
      /\ e.errors + 1 \in Nat /\ k + 2 \in Nat
  <2>1. PICK x \in Nat : x = e.errors
    BY <1>3
  <2>2. k + n \in 1 .. Len(toks) + 1 /\ (n = 2 => k + 2 \in 1 .. Len(toks))
    BY <1>3, <1>4, <1>5
  <2>3. errors + x <= k + 2 /\ errors + (x + 1) <= k + n /\ x + 1 \in Nat /\ k + 2 \in Nat
    <3>1. x \in Nat /\ errors + x + 1 <= k
      BY <1>3, <2>1
    <3> QED
      BY <1>3, <3>1
  <2> QED
    BY <2>1, <2>2, <2>3
<1> QED
  BY <1>1, <1>5, <1>6

BranchFrom(e) ==
  LET n    == Matched(e.cur, Ending)
      made == <<[Leaf("IF", 1, 0) EXCEPT !.next = New + 1],
                Node("branch", cur, e.cur + 2, NoName, e.expr)>>
  IN  \/ e.crash /\ Crash
      \/ /\ ~e.crash /\ n = 2
         /\ Call([kind |-> "IF", blk |-> New, node |-> New + 1],
                 e.cur + 2, e.errors, made)
      \/ ~e.crash /\ n < 2 /\ Fail(e.cur + n, e.errors + 1, made, {New})

(* A branch begins a body, or is freed with its condition.                 *)
LEMMA BranchFromEnds ==
  ASSUME Typed, FewErrors, Tag, Keyword # "EOF", NEW e, Parsed(e, cur), BranchFrom(e)
  PROVE  Ended
<1> DEFINE n    == Matched(e.cur, Ending)
           a    == [Leaf("IF", 1, 0) EXCEPT !.next = New + 1]
           b    == Node("branch", cur, e.cur + 2, NoName, e.expr)
           made == <<a, b>>
           f    == [kind |-> "IF", blk |-> New, node |-> New + 1]
<1>1. \/ Crash
      \/ n = 2 /\ Call(f, e.cur + 2, e.errors, made)
      \/ Fail(e.cur + n, e.errors + 1, made, {New})
  BY Zenon DEF BranchFrom
<1>2. Len(node) \in Nat /\ cur \in Nat
  BY DEF Typed
<1>3. /\ n \in 0 .. 2 /\ e.cur + n \in 1 .. Len(toks) + 1
      /\ n = 2 => e.cur + 2 \in 1 .. Len(toks)
      /\ errors + e.errors <= e.cur + 2
      /\ errors + (e.errors + 1) <= e.cur + n
      /\ e.errors + 1 \in Nat /\ e.cur + 2 \in Nat
  BY <1>2, EndingRead
<1>4. e.errors \in Nat /\ e.expr \in {"whole", "none", "hole"}
  BY DEF Parsed
<1>5. /\ a \in NodeSet /\ a.subs = << >> /\ a.next = Len(node) + 2 /\ a.type = "IF"
      /\ a.from = 1 /\ a.to = 0
  <2>1. "IF" \in Types /\ 1 \in Nat /\ 0 \in Nat
    BY DEF Types
  <2>2. PICK l : l = Leaf("IF", 1, 0)
    OBVIOUS
  <2>3. l \in NodeSet /\ l.subs = << >> /\ l.type = "IF" /\ l.from = 1 /\ l.to = 0
    BY <2>1, <2>2, LeafTyped
  <2>4. a = [l EXCEPT !.next = New + 1] /\ New + 1 = Len(node) + 2 /\ New + 1 \in Nat
    BY <1>2, <2>2 DEF New
  <2> HIDE DEF a
  <2> QED
    BY <2>3, <2>4 DEF NodeSet
<1>6. /\ b \in NodeSet /\ b.subs = << >> /\ b.next = 0
      /\ b.from = cur /\ b.to = e.cur + 2 /\ b.type = "branch"
  <2>1. PICK t \in Types, k \in Nat, name \in Words :
          t = "branch" /\ k = e.cur + 2 /\ name = NoName
    BY <1>3 DEF Types, Words
  <2>2. b = Node(t, cur, k, name, e.expr)
    BY <2>1
  <2> HIDE DEF b
  <2> QED
    BY <1>2, <1>4, <2>1, <2>2, NodeTyped
<1>7. f \in FrameSet /\ f.kind = "IF" /\ f.blk = New /\ f.node = New + 1
  BY <1>2 DEF FrameSet, New
<1> HIDE DEF n, a, b, f
<1>8. Fresh(made) /\ Len(made) = 2 /\ made[1] = a /\ made[2] = b
  BY <1>5, <1>6 DEF Fresh
<1> HIDE DEF made
<1>9. FrameFor(f, made)
  BY <1>2, <1>5, <1>7, <1>8 DEF FrameFor, New
<1>10. CASE Crash
  BY <1>10 DEF Ended
<1>11. CASE n = 2 /\ Call(f, e.cur + 2, e.errors, made)
  <2>1. cur <= e.cur + 2
    BY <1>2 DEF Parsed
  <2>2. HeaderOf(f, made, e.cur + 2)
    BY <1>5, <1>6, <1>7, <1>8, <2>1 DEF HeaderOf
  <2> QED
    BY <1>3, <1>4, <1>8, <1>9, <1>11, <2>2, CallingIs
<1>12. CASE Fail(e.cur + n, e.errors + 1, made, {New})
  <2>1. {New} \in SUBSET {New} /\ Len(made) > 0
    BY <1>8
  <2>2. StopsAt(e.cur + n, e.errors + 1)
    BY <1>4 DEF StopsAt
  <2> QED
    BY <1>3, <1>8, <1>12, <2>1, <2>2, FailingIs
<1> QED
  BY <1>1, <1>10, <1>11, <1>12

(* The expression of a condition stands behind the keyword; ELSE has none. *)
Elseless == [expr |-> "none", cur |-> cur + 2, errors |-> 0, crash |-> FALSE]

(* The header is the condition's, or that of an alternative, or else.      *)
LEMMA BranchParsed ==
  ASSUME Typed, FewErrors, Tag, Keyword # "EOF"
  PROVE  Parsed(ParseExpr(toks, cur + 2 + 1), cur) /\ Parsed(Elseless, cur)
<1>1. /\ cur \in Nat /\ errors \in Nat /\ errors <= cur - 1 /\ Len(toks) \in Nat
      /\ cur + 2 \in 1 .. Len(toks) /\ toks \in Sources
  BY AtTag
<1>2. Parsed(Elseless, cur)
  BY <1>1 DEF Parsed, Elseless
<1>3. PICK i \in 1 .. Len(toks) + 1 : i = cur + 2 + 1
  BY <1>1
<1>4. PICK e : e = ParseExpr(toks, i)
  OBVIOUS
<1>5. /\ e.expr \in {"whole", "none", "hole"} /\ e.cur \in i .. Len(toks) + 1
      /\ e.cur \in 1 .. Len(toks) + 1 /\ e.errors \in Nat /\ e.errors <= e.cur - i + 1
  BY <1>1, <1>4, ExprTyped
<1>6. errors + e.errors + 1 <= e.cur /\ e.cur >= cur
  BY <1>1, <1>3, <1>5
<1>7. Parsed(e, cur)
  BY <1>5, <1>6 DEF Parsed
<1> QED
  BY <1>2, <1>3, <1>4, <1>7

(* {% if expr %} allocates the block and its first branch.                 *)
LEMMA IfEnds == ASSUME Typed, FewErrors, If PROVE Ended
<1>1. Tag /\ Keyword # "EOF" /\ BranchFrom(ParseExpr(toks, cur + 2 + 1))
  BY DEF If, Branch, BranchFrom
<1> QED
  BY <1>1, BranchParsed, BranchFromEnds

(* {% elif expr %} and {% else %} allocate a branch.                       *)
LEMMA AlternativeEnds == ASSUME Typed, FewErrors, Alternative PROVE Ended
<1>1. Tag /\ Keyword # "EOF"
  BY DEF Alternative
<1>2. \/ BranchFrom(ParseExpr(toks, cur + 2 + 1))
      \/ BranchFrom(Elseless)
      \/ Fail(cur + 2, 1, <<Leaf("IF", 1, 0)>>, {New})
  BY DEF Alternative, Branch, BranchFrom, Elseless
<1>3. CASE BranchFrom(ParseExpr(toks, cur + 2 + 1)) \/ BranchFrom(Elseless)
  BY <1>1, <1>3, BranchParsed, BranchFromEnds
<1>4. CASE Fail(cur + 2, 1, <<Leaf("IF", 1, 0)>>, {New})
  <2>1. /\ cur \in Nat /\ errors \in Nat /\ errors <= cur - 1 /\ Len(toks) \in Nat
        /\ cur + 2 \in 1 .. Len(toks)
    BY <1>1, AtTag
  <2>2. PICK i \in 1 .. Len(toks) + 1 : i = cur + 2 /\ errors + 1 <= i
    BY <2>1
  <2>3. "IF" \in Types /\ 1 \in Nat /\ 0 \in Nat
    BY DEF Types
  <2>4. PICK b : b = Leaf("IF", 1, 0)
    OBVIOUS
  <2>5. b \in NodeSet /\ b.subs = << >> /\ b.next = 0
    BY <2>3, <2>4, LeafTyped
  <2>6. /\ Fresh(<<b>>) /\ Len(<<b>>) > 0 /\ {New} \in SUBSET {New} /\ 1 \in Nat
        /\ StopsAt(i, 1)
    BY <2>5, FreshOne DEF StopsAt
  <2>7. Fail(i, 1, <<b>>, {New})
    BY <1>4, <2>2, <2>4
  <2> QED
    BY <2>2, <2>6, <2>7, FailingIs
<1> QED
  BY <1>2, <1>3, <1>4

(* {% for item in expr %} begins a body, or an error frees the block.      *)
LEMMA ForEnds == ASSUME Typed, FewErrors, For PROVE Ended
<1>1. Tag /\ Keyword # "EOF"
  BY DEF For
<1> DEFINE h    == <<"IDENT", "IN", "IDENT">>
           i    == cur + 2 + Matched(cur + 2, h)
           b0   == Leaf("FOR", 1, 0)
           e    == ParseExpr(toks, i)
           n    == Matched(e.cur, Ending)
           loop == Node("FOR", cur, e.cur + 2, NoName, e.expr)
           f    == [kind |-> "FOR", blk |-> New, node |-> New]
<1>2. \/ Fail(i, 1, <<b0>>, {New})
      \/ Crash
      \/ n = 2 /\ Call(f, e.cur + 2, e.errors, <<loop>>)
      \/ Fail(e.cur + n, e.errors + 1, <<loop>>, {New})
  BY DEF For
<1>3. /\ cur \in Nat /\ errors \in Nat /\ errors <= cur - 1 /\ Len(toks) \in Nat
      /\ cur + 2 \in 1 .. Len(toks) /\ toks \in Sources /\ Len(node) \in Nat
  BY <1>1, AtTag DEF Typed
<1>4. i \in 1 .. Len(toks) /\ i >= cur + 2
  <2>1. h \in Seq({"IDENT", "IN"}) /\ \A m \in DOMAIN h : h[m] # "EOF"
    OBVIOUS
  <2> HIDE DEF h
  <2> QED
    BY <1>1, <2>1, HeaderRead
<1>5. Parsed(e, cur)
  <2> HIDE DEF i
  <2>1. PICK j \in 1 .. Len(toks) + 1 : j = i
    BY <1>3, <1>4
  <2>2. PICK x : x = e
    OBVIOUS
  <2>3. x = ParseExpr(toks, j)
    BY <2>1, <2>2
  <2>4. /\ x.expr \in {"whole", "none", "hole"} /\ x.cur \in j .. Len(toks) + 1
        /\ x.cur \in 1 .. Len(toks) + 1 /\ x.errors \in Nat /\ x.errors <= x.cur - j + 1
    BY <1>3, <2>3, ExprTyped
  <2>5. errors + x.errors + 1 <= x.cur /\ x.cur >= cur
    <3>1. PICK a \in Nat, c \in 1 .. Len(toks) + 1 : a = x.errors /\ c = x.cur
      BY <2>4
    <3>2. a <= c - j + 1 /\ c >= j /\ j >= cur + 2
      BY <1>4, <2>1, <2>4, <3>1
    <3>3. errors + a + 1 <= c /\ c >= cur
      <4>1. PICK u \in Nat, r \in Nat : u = cur /\ r = errors
        BY <1>3
      <4>2. r <= u - 1 /\ j >= u + 2 /\ a <= c - j + 1 /\ c >= j
        BY <1>3, <3>2, <4>1
      <4>3. r + a + 1 <= c /\ c >= u
        BY <4>2
      <4> QED
        BY <4>1, <4>3
    <3> QED
      BY <3>1, <3>3
  <2>6. Parsed(x, cur)
    BY <2>4, <2>5 DEF Parsed
  <2> QED
    BY <2>2, <2>6
<1> HIDE DEF e
<1>6. /\ n \in 0 .. 2 /\ e.cur + n \in 1 .. Len(toks) + 1
      /\ n = 2 => e.cur + 2 \in 1 .. Len(toks)
      /\ errors + e.errors <= e.cur + 2
      /\ errors + (e.errors + 1) <= e.cur + n
      /\ e.errors + 1 \in Nat /\ e.cur + 2 \in Nat
  BY <1>3, <1>5, EndingRead
<1>7. e.errors \in Nat /\ e.expr \in {"whole", "none", "hole"}
  BY <1>5 DEF Parsed
<1>8. b0 \in NodeSet /\ b0.subs = << >> /\ b0.next = 0
  <2>1. "FOR" \in Types /\ 1 \in Nat /\ 0 \in Nat
    BY DEF Types
  <2> QED
    BY <2>1, LeafTyped
<1>9. /\ loop \in NodeSet /\ loop.subs = << >> /\ loop.next = 0 /\ loop.type = "FOR"
      /\ loop.from = cur /\ loop.to = e.cur + 2
  <2>1. PICK t \in Types, k \in Nat, name \in Words :
          t = "FOR" /\ k = e.cur + 2 /\ name = NoName
    BY <1>6 DEF Types, Words
  <2>2. PICK x \in {"whole", "none", "hole"} : x = e.expr
    BY <1>7
  <2>3. loop = Node(t, cur, k, name, x) /\ cur \in Nat
    BY <1>3, <2>1, <2>2
  <2> HIDE DEF loop
  <2> QED
    BY <2>1, <2>3, NodeTyped
<1>10. f \in FrameSet /\ f.kind = "FOR" /\ f.blk = New /\ f.node = New
  BY <1>3 DEF FrameSet, New
<1> HIDE DEF h, i, b0, n, loop, f
<1>11. /\ Fresh(<<b0>>) /\ Len(<<b0>>) > 0
       /\ Fresh(<<loop>>) /\ Len(<<loop>>) = 1 /\ <<loop>>[1] = loop
       /\ 1 \in Nat /\ {New} \in SUBSET {New}
  BY <1>8, <1>9, FreshOne
<1>12. CASE Fail(i, 1, <<b0>>, {New})
  <2>1. i \in 1 .. Len(toks) + 1 /\ errors + 1 <= i /\ StopsAt(i, 1)
    BY <1>3, <1>4 DEF StopsAt
  <2> QED
    BY <1>11, <1>12, <2>1, FailingIs
<1>13. CASE Crash
  BY <1>13 DEF Ended
<1>14. CASE n = 2 /\ Call(f, e.cur + 2, e.errors, <<loop>>)
  <2>1. FrameFor(f, <<loop>>)
    BY <1>9, <1>10, <1>11 DEF FrameFor
  <2>2. cur <= e.cur + 2
    BY <1>3, <1>5 DEF Parsed
  <2>3. HeaderOf(f, <<loop>>, e.cur + 2)
    BY <1>9, <1>10, <1>11, <2>2 DEF HeaderOf
  <2> QED
    BY <1>6, <1>7, <1>11, <1>14, <2>1, <2>3, CallingIs
<1>15. CASE Fail(e.cur + n, e.errors + 1, <<loop>>, {New})
  <2>1. Len(<<loop>>) > 0 /\ StopsAt(e.cur + n, e.errors + 1)
    BY <1>7, <1>11 DEF StopsAt
  <2> QED
    BY <1>6, <1>11, <1>15, <2>1, FailingIs
<1> QED
  BY <1>2, <1>12, <1>13, <1>14, <1>15

(* A case of parser_parse_block keeps the invariant.                       *)
LEMMA EndedStep ==
  ASSUME IInv, pc = "body", Ended
  PROVE  IInv'
BY MakingStep, FailingStep, CallingStep, CrashStep DEF Ended

-----------------------------------------------------------------------------
(* Fewer roots are owned as well.                                          *)
LEMMA FewerRoots ==
  ASSUME NEW N \in Nat, NEW K, NEW fr, NEW R, Owned(N, K, fr, R), NEW S, S \subseteq R
  PROVE  Owned(N, K, fr, S)
BY DEF Owned

(* A call that returns its block leaves it to the one around it.           *)
LEMMA FinishTyped ==
  ASSUME Typed, Frames, Len(stack) > 1, Finish, node' \in Seq(NodeSet), Len(node') = Len(node),
         node'[Top.blk].type = node[Top.blk].type
  PROVE  /\ tblocks' \in [Names -> 0 .. Len(node')]
         /\ val' = Top.blk /\ val' \in 0 .. Len(node')
         /\ pc' = "return" /\ pc' \in Modes
         /\ stack' = Pop /\ Len(stack') = Len(stack) - 1 /\ Len(stack') > 0
         /\ Value'
         /\ Roots' \subseteq {1} \cup {stack[k].blk : k \in 2 .. Len(stack)}
<1>1. /\ stack' = Pop /\ pc' = "return" /\ val' = Top.blk
      /\ tblocks' = IF Top.kind = "BLOCK"
                    THEN [tblocks EXCEPT ![node[Top.blk].name] = Top.blk]
                    ELSE tblocks
  BY DEF Finish
<1>2. /\ Len(stack) \in Nat /\ Top = stack[Len(stack)] /\ FrameOK(Top)
      /\ \A k \in 1 .. Len(stack) - 1 : stack[k].node < Top.blk
      /\ Top.blk \in Nodes /\ Len(node) \in Nat
  BY TopTyped DEF FrameOK, Typed
<1>3. tblocks' \in [Names -> 0 .. Len(node)]
  <2>1. tblocks \in [Names -> 0 .. Len(node)] /\ Top.blk \in 0 .. Len(node)
    BY <1>2 DEF Typed, Nodes
  <2>2. CASE Top.kind = "BLOCK"
    BY <1>1, <2>1, <2>2
  <2>3. CASE Top.kind # "BLOCK"
    BY <1>1, <2>1, <2>3
  <2> QED
    BY <2>2, <2>3
<1>4. /\ Len(stack') = Len(stack) - 1 /\ Len(stack') > 0
      /\ \A k \in 1 .. Len(stack) - 1 : stack'[k] = stack[k]
  <2>1. stack \in Seq(FrameSet)
    BY DEF Frames
  <2> QED
    BY <1>1, <1>2, <2>1 DEF Pop
<1>5. Value'
  <2>1. Top' = stack[Len(stack) - 1] /\ Len(stack) - 1 \in 1 .. Len(stack) - 1
    BY <1>2, <1>4 DEF Top
  <2>2. Top'.node < Top.blk
    BY <1>2, <2>1
  <2>3. Top.blk \in Nodes'
    BY <1>2 DEF Nodes
  <2>4. node'[Top.blk].type # "CLOSE"
    <3>1. Top \in FrameSet
      BY <1>2 DEF Frames
    <3> QED
      BY <1>2, <3>1 DEF FrameOK, FrameSet
  <2> QED
    BY <1>1, <2>2, <2>3, <2>4 DEF Value
<1>6. Roots' \subseteq {1} \cup {stack[k].blk : k \in 2 .. Len(stack)}
  <2>1. Roots' = {1} \cup {stack'[k].blk : k \in 2 .. Len(stack) - 1} \cup {Top.blk}
    BY <1>1, <1>4 DEF Roots
  <2>2. \A k \in 2 .. Len(stack) - 1 : k \in 2 .. Len(stack) /\ stack'[k] = stack[k]
    BY <1>2, <1>4
  <2>3. Len(stack) \in 2 .. Len(stack)
    BY <1>2
  <2> QED
    BY <1>2, <2>1, <2>2, <2>3
<1>7. Top.blk \in 0 .. Len(node')
  BY <1>2 DEF Nodes
<1> QED
  BY <1>1, <1>3, <1>4, <1>5, <1>6, <1>7 DEF Modes

(* What a step that allocates nothing keeps.                               *)
LEMMA SameNodes ==
  ASSUME IInv, node' = node, toks' = toks
  PROVE  /\ NodeSet' = NodeSet /\ Nodes' = Nodes /\ Kids' = Kids
         /\ NoTwice' /\ Upward(Len(node'), Kids')
<1>1. Kids' = Kids
  BY DEF Kids, Children, Nodes
<1> QED
  BY <1>1 DEF IInv, NodeSet, Words, TokenAt, Nodes, NoTwice

(* A body that meets the end of the template ends in an error.             *)
LEMMA EndOfSourceStep ==
  ASSUME IInv, EndOfSource
  PROVE  IInv'
<1> USE DEF IInv
<1>1. /\ pc = "body" /\ toks' = toks /\ cur' = cur /\ errors' = errors
      /\ node' = node /\ freed' = freed
      /\ \/ /\ Top.kind = "template" /\ pc' = "parsed"
            /\ stack' = stack /\ val' = val /\ tblocks' = tblocks
         \/ Top.kind # "template" /\ Finish
  BY DEF EndOfSource
<1>2. /\ NodeSet' = NodeSet /\ Nodes' = Nodes /\ Kids' = Kids
      /\ NoTwice' /\ Upward(Len(node'), Kids')
  BY <1>1, SameNodes
<1>3. Len(node) \in Nat /\ node \in Seq(NodeSet)
  BY DEF Typed
<1>4. /\ Owned(Len(node), Kids, freed, Roots)
      /\ Roots = {1} \cup {stack[k].blk : k \in 2 .. Len(stack)}
  BY <1>1 DEF Keeps, Roots
<1>5. CASE /\ Top.kind = "template" /\ pc' = "parsed"
           /\ stack' = stack /\ val' = val /\ tblocks' = tblocks
  <2>1. Typed'
    BY <1>1, <1>2, <1>5 DEF Typed, Modes
  <2>2. FewErrors'
    BY <1>1, <1>5 DEF FewErrors, Typed
  <2>3. Frames' /\ Value'
    BY <1>1, <1>2, <1>5 DEF Frames, FrameOK, Template, Value
  <2>4. Roots' = Roots
    BY <1>1, <1>5 DEF Roots
  <2>5. Keeps'
    BY <1>1, <1>2, <1>4, <2>4 DEF Keeps
  <2> QED
    BY <1>2, <2>1, <2>2, <2>3, <2>5
<1>6. CASE Top.kind # "template" /\ Finish
  <2>1. Len(stack) > 1
    <3>1. Len(stack) \in Nat /\ Len(stack) > 0 /\ Len(stack) # 1
      BY <1>6, TopTyped DEF Frames
    <3> QED
      <4>1. PICK n \in Nat : n = Len(stack)
        BY <3>1
      <4>2. n > 1
        BY <3>1, <4>1
      <4> QED
        BY <4>1, <4>2
  <2>2. /\ tblocks' \in [Names -> 0 .. Len(node')]
        /\ val' = Top.blk /\ val' \in 0 .. Len(node')
        /\ pc' = "return" /\ pc' \in Modes
        /\ stack' = Pop /\ Len(stack') = Len(stack) - 1 /\ Len(stack') > 0
        /\ Value'
        /\ Roots' \subseteq {1} \cup {stack[k].blk : k \in 2 .. Len(stack)}
    BY <1>1, <1>3, <1>6, <2>1, FinishTyped
  <2>3. Typed'
    BY <1>1, <1>2, <2>2 DEF Typed
  <2>4. FewErrors'
    BY <1>1, <2>2 DEF FewErrors
  <2>5. Frames'
    BY <1>1, <1>3, <2>2, FramesKept
  <2>6. Owned(Len(node'), Kids', freed', Roots')
    <3>1. PICK S : S = Roots'
      OBVIOUS
    <3>2. Owned(Len(node), Kids, freed, S)
      BY <1>3, <1>4, <2>2, <3>1, FewerRoots
    <3> QED
      BY <1>1, <1>2, <3>1, <3>2
  <2> QED
    BY <1>2, <2>2, <2>3, <2>4, <2>5, <2>6 DEF Keeps
<1> QED
  BY <1>1, <1>5, <1>6

(* vector_push of v to the body of p.                                      *)
LEMMA PushNodes ==
  ASSUME Typed, NoTwice, toks' = toks, NEW p \in Nodes, NEW v \in Nat,
         \A k \in DOMAIN node[p].subs : node[p].subs[k] # v, v # 0,
         node' = [node EXCEPT ![p].subs = Append(@, v)]
  PROVE  /\ NodeSet' = NodeSet /\ node' \in Seq(NodeSet) /\ Len(node') = Len(node) /\ NoTwice'
         /\ Nodes' = Nodes
         /\ \A q \in Nodes : /\ node'[q].type = node[q].type /\ node'[q].next = node[q].next
                             /\ node'[q].name = node[q].name
         /\ Kids'[p] = Kids[p] \cup {v}
         /\ \A q \in Nodes \ {p} : Kids'[q] = Kids[q]
<1>1. NodeSet' = NodeSet
  BY DEF NodeSet, Words, TokenAt
<1>2. node \in Seq(NodeSet) /\ Len(node) \in Nat /\ p \in 1 .. Len(node) /\ node[p] \in NodeSet
  BY DEF Typed, Nodes
<1>3. PICK x \in NodeSet, s \in Seq(Nat) : x = node[p] /\ s = node[p].subs
  BY <1>2 DEF NodeSet
<1>4. PICK t \in Seq(Nat) : t = Append(s, v)
  <2>1. Append(s, v) \in Seq(Nat)
    BY AppendProperties
  <2> QED
    BY <2>1
<1>5. PICK y : y = [x EXCEPT !.subs = t]
  OBVIOUS
<1>6. y \in NodeSet /\ y.subs = t /\ y.type = x.type /\ y.next = x.next /\ y.name = x.name
  BY <1>3, <1>4, <1>5 DEF NodeSet
<1>7. /\ node' \in Seq(NodeSet) /\ Len(node') = Len(node) /\ node'[p] = y
      /\ \A q \in Nodes \ {p} : node'[q] = node[q]
  <2>1. node' = [node EXCEPT ![p] = y]
    BY <1>3, <1>4, <1>5
  <2>2. PICK w \in Seq(NodeSet) : w = node /\ p \in 1 .. Len(w)
    BY <1>2
  <2>3. [w EXCEPT ![p] = y] \in Seq(NodeSet) /\ Len([w EXCEPT ![p] = y]) = Len(w)
    BY <1>6, <2>2, ExceptSeq
  <2>4. node' \in Seq(NodeSet) /\ Len(node') = Len(node)
    BY <2>1, <2>2, <2>3
  <2>5. node'[p] = y /\ \A q \in 1 .. Len(node) : q # p => node'[q] = node[q]
    BY <1>2, <2>1
  <2> QED
    BY <2>4, <2>5 DEF Nodes
<1>8. Nodes' = Nodes
  BY <1>7 DEF Nodes
<1>9. /\ Len(s) \in Nat /\ DOMAIN s = 1 .. Len(s) /\ DOMAIN t = 1 .. Len(s) + 1
      /\ \A k \in 1 .. Len(s) : t[k] = s[k]
      /\ t[Len(s) + 1] = v
  BY <1>3, <1>4
<1>10. NoTwice'
  <2> SUFFICES ASSUME NEW n \in Nodes, NEW j \in DOMAIN node'[n].subs,
                      NEW k \in DOMAIN node'[n].subs, j # k
               PROVE  node'[n].subs[j] # node'[n].subs[k]
    BY <1>8 DEF NoTwice
  <2>1. CASE n # p
    BY <1>7, <2>1 DEF NoTwice
  <2>2. CASE n = p
    <3>1. j \in DOMAIN t /\ k \in DOMAIN t /\ node'[n].subs = t
      BY <1>6, <1>7, <2>2
    <3>2. \A a, b \in 1 .. Len(s) : a # b => s[a] # s[b]
      <4>1. \A a, b \in DOMAIN node[p].subs : a # b => node[p].subs[a] # node[p].subs[b]
        BY DEF NoTwice
      <4> QED
        BY <1>3, <1>9, <4>1
    <3>3. \A a \in 1 .. Len(s) : s[a] # v
      BY <1>3, <1>9
    <3>4. (j \in 1 .. Len(s) \/ j = Len(s) + 1) /\ (k \in 1 .. Len(s) \/ k = Len(s) + 1)
      BY <1>9, <3>1
    <3>5. t[j] # t[k]
      BY <1>9, <3>2, <3>3, <3>4
    <3> QED
      BY <3>1, <3>5
  <2> QED
    BY <2>1, <2>2
<1>11. Kids'[p] = Kids[p] \cup {v}
  <2>1. Kids'[p] = {t[k] : k \in DOMAIN t} \cup ({x.next} \ {0})
    <3>1. node'[p].subs = t /\ node'[p].next = x.next
      BY <1>6, <1>7
    <3>2. Kids'[p] = Children(p)'
      BY <1>8 DEF Kids
    <3> QED
      BY <3>1, <3>2 DEF Children
  <2>2. Kids[p] = {s[k] : k \in DOMAIN s} \cup ({x.next} \ {0})
    BY <1>3 DEF Kids, Children
  <2>3. {t[k] : k \in DOMAIN t} = {s[k] : k \in DOMAIN s} \cup {v}
    <3>1. \A k : k \in 1 .. Len(s) + 1 <=> k \in 1 .. Len(s) \/ k = Len(s) + 1
      BY <1>9
    <3> QED
      BY <1>9, <3>1
  <2> QED
    BY <2>1, <2>2, <2>3
<1>12. \A q \in Nodes \ {p} : Kids'[q] = Kids[q]
  BY <1>7, <1>8 DEF Kids, Children
<1>13. \A q \in Nodes : /\ node'[q].type = node[q].type /\ node'[q].next = node[q].next
                        /\ node'[q].name = node[q].name
  BY <1>3, <1>6, <1>7
<1> QED
  BY <1>1, <1>7, <1>8, <1>10, <1>11, <1>12, <1>13

(* The block that came back is alive, has no parent, and is newer than the *)
(* body it came back to.                                                   *)
LEMMA Returned ==
  ASSUME IInv, pc = "return"
  PROVE  /\ Len(node) \in Nat /\ Owned(Len(node), Kids, freed, Roots)
         /\ val \in Roots /\ val \in Nodes /\ val \in Nat /\ val # 0
         /\ Top.node \in Nodes /\ Top.node \in (1 .. Len(node)) \ freed /\ Top.node < val
         /\ val \notin Kids[Top.node]
         /\ \A k \in DOMAIN node[Top.node].subs : node[Top.node].subs[k] # val
         /\ \A k \in DOMAIN stack : stack[k].blk < val /\ stack[k].node < val
         /\ Roots = {1} \cup {stack[k].blk : k \in 2 .. Len(stack)} \cup {val}
         /\ {1} \cup {stack[k].blk : k \in 2 .. Len(stack)} \subseteq Roots \ {val}
<1> USE DEF IInv
<1>1. Len(node) \in Nat /\ Owned(Len(node), Kids, freed, Roots)
  BY DEF Typed, Keeps
<1>2. Roots = {1} \cup {stack[k].blk : k \in 2 .. Len(stack)} \cup {val}
  BY DEF Roots
<1>3. val \in Nodes /\ Top.node < val /\ val \in Nat /\ val # 0 /\ val \in Roots
  BY <1>1, <1>2 DEF Value, Nodes
<1>4. /\ Len(stack) \in Nat /\ Len(stack) \in DOMAIN stack /\ Top = stack[Len(stack)]
      /\ Top.blk \in 0 .. Len(node) /\ Top.node \in Nodes
      /\ Len(stack) > 1 => FrameOK(Top)
      /\ \A k \in 1 .. Len(stack) - 1 : stack[k].node < Top.blk
  BY TopTyped
<1>5. Top.node \in Nodes \ freed
  BY <1>4, BodiesAlive
<1>6. Top.node \in (1 .. Len(node)) \ freed /\ Top.node \in Nodes
  BY <1>5 DEF Nodes
<1>7. val \notin Kids[Top.node]
  BY <1>1, <1>3, <1>6 DEF Owned
<1>8. \A k \in DOMAIN node[Top.node].subs : node[Top.node].subs[k] # val
  BY <1>6, <1>7 DEF Kids, Children
<1>9. ASSUME NEW k \in DOMAIN stack PROVE stack[k].blk < val /\ stack[k].node < val
  <2>1. stack[k].blk \in 0 .. Len(node) /\ stack[k].node \in Nodes /\ (k # 1 => FrameOK(stack[k]))
        /\ (k = 1 => stack[k] = Template)
    BY FrameTyped, <1>9 DEF Frames
  <2>2. stack[k].blk <= stack[k].node
    <3>1. CASE k = 1
      BY <2>1, <3>1 DEF Template
    <3>2. CASE k # 1
      BY <1>1, <2>1, <3>2 DEF FrameOK, Nodes
    <3> QED
      BY <3>1, <3>2
  <2>3. Top.blk <= Top.node
    <3>1. CASE Len(stack) = 1
      BY <1>4, <3>1 DEF Template, Frames
    <3>2. CASE Len(stack) # 1
      <4>1. FrameOK(Top)
        <5>1. Len(stack) > 0
          BY DEF Frames
        <5>2. PICK n \in Nat : n = Len(stack)
          BY <1>4
        <5>3. n > 1
          BY <3>2, <5>1, <5>2
        <5> QED
          BY <1>4, <5>2, <5>3
      <4> QED
        BY <1>1, <1>4, <4>1 DEF FrameOK, Nodes
    <3> QED
      BY <3>1, <3>2
  <2>4. stack[k].node <= Top.node
    <3>1. CASE k = Len(stack)
      BY <1>4, <2>1, <3>1 DEF Nodes
    <3>2. CASE k # Len(stack)
      <4>1. k \in 1 .. Len(stack) - 1
        BY <1>4, <1>9, <3>2 DEF Frames
      <4> QED
        BY <1>1, <1>4, <2>1, <2>3, <4>1 DEF Nodes
    <3> QED
      BY <3>1, <3>2
  <2> QED
    BY <1>1, <1>3, <1>4, <2>1, <2>2, <2>4 DEF Nodes
<1>10. {1} \cup {stack[k].blk : k \in 2 .. Len(stack)} \subseteq Roots \ {val}
  <2>1. \A k \in 2 .. Len(stack) : stack[k].blk # val
    <3> TAKE k \in 2 .. Len(stack)
    <3>1. k \in DOMAIN stack
      BY <1>4 DEF Frames
    <3>2. stack[k].blk < val /\ stack[k].blk \in 0 .. Len(node)
      BY <1>9, <3>1, FrameTyped
    <3> QED
      BY <1>1, <1>3, <3>2
  <2>2. 1 # val
    BY <1>1, <1>3, <1>4 DEF Nodes
  <2> QED
    BY <1>2, <2>1, <2>2
<1> QED
  BY <1>1, <1>2, <1>3, <1>4, <1>6, <1>7, <1>8, <1>9, <1>10

(* A block that came back is pushed to the body.                           *)
LEMMA TakeStep ==
  ASSUME IInv, Take
  PROVE  IInv'
<1> USE DEF IInv
<1>1. /\ pc = "return" /\ toks' = toks /\ errors' = errors /\ freed' = freed
      /\ cur' = IF Type(cur) = "EOF" THEN cur ELSE cur + 1
      /\ node' = [node EXCEPT ![Top.node].subs = Append(@, val)]
      /\ \/ node[val].type = "CLOSE" /\ Finish
         \/ pc' = "body" /\ stack' = stack /\ val' = val /\ tblocks' = tblocks
  BY DEF Take, Push
<1>2. /\ Len(node) \in Nat /\ Owned(Len(node), Kids, freed, Roots)
      /\ val \in Roots /\ val \in Nodes /\ val \in Nat /\ val # 0
      /\ Top.node \in Nodes /\ Top.node \in (1 .. Len(node)) \ freed /\ Top.node < val
      /\ \A k \in DOMAIN node[Top.node].subs : node[Top.node].subs[k] # val
      /\ {1} \cup {stack[k].blk : k \in 2 .. Len(stack)} \subseteq Roots \ {val}
  BY <1>1, Returned
<1>3. PICK p \in Nodes, v \in Nat : p = Top.node /\ v = val
  BY <1>2
<1>4. /\ NodeSet' = NodeSet /\ node' \in Seq(NodeSet) /\ Len(node') = Len(node) /\ NoTwice'
      /\ Nodes' = Nodes
      /\ \A q \in Nodes : /\ node'[q].type = node[q].type /\ node'[q].next = node[q].next
                          /\ node'[q].name = node[q].name
      /\ Kids'[p] = Kids[p] \cup {v}
      /\ \A q \in Nodes \ {p} : Kids'[q] = Kids[q]
  <2>1. /\ \A k \in DOMAIN node[p].subs : node[p].subs[k] # v
        /\ v # 0 /\ node' = [node EXCEPT ![p].subs = Append(@, v)]
    BY <1>1, <1>2, <1>3
  <2> QED
    BY <1>1, <2>1, PushNodes
<1>5. \A S : S \subseteq Roots \ {val} => Owned(Len(node'), Kids', freed', S)
  <2> TAKE S
  <2> HAVE S \subseteq Roots \ {val}
  <2>1. PICK L, N, R : L = Kids' /\ N = Len(node) /\ R = Roots
    OBVIOUS
  <2>2. /\ N \in Nat /\ Owned(N, Kids, freed, R) /\ p \in (1 .. N) \ freed /\ v \in R /\ p < v
        /\ Pushed(N, Kids, p, v, L)
        /\ S \subseteq R \ {v}
    BY <1>2, <1>3, <1>4, <2>1 DEF Nodes, Pushed
  <2>3. Owned(N, L, freed, S)
    BY <2>2, PushOwned
  <2> QED
    BY <1>1, <1>4, <2>1, <2>3
<1>6. /\ cur' \in 1 .. Len(toks') + 1 /\ errors' \in Nat /\ errors' <= cur' - 1
  <2>1. cur \in 1 .. Len(toks) + 1 /\ errors \in Nat /\ errors <= cur - 1
    BY <1>1 DEF Typed, FewErrors
  <2>2. Type(cur) # "EOF" => cur \in 1 .. Len(toks)
    BY Inside
  <2>3. Len(toks) \in Nat
    BY SourceAssumption DEF Typed
  <2> QED
    BY <1>1, <2>1, <2>2, <2>3
<1>7. Len(node') \in Nat /\ Len(node) <= Len(node') /\ Len(node') > 0
      /\ \A k \in 2 .. Len(stack) : stack[k].blk \in Nodes
  BY <1>2, <1>4 DEF Frames, FrameOK, Typed
<1>8. CASE node[val].type = "CLOSE" /\ Finish
  <2>1. Len(stack) > 1
    BY <1>1, <1>8 DEF Value
  <2>2. Top.blk \in Nodes /\ node'[Top.blk].type = node[Top.blk].type
    BY <1>4, <2>1, TopTyped DEF FrameOK
  <2>3. /\ tblocks' \in [Names -> 0 .. Len(node')]
        /\ val' = Top.blk /\ val' \in 0 .. Len(node')
        /\ pc' = "return" /\ pc' \in Modes
        /\ stack' = Pop /\ Len(stack') = Len(stack) - 1 /\ Len(stack') > 0
        /\ Value'
        /\ Roots' \subseteq {1} \cup {stack[k].blk : k \in 2 .. Len(stack)}
    BY <1>4, <1>8, <2>1, <2>2, FinishTyped
  <2>4. Typed'
    BY <1>1, <1>4, <1>6, <1>7, <2>3 DEF Typed
  <2>5. FewErrors'
    BY <1>6, <2>3 DEF FewErrors
  <2>6. Frames'
    <3>1. \A k \in 2 .. Len(stack') : k \in 2 .. Len(stack)
      <4>1. Len(stack) \in Nat /\ Len(stack') = Len(stack) - 1
        BY <2>3, TopTyped
      <4> QED
        BY <4>1
    <3>2. \A k \in 2 .. Len(stack') :
            /\ node'[stack[k].blk].type = node[stack[k].blk].type
            /\ node'[stack[k].blk].next = node[stack[k].blk].next
            /\ node'[stack[k].blk].name = node[stack[k].blk].name
      BY <1>4, <1>7, <3>1
    <3> QED
      BY <1>7, <2>3, <3>2, FramesKept
  <2>7. Owned(Len(node'), Kids', freed', Roots')
    BY <1>2, <1>5, <2>3
  <2> QED
    BY <1>4, <2>3, <2>4, <2>5, <2>6, <2>7 DEF Keeps, Owned
<1>9. CASE pc' = "body" /\ stack' = stack /\ val' = val /\ tblocks' = tblocks
  <2>1. Typed'
    BY <1>1, <1>4, <1>6, <1>7, <1>9 DEF Typed, Modes
  <2>2. FewErrors'
    BY <1>6, <1>9 DEF FewErrors
  <2>3. Frames'
    <3>1. stack' \in {stack, Pop} /\ Len(stack') > 0
      BY <1>9 DEF Frames
    <3>2. \A k \in 2 .. Len(stack') :
            /\ node'[stack[k].blk].type = node[stack[k].blk].type
            /\ node'[stack[k].blk].next = node[stack[k].blk].next
            /\ node'[stack[k].blk].name = node[stack[k].blk].name
      BY <1>4, <1>7, <1>9
    <3> QED
      BY <1>7, <3>1, <3>2, FramesKept
  <2>4. Value'
    BY <1>9 DEF Value
  <2>5. Roots' = {1} \cup {stack[k].blk : k \in 2 .. Len(stack)}
    BY <1>9 DEF Roots
  <2>6. Owned(Len(node'), Kids', freed', Roots')
    BY <1>2, <1>5, <2>5
  <2> QED
    BY <1>4, <2>1, <2>2, <2>3, <2>4, <2>6 DEF Keeps, Owned
<1> QED
  BY <1>1, <1>8, <1>9

(* The branches of v are hung behind those of p.                           *)
LEMMA AdoptNodes ==
  ASSUME Typed, NoTwice, toks' = toks, NEW p \in Nodes, NEW v \in Nodes,
         node' = [node EXCEPT ![p].next = node[v].next]
  PROVE  /\ NodeSet' = NodeSet /\ node' \in Seq(NodeSet) /\ Len(node') = Len(node) /\ NoTwice'
         /\ Nodes' = Nodes
         /\ \A q \in Nodes : node'[q].type = node[q].type /\ node'[q].name = node[q].name
         /\ \A q \in Nodes \ {p} : Kids'[q] = Kids[q] /\ node'[q] = node[q]
         /\ Kids'[p] \subseteq Kids[p] \cup Kids[v]
<1>1. NodeSet' = NodeSet
  BY DEF NodeSet, Words, TokenAt
<1>2. node \in Seq(NodeSet) /\ p \in 1 .. Len(node) /\ node[p] \in NodeSet /\ node[v] \in NodeSet
  BY DEF Typed, Nodes
<1>3. PICK x \in NodeSet, z \in Nat : x = node[p] /\ z = node[v].next
  BY <1>2 DEF NodeSet
<1>4. PICK y : y = [x EXCEPT !.next = z]
  OBVIOUS
<1>5. y \in NodeSet /\ y.subs = x.subs /\ y.type = x.type /\ y.next = z /\ y.name = x.name
  BY <1>3, <1>4 DEF NodeSet
<1>6. /\ node' \in Seq(NodeSet) /\ Len(node') = Len(node) /\ node'[p] = y
      /\ \A q \in Nodes \ {p} : node'[q] = node[q]
  <2>1. node' = [node EXCEPT ![p] = y]
    BY <1>3, <1>4
  <2>2. PICK w \in Seq(NodeSet) : w = node /\ p \in 1 .. Len(w)
    BY <1>2
  <2>3. [w EXCEPT ![p] = y] \in Seq(NodeSet) /\ Len([w EXCEPT ![p] = y]) = Len(w)
    BY <1>5, <2>2, ExceptSeq
  <2>4. node' \in Seq(NodeSet) /\ Len(node') = Len(node)
    BY <2>1, <2>2, <2>3
  <2>5. node'[p] = y /\ \A q \in 1 .. Len(node) : q # p => node'[q] = node[q]
    BY <1>2, <2>1
  <2> QED
    BY <2>4, <2>5 DEF Nodes
<1>7. Nodes' = Nodes
  BY <1>6 DEF Nodes
<1>8. \A q \in Nodes : node'[q].subs = node[q].subs
  BY <1>3, <1>5, <1>6
<1>9. NoTwice'
  BY <1>7, <1>8 DEF NoTwice
<1>10. Kids'[p] \subseteq Kids[p] \cup Kids[v]
  <2>1. Kids'[p] = {x.subs[k] : k \in DOMAIN x.subs} \cup ({z} \ {0})
    <3>1. PICK s : s = x.subs /\ s = node'[p].subs /\ z = node'[p].next
      BY <1>5, <1>6
    <3>2. Kids'[p] = {s[k] : k \in DOMAIN s} \cup ({z} \ {0})
      BY <1>7, <3>1 DEF Kids, Children
    <3> QED
      BY <3>1, <3>2
  <2>2. /\ Kids[p] = {x.subs[k] : k \in DOMAIN x.subs} \cup ({x.next} \ {0})
        /\ {z} \ {0} \subseteq Kids[v]
    BY <1>3 DEF Kids, Children
  <2> QED
    BY <2>1, <2>2
<1>11. \A q \in Nodes \ {p} : Kids'[q] = Kids[q]
  BY <1>6, <1>7 DEF Kids, Children
<1>12. \A q \in Nodes : node'[q].type = node[q].type /\ node'[q].name = node[q].name
  BY <1>3, <1>5, <1>6
<1> QED
  BY <1>1, <1>6, <1>7, <1>9, <1>10, <1>11, <1>12

(* The branches of an alternative that came back are hung behind the       *)
(* others.                                                                 *)
LEMMA TakeAlternativeStep ==
  ASSUME IInv, TakeAlternative
  PROVE  IInv'
<1> USE DEF IInv
<1>1. /\ pc = "return" /\ toks' = toks /\ errors' = errors /\ cur' = cur
      /\ freed' = freed \cup {val} /\ Top.kind = "IF" /\ Finish
      /\ node' = [node EXCEPT ![Top.node].next = node[val].next]
  BY DEF TakeAlternative
<1>2. /\ Len(node) \in Nat /\ Owned(Len(node), Kids, freed, Roots)
      /\ val \in Roots /\ val \in Nodes
      /\ Top.node \in Nodes /\ Top.node \in (1 .. Len(node)) \ freed /\ Top.node < val
      /\ {1} \cup {stack[k].blk : k \in 2 .. Len(stack)} \subseteq Roots \ {val}
  BY <1>1, Returned
<1>3. PICK p \in Nodes, v \in Nodes : p = Top.node /\ v = val
  BY <1>2
<1>4. /\ NodeSet' = NodeSet /\ node' \in Seq(NodeSet) /\ Len(node') = Len(node) /\ NoTwice'
      /\ Nodes' = Nodes
      /\ \A q \in Nodes : node'[q].type = node[q].type /\ node'[q].name = node[q].name
      /\ \A q \in Nodes \ {p} : Kids'[q] = Kids[q] /\ node'[q] = node[q]
      /\ Kids'[p] \subseteq Kids[p] \cup Kids[v]
  <2>1. node' = [node EXCEPT ![p].next = node[v].next]
    BY <1>1, <1>3
  <2> QED
    BY <1>1, <2>1, AdoptNodes
<1>5. \A S : S \subseteq Roots \ {val} => Owned(Len(node'), Kids', freed', S)
  <2> TAKE S
  <2> HAVE S \subseteq Roots \ {val}
  <2>1. PICK L, N, R : L = Kids' /\ N = Len(node) /\ R = Roots
    OBVIOUS
  <2>2. /\ N \in Nat /\ Owned(N, Kids, freed, R) /\ p \in (1 .. N) \ freed /\ v \in R /\ p < v
        /\ L[p] \subseteq Kids[p] \cup Kids[v] /\ \A q \in (1 .. N) \ {p} : L[q] = Kids[q]
        /\ S \subseteq R \ {v}
    BY <1>2, <1>3, <1>4, <2>1 DEF Nodes
  <2>3. Owned(N, L, freed \cup {v}, S)
    BY <2>2, AdoptOwned
  <2> QED
    BY <1>1, <1>3, <1>4, <2>1, <2>3
<1>6. /\ Len(stack) \in Nat /\ Len(stack) > 1 /\ FrameOK(Top) /\ Len(stack) \in DOMAIN stack
      /\ \A k \in 1 .. Len(stack) - 1 : stack[k].node < Top.blk
  <2>1. /\ Len(stack) \in Nat /\ Len(stack) \in DOMAIN stack
        /\ Top.kind = "template" <=> Len(stack) = 1
        /\ Len(stack) > 1 => FrameOK(Top)
        /\ \A k \in 1 .. Len(stack) - 1 : stack[k].node < Top.blk
    BY TopTyped
  <2>2. Len(stack) > 1
    <3>1. PICK n \in Nat : n = Len(stack) /\ n # 1 /\ n > 0
      BY <1>1, <2>1 DEF Frames
    <3> QED
      BY <3>1
  <2> QED
    BY <2>1, <2>2
<1>7. Top.blk \in Nodes /\ node'[Top.blk].type = node[Top.blk].type
  BY <1>4, <1>6 DEF FrameOK
<1>8. /\ tblocks' \in [Names -> 0 .. Len(node')]
      /\ val' = Top.blk /\ val' \in 0 .. Len(node')
      /\ pc' = "return" /\ pc' \in Modes
      /\ stack' = Pop /\ Len(stack') = Len(stack) - 1 /\ Len(stack') > 0
      /\ Value'
      /\ Roots' \subseteq {1} \cup {stack[k].blk : k \in 2 .. Len(stack)}
  BY <1>1, <1>4, <1>6, <1>7, FinishTyped
<1>9. Typed'
  <2>1. Len(node') > 0 /\ freed' \subseteq Nodes'
    BY <1>1, <1>2, <1>4 DEF Typed
  <2> QED
    BY <1>1, <1>4, <1>8, <2>1 DEF Typed
<1>10. FewErrors'
  BY <1>1, <1>8 DEF FewErrors
<1>11. Frames'
  <2>1. Len(node') \in Nat /\ Len(node) <= Len(node')
    BY <1>2, <1>4
  <2>2. ASSUME NEW k \in 2 .. Len(stack') PROVE stack[k].blk \in Nodes \ {p}
    <3>1. k \in 2 .. Len(stack) /\ k \in 1 .. Len(stack) - 1
      BY <1>6, <1>8
    <3>2. FrameOK(stack[k]) /\ stack[k].node < Top.blk
      BY <1>6, <3>1 DEF Frames
    <3>3. /\ stack[k].blk \in Nodes /\ stack[k].node \in stack[k].blk .. Len(node)
          /\ Top.blk \in Nodes /\ Top.node \in Top.blk .. Len(node)
      BY <1>6, <3>2 DEF FrameOK
    <3>4. stack[k].blk # Top.node
      BY <1>2, <3>2, <3>3 DEF Nodes
    <3> QED
      BY <1>3, <3>3, <3>4
  <2>3. \A k \in 2 .. Len(stack') :
          /\ node'[stack[k].blk].type = node[stack[k].blk].type
          /\ node'[stack[k].blk].next = node[stack[k].blk].next
          /\ node'[stack[k].blk].name = node[stack[k].blk].name
    BY <1>4, <2>2
  <2> QED
    BY <1>8, <2>1, <2>3, FramesKept
<1>12. Owned(Len(node'), Kids', freed', Roots')
  BY <1>2, <1>5, <1>8
<1> QED
  BY <1>4, <1>8, <1>9, <1>10, <1>11, <1>12 DEF Keeps, Owned

(* All below a branch of a condition, and the condition, is reached from   *)
(* nowhere else.                                                           *)
LEMMA GoneAlone ==
  ASSUME IInv, pc = "fail", Len(stack) > 1, NEW gone,
         gone = (IF Top.kind = "IF" THEN Below(Top.node) ELSE {}) \cup {Top.blk}
  PROVE  /\ gone \subseteq Nodes
         /\ \A x \in gone : Top.blk <= x
         /\ \A p \in (1 .. Len(node)) \ freed : \A c \in Kids[p] : c \in gone => p \in gone
<1> USE DEF IInv
<1>1. /\ Len(stack) \in Nat /\ Len(stack) \in DOMAIN stack /\ Top = stack[Len(stack)]
      /\ FrameOK(Top) /\ Len(stack) \in 2 .. Len(stack) /\ Top.node \in Nodes
  BY TopTyped
<1>2. Len(node) \in Nat /\ Owned(Len(node), Kids, freed, Roots) /\ Upward(Len(node), Kids)
  BY DEF Typed, Keeps
<1>3. Top.blk \in Roots /\ Top.blk \in Nodes \ freed /\ Top.blk \in Nat
  <2>1. Top.blk \in Roots
    BY <1>1 DEF Roots
  <2>2. Top.blk \in (1 .. Len(node)) \ freed
    BY <1>2, <2>1 DEF Owned
  <2>3. Top.blk \in Nat
    BY <1>2, <2>2
  <2> QED
    BY <2>1, <2>2, <2>3 DEF Nodes
<1>4. Top.node \in Nodes \ freed /\ Top.node \in 1 .. Len(node) /\ Top.blk <= Top.node
  BY <1>1, <1>2, BodiesAlive DEF FrameOK, Nodes
<1>5. \A p \in (1 .. Len(node)) \ freed : Top.blk \notin Kids[p]
  BY <1>2, <1>3 DEF Owned
<1>6. CASE Top.kind # "IF"
  BY <1>3, <1>5, <1>6
<1>7. CASE Top.kind = "IF"
  <2> DEFINE B == Below(Top.node)
  <2>1. B \subseteq Nodes \ freed /\ B = Reached(Len(node), Kids, Top.node)
    BY <1>4, BelowAlive
  <2>2. PICK n, N, K : n = Top.node /\ N = Len(node) /\ K = Kids
    OBVIOUS
  <2>3. /\ Reached(N, K, n) \subseteq n .. N
        /\ \A x \in Reached(N, K, n) : x # n => \E p \in Reached(N, K, n) : x \in K[p]
    <3>1. N \in Nat /\ Upward(N, K) /\ n \in 1 .. N
      BY <1>2, <1>4, <2>2
    <3> QED
      BY <3>1, ReachedAbove, ReachedParent
  <2>4. /\ B \subseteq Top.node .. Len(node)
        /\ \A x \in B : x # Top.node => \E p \in B : x \in Kids[p]
    BY <2>1, <2>2, <2>3
  <2> HIDE DEF B
  <2>5. gone = B \cup {Top.blk}
    BY <1>7 DEF B
  <2>6. Top.node \in Kids[Top.blk]
    <3>1. node[Top.blk].next = Top.node /\ Top.node # 0
      BY <1>1, <1>4, <1>7 DEF FrameOK
    <3> QED
      BY <3>1, <1>3 DEF Kids, Children
  <2>7. ASSUME NEW p \in (1 .. Len(node)) \ freed, NEW c \in Kids[p], c \in gone
        PROVE  p \in gone
    <3>1. c # Top.blk
      BY <1>5, <2>7
    <3>2. CASE c = Top.node
      <4>1. p = Top.blk
        BY <1>2, <1>3, <2>6, <2>7, <3>2 DEF Owned, Nodes
      <4> QED
        BY <2>5, <4>1
    <3>3. CASE c # Top.node
      <4>1. PICK q \in B : c \in Kids[q]
        BY <2>4, <2>5, <2>7, <3>1, <3>3
      <4>2. p = q
        BY <1>2, <2>1, <2>7, <4>1 DEF Owned, Nodes, B
      <4> QED
        BY <2>5, <4>1, <4>2
    <3> QED
      BY <3>2, <3>3
  <2>8. \A x \in gone : Top.blk <= x
    <3>1. \A x \in B : x \in Nat /\ Top.node <= x
      BY <1>2, <1>4, <2>4
    <3>2. Top.node \in Nat
      BY <1>4
    <3> QED
      BY <1>3, <1>4, <2>5, <3>1, <3>2
  <2>9. B \subseteq Nodes
    BY <2>1 DEF B
  <2> QED
    BY <1>3, <2>5, <2>7, <2>8, <2>9
<1> QED
  BY <1>6, <1>7

(* A NULL that came back frees the block of the call.                      *)
LEMMA UnwindStep ==
  ASSUME IInv, Unwind
  PROVE  IInv'
<1> USE DEF IInv
<1>1. pc = "fail" /\ Top.kind # "template"
  BY DEF Unwind
<1> DEFINE gone == (IF Top.kind = "IF" THEN Below(Top.node) ELSE {}) \cup {Top.blk}
<1>2. \/ Crash
      \/ /\ stack' = Pop /\ freed' = freed \cup gone
         /\ UNCHANGED <<toks, cur, errors, node, tblocks, pc, val>>
  BY DEF Unwind
<1>3. CASE Crash
  BY <1>1, <1>3, CrashStep
<1>4. CASE /\ stack' = Pop /\ freed' = freed \cup gone
           /\ UNCHANGED <<toks, cur, errors, node, tblocks, pc, val>>
  <2>1. /\ Len(stack) \in Nat /\ Len(stack) > 1
        /\ \A k \in 1 .. Len(stack) - 1 : stack[k].node < Top.blk
        /\ Top.blk \in Nat
    <3>1. /\ Len(stack) \in Nat /\ Len(stack) # 1 /\ Top.blk \in Nat
          /\ \A k \in 1 .. Len(stack) - 1 : stack[k].node < Top.blk
      BY <1>1, TopTyped
    <3>2. PICK n \in Nat : n = Len(stack) /\ n > 0 /\ n # 1
      BY <3>1 DEF Frames
    <3>3. n > 1
      BY <3>2
    <3> QED
      BY <3>1, <3>2, <3>3
  <2>2. /\ gone \subseteq Nodes
        /\ \A x \in gone : Top.blk <= x
        /\ \A p \in (1 .. Len(node)) \ freed : \A c \in Kids[p] : c \in gone => p \in gone
    BY <1>1, <2>1, GoneAlone
  <2> HIDE DEF gone
  <2>3. /\ NodeSet' = NodeSet /\ Nodes' = Nodes /\ Kids' = Kids
        /\ NoTwice' /\ Upward(Len(node'), Kids')
    BY <1>4, SameNodes
  <2>4. Typed'
    BY <1>4, <2>2, <2>3 DEF Typed
  <2>5. FewErrors' /\ Value'
    BY <1>1, <1>4 DEF FewErrors, Value
  <2>6. /\ Len(stack') = Len(stack) - 1 /\ Len(stack') > 0
        /\ \A k \in 1 .. Len(stack) - 1 : stack'[k] = stack[k]
    BY <1>4, <2>1 DEF Pop, Frames
  <2>7. Frames'
    <3>1. Len(node') \in Nat /\ Len(node) <= Len(node')
      BY <1>4 DEF Typed
    <3> QED
      BY <1>4, <2>6, <3>1, FramesKept
  <2>8. Len(node) \in Nat /\ Owned(Len(node), Kids, freed, Roots)
        /\ Roots = {1} \cup {stack[k].blk : k \in 2 .. Len(stack)}
    BY <1>1 DEF Typed, Keeps, Roots
  <2>9. Roots' \subseteq Roots \ gone
    <3>1. Roots' = {1} \cup {stack'[k].blk : k \in 2 .. Len(stack) - 1}
      BY <1>1, <1>4, <2>6 DEF Roots
    <3>2. ASSUME NEW k \in 2 .. Len(stack) - 1
          PROVE  stack'[k].blk \in Roots /\ stack'[k].blk < Top.blk /\ stack'[k].blk \in Nat
      <4>1. k \in 2 .. Len(stack) /\ k \in 1 .. Len(stack) - 1
        BY <2>1
      <4>2. FrameOK(stack[k]) /\ stack[k].node < Top.blk /\ stack'[k] = stack[k]
        BY <2>1, <2>6, <4>1 DEF Frames
      <4>3. stack[k].blk \in Nat /\ stack[k].node \in Nat /\ stack[k].blk <= stack[k].node
        BY <2>8, <4>2 DEF FrameOK, Nodes
      <4>4. stack[k].blk < Top.blk
        BY <2>1, <4>2, <4>3
      <4> QED
        BY <2>8, <4>1, <4>2, <4>3, <4>4
    <3>3. 1 \in Roots /\ 1 < Top.blk
      <4>1. stack[1].node = 1 /\ 1 \in 1 .. Len(stack) - 1
        BY <2>1 DEF Frames, Template
      <4> QED
        BY <2>1, <2>8, <4>1
    <3>4. ASSUME NEW x \in Roots' PROVE x \in Roots /\ x \notin gone
      <4>1. x \in Roots /\ x < Top.blk /\ x \in Nat
        BY <3>1, <3>2, <3>3
      <4>2. ~(Top.blk <= x)
        BY <2>1, <4>1
      <4> QED
        BY <2>2, <4>1, <4>2
    <3> QED
      BY <3>4
  <2>10. Owned(Len(node'), Kids', freed', Roots')
    <3>1. PICK S : S = Roots'
      OBVIOUS
    <3>2. Owned(Len(node), Kids, freed \cup gone, S)
      BY <2>2, <2>8, <2>9, <3>1, ReleaseOwned
    <3> QED
      BY <1>4, <2>3, <3>1, <3>2
  <2> QED
    BY <2>3, <2>4, <2>5, <2>7, <2>10 DEF Keeps
<1> QED
  BY <1>2, <1>3, <1>4

(* The end of the parse, and what becomes of the template.                 *)
LEMMA EndStep ==
  ASSUME IInv, GiveUp \/ Accept \/ Reject
  PROVE  IInv'
<1> USE DEF IInv
<1>1. CASE Crash /\ pc = "parsed"
  BY <1>1, CrashStep
<1>2. CASE /\ UNCHANGED <<toks, cur, errors, stack, node, tblocks, val>>
           /\ \/ pc = "fail" /\ pc' = "parsed" /\ freed' = freed
              \/ pc = "parsed" /\ pc' = "accepted" /\ freed' = freed
              \/ pc = "parsed" /\ pc' = "rejected" /\ freed' = freed \cup Below(1)
  <2>1. /\ NodeSet' = NodeSet /\ Nodes' = Nodes /\ Kids' = Kids
        /\ NoTwice' /\ Upward(Len(node'), Kids')
    BY <1>2, SameNodes
  <2>2. Below(1) \subseteq Nodes
    <3>1. 1 \in Nodes /\ Len(node) \in Nat
      BY DEF Typed, Nodes
    <3>2. Below(1) = Reached(Len(node), Kids, 1)
      BY <3>1, BelowIs
    <3> QED
      BY <3>2 DEF Reached, Nodes
  <2>3. Typed'
    BY <1>2, <2>1, <2>2 DEF Typed, Modes
  <2>4. FewErrors' /\ Value'
    BY <1>2 DEF FewErrors, Value
  <2>5. Frames'
    BY <1>2, <2>1 DEF Frames, FrameOK, Template
  <2>6. Keeps'
    <3>1. CASE pc' = "rejected"
      BY <3>1 DEF Keeps
    <3>2. CASE pc' # "rejected"
      <4>1. freed' = freed /\ pc \notin {"crashed", "rejected"}
        BY <1>2, <3>2
      <4>2. Roots' = Roots
        BY <1>2 DEF Roots
      <4> QED
        BY <1>2, <2>1, <4>1, <4>2 DEF Keeps
    <3> QED
      BY <3>1, <3>2
  <2> QED
    BY <2>1, <2>3, <2>4, <2>5, <2>6
<1> QED
  BY <1>1, <1>2 DEF GiveUp, Accept, Reject

(* Each case of a block ends in one of four ways.                          *)
LEMMA BlockEnds ==
  ASSUME IInv,
         \/ Content \/ StrayBrace \/ Variable \/ Break \/ Extends \/ For \/ If
         \/ Alternative \/ TBlock \/ Close \/ NoKeyword
  PROVE  Ended /\ pc = "body"
<1>1. pc = "body"
  BY DEF Content, StrayBrace, Variable, Break, Extends, For, If, Alternative, TBlock,
         Close, NoKeyword, Tag, Block
<1>2. Typed /\ FewErrors /\ Frames
  BY DEF IInv
<1> QED
  BY <1>1, <1>2, ContentEnds, StrayBraceEnds, VariableEnds, BreakEnds, ExtendsEnds, ForEnds,
     IfEnds, AlternativeEnds, TBlockEnds, CloseEnds, NoKeywordEnds

(* Every step keeps the invariant.                                         *)
LEMMA NextIInv ==
  ASSUME IInv, [Next]_vars
  PROVE  IInv'
<1> USE DEF IInv
<1>1. ASSUME \/ Content \/ StrayBrace \/ Variable \/ Break \/ Extends \/ For \/ If
             \/ Alternative \/ TBlock \/ Close \/ NoKeyword
      PROVE  Ended /\ pc = "body"
  <2>1. IInv
    OBVIOUS
  <2> HIDE DEF IInv
  <2> QED
    BY <1>1, <2>1, BlockEnds
<1>2. CASE UNCHANGED vars
  <2>1. node' = node /\ toks' = toks
    BY <1>2 DEF vars
  <2>2. /\ NodeSet' = NodeSet /\ Nodes' = Nodes /\ Kids' = Kids
        /\ NoTwice' /\ Upward(Len(node'), Kids')
    BY <2>1, SameNodes
  <2>3. Typed' /\ FewErrors' /\ Value'
    BY <1>2, <2>2 DEF vars, Typed, FewErrors, Value, Top
  <2>4. Frames' /\ Keeps'
    BY <1>2, <2>2 DEF vars, Frames, FrameOK, Template, Keeps, Roots
  <2> QED
    BY <2>2, <2>3, <2>4
<1>3. ASSUME Ended, pc = "body" PROVE IInv'
  BY <1>3, EndedStep
<1> HIDE DEF IInv
<1> QED
  BY <1>1, <1>2, <1>3, EndOfSourceStep, TakeStep, TakeAlternativeStep, UnwindStep, EndStep DEF Next

-----------------------------------------------------------------------------
(* Whatever the template, no block that the tree or a call in progress     *)
(* leads to is freed, and none is reached twice.                           *)
THEOREM TreeOwnedOnce == Spec => []OwnedOnce
<1>1. IInv /\ [Next]_vars => IInv'
  BY NextIInv
<1> QED
  BY InitIInv, <1>1, OwnedOnceHolds, PTL DEF Spec

-----------------------------------------------------------------------------
(* A second invariant, of parses without an error: what was made so far    *)
(* accounts for the tokens that were read.                                 *)

(* What was not freed.                                                     *)
Alive == Nodes \ freed

(* What is below a node.                                                   *)
Reach(n) == Reached(Len(node), Kids, n)

(* How many tokens the blocks that were made account for: the last brace   *)
(* of a closing tag is taken by the body around it.                        *)
Read ==
  IF pc # "return" THEN cur - 1
  ELSE IF node[val].type = "CLOSE" THEN cur + 1
  ELSE IF cur <= Len(toks) THEN cur ELSE Len(toks)

(* A node has tokens of its own unless it is a template or a condition.    *)
Extents ==
  /\ Read \in 0 .. Len(toks)
  /\ \A n \in Alive :
       /\ \/ node[n].from = 1 /\ node[n].to = 0
          \/ node[n].from \in 1 .. node[n].to /\ node[n].to <= Read
       /\ node[n].type \in {"FOR", "BLOCK", "branch"} => node[n].to # 0
       /\ node[n].type = "IF" =>
            node[n].to = 0 /\ node[n].subs = << >> /\ node[n].next # 0

(* Nodes are allocated in the order of their tokens,                       *)
InOrder ==
  \A m, n \in Alive : m < n /\ node[n].to # 0 => node[m].to < node[n].from

(* and leave none of them out.                                             *)
Covered == \A i \in 1 .. Read : \E n \in Alive : i \in Own(n)

(* What is allocated later is below a node, or behind all that is.         *)
Laminar(N, K, A) ==
  \A m, n \in A : m < n => n \in Reached(N, K, m) \/ \A x \in Reached(N, K, m) : x < n

Nested == Laminar(Len(node), Kids, Alive)

(* Bodies are in order, with the next branch behind them.                  *)
Sorted ==
  \A n \in Alive : \A k \in DOMAIN node[n].subs :
    /\ \A l \in DOMAIN node[n].subs : k < l => node[n].subs[k] < node[n].subs[l]
    /\ node[n].next # 0 => node[n].subs[k] < node[n].next

(* What is behind the body of the k-th call and all below it.              *)
Limit(k) ==
  IF k < Len(stack) THEN stack[k + 1].blk
  ELSE IF pc = "return" THEN val ELSE Len(node) + 1

Between(p, q) == {x \in Alive : p <= x /\ x < q}

(* All that is alive is in one of the bodies being read, or is the block   *)
(* that came back or below it.                                             *)
Regions ==
  /\ \A k \in DOMAIN stack :
       /\ Reach(stack[k].node) = Between(stack[k].node, Limit(k))
       /\ stack[k].node <= stack[k].blk + 1
  /\ pc = "return" => Reach(val) = Between(val, Len(node) + 1)

Closing(n) == node[n].type = "CLOSE"

(* The bodies being read are still open.                                   *)
OpenBodies ==
  \A k \in DOMAIN stack :
    LET p == stack[k].node IN
    /\ node[p].next = 0
    /\ \A j \in DOMAIN node[p].subs : ~Closing(node[p].subs[j])
    /\ k = 1 => node[p].type = "template"
    /\ stack[k].kind = "IF" => node[p].type = "branch"

ClosesOf(n, c) == <<ClosedBy(n), toks[node[c].from + 2]>> \in Closings

(* A closing tag ends a body of its kind.                                  *)
ClosingLast ==
  /\ \A n \in Alive : \A k \in DOMAIN node[n].subs :
       Closing(node[n].subs[k]) =>
         k = Len(node[n].subs) /\ ClosesOf(n, node[n].subs[k])
  /\ pc = "return" /\ Closing(val) => ClosesOf(Top.node, val)

(* A body that is no longer read was ended.                                *)
BodyEnded(n) ==
  \/ node[n].subs # << >> /\ Closing(node[n].subs[Len(node[n].subs)])
  \/ node[n].next # 0
  \/ \E m \in Reach(n) : Len(toks) \in Own(m)

Bodies == {stack[k].node : k \in DOMAIN stack}

AllEnded ==
  \A n \in Alive \ Bodies : node[n].type \in {"FOR", "BLOCK", "branch"} => BodyEnded(n)

(* tblocks has the block that ended last.                                  *)
Opened == {stack[k].blk : k \in DOMAIN stack}

Latest ==
  \A name \in Names :
    LET t == tblocks[name] IN
    /\ t # 0 => t \in Alive /\ node[t].type = "BLOCK" /\ node[t].name = name
    /\ \A n \in Alive \ Opened :
         node[n].type = "BLOCK" /\ node[n].name = name =>
           t # 0 /\ (n \in Reach(t) \/ \A x \in Reach(n) : x < t)

(* Together:                                                               *)
Track ==
  /\ Extents /\ InOrder /\ Covered /\ Nested /\ Sorted /\ Regions
  /\ OpenBodies /\ ClosingLast /\ AllEnded /\ Latest

(* As long as nothing failed. A failure leaves an error, or tokens that    *)
(* nobody reads.                                                           *)
Failed == errors > 0 \/ Type(cur) # "EOF"

TInv ==
  /\ pc \in {"body", "return"} => Track
  /\ pc \in {"parsed", "accepted"} => Failed \/ (Track /\ Len(stack) = 1)
  /\ pc = "accepted" => errors = 0
  /\ pc = "fail" => Failed
-----------------------------------------------------------------------------
(* What is reached from a node stays so if the nodes there keep their      *)
(* children.                                                               *)
LEMMA ReachedSame ==
  ASSUME NEW N \in Nat, NEW K, Upward(N, K), NEW M \in Nat, N <= M, NEW L, Upward(M, L),
         NEW n \in 1 .. N, \A x \in Reached(N, K, n) : L[x] = K[x]
  PROVE  Reached(M, L, n) = Reached(N, K, n)
<1> DEFINE R == Reached(N, K, n)
           Q == Reached(M, L, n)
<1>1. n \in R /\ ClosedUnder(N, K, R) /\ R \subseteq 1 .. N
  BY ReachedClosed DEF Reached
<1>2. n \in 1 .. M /\ 1 .. N \subseteq 1 .. M
  OBVIOUS
<1>3. n \in Q /\ ClosedUnder(M, L, Q)
  BY <1>2, ReachedClosed
<1>4. Q \subseteq R
  <2>1. R \subseteq 1 .. M
    BY <1>1, <1>2
  <2>2. ClosedUnder(M, L, R)
    BY <1>1 DEF ClosedUnder
  <2> HIDE DEF R
  <2> QED
    BY <1>1, <2>1, <2>2, ReachedLeast
<1>5. R \subseteq Q
  <2>1. ClosedUnder(N, K, Q \cap R)
    <3>1. ASSUME NEW p \in 1 .. N, p \in Q, p \in R PROVE K[p] \subseteq Q \cap R
      <4>1. L[p] = K[p]
        BY <3>1
      <4>2. K[p] \subseteq R
        BY <1>1, <3>1 DEF ClosedUnder
      <4>3. L[p] \subseteq Q
        BY <1>2, <1>3, <3>1 DEF ClosedUnder
      <4> QED
        BY <4>1, <4>2, <4>3
    <3> QED
      BY <3>1 DEF ClosedUnder
  <2>2. n \in Q \cap R /\ Q \cap R \subseteq 1 .. N
    BY <1>1, <1>3
  <2> HIDE DEF Q
  <2>3. R \subseteq Q \cap R
    BY <2>1, <2>2, ReachedLeast
  <2> QED
    BY <2>3
<1> QED
  BY <1>4, <1>5

(* Children are added: nothing that was reached is lost,                   *)
LEMMA ReachedMore ==
  ASSUME NEW N \in Nat, NEW K, Upward(N, K), NEW L, Upward(N, L),
         \A p \in 1 .. N : K[p] \subseteq L[p], NEW n \in 1 .. N
  PROVE  Reached(N, K, n) \subseteq Reached(N, L, n)
<1> DEFINE Q == Reached(N, L, n)
<1>1. n \in Q /\ ClosedUnder(N, L, Q) /\ Q \subseteq 1 .. N
  BY ReachedClosed DEF Reached
<1>2. ClosedUnder(N, K, Q)
  BY <1>1 DEF ClosedUnder
<1> HIDE DEF Q
<1> QED
  BY <1>1, <1>2, ReachedLeast DEF Q

(* and below p is what was and what is below the new child.                *)
LEMMA ReachedAdd ==
  ASSUME NEW N \in Nat, NEW K, Upward(N, K), NEW p \in 1 .. N, NEW C, C \subseteq p + 1 .. N,
         NEW L, L[p] = K[p] \cup C, \A q \in (1 .. N) \ {p} : L[q] = K[q]
  PROVE  /\ Upward(N, L)
         /\ \A x \in p + 1 .. N : Reached(N, L, x) = Reached(N, K, x)
         /\ Reached(N, L, p) = Reached(N, K, p) \cup UNION {Reached(N, K, c) : c \in C}
<1>1. Upward(N, L)
  BY DEF Upward
<1>2. ASSUME NEW x \in p + 1 .. N PROVE Reached(N, L, x) = Reached(N, K, x)
  <2>1. x \in 1 .. N
    OBVIOUS
  <2>2. Reached(N, K, x) \subseteq x .. N
    BY <2>1, ReachedAbove
  <2>3. \A y \in Reached(N, K, x) : y \in (1 .. N) \ {p}
    BY <2>2
  <2>4. \A y \in Reached(N, K, x) : L[y] = K[y]
    BY <2>3
  <2> QED
    BY <1>1, <2>1, <2>4, ReachedSame
<1>3. Reached(N, L, p) = {p} \cup UNION {Reached(N, L, c) : c \in L[p]}
  BY <1>1, ReachedIs
<1>4. Reached(N, K, p) = {p} \cup UNION {Reached(N, K, c) : c \in K[p]}
  BY ReachedIs
<1>5. K[p] \subseteq p + 1 .. N
  BY DEF Upward
<1>6. \A c \in K[p] \cup C : Reached(N, L, c) = Reached(N, K, c)
  BY <1>2, <1>5
<1> QED
  BY <1>1, <1>2, <1>3, <1>4, <1>6

(* A root is reached from nowhere else,                                    *)
LEMMA RootAlone ==
  ASSUME NEW N \in Nat, NEW K, NEW fr, NEW R, Owned(N, K, fr, R),
         NEW b \in R, NEW n \in (1 .. N) \ fr, n # b
  PROVE  b \notin Reached(N, K, n)
<1> SUFFICES ASSUME b \in Reached(N, K, n) PROVE FALSE
  OBVIOUS
<1>1. Upward(N, K)
  BY DEF Owned
<1>2. PICK q \in Reached(N, K, n) : b \in K[q]
  BY <1>1, ReachedParent
<1>3. q \in (1 .. N) \ fr
  <2>1. ClosedUnder(N, K, (1 .. N) \ fr)
    BY DEF Owned, Upward, ClosedUnder
  <2>2. (1 .. N) \ fr \subseteq 1 .. N
    OBVIOUS
  <2>3. Reached(N, K, n) \subseteq (1 .. N) \ fr
    BY <2>1, <2>2, ReachedLeast
  <2> QED
    BY <2>3
<1> QED
  BY <1>2, <1>3 DEF Owned

(* and so is its only child but from there.                                *)
LEMMA ChildAlone ==
  ASSUME NEW N \in Nat, NEW K, NEW fr, NEW R, Owned(N, K, fr, R),
         NEW b \in R, NEW p \in K[b], NEW n \in (1 .. N) \ fr, n # b, n # p
  PROVE  p \notin Reached(N, K, n)
<1> SUFFICES ASSUME p \in Reached(N, K, n) PROVE FALSE
  OBVIOUS
<1>1. Upward(N, K) /\ b \in (1 .. N) \ fr
  BY DEF Owned
<1>2. PICK q \in Reached(N, K, n) : p \in K[q]
  BY <1>1, ReachedParent
<1>3. q \in (1 .. N) \ fr
  <2>1. ClosedUnder(N, K, (1 .. N) \ fr)
    BY DEF Owned, Upward, ClosedUnder
  <2>2. (1 .. N) \ fr \subseteq 1 .. N
    OBVIOUS
  <2>3. Reached(N, K, n) \subseteq (1 .. N) \ fr
    BY <2>1, <2>2, ReachedLeast
  <2> QED
    BY <2>3
<1>4. q = b
  BY <1>1, <1>2, <1>3 DEF Owned
<1> QED
  BY <1>2, <1>4, RootAlone

(* What is alive has its kind of fields, and only leads to more of it that *)
(* was allocated later.                                                    *)
LEMMA Living ==
  ASSUME IInv, pc \notin {"crashed", "rejected"}
  PROVE  /\ Len(node) \in Nat /\ Len(toks) \in Nat /\ Alive \subseteq Nodes
         /\ \A n \in Alive :
              /\ n \in Nat /\ n # 0 /\ n <= Len(node)
              /\ node[n].from \in Nat /\ node[n].to \in Nat /\ node[n].next \in Nat
              /\ node[n].subs \in Seq(Nat)
              /\ Kids[n] \subseteq Alive /\ \A c \in Kids[n] : n < c
              /\ \A k \in DOMAIN node[n].subs : node[n].subs[k] \in Kids[n]
              /\ node[n].next # 0 => node[n].next \in Kids[n]
              /\ n \in Reach(n) /\ Reach(n) \subseteq Alive /\ \A x \in Reach(n) : n <= x
<1>1. /\ ClosedUnder(Len(node), Kids, Alive) /\ Len(node) \in Nat
      /\ Upward(Len(node), Kids)
  BY AliveClosed DEF Alive, IInv
<1>2. Len(toks) \in Nat /\ Alive \subseteq Nodes
  BY SourceAssumption DEF IInv, Typed, Alive
<1>3. ASSUME NEW n \in Alive
      PROVE  /\ n \in Nat /\ n # 0 /\ n <= Len(node)
             /\ node[n].from \in Nat /\ node[n].to \in Nat /\ node[n].next \in Nat
             /\ node[n].subs \in Seq(Nat)
             /\ Kids[n] \subseteq Alive /\ \A c \in Kids[n] : n < c
             /\ \A k \in DOMAIN node[n].subs : node[n].subs[k] \in Kids[n]
             /\ node[n].next # 0 => node[n].next \in Kids[n]
             /\ n \in Reach(n) /\ Reach(n) \subseteq Alive /\ \A x \in Reach(n) : n <= x
  <2>1. n \in 1 .. Len(node) /\ n \in Nodes
    BY <1>1, <1>2 DEF Nodes
  <2>2. /\ node[n].from \in Nat /\ node[n].to \in Nat /\ node[n].next \in Nat
        /\ node[n].subs \in Seq(Nat)
    <3>1. node[n] \in NodeSet
      BY <2>1 DEF IInv, Typed
    <3> QED
      BY <3>1 DEF NodeSet
  <2>3. Kids[n] \subseteq Alive /\ \A c \in Kids[n] : n < c
    BY <1>1, <2>1 DEF ClosedUnder, Upward
  <2>4. /\ \A k \in DOMAIN node[n].subs : node[n].subs[k] \in Kids[n]
        /\ node[n].next # 0 => node[n].next \in Kids[n]
    BY <2>1 DEF Kids, Children
  <2>5. /\ n \in Reached(Len(node), Kids, n) /\ Reached(Len(node), Kids, n) \subseteq n .. Len(node)
    BY <1>1, <2>1, ReachedClosed, ReachedAbove
  <2>6. Reached(Len(node), Kids, n) \subseteq Alive
    <3>1. Alive \subseteq 1 .. Len(node)
      BY <1>2 DEF Nodes
    <3> QED
      BY <1>1, <3>1, ReachedLeast
  <2> QED
    BY <1>1, <2>1, <2>2, <2>3, <2>4, <2>5, <2>6 DEF Reach
<1> QED
  BY <1>1, <1>2, <1>3

-----------------------------------------------------------------------------
(* A block was made, or a body begins: of its nodes the last, M, has the   *)
(* tokens that were read.                                                  *)
Grows(M) ==
  /\ M \in {New, New + 1} /\ Len(node') = M
  /\ toks' = toks /\ freed' = freed /\ tblocks' = tblocks
  /\ \A p \in Nodes : node'[p] = node[p]
  /\ Grown(Len(node), Kids, M, Kids')
  /\ node'[M].from = cur /\ node'[M].to = Read'
  /\ Read' \in Nat /\ cur <= Read' /\ Read' <= Len(toks)
  /\ node'[M].subs = << >> /\ node'[M].next = 0 /\ node'[M].type # "IF"
  /\ M # New => /\ node'[New].from = 1 /\ node'[New].to = 0 /\ node'[New].type = "IF"
                /\ node'[New].subs = << >> /\ node'[New].next = M
                /\ Kids'[New] = {M}

(* The new nodes are alive, and below the others nothing changes.          *)
LEMMA GrowReach ==
  ASSUME IInv, IInv', pc = "body", NEW M, Grows(M)
  PROVE  /\ Len(node) \in Nat /\ M \in Nat /\ M > Len(node)
         /\ Nodes' = Nodes \cup (New .. M) /\ Nodes \cap (New .. M) = {}
         /\ Alive' = Alive \cup (New .. M)
         /\ \A n \in Nodes : Reach(n)' = Reach(n) /\ Reach(n) \subseteq Nodes
         /\ Reach(M)' = {M}
         /\ \A w : w = New /\ w # M => Reach(w)' = {w, M}
<1>1. /\ Len(node) \in Nat /\ M \in Nat /\ M > Len(node) /\ Len(node') = M
      /\ Upward(Len(node), Kids) /\ freed \subseteq Nodes
  BY DEF IInv, Typed, Grows, New
<1>2. PICK L : L = Kids'
  OBVIOUS
<1>3. Upward(M, L) /\ Grown(Len(node), Kids, M, L)
  BY <1>1, <1>2 DEF IInv, Grows
<1>4. Nodes' = Nodes \cup (New .. M) /\ Nodes \cap (New .. M) = {}
  BY <1>1 DEF Nodes, New
<1>5. Alive' = Alive \cup (New .. M)
  BY <1>1, <1>4 DEF Alive, Grows, Nodes
<1>6. ASSUME NEW n \in Nodes PROVE Reach(n)' = Reach(n) /\ Reach(n) \subseteq Nodes
  <2>1. n \in 1 .. Len(node) /\ Len(node) <= M
    BY <1>1 DEF Nodes
  <2>2. Reached(Len(node), Kids, n) \subseteq 1 .. Len(node)
    BY DEF Reached
  <2>3. \A x \in Reached(Len(node), Kids, n) : L[x] = Kids[x]
    BY <1>3, <2>2 DEF Grown
  <2>4. Reached(M, L, n) = Reached(Len(node), Kids, n)
    BY <1>1, <1>3, <2>1, <2>3, ReachedSame
  <2> QED
    BY <1>1, <1>2, <2>2, <2>4 DEF Reach, Nodes
<1>7. M \in 1 .. M /\ Reached(M, L, M) = {M}
  <2>1. M \in 1 .. M
    BY <1>1
  <2>2. Reached(M, L, M) \subseteq M .. M /\ M \in Reached(M, L, M)
    BY <1>1, <1>3, <2>1, ReachedAbove, ReachedClosed
  <2> QED
    BY <1>1, <2>1, <2>2
<1>8. ASSUME M # New PROVE Reached(M, L, New) = {New, M}
  <2>1. New \in 1 .. M /\ L[New] = {M}
    BY <1>1, <1>2, <1>8 DEF Grows, New
  <2>2. Reached(M, L, New) = {New} \cup UNION {Reached(M, L, c) : c \in L[New]}
    BY <1>1, <1>3, <2>1, ReachedIs
  <2> QED
    BY <1>7, <2>1, <2>2
<1> QED
  <2>1. Reach(M)' = {M}
    BY <1>1, <1>2, <1>7 DEF Reach
  <2>2. ASSUME NEW w, w = New, w # M PROVE Reach(w)' = {w, M}
    <3>1. Reached(M, L, w) = {w, M}
      BY <1>8, <2>2
    <3> QED
      BY <1>1, <1>2, <3>1 DEF Reach
  <2> QED
    BY <1>1, <1>4, <1>5, <1>6, <2>1, <2>2

(* What a new node is.                                                     *)
LEMMA GrowNodes ==
  ASSUME IInv, IInv', pc = "body", NEW M, Grows(M)
  PROVE  /\ \A n \in Alive : n \in Nodes /\ n \in Alive' /\ node'[n] = node[n] /\ n < New
         /\ \A n \in Alive' : n \in Alive \/ n = M \/ (n = New /\ M # New)
         /\ M \in Alive' /\ New \in Alive' /\ New \in Nat /\ New <= M
         /\ M # New => M = New + 1
<1>1. /\ Len(node) \in Nat /\ M \in Nat /\ M > Len(node)
      /\ Alive' = Alive \cup (New .. M)
  BY GrowReach
<1>2. M \in {New, New + 1}
  BY DEF Grows
<1>3. /\ New \in New .. M /\ M \in New .. M /\ New \in Nat /\ New <= M
      /\ \A n \in New .. M : n = New \/ n = M
      /\ M # New => M = New + 1
  BY <1>1, <1>2 DEF New
<1>4. \A n \in Alive : n \in Nodes /\ node'[n] = node[n] /\ n < New
  BY <1>1 DEF Alive, Nodes, Grows, New
<1> QED
  BY <1>1, <1>3, <1>4

(* It has the tokens that were read,                                       *)
LEMMA GrowExtents ==
  ASSUME IInv, IInv', pc = "body", NEW M, Grows(M), Extents
  PROVE  Extents'
<1>1. Read = cur - 1 /\ cur \in Nat /\ Len(toks) \in Nat
  BY SourceAssumption DEF Read, IInv, Typed
<1>2. PICK r \in Nat : r = Read' /\ cur <= r /\ r <= Len(toks) /\ cur \in 1 .. r
  BY <1>1 DEF Grows, IInv, Typed
<1>3. toks' = toks
  BY DEF Grows
<1>4. ASSUME NEW n \in Alive'
      PROVE  /\ \/ node'[n].from = 1 /\ node'[n].to = 0
                \/ node'[n].from \in 1 .. node'[n].to /\ node'[n].to <= r
             /\ node'[n].type \in {"FOR", "BLOCK", "branch"} => node'[n].to # 0
             /\ node'[n].type = "IF" =>
                  node'[n].to = 0 /\ node'[n].subs = << >> /\ node'[n].next # 0
  <2>1. CASE n \in Alive
    <3>1. node'[n] = node[n] /\ node[n].to \in Nat
      <4>1. n \in Nodes /\ node'[n] = node[n]
        BY <2>1, GrowNodes
      <4>2. node[n] \in NodeSet
        BY <4>1 DEF IInv, Typed, Nodes
      <4> QED
        BY <4>1, <4>2 DEF NodeSet
    <3>2. node[n].to <= Read => node[n].to <= r
      BY <1>1, <1>2, <3>1
    <3> QED
      BY <2>1, <3>1, <3>2 DEF Extents
  <2>2. CASE n = M
    <3>1. node'[n].from = cur /\ node'[n].to = r /\ node'[n].type # "IF"
      BY <1>2, <2>2 DEF Grows
    <3>2. r # 0
      BY <1>1, <1>2
    <3> QED
      BY <1>2, <3>1, <3>2
  <2>3. CASE n = New /\ M # New
    <3>1. /\ node'[n].from = 1 /\ node'[n].to = 0 /\ node'[n].type = "IF"
          /\ node'[n].subs = << >> /\ node'[n].next = M /\ M # 0
      BY <2>3, GrowReach DEF Grows
    <3> QED
      BY <3>1
  <2> QED
    BY <2>1, <2>2, <2>3, GrowNodes
<1>5. Read' \in 0 .. Len(toks')
  BY <1>1, <1>2, <1>3
<1> QED
  BY <1>2, <1>4, <1>5 DEF Extents

(* The new tokens are behind all that was read,                            *)
LEMMA GrowInOrder ==
  ASSUME IInv, IInv', pc = "body", NEW M, Grows(M), Extents, InOrder, Covered
  PROVE  InOrder' /\ Covered'
<1>1. Read = cur - 1 /\ cur \in Nat
  BY DEF Read, IInv, Typed
<1>2. PICK u, r, z : /\ u \in Nat /\ r \in Nat /\ u = cur /\ r = Read' /\ u <= r
                     /\ Read = u - 1 /\ z = New
  BY <1>1 DEF Grows
<1>3. /\ \A n \in Alive : n \in Nat /\ n < z /\ n \in Alive' /\ node'[n] = node[n]
      /\ \A n \in Alive' : n \in Alive \/ n = M \/ (n = z /\ M # z)
      /\ M \in Alive' /\ z \in Nat /\ M \in Nat /\ z <= M
  BY <1>2, GrowNodes, GrowReach, Living
<1>4. node'[M].from = u /\ node'[M].to = r
  BY <1>2 DEF Grows
<1>5. M # z => node'[z].to = 0
  BY <1>2 DEF Grows
<1>6. \A n \in Alive : node[n].to \in Nat /\ node[n].to < u
  <2> TAKE n \in Alive
  <2>1. node[n].to \in Nat /\ (node[n].to = 0 \/ node[n].to <= u - 1)
    BY <1>2, Living DEF Extents
  <2>2. u \in Nat /\ u > 0
    BY <1>2 DEF IInv, Typed
  <2> QED
    BY <2>1, <2>2
<1>7. ASSUME NEW m \in Alive', NEW n \in Alive', m < n, node'[n].to # 0
      PROVE  node'[m].to < node'[n].from
  <2>1. CASE n \in Alive
    <3>1. m \in Alive
      BY <1>3, <1>7, <2>1
    <3> QED
      BY <1>3, <1>7, <2>1, <3>1 DEF InOrder
  <2>2. CASE n = M
    <3>1. node'[m].to < u
      <4>1. CASE m \in Alive
        BY <1>3, <1>6, <4>1
      <4>2. CASE m = z /\ M # z
        <5>1. u > 0
          BY <1>2 DEF IInv, Typed
        <5> QED
          BY <1>5, <4>2, <5>1
      <4> QED
        BY <1>3, <1>7, <2>2, <4>1, <4>2
    <3> QED
      BY <1>4, <2>2, <3>1
  <2>3. CASE n = z /\ M # z
    BY <1>5, <1>7, <2>3
  <2> QED
    BY <1>3, <2>1, <2>2, <2>3
<1>8. ASSUME NEW i \in 1 .. r PROVE \E n \in Alive' : i \in node'[n].from .. node'[n].to
  <2>1. CASE i \in 1 .. u - 1
    <3>1. PICK n \in Alive : i \in Own(n)
      BY <1>2, <2>1 DEF Covered
    <3> QED
      BY <1>3, <3>1 DEF Own
  <2>2. CASE i \in u .. r
    BY <1>3, <1>4, <2>2
  <2> QED
    BY <1>2, <2>1, <2>2
<1>9. Covered'
  BY <1>2, <1>8 DEF Covered, Own
<1> QED
  BY <1>7, <1>9 DEF InOrder

(* the new nodes behind all that is there, and without bodies.             *)
LEMMA GrowNested ==
  ASSUME IInv, IInv', pc = "body", NEW M, Grows(M), Nested, Sorted
  PROVE  Nested' /\ Sorted'
<1>1. PICK z \in Nat : z = New
  BY GrowNodes
<1>2. /\ \A n \in Alive : n \in Nodes /\ n \in Nat /\ n < z /\ n \in Alive' /\ node'[n] = node[n]
      /\ \A n \in Alive' : n \in Alive \/ n = M \/ (n = z /\ M # z)
      /\ M \in Alive' /\ z \in Nat /\ M \in Nat /\ z <= M
  BY <1>1, GrowNodes, GrowReach, Living
<1>3. /\ \A n \in Alive : Reach(n)' = Reach(n) /\ Reach(n) \subseteq Alive
      /\ M # z => Reach(z)' = {z, M}
  BY <1>1, <1>2, GrowReach, Living
<1>4. ASSUME NEW m \in Alive', NEW n \in Alive', m < n
      PROVE  n \in Reach(m)' \/ \A x \in Reach(m)' : x < n
  <2>1. CASE m \in Alive /\ n \in Alive
    <3>1. n \in Reach(m) \/ \A x \in Reach(m) : x < n
      BY <1>4, <2>1 DEF Nested, Laminar, Reach
    <3> QED
      BY <1>3, <2>1, <3>1
  <2>2. CASE m \in Alive /\ n \notin Alive
    <3>1. z <= n /\ n \in Nat
      BY <1>2, <2>2
    <3>2. ASSUME NEW x \in Reach(m) PROVE x < n
      <4>1. x \in Nat /\ x < z
        BY <1>2, <1>3, <2>2
      <4> QED
        BY <1>2, <3>1, <4>1
    <3> QED
      BY <1>3, <2>2, <3>2
  <2>3. CASE m \notin Alive
    <3>1. m = z /\ n = M /\ M # z
      BY <1>2, <1>4, <2>3
    <3> QED
      BY <1>3, <3>1
  <2> QED
    BY <2>1, <2>2, <2>3
<1>5. Nested'
  BY <1>4 DEF Nested, Laminar, Reach
<1>6. /\ node'[M].subs = << >>
      /\ M # z => node'[z].subs = << >>
  BY <1>1 DEF Grows
<1>7. ASSUME NEW n \in Alive', NEW k \in DOMAIN node'[n].subs
      PROVE  n \in Alive /\ node'[n] = node[n]
  <2>1. node'[n].subs # << >>
    BY <1>7
  <2> QED
    BY <1>2, <1>6, <2>1
<1>8. Sorted'
  BY <1>7 DEF Sorted
<1> QED
  BY <1>5, <1>8

(* The block comes back to the body being read,                            *)
Returning(M) ==
  /\ M = New /\ stack' = stack /\ pc' = "return" /\ val' = M
  /\ node'[M].type \notin {"FOR", "IF", "BLOCK", "branch", "template"}
  /\ node'[M].type = "CLOSE" => <<Opening, toks[cur + 2]>> \in Closings

(* or has one itself.                                                      *)
Entering(M) ==
  /\ pc' = "body"
  /\ \E f \in FrameSet :
       /\ stack' = Append(stack, f) /\ f.blk = New /\ f.node = M
       /\ f.kind = "IF" => node'[M].type = "branch"
       /\ f.kind # "IF" => M = New

(* The calls that were there are, and the new block is behind their bodies.*)
LEMMA GrowStack ==
  ASSUME IInv, IInv', pc = "body", NEW M, Grows(M), Returning(M) \/ Entering(M)
  PROVE  /\ Len(stack) \in Nat /\ DOMAIN stack = 1 .. Len(stack)
         /\ \A k \in DOMAIN stack :
              /\ k \in DOMAIN stack' /\ stack'[k] = stack[k] /\ Limit(k)' = Limit(k)
              /\ Limit(k) \in Nat /\ Limit(k) <= New
              /\ stack[k].node \in Alive /\ stack[k].blk \in Nat
         /\ \A k \in DOMAIN stack' :
              \/ k \in DOMAIN stack
              \/ /\ pc' = "body" /\ k = Len(stack') /\ k > 1
                 /\ stack'[k].blk = New /\ stack'[k].node = M
                 /\ stack'[k].kind = "IF" => node'[M].type = "branch"
                 /\ stack'[k].kind # "IF" => M = New
         /\ pc' = "return" => stack' = stack /\ val' = M /\ M = New
<1>1. /\ stack \in Seq(FrameSet) /\ Len(stack) \in Nat /\ DOMAIN stack = 1 .. Len(stack)
      /\ Len(node) \in Nat /\ Len(stack) > 0
  BY DEF IInv, Frames, Typed
<1>2. PICK N, z : N = Len(node) /\ z = New /\ N \in Nat /\ z = N + 1
  BY <1>1 DEF New
<1>3. ASSUME NEW k \in DOMAIN stack
      PROVE  /\ stack[k].node \in Alive /\ stack[k].blk \in Nat
             /\ Limit(k) = (IF k < Len(stack) THEN stack[k + 1].blk ELSE z)
             /\ Limit(k) \in Nat /\ Limit(k) <= z
  <2>1. stack[k].node \in Alive
    BY BodiesAlive DEF Alive
  <2>2. \A j \in DOMAIN stack : stack[j].blk \in 0 .. N
    BY <1>2, FrameTyped DEF IInv
  <2>3. Limit(k) = (IF k < Len(stack) THEN stack[k + 1].blk ELSE z)
    BY <1>2 DEF Limit, New
  <2>4. CASE k < Len(stack)
    <3>1. k + 1 \in DOMAIN stack
      BY <1>1, <2>4
    <3> QED
      BY <1>2, <2>1, <2>2, <2>3, <2>4, <3>1
  <2>5. CASE ~(k < Len(stack))
    BY <1>2, <2>1, <2>2, <2>3, <2>5
  <2> QED
    BY <2>4, <2>5
<1>4. CASE Returning(M)
  <2>1. stack' = stack /\ pc' = "return" /\ val' = M /\ M = New
    BY <1>4 DEF Returning
  <2>2. \A k \in DOMAIN stack : Limit(k)' = (IF k < Len(stack) THEN stack[k + 1].blk ELSE z)
    BY <1>2, <2>1 DEF Limit
  <2> QED
    BY <1>1, <1>2, <1>3, <2>1, <2>2
<1>5. CASE Entering(M)
  <2>1. PICK f \in FrameSet :
          /\ stack' = Append(stack, f) /\ f.blk = New /\ f.node = M
          /\ f.kind = "IF" => node'[M].type = "branch"
          /\ f.kind # "IF" => M = New
    BY <1>5 DEF Entering
  <2>2. pc' = "body"
    BY <1>5 DEF Entering
  <2>3. /\ Len(stack') = Len(stack) + 1 /\ DOMAIN stack' = 1 .. Len(stack) + 1
        /\ \A k \in 1 .. Len(stack) : stack'[k] = stack[k]
        /\ stack'[Len(stack) + 1] = f
    BY <1>1, <2>1, AppendProperties
  <2>4. ASSUME NEW k \in DOMAIN stack
        PROVE  /\ k \in DOMAIN stack' /\ stack'[k] = stack[k]
               /\ Limit(k)' = (IF k < Len(stack) THEN stack[k + 1].blk ELSE z)
    <3>1. k \in 1 .. Len(stack) /\ k < Len(stack') /\ k \in DOMAIN stack'
      BY <1>1, <2>3
    <3>2. Limit(k)' = stack'[k + 1].blk
      BY <3>1 DEF Limit
    <3>3. CASE k < Len(stack)
      <4>1. k + 1 \in 1 .. Len(stack)
        BY <1>1, <3>3
      <4> QED
        BY <2>3, <3>1, <3>2, <3>3, <4>1
    <3>4. CASE ~(k < Len(stack))
      <4>1. k = Len(stack)
        BY <1>1, <3>4
      <4> QED
        BY <1>2, <2>1, <2>3, <3>1, <3>2, <3>4, <4>1
    <3> QED
      BY <3>3, <3>4
  <2>5. ASSUME NEW k \in DOMAIN stack', k \notin DOMAIN stack
        PROVE  k = Len(stack') /\ k > 1 /\ stack'[k] = f
    <3>1. k = Len(stack) + 1
      BY <1>1, <2>3, <2>5
    <3>2. PICK n \in Nat : n = Len(stack) /\ n > 0
      BY <1>1
    <3> QED
      BY <2>3, <3>1, <3>2
  <2>6. \A k \in DOMAIN stack :
          /\ k \in DOMAIN stack' /\ stack'[k] = stack[k] /\ Limit(k)' = Limit(k)
          /\ Limit(k) \in Nat /\ Limit(k) <= New
          /\ stack[k].node \in Alive /\ stack[k].blk \in Nat
    BY <1>2, <1>3, <2>4
  <2>7. \A k \in DOMAIN stack' :
          \/ k \in DOMAIN stack
          \/ /\ pc' = "body" /\ k = Len(stack') /\ k > 1
             /\ stack'[k].blk = New /\ stack'[k].node = M
             /\ stack'[k].kind = "IF" => node'[M].type = "branch"
             /\ stack'[k].kind # "IF" => M = New
    BY <2>1, <2>2, <2>5
  <2> QED
    BY <1>1, <2>2, <2>6, <2>7
<1> QED
  BY <1>4, <1>5

(* What is new is its own, and behind the bodies that are read.            *)
LEMMA GrowRegions ==
  ASSUME IInv, IInv', pc = "body", NEW M, Grows(M), Returning(M) \/ Entering(M), Regions
  PROVE  Regions'
<1>1. PICK z \in Nat : z = New
  BY GrowNodes
<1>2. /\ \A n \in Alive : n \in Nodes /\ n \in Nat /\ n < z /\ n \in Alive' /\ node'[n] = node[n]
      /\ \A n \in Alive' : n \in Alive \/ n = M \/ (n = z /\ M # z)
      /\ M \in Alive' /\ z \in Nat /\ M \in Nat /\ z <= M /\ Len(node') = M
      /\ M # z => M = z + 1
  BY <1>1, GrowNodes, GrowReach, Living DEF Grows
<1>3. ASSUME NEW p \in Nat, NEW q \in Nat, q <= z
      PROVE  Between(p, q)' = Between(p, q)
  <2>1. \A x \in Alive' : x < q => x \in Alive
    BY <1>2, <1>3
  <2> QED
    BY <1>2, <2>1 DEF Between
<1>4. Between(M, M + 1)' = {M}
  <2>1. \A x \in Alive' : x \in Nat
    BY <1>2
  <2>2. \A x \in Alive' : M <= x /\ x < M + 1 <=> x = M
    BY <1>2, <2>1
  <2> QED
    BY <1>2, <2>2 DEF Between
<1>5. ASSUME NEW k \in DOMAIN stack
      PROVE  (/\ Reach(stack[k].node) = Between(stack[k].node, Limit(k))
              /\ stack[k].node <= stack[k].blk + 1)'
  <2>1. PICK p, q : p = stack[k].node /\ q = Limit(k)
    OBVIOUS
  <2>2. /\ p = stack'[k].node /\ q = Limit(k)' /\ p \in Alive /\ q \in Nat /\ q <= z
    BY <1>1, <2>1, GrowStack
  <2>3. Reach(p)' = Reach(p) /\ Between(p, q)' = Between(p, q)
    BY <1>2, <1>3, <2>2, GrowReach
  <2>4. Reach(p) = Between(p, q) /\ stack[k].node <= stack[k].blk + 1 /\ stack'[k] = stack[k]
    BY <2>1, GrowStack DEF Regions
  <2> QED
    BY <2>1, <2>2, <2>3, <2>4 DEF Reach, Between
<1>6. ASSUME NEW k \in DOMAIN stack', k \notin DOMAIN stack
      PROVE  (/\ Reach(stack[k].node) = Between(stack[k].node, Limit(k))
              /\ stack[k].node <= stack[k].blk + 1)'
  <2>1. /\ pc' = "body" /\ k = Len(stack') /\ stack'[k].blk = z /\ stack'[k].node = M
    BY <1>1, <1>6, GrowStack
  <2>2. Limit(k)' = M + 1
    <3>1. ~(k < Len(stack'))
      <4>1. Len(stack') \in Nat
        BY DEF IInv, Frames
      <4> QED
        BY <2>1, <4>1
    <3> QED
      BY <1>2, <2>1, <3>1 DEF Limit
  <2>3. M <= z + 1
    BY <1>2
  <2>4. Reach(M)' = Between(M, M + 1)'
    BY <1>4, GrowReach
  <2> QED
    BY <2>1, <2>2, <2>3, <2>4 DEF Reach, Between
<1>7. (pc = "return" => Reach(val) = Between(val, Len(node) + 1))'
  <2>1. pc' = "return" => val' = M
    BY GrowStack
  <2>2. Reach(M)' = Between(M, M + 1)'
    BY <1>4, GrowReach
  <2> QED
    BY <1>2, <2>1, <2>2 DEF Reach, Between
<1> QED
  BY <1>5, <1>6, <1>7 DEF Regions

(* The body of a new call is empty; the others are what they were.         *)
LEMMA GrowBodies ==
  ASSUME IInv, IInv', pc = "body", NEW M, Grows(M), Returning(M) \/ Entering(M), OpenBodies
  PROVE  OpenBodies'
<1>1. /\ \A n \in Alive : n \in Alive' /\ node'[n] = node[n]
      /\ \A n \in Alive : Kids[n] \subseteq Alive
      /\ \A n \in Alive : \A j \in DOMAIN node[n].subs : node[n].subs[j] \in Kids[n]
  BY GrowNodes, Living
<1> SUFFICES ASSUME NEW k \in DOMAIN stack', NEW p, p = stack'[k].node
             PROVE  /\ node'[p].next = 0
                    /\ \A j \in DOMAIN node'[p].subs : node'[node'[p].subs[j]].type # "CLOSE"
                    /\ k = 1 => node'[p].type = "template"
                    /\ stack'[k].kind = "IF" => node'[p].type = "branch"
  BY DEF OpenBodies, Closing
<1>2. CASE k \in DOMAIN stack
  <2>1. p \in Alive /\ p = stack[k].node /\ stack'[k] = stack[k]
    BY <1>2, GrowStack
  <2>2. /\ node[p].next = 0
        /\ \A j \in DOMAIN node[p].subs : node[node[p].subs[j]].type # "CLOSE"
        /\ k = 1 => node[p].type = "template"
        /\ stack[k].kind = "IF" => node[p].type = "branch"
    BY <1>2, <2>1 DEF OpenBodies, Closing
  <2>3. \A j \in DOMAIN node[p].subs : node'[node[p].subs[j]] = node[node[p].subs[j]]
    BY <1>1, <2>1
  <2> QED
    BY <1>1, <2>1, <2>2, <2>3
<1>3. CASE k \notin DOMAIN stack
  <2>1. p = M /\ k > 1 /\ k \in Nat /\ (stack'[k].kind = "IF" => node'[M].type = "branch")
    BY <1>3, GrowStack DEF IInv, Frames
  <2>2. node'[M].subs = << >> /\ node'[M].next = 0
    BY DEF Grows
  <2> QED
    BY <2>1, <2>2
<1> QED
  BY <1>2, <1>3

(* What is open is the kind of the body being read.                        *)
LEMMA OpeningIs ==
  ASSUME IInv, OpenBodies, Opening # "NULL"
  PROVE  Opening = ClosedBy(Top.node)
<1>1. Top.blk # 0 /\ Opening = node[Top.blk].type
  BY DEF Opening
<1>2. Len(stack) \in DOMAIN stack /\ Top = stack[Len(stack)] /\ Len(stack) # 1 /\ Len(stack) \in Nat
  BY <1>1, TopTyped DEF IInv, Template
<1>3. FrameOK(Top)
  BY <1>2, FrameTyped DEF IInv
<1>4. CASE Top.kind = "IF"
  <2>1. node[Top.node].type = "branch"
    BY <1>2, <1>4 DEF OpenBodies
  <2> QED
    BY <1>1, <1>3, <1>4, <2>1 DEF FrameOK, ClosedBy
<1>5. CASE Top.kind # "IF"
  <2>1. Top.kind \in {"FOR", "BLOCK"}
    <3>1. Top \in FrameSet
      BY <1>2 DEF IInv, Frames
    <3> QED
      BY <1>3, <1>5, <3>1 DEF FrameOK, FrameSet
  <2> QED
    BY <1>1, <1>3, <1>5, <2>1 DEF FrameOK, ClosedBy
<1> QED
  BY <1>4, <1>5

(* A closing tag that was made closes it.                                  *)
LEMMA GrowClosings ==
  ASSUME IInv, IInv', pc = "body", NEW M, Grows(M), Returning(M) \/ Entering(M),
         OpenBodies, ClosingLast
  PROVE  ClosingLast'
<1>1. PICK z : z = New
  OBVIOUS
<1>2. /\ \A n \in Alive : n \in Alive' /\ node'[n] = node[n]
      /\ \A n \in Alive' : n \in Alive \/ n = M \/ (n = z /\ M # z)
      /\ \A n \in Alive : Kids[n] \subseteq Alive
      /\ \A n \in Alive : \A j \in DOMAIN node[n].subs : node[n].subs[j] \in Kids[n]
  BY <1>1, GrowNodes, Living
<1>3. toks' = toks /\ node'[M].subs = << >> /\ (M # z => node'[z].subs = << >>)
  BY <1>1 DEF Grows
<1>4. ASSUME NEW n \in Alive', NEW k \in DOMAIN node'[n].subs, NEW c, c = node'[n].subs[k],
             node'[c].type = "CLOSE"
      PROVE  k = Len(node'[n].subs) /\ ClosesOf(n, c)'
  <2>1. n \in Alive /\ node'[n] = node[n]
    <3>1. node'[n].subs # << >>
      BY <1>4
    <3> QED
      BY <1>2, <1>3, <3>1
  <2>2. c \in Alive /\ node'[c] = node[c] /\ c = node[n].subs[k]
    BY <1>2, <1>4, <2>1
  <2>3. k = Len(node[n].subs) /\ ClosesOf(n, c)
    BY <1>4, <2>1, <2>2 DEF ClosingLast, Closing
  <2> QED
    BY <1>3, <2>1, <2>2, <2>3 DEF ClosesOf, ClosedBy
<1>5. ASSUME pc' = "return", node'[val'].type = "CLOSE"
      PROVE  ClosesOf(Top.node, val)'
  <2>1. Returning(M) /\ val' = M /\ stack' = stack
    BY <1>5 DEF Returning, Entering
  <2>2. <<Opening, toks[cur + 2]>> \in Closings /\ node'[M].from = cur
    BY <1>5, <2>1 DEF Returning, Grows
  <2>3. Opening # "NULL"
    BY <2>2 DEF Closings
  <2>4. PICK p : p = Top.node
    OBVIOUS
  <2>5. p = Top'.node /\ Opening = ClosedBy(p) /\ p \in Alive
    <3>1. Len(stack) \in DOMAIN stack /\ Top = stack[Len(stack)]
      BY TopTyped DEF IInv
    <3> QED
      BY <2>1, <2>3, <2>4, <3>1, GrowStack, OpeningIs DEF Top
  <2>6. ClosedBy(p)' = ClosedBy(p)
    BY <1>2, <2>5 DEF ClosedBy
  <2>7. ClosesOf(p, M)'
    BY <1>3, <2>2, <2>5, <2>6 DEF ClosesOf
  <2> QED
    BY <2>1, <2>5, <2>7 DEF ClosesOf, ClosedBy
<1> QED
  BY <1>4, <1>5 DEF ClosingLast, Closing

(* A body that was ended is, and the new one is being read.                *)
LEMMA GrowEnded ==
  ASSUME IInv, IInv', pc = "body", NEW M, Grows(M), Returning(M) \/ Entering(M), AllEnded
  PROVE  AllEnded'
<1>1. PICK z : z = New
  OBVIOUS
<1>2. /\ \A n \in Alive : n \in Nodes /\ n \in Alive' /\ node'[n] = node[n]
      /\ \A n \in Alive' : n \in Alive \/ n = M \/ (n = z /\ M # z)
      /\ \A n \in Alive : Kids[n] \subseteq Alive
      /\ \A n \in Alive : node[n].subs \in Seq(Nat)
      /\ \A n \in Alive : \A j \in DOMAIN node[n].subs : node[n].subs[j] \in Kids[n]
  BY <1>1, GrowNodes, Living
<1>3. toks' = toks /\ (M # z => node'[z].type = "IF")
  BY <1>1 DEF Grows
<1>4. \A n \in Alive : Reach(n)' = Reach(n) /\ Reach(n) \subseteq Alive
  BY <1>2, GrowReach, Living
<1> SUFFICES ASSUME NEW n \in Alive', n \notin Bodies', node'[n].type \in {"FOR", "BLOCK", "branch"}
             PROVE  BodyEnded(n)'
  BY DEF AllEnded
<1>5. n # M
  <2>1. CASE Returning(M)
    BY <2>1 DEF Returning
  <2>2. CASE Entering(M)
    <3>1. PICK f \in FrameSet : stack' = Append(stack, f) /\ f.node = M
      BY <2>2 DEF Entering
    <3>2. Len(stack) + 1 \in DOMAIN stack' /\ stack'[Len(stack) + 1] = f
      BY <3>1, AppendProperties DEF IInv, Frames
    <3> QED
      BY <3>1, <3>2 DEF Bodies
  <2> QED
    BY <2>1, <2>2
<1>6. n \in Alive
  BY <1>2, <1>3, <1>5
<1>7. n \notin Bodies
  BY GrowStack DEF Bodies
<1>8. BodyEnded(n)
  BY <1>2, <1>6, <1>7 DEF AllEnded
<1>9. ASSUME node[n].subs # << >>
      PROVE  node'[node[n].subs[Len(node[n].subs)]] = node[node[n].subs[Len(node[n].subs)]]
  <2>1. Len(node[n].subs) \in DOMAIN node[n].subs
    <3>1. node[n].subs \in Seq(Nat)
      BY <1>2, <1>6
    <3> QED
      BY <1>9, <3>1
  <2> QED
    BY <1>2, <1>6, <2>1
<1>10. \A m \in Reach(n) : Own(m)' = Own(m)
  BY <1>2, <1>4, <1>6 DEF Own
<1> QED
  BY <1>2, <1>3, <1>4, <1>6, <1>8, <1>9, <1>10 DEF BodyEnded, Closing

(* And so is the block of a name.                                          *)
LEMMA GrowLatest ==
  ASSUME IInv, IInv', pc = "body", NEW M, Grows(M), Returning(M) \/ Entering(M), Latest
  PROVE  Latest'
<1>1. PICK z : z = New
  OBVIOUS
<1>2. /\ \A n \in Alive : n \in Nodes /\ n \in Alive' /\ node'[n] = node[n]
      /\ \A n \in Alive' : n \in Alive \/ n = M \/ (n = z /\ M # z)
  BY <1>1, GrowNodes
<1>3. tblocks' = tblocks /\ (M # z => node'[z].type = "IF")
  BY <1>1 DEF Grows
<1>4. \A n \in Alive : Reach(n)' = Reach(n)
  BY <1>2, GrowReach
<1>5. node'[M].type = "BLOCK" => M \in Opened'
  <2>1. CASE Returning(M)
    BY <2>1 DEF Returning
  <2>2. CASE Entering(M)
    <3>1. PICK f \in FrameSet : /\ stack' = Append(stack, f) /\ f.blk = New /\ f.node = M
                                /\ f.kind = "IF" => node'[M].type = "branch"
                                /\ f.kind # "IF" => M = New
      BY <2>2 DEF Entering
    <3>2. Len(stack) + 1 \in DOMAIN stack' /\ stack'[Len(stack) + 1] = f
      BY <3>1, AppendProperties DEF IInv, Frames
    <3> QED
      BY <3>1, <3>2 DEF Opened
  <2> QED
    BY <2>1, <2>2
<1>6. Opened \subseteq Opened'
  BY GrowStack DEF Opened
<1> SUFFICES ASSUME NEW name \in Names, NEW t, t = tblocks[name]
             PROVE  /\ t # 0 => t \in Alive' /\ node'[t].type = "BLOCK" /\ node'[t].name = name
                    /\ \A n \in Alive' \ Opened' :
                         node'[n].type = "BLOCK" /\ node'[n].name = name =>
                           t # 0 /\ (n \in Reach(t)' \/ \A x \in Reach(n)' : x < t)
  BY <1>3 DEF Latest
<1>7. /\ t # 0 => t \in Alive /\ node[t].type = "BLOCK" /\ node[t].name = name
      /\ \A n \in Alive \ Opened :
           node[n].type = "BLOCK" /\ node[n].name = name =>
             t # 0 /\ (n \in Reach(t) \/ \A x \in Reach(n) : x < t)
  BY DEF Latest
<1>8. \A n \in Alive' \ Opened' : node'[n].type = "BLOCK" => n \in Alive \ Opened
  BY <1>2, <1>3, <1>5, <1>6
<1> QED
  BY <1>2, <1>4, <1>7, <1>8

(* What the cases of parser_parse_block make is such a block:              *)
LEMMA MakingGrows ==
  ASSUME IInv, pc = "body", Making
  PROVE  \E M : Grows(M) /\ Returning(M)
<1>1. PICK b \in NodeSet, i \in 1 .. Len(toks) + 1, n \in Nat :
        /\ b.subs = << >> /\ b.next = 0 /\ MadeAt(b, i)
        /\ node' = Append(node, b)
        /\ Done(i, n)
  BY DEF Making
<1>2. /\ toks' = toks /\ stack' = stack /\ freed' = freed /\ tblocks' = tblocks
      /\ cur' = i /\ pc' = "return" /\ val' = Len(node')
  BY <1>1 DEF Done
<1>3. node \in Seq(NodeSet) /\ Len(node) \in Nat /\ node' = node \o <<b>>
  <2>1. node \in Seq(NodeSet) /\ Len(node) \in Nat
    BY DEF IInv, Typed
  <2> QED
    BY <1>1, <2>1, AppendIsConcat
<1>4. Fresh(<<b>>) /\ Len(<<b>>) = 1 /\ <<b>>[1] = b
  BY <1>1 DEF Fresh
<1>5. /\ Len(node') = New
      /\ \A p \in Nodes : node'[p] = node[p]
      /\ node'[New] = b
      /\ Grown(Len(node), Kids, Len(node'), Kids')
  <2>1. PICK made : made = <<b>>
    OBVIOUS
  <2>2. Typed /\ NoTwice /\ toks' = toks /\ Fresh(made) /\ node' = node \o made
    BY <1>2, <1>3, <1>4, <2>1 DEF IInv
  <2>3. /\ Len(node') = Len(node) + Len(made)
        /\ \A p \in Nodes : node'[p] = node[p]
        /\ \A j \in DOMAIN made : node'[Len(node) + j] = made[j]
        /\ Grown(Len(node), Kids, Len(node'), Kids')
    BY <2>2, Growth
  <2>4. 1 \in DOMAIN made
    BY <2>1
  <2> QED
    BY <1>4, <2>1, <2>3, <2>4 DEF New
<1>6. PICK M : M = New
  OBVIOUS
<1>7. /\ b.from = cur /\ cur <= i /\ cur \in Nat /\ i \in Nat /\ Len(toks) \in Nat
      /\ b.to = (IF b.type = "CLOSE" THEN i + 1 ELSE i)
      /\ b.type = "CLOSE" => i + 1 \in 1 .. Len(toks) /\ <<Opening, toks[cur + 2]>> \in Closings
      /\ b.type # "CLOSE" => i \in 1 .. Len(toks)
      /\ b.type \notin {"FOR", "IF", "BLOCK", "branch", "template"}
  BY <1>1, SourceAssumption DEF MadeAt, IInv, Typed
<1>8. Read' = b.to /\ b.to \in Nat /\ cur <= b.to /\ b.to <= Len(toks)
  <2>1. node'[val'] = b
    BY <1>2, <1>5
  <2>2. CASE b.type = "CLOSE"
    <3>1. Read' = i + 1
      BY <1>2, <2>1, <2>2 DEF Read
    <3> QED
      BY <1>7, <2>2, <3>1
  <2>3. CASE b.type # "CLOSE"
    <3>1. Read' = (IF i <= Len(toks) THEN i ELSE Len(toks))
      BY <1>2, <2>1, <2>3 DEF Read
    <3> QED
      BY <1>7, <2>3, <3>1
  <2> QED
    BY <2>2, <2>3
<1>9. Grows(M)
  BY <1>1, <1>2, <1>5, <1>6, <1>7, <1>8 DEF Grows
<1>10. Returning(M)
  BY <1>2, <1>5, <1>6, <1>7 DEF Returning
<1> QED
  BY <1>9, <1>10

(* and so is what they call for a body for.                                *)
LEMMA CallingGrows ==
  ASSUME IInv, pc = "body", Calling
  PROVE  \E M : Grows(M) /\ Entering(M)
<1>1. PICK made, f : \E i \in 1 .. Len(toks), n \in Nat :
        Fresh(made) /\ FrameFor(f, made) /\ HeaderOf(f, made, i) /\ Call(f, i, n, made)
  BY DEF Calling
<1>2. PICK i \in 1 .. Len(toks), n \in Nat :
        Fresh(made) /\ FrameFor(f, made) /\ HeaderOf(f, made, i) /\ Call(f, i, n, made)
  BY <1>1
<1>3. /\ toks' = toks /\ stack' = Append(stack, f) /\ freed' = freed /\ tblocks' = tblocks
      /\ cur' = i + 1 /\ pc' = "body" /\ node' = node \o made
  BY <1>2 DEF Call
<1>4. Typed /\ NoTwice /\ Len(node) \in Nat
  BY DEF IInv, Typed
<1>5. /\ Len(node') = Len(node) + Len(made) /\ Len(made) \in Nat
      /\ \A p \in Nodes : node'[p] = node[p]
      /\ \A j \in DOMAIN made : node'[Len(node) + j] = made[j]
      /\ Grown(Len(node), Kids, Len(node'), Kids')
  BY <1>2, <1>3, <1>4, Growth
<1>6. PICK m, M : m = Len(made) /\ M = Len(node) + m
  OBVIOUS
<1>7. /\ m \in {1, 2} /\ (m = 2 <=> f.kind = "IF")
      /\ DOMAIN made = 1 .. m /\ 1 \in DOMAIN made /\ m \in DOMAIN made
      /\ made \in Seq(NodeSet)
  <2>1. made \in Seq(NodeSet)
    BY <1>2 DEF Fresh
  <2>2. DOMAIN made = 1 .. m
    BY <1>6, <2>1, LenProperties
  <2>3. m = (IF f.kind = "IF" THEN 2 ELSE 1)
    BY <1>2, <1>6 DEF HeaderOf
  <2>4. m \in {1, 2} /\ (m = 2 <=> f.kind = "IF")
    BY <2>3
  <2> QED
    BY <2>1, <2>2, <2>4
<1>8. /\ node'[M] = made[m] /\ node'[New] = made[1] /\ Len(node') = M /\ M \in {New, New + 1}
      /\ (M # New <=> m = 2)
  <2>1. node'[M] = made[m] /\ node'[New] = made[1] /\ Len(node') = M
    BY <1>5, <1>6, <1>7 DEF New
  <2>2. PICK N \in Nat : N = Len(node) /\ M = N + m /\ New = N + 1
    BY <1>4, <1>6 DEF New
  <2>3. M \in {New, New + 1} /\ (M # New <=> m = 2)
    BY <1>7, <2>2
  <2> QED
    BY <2>1, <2>3
<1>9. /\ made[m].from = cur /\ made[m].to = i /\ cur <= i /\ cur \in Nat /\ i \in Nat
      /\ made[m].subs = << >> /\ made[m].next = 0
      /\ Len(toks) \in Nat /\ i <= Len(toks)
  <2>1. made[m].subs = << >> /\ made[m].next = 0
    <3>1. m = 1 \/ m = 2
      BY <1>7
    <3>2. made[m].subs = << >> /\ (made[m].next # 0 => m = 1 /\ Len(made) = 2)
      BY <1>2, <1>7 DEF Fresh
    <3> QED
      BY <1>6, <3>1, <3>2
  <2> QED
    BY <1>2, <1>6, <2>1, SourceAssumption DEF HeaderOf, IInv, Typed
<1>10. Read' = i
  BY <1>3, <1>9 DEF Read
<1>11. f \in FrameSet /\ f.kind # "template" /\ f.blk = New /\ made[1].type = f.kind
  BY <1>2 DEF FrameFor
<1>12. CASE f.kind = "IF"
  <2>1. /\ m = 2 /\ made[1].next = New + 1 /\ f.node = New + 1 /\ made[1].from = 1 /\ made[1].to = 0
        /\ made[2].type = "branch" /\ made[1].subs = << >>
    BY <1>2, <1>7, <1>12 DEF FrameFor, HeaderOf, Fresh
  <2>2. M = New + 1 /\ New \in Nat /\ New # 0
    BY <1>4, <1>8, <2>1 DEF New
  <2>3. Kids'[New] = {M}
    <3>1. New \in Nodes' /\ M # 0
      BY <1>4, <1>8, <2>2 DEF Nodes, New
    <3>2. PICK z : z = New
      OBVIOUS
    <3>3. node'[z].subs = << >> /\ node'[z].next = M
      BY <1>8, <2>1, <2>2, <3>2
    <3>4. Kids'[z] = {M}
      BY <3>1, <3>2, <3>3 DEF Kids, Children
    <3> QED
      BY <3>2, <3>4
  <2>4. Grows(M)
    BY <1>3, <1>5, <1>8, <1>9, <1>10, <1>11, <1>12, <2>1, <2>2, <2>3 DEF Grows
  <2>5. Entering(M)
    BY <1>3, <1>8, <1>11, <1>12, <2>1, <2>2 DEF Entering
  <2> QED
    BY <2>4, <2>5
<1>13. CASE f.kind # "IF"
  <2>1. m = 1 /\ M = New /\ f.node = New
    BY <1>2, <1>7, <1>8, <1>13 DEF FrameFor
  <2>2. Grows(M)
    BY <1>3, <1>5, <1>8, <1>9, <1>10, <1>11, <1>13, <2>1 DEF Grows
  <2>3. Entering(M)
    BY <1>3, <1>8, <1>11, <1>13, <2>1 DEF Entering
  <2> QED
    BY <2>2, <2>3
<1> QED
  BY <1>12, <1>13

(* So they keep track.                                                     *)
LEMMA GrowTrack ==
  ASSUME IInv, IInv', pc = "body", Track, Making \/ Calling
  PROVE  Track' /\ pc' \in {"body", "return"}
<1>1. PICK M : Grows(M) /\ (Returning(M) \/ Entering(M))
  BY MakingGrows, CallingGrows
<1>2. pc' \in {"body", "return"}
  BY <1>1 DEF Returning, Entering
<1>3. /\ Extents /\ InOrder /\ Covered /\ Nested /\ Sorted /\ Regions
      /\ OpenBodies /\ ClosingLast /\ AllEnded /\ Latest
  BY DEF Track
<1>4. Extents' /\ InOrder' /\ Covered' /\ Nested' /\ Sorted'
  BY <1>1, <1>3, GrowExtents, GrowInOrder, GrowNested
<1>5. Regions' /\ OpenBodies' /\ ClosingLast'
  BY <1>1, <1>3, GrowRegions, GrowBodies, GrowClosings
<1>6. AllEnded' /\ Latest'
  BY <1>1, <1>3, GrowEnded, GrowLatest
<1> QED
  BY <1>2, <1>4, <1>5, <1>6 DEF Track

-----------------------------------------------------------------------------
(* The body on top: the template's, or that of a block nothing leads to,   *)
(* or of its first branch.                                                 *)
LEMMA TopBody ==
  ASSUME IInv, pc \in {"body", "return"}, Extents, Regions, OpenBodies,
         NEW p, p = Top.node, NEW b, b = Top.blk
  PROVE  /\ p \in Alive /\ p \in Nat /\ b \in Nat
         /\ node[p].type # "IF" /\ node[p].next = 0
         /\ \A j \in DOMAIN node[p].subs : ~Closing(node[p].subs[j])
         /\ Reach(p) = Between(p, IF pc = "return" THEN val ELSE Len(node) + 1)
         /\ \/ Len(stack) = 1 /\ Top.kind = "template" /\ b = 0 /\ p = 1 /\ p \in Roots
               /\ node[p].type = "template"
            \/ /\ Len(stack) > 1 /\ Top.kind # "template" /\ b \in Roots /\ b \in Alive /\ b # 0
               /\ node[b].type = Top.kind /\ node[b].type \in {"FOR", "IF", "BLOCK"}
               /\ \/ p = b /\ node[b].type # "IF"
                  \/ /\ p = b + 1 /\ Kids[b] = {p} /\ node[b].type = "IF"
                     /\ node[p].type = "branch"
               /\ node[b].type = "BLOCK" => node[b].name \in Names
<1>1. PICK l : l \in DOMAIN stack /\ l = Len(stack) /\ l \in Nat /\ Top = stack[l]
  BY TopTyped DEF IInv
<1>2. p \in Alive /\ p \in Nat
  <2>1. stack[l].node \in Alive
    BY <1>1, BodiesAlive DEF Alive
  <2> QED
    BY <1>1, <2>1, Living
<1>3. /\ node[p].next = 0
      /\ \A j \in DOMAIN node[p].subs : ~Closing(node[p].subs[j])
      /\ l = 1 => node[p].type = "template"
      /\ stack[l].kind = "IF" => node[p].type = "branch"
  BY <1>1 DEF OpenBodies
<1>4. /\ Reach(p) = Between(p, IF pc = "return" THEN val ELSE Len(node) + 1)
      /\ p <= b + 1
  <2>1. Limit(l) = IF pc = "return" THEN val ELSE Len(node) + 1
    BY <1>1 DEF Limit
  <2>2. Reach(stack[l].node) = Between(stack[l].node, Limit(l)) /\ p <= b + 1
    BY <1>1 DEF Regions
  <2> QED
    BY <1>1, <2>1, <2>2
<1>5. CASE l = 1
  <2>1. Top = Template
    BY <1>1, <1>5 DEF IInv, Frames
  <2> QED
    BY <1>1, <1>2, <1>3, <1>4, <1>5, <2>1 DEF Template, Roots
<1>6. CASE l # 1
  <2>1. FrameOK(Top) /\ l \in 2 .. Len(stack) /\ Top.kind # "template"
    BY <1>1, <1>6, FrameTyped DEF IInv
  <2>2. b \in Roots
    BY <1>1, <2>1 DEF Roots
  <2>3. b \in Alive /\ b \in Nat /\ b # 0
    <3>1. b \in Alive
      BY <2>2, AliveClosed DEF Alive
    <3> QED
      BY <3>1, Living
  <2>4. Top.kind \in {"FOR", "IF", "BLOCK"}
    <3>1. Top \in FrameSet
      BY <1>1 DEF IInv, Frames
    <3> QED
      BY <2>1, <3>1 DEF FrameSet
  <2>5. node[b].type = Top.kind /\ p >= b /\ (Top.kind = "BLOCK" => node[b].name \in Names)
    <3>1. p \in b .. Len(node)
      BY <2>1 DEF FrameOK
    <3> QED
      BY <2>1, <2>3, <3>1, Living DEF FrameOK
  <2>6. CASE Top.kind = "IF"
    <3>1. node[b].next = p /\ node[b].subs = << >> /\ node[p].type = "branch" /\ p # 0
      BY <1>1, <1>2, <1>3, <2>1, <2>3, <2>5, <2>6, Living DEF FrameOK, Extents
    <3>2. Kids[b] = {p}
      <4>1. b \in Nodes
        BY <2>3, Living
      <4> QED
        BY <3>1, <4>1 DEF Kids, Children
    <3>3. p = b + 1
      <4>1. p # b
        BY <2>5, <2>6, <3>1
      <4> QED
        BY <1>2, <1>4, <2>3, <2>5, <4>1
    <3> QED
      BY <1>1, <1>2, <1>3, <1>4, <1>6, <2>1, <2>2, <2>3, <2>4, <2>5, <2>6, <3>1, <3>2, <3>3
  <2>7. CASE Top.kind # "IF"
    <3>1. p = b
      BY <2>1, <2>7 DEF FrameOK
    <3>2. l > 1
      BY <1>1, <2>1
    <3> QED
      BY <1>1, <1>2, <1>3, <1>4, <2>1, <2>2, <2>3, <2>4, <2>5, <2>7, <3>1, <3>2
  <2> QED
    BY <2>6, <2>7
<1> QED
  BY <1>5, <1>6

(* The body p of the block b changes: it gets the block that came back, or *)
(* the branches of that one, which is freed; or it ends as it is.          *)
Adds(p, c, gone) ==
  \/ /\ pc = "body" /\ c = {} /\ gone = {}
     /\ node' = node /\ Read = Len(toks)
  \/ /\ pc = "return" /\ c = {val} /\ gone = {}
     /\ node'[p].subs = Append(node[p].subs, val) /\ node'[p].next = node[p].next
  \/ /\ pc = "return" /\ node[val].type = "IF" /\ c = {node[val].next} /\ gone = {val}
     /\ node'[p].subs = node[p].subs /\ node'[p].next = node[val].next

(* It is still being read, or its call returns.                            *)
Goes(b, c) ==
  \/ /\ pc' = "body" /\ stack' = stack /\ tblocks' = tblocks
     /\ c = {val} /\ pc = "return" /\ ~Closing(val)
  \/ /\ pc' = "return" /\ stack' = Pop /\ val' = b /\ b # 0
     /\ tblocks' = IF Top.kind = "BLOCK" THEN [tblocks EXCEPT ![node[b].name] = b]
                   ELSE tblocks
     /\ pc = "return" /\ c = {val} => Closing(val)

(* The body of p, of the call for b, gets the children c; gone is freed.   *)
Joins(p, b, c, gone) ==
  /\ toks' = toks /\ Len(node') = Len(node) /\ freed' = freed \cup gone /\ Read' = Read
  /\ p = Top.node /\ b = Top.blk
  /\ \A q \in Nodes : /\ node'[q].type = node[q].type /\ node'[q].name = node[q].name
                      /\ node'[q].from = node[q].from /\ node'[q].to = node[q].to
  /\ \A q \in Nodes \ {p} : node'[q] = node[q] /\ Kids'[q] = Kids[q]
  /\ Kids'[p] = Kids[p] \cup c
  /\ Adds(p, c, gone) /\ Goes(b, c)

(* All that is alive behind the body is in it now, and below the others    *)
(* nothing changes.                                                        *)
LEMMA JoinReach ==
  ASSUME IInv, IInv', pc \in {"body", "return"}, Extents, Regions, OpenBodies,
         NEW p, NEW b, NEW c, NEW gone, Joins(p, b, c, gone)
  PROVE  /\ Nodes' = Nodes /\ Alive' = Alive \ gone /\ gone \subseteq Alive /\ p \notin gone
         /\ b \notin gone
         /\ \A g \in gone : g > p /\ node[g].type = "IF"
         /\ Reach(p)' = {x \in Alive' : p <= x}
         /\ b # 0 => Reach(b)' = {x \in Alive' : b <= x}
         /\ \A n \in Alive' : n # p /\ n # b => Reach(n)' = Reach(n)
         /\ b # 0 => \A n \in Alive : n # b => b \notin Reach(n)
<1>1. PICK N, v : N \in Nat /\ N = Len(node) /\ v = val /\ N = Len(node')
  BY DEF IInv, Typed, Joins
<1>2. PICK K, L : K = Kids /\ L = Kids'
  OBVIOUS
<1>3. /\ Upward(N, K) /\ Upward(N, L) /\ Owned(N, K, freed, Roots) /\ freed \subseteq 1 .. N
      /\ Nodes = 1 .. N /\ Nodes' = 1 .. N /\ Alive = (1 .. N) \ freed
      /\ Alive' = Alive \ gone /\ N \in Nat
  BY <1>1, <1>2 DEF IInv, Joins, Keeps, Typed, Nodes, Alive
<1>4. /\ p \in Alive /\ p \in Nat /\ b \in Nat
      /\ node[p].type # "IF" /\ node[p].next = 0
      /\ Reach(p) = Between(p, IF pc = "return" THEN val ELSE Len(node) + 1)
      /\ \/ b = 0 /\ p \in Roots
         \/ /\ b \in Roots /\ b \in Alive /\ b # 0
            /\ p = b \/ (p = b + 1 /\ K[b] = {p})
  BY <1>2, TopBody DEF Joins
<1>5. pc = "return" =>
        /\ v \in Alive /\ v \in Nat /\ p < v /\ b < v
        /\ Reach(v) = {x \in Alive : v <= x}
  <2>1. ASSUME pc = "return"
        PROVE  v \in Alive /\ v \in Nat /\ p < v /\ b < v
    <3>1. val \in Nat /\ Top.node < val
      BY <2>1, Returned
    <3>2. val \in Alive
      <4>1. val \in Roots
        BY <2>1, Returned
      <4> QED
        BY <1>3, <4>1 DEF Owned
    <3>3. b <= p
      BY <1>4
    <3> QED
      BY <1>1, <1>4, <3>1, <3>2, <3>3 DEF Joins
  <2>2. ASSUME pc = "return" PROVE Reach(v) = {x \in Alive : v <= x}
    <3>1. Reach(val) = Between(val, Len(node) + 1)
      BY <2>2 DEF Regions
    <3>2. Reach(v) = Between(v, N + 1)
      BY <1>1, <3>1
    <3>3. \A x \in Alive : x < N + 1
      BY <1>3
    <3> QED
      BY <3>2, <3>3 DEF Between
  <2> QED
    BY <2>1, <2>2
<1>6. /\ \A x \in 1 .. N : Reach(x) = Reached(N, K, x) /\ Reach(x)' = Reached(N, L, x)
  BY <1>1, <1>2 DEF Reach
<1>7. \A x \in Alive : x \in 1 .. N /\ x \in Nat
  BY <1>3
<1>8. Reached(N, L, p) = Reached(N, K, p) \cup UNION {Reached(N, K, x) : x \in c}
      /\ c \subseteq Alive
  <2>1. c \subseteq Alive /\ c \subseteq p + 1 .. N
    <3>1. CASE c = {}
      BY <3>1
    <3>2. CASE pc = "return" /\ c = {v}
      BY <1>4, <1>5, <1>7, <3>2
    <3>3. CASE pc = "return" /\ node[v].type = "IF" /\ c = {node[v].next}
      <4>1. v \in Alive /\ v \in Nat /\ p < v /\ node[v].next # 0
        BY <1>5, <3>3 DEF Extents
      <4>2. PICK w \in Alive : w = node[v].next /\ v < w
        BY <4>1, Living
      <4>3. w \in 1 .. N /\ p \in Nat /\ N \in Nat
        BY <1>1, <1>4, <1>7
      <4>4. w \in p + 1 .. N
        BY <4>1, <4>2, <4>3
      <4> QED
        BY <3>3, <4>2, <4>4
    <3> QED
      BY <1>1, <3>1, <3>2, <3>3 DEF Joins, Adds
  <2>2. L[p] = K[p] \cup c /\ \A q \in (1 .. N) \ {p} : L[q] = K[q]
    BY <1>2, <1>3 DEF Joins
  <2>3. p \in 1 .. N
    BY <1>4, <1>7
  <2>4. Upward(N, K) /\ N \in Nat
    BY <1>3
  <2>5. Reached(N, L, p) = Reached(N, K, p) \cup UNION {Reached(N, K, x) : x \in c}
    BY <2>1, <2>2, <2>3, <2>4, ReachedAdd
  <2> QED
    BY <2>1, <2>5
<1>9. /\ gone \subseteq Alive /\ p \notin gone /\ b \notin gone
      /\ \A g \in gone : g > p /\ node[g].type = "IF"
  <2>1. gone = {} \/ (gone = {v} /\ pc = "return" /\ node[v].type = "IF")
    BY <1>1 DEF Joins, Adds
  <2> QED
    BY <1>4, <1>5, <2>1
<1>10. Reached(N, L, p) = {x \in Alive' : p <= x}
  <2>1. Reached(N, K, p) = Between(p, IF pc = "return" THEN v ELSE N + 1)
    BY <1>1, <1>4, <1>6, <1>7
  <2>2. CASE c = {} /\ gone = {} /\ pc = "body"
    <3>1. Reached(N, L, p) = Between(p, N + 1)
      BY <1>8, <2>1, <2>2
    <3>2. \A x \in Alive : x < N + 1
      BY <1>3
    <3> QED
      BY <1>3, <2>2, <3>1, <3>2 DEF Between
  <2>3. CASE c = {v} /\ gone = {} /\ pc = "return"
    <3>1. Reached(N, L, p) = Between(p, v) \cup {x \in Alive : v <= x}
      BY <1>5, <1>6, <1>7, <1>8, <2>1, <2>3
    <3>2. \A x \in Alive : p <= x <=> (p <= x /\ x < v) \/ v <= x
      <4>1. p \in Nat /\ v \in Nat /\ p < v /\ \A x \in Alive : x \in Nat
        BY <1>4, <1>5, <1>7, <2>3
      <4> QED
        BY <4>1
    <3> QED
      BY <1>3, <2>3, <3>1, <3>2 DEF Between
  <2>4. CASE pc = "return" /\ node[v].type = "IF" /\ c = {node[v].next} /\ gone = {v}
    <3>1. PICK w : w = node[v].next
      OBVIOUS
    <3>2. v \in Alive /\ v \in Nat /\ p < v /\ w # 0 /\ node[v].subs = << >> /\ v \in Nodes
      BY <1>5, <1>7, <1>3, <2>4, <3>1 DEF Extents
    <3>3. K[v] = {w}
      BY <1>2, <3>1, <3>2 DEF Kids, Children
    <3>4. Reached(N, K, v) = {v} \cup Reached(N, K, w)
      <4>1. Reached(N, K, v) = {v} \cup UNION {Reached(N, K, x) : x \in K[v]}
        BY <1>3, <1>7, <3>2, ReachedIs
      <4> QED
        BY <3>3, <4>1
    <3>5. v \notin Reached(N, K, w)
      <4>1. w \in v + 1 .. N
        BY <1>3, <1>7, <3>2, <3>3 DEF Upward
      <4>2. w \in 1 .. N
        BY <3>2, <4>1
      <4>3. Reached(N, K, w) \subseteq w .. N
        BY <1>3, <4>2, ReachedAbove
      <4> QED
        BY <3>2, <4>1, <4>3
    <3>6. Reached(N, K, w) = {x \in Alive : v <= x} \ {v}
      BY <1>5, <1>6, <1>7, <2>4, <3>2, <3>4, <3>5
    <3>7. Reached(N, L, p) = Between(p, v) \cup ({x \in Alive : v <= x} \ {v})
      BY <1>8, <2>1, <2>4, <3>1, <3>6
    <3>8. \A x \in Alive : x # v => (p <= x <=> (p <= x /\ x < v) \/ v <= x)
      <4>1. p \in Nat /\ v \in Nat /\ p < v /\ \A x \in Alive : x \in Nat
        BY <1>4, <1>7, <3>2
      <4> QED
        BY <4>1
    <3>9. v \notin Between(p, v)
      BY <3>2 DEF Between
    <3> QED
      BY <1>3, <2>4, <3>7, <3>8, <3>9 DEF Between
  <2> QED
    BY <1>1, <2>2, <2>3, <2>4 DEF Joins, Adds
<1>11. ASSUME NEW n \in Alive, n # p, n # b PROVE p \notin Reached(N, K, n)
  <2>1. PICK R : R = Roots
    OBVIOUS
  <2>2. Owned(N, K, freed, R) /\ n \in (1 .. N) \ freed /\ N \in Nat
    BY <1>3, <2>1
  <2>3. CASE p \in R
    BY <1>11, <2>2, <2>3, RootAlone
  <2>4. CASE b \in R /\ K[b] = {p}
    BY <1>11, <2>2, <2>4, ChildAlone
  <2> QED
    BY <1>4, <2>1, <2>3, <2>4
<1>12. ASSUME NEW n \in Alive', n # p, n # b PROVE Reach(n)' = Reach(n)
  <2>1. n \in Alive /\ n \in 1 .. N
    BY <1>3, <1>12
  <2>2. \A x \in Reached(N, K, n) : x \in 1 .. N /\ x # p
    BY <1>11, <1>12, <2>1 DEF Reached
  <2>3. \A x \in Reached(N, K, n) : L[x] = K[x]
    BY <1>2, <1>3, <2>2 DEF Joins
  <2>4. Reached(N, L, n) = Reached(N, K, n)
    BY <1>3, <2>1, <2>3, ReachedSame
  <2> QED
    BY <1>6, <2>1, <2>4
<1>13. b # 0 => \A n \in Alive : n # b => b \notin Reach(n)
  <2> SUFFICES ASSUME b # 0, NEW n \in Alive, n # b PROVE b \notin Reached(N, K, n)
    BY <1>6, <1>7
  <2>1. PICK R : R = Roots
    OBVIOUS
  <2>2. Owned(N, K, freed, R) /\ n \in (1 .. N) \ freed /\ b \in R /\ N \in Nat
    BY <1>3, <1>4, <2>1
  <2> QED
    BY <2>2, RootAlone
<1>14. ASSUME b # 0 PROVE Reached(N, L, b) = {x \in Alive' : b <= x}
  <2>1. CASE p = b
    BY <1>10, <2>1
  <2>2. CASE p = b + 1 /\ K[b] = {p}
    <3>1. b \in Alive /\ b \in 1 .. N /\ b # p
      BY <1>4, <1>7, <1>14, <2>2
    <3>2. L[b] = {p}
      BY <1>2, <1>3, <2>2, <3>1 DEF Joins
    <3>3. Reached(N, L, b) = {b} \cup UNION {Reached(N, L, x) : x \in L[b]}
      BY <1>3, <3>1, ReachedIs
    <3>4. Reached(N, L, b) = {b} \cup {x \in Alive' : p <= x}
      BY <1>10, <3>2, <3>3
    <3>5. \A x \in Alive' : x \in Nat /\ (b <= x <=> x = b \/ p <= x)
      BY <1>3, <1>4, <1>7, <2>2
    <3>6. b \in Alive'
      BY <1>3, <1>9, <3>1
    <3> QED
      BY <3>4, <3>5, <3>6, <1>4
  <2> QED
    BY <1>4, <1>14, <2>1, <2>2
<1> QED
  <2>1. Reach(p)' = {x \in Alive' : p <= x}
    BY <1>4, <1>6, <1>7, <1>10
  <2>2. b # 0 => Reach(b)' = {x \in Alive' : b <= x}
    BY <1>4, <1>6, <1>7, <1>14
  <2> QED
    BY <1>3, <1>9, <1>12, <1>13, <2>1, <2>2

(* What is alive then was before, and is the same node but for the body.   *)
LEMMA JoinNodes ==
  ASSUME IInv, IInv', Track, NEW p, NEW b, NEW c, NEW gone, Joins(p, b, c, gone)
  PROVE  /\ pc \in {"body", "return"} /\ pc' \in {"body", "return"}
         /\ Len(node) \in Nat /\ Len(node') = Len(node)
         /\ p \in Alive /\ p \in Alive' /\ p \in Nat /\ b \in Nat
         /\ \A n \in Alive' :
              /\ n \in Alive /\ n \in Nodes /\ n \in Nat /\ n <= Len(node) /\ n \notin gone
              /\ node'[n].type = node[n].type /\ node'[n].name = node[n].name
              /\ node'[n].from = node[n].from /\ node'[n].to = node[n].to
              /\ n # p => node'[n] = node[n]
         /\ \A n \in Alive : n \in Alive' \/ n \in gone
         /\ toks' = toks /\ Read' = Read
<1>1. pc \in {"body", "return"} /\ pc' \in {"body", "return"}
  BY DEF Joins, Adds, Goes
<1>2. Extents /\ Regions /\ OpenBodies
  BY DEF Track
<1>3. /\ Alive' = Alive \ gone /\ gone \subseteq Alive /\ p \notin gone
  BY <1>1, <1>2, JoinReach
<1>4. p = Top.node /\ b = Top.blk
  BY DEF Joins
<1>5. p \in Alive /\ p \in Nat /\ b \in Nat
  BY <1>1, <1>2, <1>4, TopBody
<1>6. \A n \in Alive : n \in Nodes /\ n \in Nat /\ n <= Len(node)
  BY <1>1, Living
<1>7. Len(node) \in Nat
  BY DEF IInv, Typed
<1>8. /\ Len(node') = Len(node) /\ toks' = toks /\ Read' = Read
      /\ \A q \in Nodes : /\ node'[q].type = node[q].type /\ node'[q].name = node[q].name
                          /\ node'[q].from = node[q].from /\ node'[q].to = node[q].to
      /\ \A q \in Nodes \ {p} : node'[q] = node[q]
  BY DEF Joins
<1> QED
  BY <1>1, <1>3, <1>5, <1>6, <1>7, <1>8

(* The tokens of nodes do not change, and a condition that is taken apart  *)
(* has none.                                                               *)
LEMMA JoinExtents ==
  ASSUME IInv, IInv', Track, NEW p, NEW b, NEW c, NEW gone, Joins(p, b, c, gone)
  PROVE  Extents' /\ InOrder' /\ Covered'
<1>1. /\ p \in Alive /\ p \in Alive'
      /\ \A n \in Alive' :
           /\ n \in Alive /\ n \in Nat
           /\ node'[n].type = node[n].type
           /\ node'[n].from = node[n].from /\ node'[n].to = node[n].to
           /\ n # p => node'[n] = node[n]
      /\ \A n \in Alive : n \in Alive' \/ n \in gone
      /\ toks' = toks /\ Read' = Read
  BY JoinNodes
<1>2. Extents /\ InOrder /\ Covered /\ Regions /\ OpenBodies
      /\ pc \in {"body", "return"} /\ p = Top.node /\ b = Top.blk
  BY JoinNodes DEF Track, Joins
<1>3. node[p].type # "IF"
  BY <1>2, TopBody
<1>4. ASSUME NEW n \in Alive'
      PROVE  /\ \/ node'[n].from = 1 /\ node'[n].to = 0
                \/ node'[n].from \in 1 .. node'[n].to /\ node'[n].to <= Read
             /\ node'[n].type \in {"FOR", "BLOCK", "branch"} => node'[n].to # 0
             /\ node'[n].type = "IF" =>
                  node'[n].to = 0 /\ node'[n].subs = << >> /\ node'[n].next # 0
  <2>1. n \in Alive
    BY <1>1
  <2>2. /\ \/ node[n].from = 1 /\ node[n].to = 0
           \/ node[n].from \in 1 .. node[n].to /\ node[n].to <= Read
        /\ node[n].type \in {"FOR", "BLOCK", "branch"} => node[n].to # 0
        /\ node[n].type = "IF" => node[n].to = 0 /\ node[n].subs = << >> /\ node[n].next # 0
    BY <1>2, <2>1 DEF Extents
  <2>3. n # p \/ node[n].type # "IF"
    BY <1>3
  <2> QED
    BY <1>1, <2>2, <2>3
<1>5. Extents'
  <2>1. Read \in 0 .. Len(toks)
    BY <1>2 DEF Extents
  <2> QED
    BY <1>1, <1>4, <2>1 DEF Extents
<1>6. InOrder'
  BY <1>1, <1>2 DEF InOrder
<1>7. ASSUME NEW i \in 1 .. Read PROVE \E n \in Alive' : i \in node'[n].from .. node'[n].to
  <2>1. PICK n \in Alive : i \in node[n].from .. node[n].to
    BY <1>2 DEF Covered, Own
  <2>2. n \notin gone
    <3>1. SUFFICES ASSUME node[n].type = "IF" PROVE FALSE
      BY <1>2, JoinReach
    <3>2. node[n].to = 0 /\ node[n].from = 1
      <4>1. node[n].to = 0
        BY <1>2, <3>1 DEF Extents
      <4>2. node[n].from \notin 1 .. 0
        OBVIOUS
      <4> QED
        BY <1>2, <4>1, <4>2 DEF Extents
    <3> QED
      BY <2>1, <3>2
  <2> QED
    BY <1>1, <2>1, <2>2
<1>8. Covered'
  BY <1>1, <1>7 DEF Covered, Own
<1> QED
  BY <1>5, <1>6, <1>8

(* A body has all behind it, and what is added is behind what it had.      *)
LEMMA JoinNested ==
  ASSUME IInv, IInv', Track, NEW p, NEW b, NEW c, NEW gone, Joins(p, b, c, gone)
  PROVE  Nested' /\ Sorted'
<1>1. /\ p \in Alive /\ p \in Alive' /\ p \in Nat /\ b \in Nat
      /\ \A n \in Alive' : n \in Alive /\ n \in Nat /\ (n # p => node'[n] = node[n])
  BY JoinNodes
<1>2. Extents /\ Regions /\ OpenBodies /\ Nested /\ Sorted
      /\ pc \in {"body", "return"} /\ p = Top.node /\ b = Top.blk
  BY JoinNodes DEF Track, Joins
<1>3. /\ Reach(p)' = {x \in Alive' : p <= x}
      /\ b # 0 => Reach(b)' = {x \in Alive' : b <= x}
      /\ \A n \in Alive' : n # p /\ n # b => Reach(n)' = Reach(n)
  BY <1>2, JoinReach
<1>4. ASSUME NEW m \in Alive', NEW n \in Alive', m < n
      PROVE  n \in Reach(m)' \/ \A x \in Reach(m)' : x < n
  <2>1. CASE m # p /\ m # b
    <3>1. n \in Reach(m) \/ \A x \in Reach(m) : x < n
      BY <1>1, <1>2, <1>4 DEF Nested, Laminar, Reach
    <3> QED
      BY <1>3, <2>1, <3>1
  <2>2. CASE m = p \/ m = b
    <3>1. m <= n /\ m # 0
      BY <1>1, <1>4, Living, JoinNodes
    <3> QED
      BY <1>3, <2>2, <3>1
  <2> QED
    BY <2>1, <2>2
<1>5. Nested'
  BY <1>4 DEF Nested, Laminar, Reach
<1>6. /\ \A k \in DOMAIN node[p].subs :
           /\ \A l \in DOMAIN node[p].subs : k < l => node[p].subs[k] < node[p].subs[l]
      /\ node[p].next = 0 /\ node[p].subs \in Seq(Nat)
  <2>1. node[p].next = 0
    BY <1>2, TopBody
  <2>2. node[p].subs \in Seq(Nat)
    BY <1>1, <1>2, Living
  <2> QED
    BY <1>1, <1>2, <2>1, <2>2 DEF Sorted
<1>7. PICK v : v = val
  OBVIOUS
<1>8. ASSUME pc = "return"
      PROVE  v \in Nat /\ \A k \in DOMAIN node[p].subs : node[p].subs[k] < v
  <2>1. v \in Nat
    BY <1>7, <1>8, Returned
  <2>2. Reach(p) = Between(p, v)
    BY <1>2, <1>7, <1>8, TopBody
  <2>3. ASSUME NEW k \in DOMAIN node[p].subs PROVE node[p].subs[k] \in Reach(p)
    <3>1. /\ ClosedUnder(Len(node), Kids, Reached(Len(node), Kids, p))
          /\ p \in Reached(Len(node), Kids, p)
      <4>1. p \in 1 .. Len(node) /\ Len(node) \in Nat /\ Upward(Len(node), Kids)
        BY <1>1, <1>2, Living DEF IInv, Nodes
      <4> QED
        BY <4>1, ReachedClosed
    <3>2. node[p].subs[k] \in Kids[p] /\ p \in 1 .. Len(node)
      BY <1>1, <1>2, Living DEF Nodes
    <3> QED
      BY <3>1, <3>2 DEF ClosedUnder, Reach
  <2> QED
    BY <2>1, <2>2, <2>3 DEF Between
<1>9. ASSUME NEW k \in DOMAIN node'[p].subs
      PROVE  /\ \A l \in DOMAIN node'[p].subs : k < l => node'[p].subs[k] < node'[p].subs[l]
             /\ node'[p].next # 0 => node'[p].subs[k] < node'[p].next
  <2>1. CASE node' = node
    BY <1>6, <1>9, <2>1
  <2>2. CASE /\ pc = "return"
             /\ node'[p].subs = Append(node[p].subs, v) /\ node'[p].next = node[p].next
    <3>1. PICK s, t : s \in Seq(Nat) /\ s = node[p].subs /\ t = node'[p].subs /\ t = Append(s, v)
      BY <1>6, <2>2
    <3>2. /\ Len(s) \in Nat /\ DOMAIN s = 1 .. Len(s) /\ DOMAIN t = 1 .. Len(s) + 1
          /\ \A j \in 1 .. Len(s) : t[j] = s[j]
          /\ t[Len(s) + 1] = v
      BY <1>8, <2>2, <3>1, AppendProperties
    <3>3. ASSUME NEW j \in DOMAIN t, NEW l \in DOMAIN t, j < l PROVE t[j] < t[l]
      <4>1. j \in 1 .. Len(s) /\ (l \in 1 .. Len(s) \/ l = Len(s) + 1)
        BY <3>2, <3>3
      <4> QED
        BY <1>6, <1>8, <2>2, <3>1, <3>2, <3>3, <4>1
    <3> QED
      BY <1>6, <1>9, <2>2, <3>1, <3>3
  <2>3. CASE /\ pc = "return" /\ node[v].type = "IF"
             /\ node'[p].subs = node[p].subs /\ node'[p].next = node[v].next
    <3>1. PICK w : w = node[v].next
      OBVIOUS
    <3>2. v \in Alive
      <4>1. val \in Roots
        BY <2>3, Returned
      <4>2. Roots \subseteq Alive
        BY <1>2, AliveClosed DEF Alive
      <4> QED
        BY <1>7, <4>1, <4>2
    <3>3. w \in Nat /\ w # 0 /\ v < w
      BY <1>2, <2>3, <3>1, <3>2, Living DEF Extents
    <3>4. \A j \in DOMAIN node[p].subs : node[p].subs[j] \in Nat /\ node[p].subs[j] < v
      BY <1>6, <1>8, <2>3
    <3>5. \A j \in DOMAIN node[p].subs : node[p].subs[j] < w
      BY <1>8, <2>3, <3>3, <3>4
    <3> QED
      BY <1>6, <1>9, <2>3, <3>1, <3>5
  <2> QED
    BY <1>7, <2>1, <2>2, <2>3 DEF Joins, Adds
<1>10. ASSUME NEW n \in Alive', n # p, NEW k \in DOMAIN node'[n].subs
      PROVE  /\ \A l \in DOMAIN node'[n].subs : k < l => node'[n].subs[k] < node'[n].subs[l]
             /\ node'[n].next # 0 => node'[n].subs[k] < node'[n].next
  BY <1>1, <1>2, <1>10 DEF Sorted
<1>11. Sorted'
  BY <1>9, <1>10 DEF Sorted
<1> QED
  BY <1>5, <1>11

(* The calls around the body and what they read are as they were.          *)
LEMMA JoinStack ==
  ASSUME IInv, IInv', Track, NEW p, NEW b, NEW c, NEW gone, Joins(p, b, c, gone)
  PROVE  /\ Len(stack) \in Nat /\ DOMAIN stack = 1 .. Len(stack)
         /\ DOMAIN stack' \subseteq DOMAIN stack
         /\ Len(stack) \in DOMAIN stack
         /\ stack[Len(stack)].node = p /\ stack[Len(stack)].blk = b
         /\ \A k \in DOMAIN stack : k < Len(stack) \/ k = Len(stack)
         /\ \A k \in DOMAIN stack' : stack'[k] = stack[k]
         /\ \A k \in DOMAIN stack' : k < Len(stack) =>
              /\ Limit(k)' = Limit(k) /\ Limit(k) \in Nat
              /\ \A g \in gone : Limit(k) <= g
         /\ \A k \in DOMAIN stack : k < Len(stack) =>
              /\ stack[k].node \in Alive /\ stack[k].node \in Alive'
              /\ stack[k].node < b /\ stack[k].node < p
         /\ pc' = "body" => stack' = stack
         /\ pc' = "return" => DOMAIN stack' = 1 .. Len(stack) - 1 /\ val' = b /\ b # 0
<1>1. /\ pc \in {"body", "return"} /\ Len(node) \in Nat
      /\ p \in Alive /\ p \in Nat /\ b \in Nat
      /\ \A n \in Alive : n \in Alive' \/ n \in gone
      /\ Extents /\ Regions /\ OpenBodies /\ p = Top.node /\ b = Top.blk
  BY JoinNodes DEF Track, Joins
<1>2. PICK l : /\ l = Len(stack) /\ l \in Nat /\ l \in DOMAIN stack /\ Top = stack[l] /\ l > 0
               /\ \A k \in 1 .. l - 1 : stack[k].node < b
  BY <1>1, TopTyped DEF IInv, Frames
<1>3. /\ stack \in Seq(FrameSet) /\ DOMAIN stack = 1 .. l
      /\ \A k \in DOMAIN stack : k < l \/ k = l
  BY <1>2 DEF IInv, Frames
<1>4. b <= p
  BY <1>1, TopBody
<1>5. \A g \in gone : g > p
  BY <1>1, JoinReach
<1>6. ASSUME NEW k \in DOMAIN stack, k < l
      PROVE  /\ stack[k].node \in Alive /\ stack[k].node \in Alive'
             /\ stack[k].node < b /\ stack[k].node < p
  <2>1. stack[k].node \in Alive
    BY <1>1, BodiesAlive DEF Alive
  <2>2. stack[k].node \in Nat
    BY <1>1, <2>1, Living
  <2>3. k \in 1 .. l - 1
    BY <1>2, <1>3, <1>6
  <2>4. stack[k].node < b /\ stack[k].node < p
    BY <1>1, <1>2, <1>4, <2>2, <2>3
  <2>5. stack[k].node \notin gone
    BY <1>1, <1>5, <2>2, <2>4
  <2> QED
    BY <1>1, <2>1, <2>4, <2>5
<1>7. ASSUME pc' = "body"
      PROVE  stack' = stack
  BY <1>7 DEF Joins, Goes
<1>8. ASSUME pc' = "return"
      PROVE  /\ Len(stack') = l - 1 /\ DOMAIN stack' = 1 .. l - 1 /\ val' = b /\ b # 0
             /\ \A k \in 1 .. l - 1 : stack'[k] = stack[k]
  <2>1. stack' = Pop /\ val' = b /\ b # 0
    BY <1>8 DEF Joins, Goes
  <2>2. stack' = SubSeq(stack, 1, l - 1)
    BY <1>2, <2>1 DEF Pop
  <2> QED
    BY <1>2, <1>3, <2>1, <2>2
<1>9. pc' = "body" \/ pc' = "return"
  BY DEF Joins, Goes
<1>10. /\ DOMAIN stack' \subseteq DOMAIN stack
       /\ \A k \in DOMAIN stack' : stack'[k] = stack[k]
  BY <1>2, <1>3, <1>7, <1>8, <1>9
<1>11. ASSUME NEW k \in DOMAIN stack', k < l
       PROVE  /\ Limit(k)' = Limit(k) /\ Limit(k) \in Nat
              /\ \A g \in gone : Limit(k) <= g
  <2>1. Limit(k) = stack[k + 1].blk /\ k + 1 \in 1 .. l /\ k \in 1 .. l
    BY <1>2, <1>3, <1>10, <1>11 DEF Limit
  <2>2. Limit(k)' = Limit(k)
    <3>1. CASE pc' = "body"
      BY <1>2, <1>7, <1>11, <2>1, <3>1 DEF Limit
    <3>2. CASE pc' = "return" /\ k < l - 1
      <4>1. k + 1 \in 1 .. l - 1 /\ k < Len(stack')
        BY <1>2, <1>8, <2>1, <3>2
      <4>2. Limit(k)' = stack'[k + 1].blk
        BY <4>1 DEF Limit
      <4> QED
        BY <1>8, <2>1, <3>2, <4>1, <4>2
    <3>3. CASE pc' = "return" /\ ~(k < l - 1)
      <4>1. k + 1 = l /\ ~(k < Len(stack'))
        BY <1>2, <1>8, <1>11, <2>1, <3>3
      <4>2. Limit(k)' = val'
        BY <3>3, <4>1 DEF Limit
      <4> QED
        BY <1>1, <1>2, <1>8, <2>1, <3>3, <4>1, <4>2
    <3> QED
      BY <1>9, <3>1, <3>2, <3>3
  <2>3. Limit(k) \in Nat
    <3>1. k + 1 \in DOMAIN stack
      BY <1>3, <2>1
    <3>2. stack[k + 1].blk \in 0 .. Len(node)
      BY <3>1, FrameTyped DEF IInv
    <3> QED
      BY <2>1, <3>2
  <2>4. ASSUME NEW g \in gone PROVE Limit(k) <= g
    <3>1. pc = "return" /\ g = val
      BY <2>4 DEF Joins, Adds
    <3>2. k + 1 \in DOMAIN stack
      BY <1>3, <2>1
    <3>3. stack[k + 1].blk < val /\ val \in Nat
      BY <3>1, <3>2, Returned
    <3> QED
      BY <2>1, <2>3, <3>1, <3>3
  <2> QED
    BY <2>2, <2>3, <2>4
<1>12. pc' = "return" => DOMAIN stack' = 1 .. l - 1 /\ val' = b /\ b # 0
  BY <1>8
<1> QED
  BY <1>1, <1>2, <1>3, <1>6, <1>7, <1>10, <1>11, <1>12

(* A body being read holds all up to the next one.                         *)
LEMMA JoinRegions ==
  ASSUME IInv, IInv', Track, NEW p, NEW b, NEW c, NEW gone, Joins(p, b, c, gone)
  PROVE  Regions'
<1>1. /\ pc \in {"body", "return"} /\ Len(node) \in Nat /\ Len(node') = Len(node)
      /\ p \in Alive /\ p \in Nat /\ b \in Nat
      /\ \A n \in Alive' : n \in Alive /\ n \in Nat /\ n <= Len(node) /\ n \notin gone
      /\ \A n \in Alive : n \in Alive' \/ n \in gone
  BY JoinNodes
<1>2. Extents /\ Regions /\ OpenBodies
  BY DEF Track
<1>3. /\ Reach(p)' = {x \in Alive' : p <= x}
      /\ b # 0 => Reach(b)' = {x \in Alive' : b <= x}
      /\ \A n \in Alive' : n # p /\ n # b => Reach(n)' = Reach(n)
      /\ gone \subseteq Alive
  BY <1>1, <1>2, JoinReach
<1>4. \A n \in Alive : n \in Nat
  BY <1>1, Living
<1>5. PICK N : N = Len(node) /\ N = Len(node') /\ N \in Nat
  BY <1>1
<1>6. ASSUME NEW q \in Nat
      PROVE  Between(q, N + 1)' = {x \in Alive' : q <= x}
  <2>1. \A x \in Alive' : x < N + 1
    BY <1>1, <1>5
  <2> QED
    BY <2>1 DEF Between
<1>7. ASSUME NEW k \in DOMAIN stack'
      PROVE  (/\ Reach(stack[k].node) = Between(stack[k].node, Limit(k))
              /\ stack[k].node <= stack[k].blk + 1)'
  <2>1. k \in DOMAIN stack /\ stack'[k] = stack[k]
    BY JoinStack
  <2>2. PICK q, r : q = stack[k].node /\ r = Limit(k)
    OBVIOUS
  <2>3. Reach(q) = Between(q, r) /\ q <= stack[k].blk + 1
    BY <1>2, <2>1, <2>2 DEF Regions
  <2>4. CASE k < Len(stack)
    <3>1. /\ r = Limit(k)' /\ r \in Nat /\ \A g \in gone : r <= g
          /\ q \in Alive /\ q \in Alive' /\ q # b /\ q # p
      <4>1. /\ r = Limit(k)' /\ r \in Nat /\ \A g \in gone : r <= g
            /\ q \in Alive /\ q \in Alive' /\ q < b /\ q < p
        BY <2>1, <2>2, <2>4, JoinStack
      <4> QED
        BY <1>1, <1>4, <4>1
    <3>2. Reach(q)' = Reach(q)
      BY <1>3, <3>1
    <3>3. Between(q, r)' = Between(q, r)
      <4>1. \A x \in gone : x \in Nat /\ ~(x < r)
        BY <1>3, <1>4, <3>1
      <4>2. \A x \in Alive : x < r => x \in Alive'
        BY <1>1, <4>1
      <4> QED
        BY <1>1, <4>2 DEF Between
    <3> QED
      BY <2>1, <2>2, <2>3, <3>1, <3>2, <3>3 DEF Reach, Between
  <2>5. CASE k = Len(stack)
    <3>1. q = p /\ pc' = "body" /\ stack' = stack
      <4>1. pc' # "return"
        <5>1. DOMAIN stack' # 1 .. Len(stack) - 1
          <6>1. Len(stack) \in Nat /\ Len(stack) \in DOMAIN stack'
            BY <2>5, JoinStack
          <6> QED
            BY <6>1
        <5> QED
          BY <5>1, JoinStack
      <4> QED
        BY <2>2, <2>5, <4>1, JoinStack, JoinNodes
    <3>2. Limit(k)' = N + 1
      <4>1. ~(k < Len(stack'))
        <5>1. Len(stack) \in Nat
          BY JoinStack
        <5> QED
          BY <2>5, <3>1, <5>1
      <4> QED
        BY <1>5, <3>1, <4>1 DEF Limit
    <3>3. Reach(p)' = Between(p, N + 1)'
      BY <1>1, <1>3, <1>6
    <3> QED
      BY <2>1, <2>2, <2>3, <3>1, <3>2, <3>3 DEF Reach, Between
  <2> QED
    BY <2>1, <2>4, <2>5, JoinStack
<1>8. (pc = "return" => Reach(val) = Between(val, Len(node) + 1))'
  <2> SUFFICES ASSUME pc' = "return"
               PROVE  (Reach(val) = Between(val, Len(node) + 1))'
    OBVIOUS
  <2>1. val' = b /\ b # 0
    BY JoinStack
  <2>2. Reach(b)' = Between(b, N + 1)'
    BY <1>1, <1>3, <1>6, <2>1
  <2> QED
    BY <1>5, <2>1, <2>2 DEF Reach, Between
<1> QED
  BY <1>7, <1>8 DEF Regions

(* A body being read has no closing tag yet,                               *)
LEMMA JoinBodies ==
  ASSUME IInv, IInv', Track, NEW p, NEW b, NEW c, NEW gone, Joins(p, b, c, gone)
  PROVE  OpenBodies'
<1>1. /\ pc \in {"body", "return"} /\ p \in Alive /\ p \in Nat /\ b \in Nat
      /\ \A n \in Alive' :
           /\ n \in Alive /\ n \in Nat /\ node'[n].type = node[n].type
           /\ n # p => node'[n] = node[n]
      /\ \A n \in Alive : Kids[n] \subseteq Alive /\ Alive \subseteq Nodes
      /\ \A n \in Alive : \A j \in DOMAIN node[n].subs : node[n].subs[j] \in Kids[n]
      /\ p \in Alive' /\ p = Top.node /\ b = Top.blk
      /\ \A n \in Nodes : node'[n].type = node[n].type
  BY JoinNodes, Living DEF Joins
<1>2. Extents /\ Regions /\ OpenBodies
  BY DEF Track
<1> SUFFICES ASSUME NEW k \in DOMAIN stack', NEW q, q = stack'[k].node
             PROVE  /\ node'[q].next = 0
                    /\ \A j \in DOMAIN node'[q].subs : node'[node'[q].subs[j]].type # "CLOSE"
                    /\ k = 1 => node'[q].type = "template"
                    /\ stack'[k].kind = "IF" => node'[q].type = "branch"
  BY DEF OpenBodies, Closing
<1>3. /\ k \in DOMAIN stack /\ stack'[k] = stack[k] /\ q = stack[k].node
      /\ k < Len(stack) \/ k = Len(stack)
  BY JoinStack
<1>4. /\ node[q].next = 0
      /\ \A j \in DOMAIN node[q].subs : node[node[q].subs[j]].type # "CLOSE"
      /\ k = 1 => node[q].type = "template"
      /\ stack[k].kind = "IF" => node[q].type = "branch"
  BY <1>2, <1>3 DEF OpenBodies, Closing
<1>5. CASE k < Len(stack)
  <2>1. q \in Alive /\ q \in Alive' /\ q < p
    BY <1>3, <1>5, JoinStack
  <2>2. q # p /\ node'[q] = node[q]
    <3>1. q \in Nat /\ p \in Nat /\ q < p
      BY <1>1, <2>1
    <3>2. q # p
      BY <3>1
    <3> QED
      BY <1>1, <2>1, <3>2
  <2>3. \A j \in DOMAIN node[q].subs : node'[node[q].subs[j]].type = node[node[q].subs[j]].type
    BY <1>1, <2>1
  <2> QED
    BY <1>3, <1>4, <2>2, <2>3
<1>6. CASE k = Len(stack)
  <2>1. q = p
    BY <1>3, <1>6, JoinStack
  <2>2. pc' # "return"
    <3>1. DOMAIN stack' # 1 .. Len(stack) - 1
      <4>1. Len(stack) \in Nat /\ Len(stack) \in DOMAIN stack'
        BY <1>6, JoinStack
      <4> QED
        BY <4>1
    <3> QED
      BY <3>1, JoinStack
  <2>3. /\ c = {val} /\ pc = "return" /\ node[val].type # "CLOSE"
    BY <2>2 DEF Joins, Goes, Closing
  <2>4. PICK v : v = val
    OBVIOUS
  <2>5. v \in Nodes /\ v \in Nat /\ node[v].type # "CLOSE" /\ node'[v].type = node[v].type
    BY <1>1, <2>3, <2>4, Returned
  <2>6. \/ node'[p].subs = Append(node[p].subs, v) /\ node'[p].next = node[p].next
        \/ node[v].type = "IF" /\ v = node[v].next
    BY <2>3, <2>4 DEF Joins, Adds
  <2>7. ~(node[v].type = "IF" /\ v = node[v].next)
    <3>1. v \in Alive
      <4>1. val \in Roots
        BY <2>3, Returned
      <4> QED
        BY <1>1, <2>4, <4>1, AliveClosed DEF Alive
    <3>2. node[v].next # 0 => v < node[v].next
      BY <1>1, <3>1, Living
    <3> QED
      BY <1>2, <2>5, <3>1, <3>2 DEF Extents
  <2>8. PICK s, t : s \in Seq(Nat) /\ s = node[p].subs /\ t = node'[p].subs /\ t = Append(s, v)
    BY <1>1, <2>6, <2>7, Living
  <2>9. /\ Len(s) \in Nat /\ DOMAIN s = 1 .. Len(s) /\ DOMAIN t = 1 .. Len(s) + 1
        /\ \A j \in 1 .. Len(s) : t[j] = s[j]
        /\ t[Len(s) + 1] = v
    BY <2>5, <2>8, AppendProperties
  <2>10. ASSUME NEW j \in DOMAIN t PROVE node'[t[j]].type # "CLOSE"
    <3>1. CASE j = Len(s) + 1
      BY <2>5, <2>9, <3>1
    <3>2. CASE j # Len(s) + 1
      <4>1. j \in 1 .. Len(s)
        BY <2>9, <3>2
      <4>2. s[j] \in Nodes /\ node[s[j]].type # "CLOSE" /\ t[j] = s[j]
        <5>1. s = node[q].subs /\ j \in DOMAIN s /\ t[j] = s[j]
          BY <2>1, <2>8, <2>9, <4>1
        <5>2. s[j] \in Nodes
          BY <1>1, <2>1, <5>1
        <5> QED
          BY <1>4, <5>1, <5>2
      <4>3. \A n \in Nodes : node'[n].type = node[n].type
        BY <1>1
      <4> QED
        BY <4>2, <4>3
    <3> QED
      BY <3>1, <3>2
  <2>11. node'[q].next = 0
    BY <1>4, <2>1, <2>6, <2>7
  <2>12. \A j \in DOMAIN node'[q].subs : node'[node'[q].subs[j]].type # "CLOSE"
    BY <2>1, <2>8, <2>10
  <2>13. node'[q].type = node[q].type
    BY <1>1, <2>1
  <2> QED
    BY <1>3, <1>4, <2>11, <2>12, <2>13
<1> QED
  BY <1>3, <1>5, <1>6

(* and what closes a body is its last block, and of its kind.              *)
LEMMA JoinClosings ==
  ASSUME IInv, IInv', Track, NEW p, NEW b, NEW c, NEW gone, Joins(p, b, c, gone)
  PROVE  ClosingLast'
<1>1. /\ pc \in {"body", "return"} /\ p \in Alive /\ p \in Alive' /\ p \in Nat /\ b \in Nat
      /\ \A n \in Alive' : n \in Alive /\ (n # p => node'[n] = node[n])
      /\ \A n \in Alive : Kids[n] \subseteq Alive /\ Alive \subseteq Nodes
      /\ \A n \in Alive : \A j \in DOMAIN node[n].subs : node[n].subs[j] \in Kids[n]
      /\ p = Top.node /\ b = Top.blk /\ toks' = toks
      /\ \A n \in Nodes : node'[n].type = node[n].type /\ node'[n].from = node[n].from
  BY JoinNodes, Living DEF Joins
<1>2. Extents /\ Regions /\ OpenBodies /\ ClosingLast
  BY DEF Track
<1>3. ASSUME NEW n \in Nodes, NEW x \in Nodes PROVE ClosesOf(n, x)' <=> ClosesOf(n, x)
  BY <1>1, <1>3 DEF ClosesOf, ClosedBy
<1>4. ASSUME NEW n \in Alive', NEW k \in DOMAIN node'[n].subs, NEW x, x = node'[n].subs[k],
             node'[x].type = "CLOSE"
      PROVE  k = Len(node'[n].subs) /\ ClosesOf(n, x)'
  <2>1. CASE node'[n].subs = node[n].subs
    <3>1. n \in Alive /\ n \in Nodes /\ x = node[n].subs[k] /\ k \in DOMAIN node[n].subs
      BY <1>1, <1>4, <2>1
    <3>2. x \in Nodes /\ node[x].type = "CLOSE"
      BY <1>1, <1>4, <3>1
    <3>3. k = Len(node[n].subs) /\ ClosesOf(n, x)
      BY <1>2, <3>1, <3>2 DEF ClosingLast, Closing
    <3> QED
      BY <1>3, <2>1, <3>1, <3>2, <3>3
  <2>2. CASE n = p /\ pc = "return" /\ node'[p].subs = Append(node[p].subs, val)
    <3>1. PICK v : v = val /\ v \in Nodes /\ v \in Nat
      BY <2>2, Returned
    <3>2. PICK s, t : s \in Seq(Nat) /\ s = node[p].subs /\ t = node'[p].subs /\ t = Append(s, v)
      BY <1>1, <2>2, <3>1, Living
    <3>3. /\ Len(s) \in Nat /\ DOMAIN s = 1 .. Len(s) /\ DOMAIN t = 1 .. Len(s) + 1
          /\ Len(t) = Len(s) + 1
          /\ \A j \in 1 .. Len(s) : t[j] = s[j]
          /\ t[Len(s) + 1] = v
      BY <3>1, <3>2, AppendProperties
    <3>4. CASE k \in 1 .. Len(s)
      <4>1. k \in DOMAIN node[p].subs /\ x = node[p].subs[k]
        BY <1>4, <2>2, <3>2, <3>3, <3>4
      <4>2. x \in Nodes /\ node[x].type = "CLOSE"
        BY <1>1, <1>4, <4>1
      <4> QED
        BY <1>1, <1>2, <4>1, <4>2, TopBody DEF Closing
    <3>5. CASE k = Len(s) + 1
      <4>1. x = v /\ node[v].type = "CLOSE" /\ k = Len(node'[n].subs)
        BY <1>1, <1>4, <2>2, <3>1, <3>2, <3>3, <3>5
      <4>2. ClosesOf(Top.node, val)
        BY <1>2, <2>2, <3>1, <4>1 DEF ClosingLast, Closing
      <4>3. ClosesOf(p, v)
        BY <1>1, <3>1, <4>2 DEF ClosesOf, ClosedBy
      <4>4. ClosesOf(p, v)'
        BY <1>1, <1>3, <3>1, <4>3
      <4> QED
        BY <2>2, <4>1, <4>4
    <3> QED
      BY <1>4, <2>2, <3>2, <3>3, <3>4, <3>5
  <2>3. n # p => node'[n].subs = node[n].subs
    BY <1>1
  <2>4. /\ \/ node' = node \/ node'[p].subs = node[p].subs
           \/ pc = "return" /\ node'[p].subs = Append(node[p].subs, val)
    BY DEF Joins, Adds
  <2> QED
    BY <2>1, <2>2, <2>3, <2>4
<1>5. ~(pc' = "return" /\ node'[val'].type = "CLOSE")
  <2> SUFFICES ASSUME pc' = "return" PROVE node'[val'].type # "CLOSE"
    OBVIOUS
  <2>1. val' = b /\ b # 0
    BY JoinStack
  <2>2. b \in Alive /\ node[b].type \in {"FOR", "IF", "BLOCK"}
    BY <1>1, <1>2, <2>1, TopBody
  <2>3. node'[b].type = node[b].type
    BY <1>1, <2>2
  <2> QED
    BY <2>1, <2>2, <2>3
<1> QED
  BY <1>4, <1>5 DEF ClosingLast, Closing

(* The body that is left was ended: by a closing tag, by an alternative,   *)
(* or by the end of the template, the last token of which is in it.        *)
LEMMA JoinEnded ==
  ASSUME IInv, IInv', Track, NEW p, NEW b, NEW c, NEW gone, Joins(p, b, c, gone)
  PROVE  AllEnded'
<1>1. /\ pc \in {"body", "return"} /\ p \in Alive /\ p \in Alive' /\ p \in Nat /\ b \in Nat
      /\ \A n \in Alive' : n \in Alive /\ n \in Nodes /\ n \in Nat /\ (n # p => node'[n] = node[n])
      /\ \A n \in Alive : n \in Nat /\ Kids[n] \subseteq Alive /\ Alive \subseteq Nodes
      /\ \A n \in Alive : \A j \in DOMAIN node[n].subs : node[n].subs[j] \in Kids[n]
      /\ \A n \in Alive : node[n].subs \in Seq(Nat) /\ Reach(n) \subseteq Alive
      /\ p = Top.node /\ b = Top.blk /\ toks' = toks
      /\ \A n \in Nodes : node'[n].type = node[n].type
                          /\ node'[n].from = node[n].from /\ node'[n].to = node[n].to
  BY JoinNodes, Living DEF Joins
<1>2. Extents /\ Regions /\ OpenBodies /\ AllEnded /\ InOrder /\ Covered
  BY DEF Track
<1>3. /\ Reach(p)' = {x \in Alive' : p <= x} /\ Alive' = Alive \ gone
      /\ \A n \in Alive' : n # p /\ n # b => Reach(n)' = Reach(n)
  BY <1>1, <1>2, JoinReach
<1> SUFFICES ASSUME NEW n \in Alive', n \notin Bodies', node'[n].type \in {"FOR", "BLOCK", "branch"}
             PROVE  BodyEnded(n)'
  BY DEF AllEnded
<1>4. CASE n # p
  <2>1. n \in Alive /\ node'[n] = node[n]
    BY <1>1, <1>4
  <2>2. n \notin Bodies
    <3>1. ASSUME NEW k \in DOMAIN stack, n = stack[k].node PROVE FALSE
      <4>1. k \in DOMAIN stack'
        <5>1. k < Len(stack)
          BY <1>4, <3>1, JoinStack
        <5>2. DOMAIN stack' = DOMAIN stack \/ DOMAIN stack' = 1 .. Len(stack) - 1
          BY JoinStack, JoinNodes
        <5>3. k \in 1 .. Len(stack) /\ Len(stack) \in Nat
          BY JoinStack
        <5> QED
          BY <5>1, <5>2, <5>3
      <4>2. stack'[k] = stack[k]
        BY <4>1, JoinStack
      <4> QED
        BY <3>1, <4>1, <4>2 DEF Bodies
    <3> QED
      BY <3>1 DEF Bodies
  <2>3. BodyEnded(n)
    BY <1>2, <2>1, <2>2 DEF AllEnded
  <2>4. n # b
    <3>1. b # 0 /\ b # p => node[b].type = "IF"
      BY <1>1, <1>2, TopBody
    <3>2. n # 0
      BY <1>1, <2>1, Living
    <3> QED
      BY <1>4, <2>1, <3>1, <3>2
  <2>5. Reach(n)' = Reach(n) /\ Reach(n) \subseteq Nodes
    BY <1>1, <1>3, <1>4, <2>1, <2>4
  <2>6. ASSUME node[n].subs # << >>
        PROVE  node[n].subs[Len(node[n].subs)] \in Nodes
    <3>1. Len(node[n].subs) \in DOMAIN node[n].subs
      <4>1. node[n].subs \in Seq(Nat)
        BY <1>1, <2>1
      <4> QED
        BY <2>6, <4>1
    <3> QED
      BY <1>1, <2>1, <3>1
  <2>7. \A m \in Reach(n) : Own(m)' = Own(m)
    BY <1>1, <2>5 DEF Own
  <2> QED
    BY <1>1, <2>1, <2>3, <2>5, <2>6, <2>7 DEF BodyEnded, Closing
<1>5. CASE n = p
  <2>1. pc' = "return"
    <3>1. pc' # "body"
      <4>1. stack' # stack
        <5>1. Len(stack) \in DOMAIN stack /\ stack[Len(stack)].node = p
          BY JoinStack
        <5> QED
          BY <1>5, <5>1 DEF Bodies
      <4> QED
        BY <4>1, JoinStack
    <3> QED
      BY <3>1, JoinNodes
  <2>2. CASE pc = "body" /\ gone = {} /\ Read = Len(toks)
    <3>1. PICK r : r = Len(toks) /\ r \in Nat
      BY <1>1, Living
    <3>2. /\ node[p].type \in {"FOR", "BLOCK", "branch"} /\ node[p].to # 0
          /\ node[p].from \in 1 .. node[p].to /\ node[p].to <= r
      <4>1. node[p].type \in {"FOR", "BLOCK", "branch"}
        BY <1>1, <1>5
      <4> QED
        BY <1>1, <1>2, <2>2, <3>1, <4>1 DEF Extents
    <3>3. node[p].to \in Nat /\ node[p].from \in Nat
      BY <1>1, Living
    <3>4. r \in 1 .. Read
      BY <2>2, <3>1, <3>2, <3>3
    <3>5. PICK m \in Alive : r \in node[m].from .. node[m].to
      BY <1>2, <3>4 DEF Covered, Own
    <3>6. p <= m
      <4>1. SUFFICES ASSUME m < p PROVE FALSE
        BY <1>1, <3>5
      <4>2. node[m].to < node[p].from
        BY <1>1, <1>2, <3>2, <3>5, <4>1 DEF InOrder
      <4>3. node[m].to \in Nat /\ node[m].from \in Nat
        BY <1>1, <3>5, Living
      <4> QED
        BY <3>1, <3>2, <3>3, <3>5, <4>2, <4>3
    <3>7. m \in Alive' /\ m \in Nodes
      BY <1>1, <1>3, <2>2, <3>5
    <3>8. m \in Reach(p)' /\ Own(m)' = node[m].from .. node[m].to
      BY <1>1, <1>3, <3>6, <3>7 DEF Own
    <3> QED
      BY <1>1, <1>5, <3>1, <3>5, <3>8 DEF BodyEnded
  <2>3. CASE /\ pc = "return" /\ c = {val}
             /\ node'[p].subs = Append(node[p].subs, val)
    <3>1. PICK v : v = val /\ v \in Nodes /\ v \in Nat
      BY <2>3, Returned
    <3>2. node[v].type = "CLOSE"
      BY <2>1, <2>3, <3>1 DEF Joins, Goes, Closing
    <3>3. PICK s, t : s \in Seq(Nat) /\ s = node[p].subs /\ t = node'[p].subs /\ t = Append(s, v)
      BY <1>1, <2>3, <3>1
    <3>4. t # << >> /\ t[Len(t)] = v
      BY <3>1, <3>3, AppendProperties
    <3> QED
      BY <1>1, <1>5, <3>1, <3>2, <3>3, <3>4 DEF BodyEnded, Closing
  <2>4. CASE pc = "return" /\ node[val].type = "IF" /\ node'[p].next = node[val].next
    <3>1. val \in Alive
      <4>1. val \in Roots
        BY <2>4, Returned
      <4> QED
        BY <1>1, <4>1, AliveClosed DEF Alive
    <3>2. node'[p].next # 0
      BY <1>2, <2>4, <3>1 DEF Extents
    <3> QED
      BY <1>5, <3>2 DEF BodyEnded
  <2> QED
    BY <2>2, <2>3, <2>4 DEF Joins, Adds
<1> QED
  BY <1>4, <1>5

(* A block that ends is the last of its name, and those of the name that   *)
(* ended before are below it or before it.                                 *)
LEMMA JoinLatest ==
  ASSUME IInv, IInv', Track, NEW p, NEW b, NEW c, NEW gone, Joins(p, b, c, gone)
  PROVE  Latest'
<1>1. /\ pc \in {"body", "return"} /\ p \in Alive /\ p \in Nat /\ b \in Nat
      /\ \A n \in Alive' :
           /\ n \in Alive /\ n \in Nat
           /\ node'[n].type = node[n].type /\ node'[n].name = node[n].name
      /\ \A n \in Alive : n \in Alive' \/ n \in gone
      /\ \A n \in Alive : n \in Nat /\ Reach(n) \subseteq Alive /\ \A x \in Reach(n) : n <= x
      /\ p = Top.node /\ b = Top.blk
  BY JoinNodes, Living DEF Joins
<1>2. Extents /\ Regions /\ OpenBodies /\ Nested /\ Latest
  BY DEF Track
<1>3. /\ \A g \in gone : node[g].type = "IF"
      /\ Reach(p)' = {x \in Alive' : p <= x}
      /\ b # 0 => Reach(b)' = {x \in Alive' : b <= x}
      /\ \A n \in Alive' : n # p /\ n # b => Reach(n)' = Reach(n)
      /\ b # 0 => \A n \in Alive : n # b => b \notin Reach(n)
  BY <1>1, <1>2, JoinReach
<1>4. /\ p # b => node[p].type \in {"template", "branch"}
      /\ b # 0 => b \in Alive /\ node[b].type = Top.kind
      /\ Top.kind = "BLOCK" => b # 0 /\ node[b].type = "BLOCK"
  BY <1>1, <1>2, TopBody
<1>5. ASSUME NEW t \in Alive, NEW n \in Alive', n \in Reach(t), t \in Alive'
      PROVE  n \in Reach(t)'
  <2>1. t <= n
    BY <1>1, <1>5
  <2>2. CASE t = p
    BY <1>3, <2>1, <2>2
  <2>3. CASE t = b
    <3>1. b # 0
      BY <1>1, <1>5, <2>3, Living
    <3> QED
      BY <1>3, <2>1, <2>3, <3>1
  <2>4. CASE t # p /\ t # b
    BY <1>3, <1>5, <2>4
  <2> QED
    BY <2>2, <2>3, <2>4
<1>6. ASSUME NEW n \in Alive', node[n].type = "BLOCK", n # b PROVE Reach(n)' = Reach(n)
  <2>1. n # p
    BY <1>4, <1>6
  <2> QED
    BY <1>3, <1>6, <2>1
<1>7. ASSUME NEW n \in Alive', n \notin Opened', n # b PROVE n \notin Opened
  <2>1. ASSUME NEW k \in DOMAIN stack, n = stack[k].blk PROVE FALSE
    <3>1. k < Len(stack)
      BY <1>7, <2>1, JoinStack
    <3>2. k \in DOMAIN stack'
      <4>1. DOMAIN stack' = DOMAIN stack \/ DOMAIN stack' = 1 .. Len(stack) - 1
        BY JoinStack, JoinNodes
      <4>2. k \in 1 .. Len(stack) /\ Len(stack) \in Nat
        BY JoinStack
      <4> QED
        BY <3>1, <4>1, <4>2
    <3>3. stack'[k] = stack[k]
      BY <3>2, JoinStack
    <3> QED
      BY <1>7, <2>1, <3>2, <3>3 DEF Opened
  <2> QED
    BY <2>1 DEF Opened
<1>8. ASSUME stack' = stack PROVE b \in Opened'
  <2>1. Len(stack) \in DOMAIN stack /\ stack[Len(stack)].blk = b
    BY JoinStack
  <2> QED
    BY <1>8, <2>1 DEF Opened
<1> SUFFICES ASSUME NEW name \in Names, NEW u, u = tblocks'[name]
             PROVE  /\ u # 0 => u \in Alive' /\ node'[u].type = "BLOCK" /\ node'[u].name = name
                    /\ \A n \in Alive' \ Opened' :
                         node'[n].type = "BLOCK" /\ node'[n].name = name =>
                           u # 0 /\ (n \in Reach(u)' \/ \A x \in Reach(n)' : x < u)
  BY DEF Latest
<1>9. PICK t : t = tblocks[name]
  OBVIOUS
<1>10. /\ t # 0 => t \in Alive /\ node[t].type = "BLOCK" /\ node[t].name = name
       /\ \A n \in Alive \ Opened :
            node[n].type = "BLOCK" /\ node[n].name = name =>
              t # 0 /\ (n \in Reach(t) \/ \A x \in Reach(n) : x < t)
  BY <1>2, <1>9 DEF Latest
<1>11. t # 0 => t \in Alive' /\ node'[t].type = "BLOCK" /\ node'[t].name = name
  BY <1>1, <1>3, <1>10
<1>12. CASE /\ u = t
            /\ \A n \in Alive' \ Opened' :
                 n # b \/ node[n].type # "BLOCK" \/ node[n].name # name
  <2>1. ASSUME NEW n \in Alive', n \notin Opened', node'[n].type = "BLOCK", node'[n].name = name
        PROVE  u # 0 /\ (n \in Reach(u)' \/ \A x \in Reach(n)' : x < u)
    <3>1. n \in Alive /\ node[n].type = "BLOCK" /\ node[n].name = name /\ n # b
      BY <1>1, <1>12, <2>1
    <3>2. n \notin Opened /\ Reach(n)' = Reach(n)
      BY <1>6, <1>7, <2>1, <3>1
    <3>3. t # 0 /\ (n \in Reach(t) \/ \A x \in Reach(n) : x < t)
      BY <1>10, <3>1, <3>2
    <3>4. n \in Reach(t) => n \in Reach(t)'
      BY <1>5, <1>10, <1>11, <2>1, <3>3
    <3> QED
      BY <1>12, <3>2, <3>3, <3>4
  <2> QED
    BY <1>11, <1>12, <2>1
<1>13. CASE u = b /\ b # 0 /\ node[b].type = "BLOCK" /\ node[b].name = name
  <2>1. b \in Alive' /\ node'[b].type = "BLOCK" /\ node'[b].name = name
    BY <1>1, <1>3, <1>4, <1>13
  <2>2. ASSUME NEW n \in Alive', node'[n].type = "BLOCK"
        PROVE  n \in Reach(b)' \/ \A x \in Reach(n)' : x < b
    <3>1. CASE b <= n
      BY <1>3, <1>13, <2>2, <3>1
    <3>2. CASE n < b
      <4>1. n # b /\ n \in Alive /\ node[n].type = "BLOCK"
        BY <1>1, <2>2, <3>2
      <4>2. b \in Reach(n) \/ \A x \in Reach(n) : x < b
        BY <1>2, <1>4, <1>13, <3>2, <4>1 DEF Nested, Laminar, Reach
      <4>3. b \notin Reach(n)
        BY <1>3, <1>13, <4>1
      <4>4. Reach(n)' = Reach(n)
        BY <1>6, <2>2, <4>1
      <4> QED
        BY <4>2, <4>3, <4>4
    <3> QED
      BY <1>1, <2>2, <3>1, <3>2
  <2> QED
    BY <1>13, <2>1, <2>2
<1>14. \/ stack' = stack /\ tblocks' = tblocks
       \/ tblocks' = IF Top.kind = "BLOCK" THEN [tblocks EXCEPT ![node[b].name] = b]
                     ELSE tblocks
  BY DEF Joins, Goes
<1>15. CASE stack' = stack /\ tblocks' = tblocks
  <2>1. \A n \in Alive' \ Opened' : n # b
    BY <1>8, <1>15
  <2> QED
    BY <1>9, <1>12, <1>15, <2>1
<1>16. CASE Top.kind # "BLOCK" /\ tblocks' = tblocks
  <2>1. \A n \in Alive' : n = b => node[n].type # "BLOCK"
    <3>1. \A n \in Alive' : n # 0
      BY <1>1, Living
    <3> QED
      BY <1>4, <1>16, <3>1
  <2> QED
    BY <1>9, <1>12, <1>16, <2>1
<1>17. CASE Top.kind = "BLOCK" /\ tblocks' = [tblocks EXCEPT ![node[b].name] = b]
  <2>1. tblocks \in [Names -> 0 .. Len(node)]
    BY DEF IInv, Typed
  <2>2. u = IF name = node[b].name THEN b ELSE t
    BY <1>9, <1>17, <2>1
  <2> QED
    BY <1>4, <1>12, <1>13, <1>17, <2>2
<1> QED
  BY <1>14, <1>15, <1>16, <1>17

(* At the end of the template there is nothing left to read.               *)
LEMMA AtEnd ==
  ASSUME Typed
  PROVE  /\ Len(toks) \in Nat /\ cur \in Nat
         /\ Type(cur) = "EOF" => cur = Len(toks) + 1
         /\ Type(cur) # "EOF" => cur <= Len(toks)
<1>1. Len(toks) \in Nat /\ DOMAIN toks = 1 .. Len(toks) /\ cur \in 1 .. Len(toks) + 1
  BY SourceAssumption DEF Typed
<1>2. \A i \in DOMAIN toks : toks[i] # "EOF"
  <2>1. PICK S : toks \in Seq(S \ {"IDENT", "EOF"})
    BY SourceAssumption DEF Typed
  <2> QED
    BY <2>1
<1>3. ASSUME cur \in DOMAIN toks PROVE Type(cur) # "EOF"
  BY <1>2, <1>3 DEF Type, TypeAt, TokenAt
<1>4. Type(cur) # "EOF" => cur <= Len(toks)
  <2>1. Type(cur) # "EOF" => cur \in 1 .. Len(toks)
    BY Inside
  <2> QED
    BY <1>1, <2>1
<1> QED
  BY <1>1, <1>3, <1>4

(* A body that meets the end of the template is left as it is;             *)
LEMMA EndJoins ==
  ASSUME IInv, Track, EndOfSource, Top.kind # "template"
  PROVE  \E p, b, c, gone : Joins(p, b, c, gone)
<1>1. /\ pc = "body" /\ toks' = toks /\ cur' = cur /\ node' = node /\ freed' = freed
      /\ Type(cur) = "EOF" /\ Finish
  BY DEF EndOfSource
<1>2. PICK p, b : p = Top.node /\ b = Top.blk
  OBVIOUS
<1>3. /\ p \in Alive /\ b # 0 /\ b \in Alive /\ node[b].type \in {"FOR", "IF", "BLOCK"}
  BY <1>1, <1>2, TopBody DEF Track
<1>4. Nodes' = Nodes /\ Kids' = Kids
  BY <1>1, SameNodes
<1>5. cur = Len(toks) + 1 /\ Len(toks) \in Nat
  BY <1>1, AtEnd DEF IInv
<1>6. /\ pc' = "return" /\ stack' = Pop /\ val' = b
      /\ tblocks' = IF Top.kind = "BLOCK" THEN [tblocks EXCEPT ![node[b].name] = b]
                    ELSE tblocks
  BY <1>1, <1>2 DEF Finish
<1>7. Read = Len(toks) /\ Read' = Len(toks)
  <2>1. Read = Len(toks)
    BY <1>1, <1>5 DEF Read
  <2>2. node'[val'].type # "CLOSE" /\ ~(cur' <= Len(toks'))
    BY <1>1, <1>3, <1>5, <1>6
  <2>3. Read' = Len(toks)
    BY <1>1, <1>6, <2>2 DEF Read
  <2> QED
    BY <2>1, <2>3
<1>8. Adds(p, {}, {}) /\ Goes(b, {})
  BY <1>1, <1>3, <1>6, <1>7 DEF Adds, Goes
<1>9. Joins(p, b, {}, {})
  BY <1>1, <1>2, <1>4, <1>7, <1>8 DEF Joins
<1> QED
  BY <1>9

(* one that takes a block has it as its last,                              *)
LEMMA TakeJoins ==
  ASSUME IInv, Track, Take
  PROVE  \E p, b, c, gone : Joins(p, b, c, gone)
<1>1. /\ pc = "return" /\ toks' = toks /\ freed' = freed
      /\ cur' = IF Type(cur) = "EOF" THEN cur ELSE cur + 1
      /\ node' = [node EXCEPT ![Top.node].subs = Append(@, val)]
      /\ \/ node[val].type = "CLOSE" /\ Finish
         \/ node[val].type # "CLOSE" /\ pc' = "body" /\ stack' = stack /\ tblocks' = tblocks
  BY DEF Take, Push
<1>2. PICK p, b, v : p = Top.node /\ b = Top.blk /\ v = val
  OBVIOUS
<1>3. /\ v \in Nodes /\ v \in Nat /\ v # 0 /\ p \in Nodes
      /\ \A k \in DOMAIN node[p].subs : node[p].subs[k] # v
      /\ Typed /\ NoTwice
  BY <1>1, <1>2, Returned DEF IInv
<1>4. node' = [node EXCEPT ![p].subs = Append(@, v)]
  BY <1>1, <1>2
<1>5. /\ Len(node') = Len(node) /\ Nodes' = Nodes
      /\ \A q \in Nodes : node'[q].type = node[q].type /\ node'[q].name = node[q].name
      /\ Kids'[p] = Kids[p] \cup {v}
      /\ \A q \in Nodes \ {p} : Kids'[q] = Kids[q]
  BY <1>1, <1>3, <1>4, PushNodes
<1>6. /\ node'[p].from = node[p].from /\ node'[p].to = node[p].to
      /\ node'[p].next = node[p].next /\ node'[p].subs = Append(node[p].subs, v)
      /\ \A q \in Nodes \ {p} : node'[q] = node[q]
  <2>1. node[p] \in NodeSet /\ node \in Seq(NodeSet) /\ Nodes = DOMAIN node
    BY <1>3 DEF Typed, Nodes
  <2>2. node[p] = [node[p] EXCEPT !.subs = node[p].subs]
    BY <2>1 DEF NodeSet
  <2>3. node'[p] = [node[p] EXCEPT !.subs = Append(node[p].subs, v)]
    BY <1>3, <1>4, <2>1
  <2>4. \A q \in Nodes \ {p} : node'[q] = node[q]
    BY <1>3, <1>4, <2>1
  <2> QED
    BY <2>1, <2>3, <2>4 DEF NodeSet
<1>7. \A q \in Nodes : node'[q].from = node[q].from /\ node'[q].to = node[q].to
  BY <1>6
<1>8. /\ Len(toks) \in Nat /\ cur \in Nat
      /\ Type(cur) = "EOF" => cur = Len(toks) + 1
      /\ Type(cur) # "EOF" => cur <= Len(toks)
  BY <1>3, AtEnd
<1>9. Adds(p, {v}, {})
  BY <1>1, <1>2, <1>6 DEF Adds
<1>10. CASE node[val].type = "CLOSE" /\ Finish
  <2>1. b # 0 /\ b \in Nodes /\ node[b].type \in {"FOR", "IF", "BLOCK"}
    <3>1. Len(stack) > 1
      BY <1>1, <1>10 DEF IInv, Value
    <3>2. Len(stack) # 1
      <4>1. PICK n \in Nat : n = Len(stack)
        BY DEF IInv, Frames
      <4> QED
        BY <3>1, <4>1
    <3>3. b # 0 /\ b \in Alive /\ node[b].type \in {"FOR", "IF", "BLOCK"}
      BY <1>1, <1>2, <3>2, TopBody DEF Track
    <3> QED
      BY <3>3 DEF Alive
  <2>2. /\ pc' = "return" /\ stack' = Pop /\ val' = b
        /\ tblocks' = IF Top.kind = "BLOCK" THEN [tblocks EXCEPT ![node[b].name] = b]
                      ELSE tblocks
    BY <1>2, <1>10 DEF Finish
  <2>3. Read = cur + 1 /\ Read \in 0 .. Len(toks)
    BY <1>1, <1>10 DEF Track, Extents, Read
  <2>4. cur' = cur + 1 /\ cur + 1 <= Len(toks)
    <3>1. cur + 1 <= Len(toks)
      BY <1>8, <2>3
    <3>2. Type(cur) # "EOF"
      BY <1>8, <3>1
    <3> QED
      BY <1>1, <3>1, <3>2
  <2>5. Read' = Read
    <3>1. node'[val'].type # "CLOSE"
      BY <1>5, <2>1, <2>2
    <3> QED
      BY <1>1, <2>2, <2>3, <2>4, <3>1 DEF Read
  <2>6. Goes(b, {v})
    BY <1>1, <1>2, <1>10, <2>1, <2>2 DEF Goes, Closing
  <2>7. Joins(p, b, {v}, {})
    BY <1>1, <1>2, <1>5, <1>6, <1>7, <1>9, <2>5, <2>6 DEF Joins
  <2> QED
    BY <2>7
<1>11. CASE node[val].type # "CLOSE" /\ pc' = "body" /\ stack' = stack /\ tblocks' = tblocks
  <2>1. Read = IF cur <= Len(toks) THEN cur ELSE Len(toks)
    BY <1>1, <1>11 DEF Read
  <2>2. Read' = cur' - 1
    BY <1>11 DEF Read
  <2>3. Read' = Read
    <3>1. CASE Type(cur) = "EOF"
      BY <1>1, <1>8, <2>1, <2>2, <3>1
    <3>2. CASE Type(cur) # "EOF"
      BY <1>1, <1>8, <2>1, <2>2, <3>2
    <3> QED
      BY <3>1, <3>2
  <2>4. Goes(b, {v})
    BY <1>1, <1>2, <1>11 DEF Goes, Closing
  <2>5. Joins(p, b, {v}, {})
    BY <1>1, <1>2, <1>5, <1>6, <1>7, <1>9, <2>3, <2>4 DEF Joins
  <2> QED
    BY <2>5
<1> QED
  BY <1>1, <1>10, <1>11

(* and one that takes an alternative has its branch behind it.             *)
LEMMA AlternativeJoins ==
  ASSUME IInv, Track, TakeAlternative
  PROVE  \E p, b, c, gone : Joins(p, b, c, gone)
<1>1. /\ pc = "return" /\ toks' = toks /\ cur' = cur
      /\ freed' = freed \cup {val} /\ Top.kind = "IF" /\ node[val].type = "IF" /\ Finish
      /\ node' = [node EXCEPT ![Top.node].next = node[val].next]
  BY DEF TakeAlternative
<1>2. PICK p, b, v : p = Top.node /\ b = Top.blk /\ v = val
  OBVIOUS
<1>3. v \in Nodes /\ v \in Alive /\ p \in Nodes /\ Typed /\ NoTwice
  <2>1. val \in Roots /\ val \in Nodes /\ Top.node \in Nodes
    BY <1>1, Returned
  <2>2. Roots \subseteq Alive
    BY <1>1, AliveClosed DEF Alive
  <2> QED
    BY <1>2, <2>1, <2>2 DEF IInv
<1>4. PICK w : w = node[v].next
  OBVIOUS
<1>5. node' = [node EXCEPT ![p].next = w]
  BY <1>1, <1>2, <1>4
<1>6. /\ Len(node') = Len(node) /\ Nodes' = Nodes
      /\ \A q \in Nodes : node'[q].type = node[q].type /\ node'[q].name = node[q].name
      /\ \A q \in Nodes \ {p} : Kids'[q] = Kids[q] /\ node'[q] = node[q]
  BY <1>1, <1>3, <1>4, <1>5, AdoptNodes
<1>7. /\ node'[p].from = node[p].from /\ node'[p].to = node[p].to
      /\ node'[p].next = w /\ node'[p].subs = node[p].subs
  <2>1. node[p] \in NodeSet /\ node \in Seq(NodeSet) /\ Nodes = DOMAIN node
    BY <1>3 DEF Typed, Nodes
  <2>2. node'[p] = [node[p] EXCEPT !.next = w]
    BY <1>3, <1>5, <2>1
  <2> QED
    BY <2>1, <2>2 DEF NodeSet
<1>8. \A q \in Nodes : node'[q].from = node[q].from /\ node'[q].to = node[q].to
  BY <1>6, <1>7
<1>9. node[p].next = 0 /\ w # 0 /\ b # 0 /\ b \in Nodes /\ node[b].type = "IF"
  <2>1. /\ node[p].next = 0
        /\ b # 0 /\ b \in Alive /\ node[b].type = "IF"
    BY <1>1, <1>2, TopBody DEF Track
  <2>2. w # 0
    BY <1>1, <1>2, <1>3, <1>4 DEF Track, Extents
  <2> QED
    BY <2>1, <2>2 DEF Alive
<1>10. Kids'[p] = Kids[p] \cup {w}
  <2>1. Kids[p] = {node[p].subs[k] : k \in DOMAIN node[p].subs}
    BY <1>3, <1>9 DEF Kids, Children
  <2>2. PICK s : s = node[p].subs /\ s = node'[p].subs
    BY <1>7
  <2>3. Kids'[p] = {s[k] : k \in DOMAIN s} \cup {w}
    BY <1>3, <1>6, <1>7, <1>9, <2>2 DEF Kids, Children
  <2> QED
    BY <2>1, <2>2, <2>3
<1>11. /\ pc' = "return" /\ stack' = Pop /\ val' = b
       /\ tblocks' = IF Top.kind = "BLOCK" THEN [tblocks EXCEPT ![node[b].name] = b]
                     ELSE tblocks
  BY <1>1, <1>2 DEF Finish
<1>12. Read' = Read
  <2>1. node'[val'].type # "CLOSE" /\ node[val].type # "CLOSE"
    BY <1>1, <1>6, <1>9, <1>11
  <2> QED
    BY <1>1, <1>11, <2>1 DEF Read
<1>13. Adds(p, {w}, {v})
  BY <1>1, <1>2, <1>4, <1>7 DEF Adds
<1>14. Goes(b, {w})
  <2>1. w # v
    <3>1. Kids[v] \subseteq Alive /\ \A x \in Kids[v] : v < x
      BY <1>1, <1>3, Living
    <3>2. w \in Kids[v] /\ v \in Nat
      BY <1>1, <1>3, <1>4, <1>9, Living
    <3>3. v < w
      BY <3>1, <3>2
    <3>4. ~(v < v)
      BY <3>2
    <3> QED
      BY <3>3, <3>4
  <2> QED
    BY <1>2, <1>9, <1>11, <2>1 DEF Goes
<1>15. Joins(p, b, {w}, {v})
  BY <1>1, <1>2, <1>6, <1>7, <1>8, <1>10, <1>12, <1>13, <1>14 DEF Joins
<1> QED
  BY <1>15

(* So each keeps track.                                                    *)
LEMMA JoinTrack ==
  ASSUME IInv, IInv', Track,
         Take \/ TakeAlternative \/ (EndOfSource /\ Top.kind # "template")
  PROVE  Track' /\ pc' \in {"body", "return"}
<1>1. PICK p, b, c, gone : Joins(p, b, c, gone)
  BY TakeJoins, AlternativeJoins, EndJoins
<1>2. Extents' /\ InOrder' /\ Covered' /\ Nested' /\ Sorted'
  BY <1>1, JoinExtents, JoinNested
<1>3. Regions' /\ OpenBodies' /\ ClosingLast'
  BY <1>1, JoinRegions, JoinBodies, JoinClosings
<1>4. AllEnded' /\ Latest'
  BY <1>1, JoinEnded, JoinLatest
<1>5. pc' \in {"body", "return"}
  BY <1>1 DEF Joins, Goes
<1> QED
  BY <1>2, <1>3, <1>4, <1>5 DEF Track

-----------------------------------------------------------------------------
(* An empty template has been read to where it begins.                     *)
LEMMA InitTInv == Init => TInv
<1> SUFFICES ASSUME Init PROVE TInv
  OBVIOUS
<1> USE DEF Init, Leaf, Node, Template
<1>1. IInv
  BY InitIInv
<1>2. /\ Len(node) = 1 /\ Nodes = {1} /\ Alive = {1} /\ Read = 0 /\ Len(toks) \in Nat
      /\ node[1].subs = << >> /\ node[1].next = 0 /\ node[1].type = "template"
      /\ node[1].from = 1 /\ node[1].to = 0
      /\ DOMAIN stack = {1} /\ Len(stack) = 1 /\ stack[1].node = 1 /\ stack[1].blk = 0
      /\ stack[1].kind = "template"
  BY SourceAssumption DEF Nodes, Alive, Read
<1>3. Extents
  BY <1>2 DEF Extents
<1>4. InOrder /\ Covered
  BY <1>2 DEF InOrder, Covered
<1>5. Nested
  BY <1>2 DEF Nested, Laminar
<1>6. Sorted
  BY <1>2 DEF Sorted
<1>7. Reach(1) = {1}
  BY <1>1, <1>2, Living
<1>8. Regions
  <2>1. Between(1, 2) = {1}
    BY <1>2 DEF Between
  <2>2. Limit(1) = 2
    BY <1>2 DEF Limit
  <2>3. ASSUME NEW k \in DOMAIN stack
        PROVE  /\ Reach(stack[k].node) = Between(stack[k].node, Limit(k))
               /\ stack[k].node <= stack[k].blk + 1
    <3>1. k = 1 /\ stack[k].node = 1 /\ stack[k].blk = 0
      BY <1>2, <2>3
    <3> HIDE DEF Init, Leaf, Node, Template
    <3>2. PICK q : q = stack[k].node
      OBVIOUS
    <3>3. PICK r : r = Limit(k)
      OBVIOUS
    <3>4. q = 1 /\ r = 2
      BY <2>2, <3>1, <3>2, <3>3
    <3>5. Reach(q) = Between(q, r)
      BY <1>7, <2>1, <3>4
    <3>6. stack[k].node <= stack[k].blk + 1
      BY <3>1
    <3> QED
      BY <3>2, <3>3, <3>5, <3>6
  <2> QED
    BY <2>3 DEF Regions
<1>9. OpenBodies
  BY <1>2 DEF OpenBodies
<1>10. ClosingLast
  BY <1>2 DEF ClosingLast
<1>11. AllEnded
  BY <1>2 DEF AllEnded
<1>12. Latest
  BY <1>2 DEF Latest
<1> QED
  BY <1>3, <1>4, <1>5, <1>6, <1>8, <1>9, <1>10, <1>11, <1>12 DEF TInv, Track

(* A failure leaves an error behind, or something to read.                 *)
LEMMA FailingFails ==
  ASSUME IInv, pc = "body", Failing
  PROVE  Failed' /\ pc' = "fail" /\ (errors' > 0 \/ Unclosed(cur)')
<1>1. PICK made : \E i \in 1 .. Len(toks) + 1, n \in Nat : \E gone \in SUBSET {New} :
        StopsAt(i, n) /\ Fail(i, n, made, gone)
  BY DEF Failing
<1>2. PICK i \in 1 .. Len(toks) + 1, n \in Nat :
        StopsAt(i, n) /\ cur' = i /\ errors' = errors + n /\ pc' = "fail" /\ toks' = toks
  BY <1>1 DEF Fail
<1>3. errors \in Nat
  BY DEF IInv, Typed
<1>4. n > 0 => errors' > 0
  BY <1>2, <1>3
<1>5. Unclosed(i) => Unclosed(cur)' /\ Type(cur)' # "EOF"
  BY <1>2 DEF Unclosed, Type, TypeAt, TokenAt
<1> QED
  BY <1>2, <1>4, <1>5 DEF StopsAt, Failed

(* What the parts of Track depend on.                                      *)
LEMMA SameTrack ==
  ASSUME Track, UNCHANGED <<toks, cur, stack, node, freed, tblocks, val>>,
         pc = "return" <=> pc' = "return"
  PROVE  Track'
<1>1. Len(node') = Len(node) /\ Nodes' = Nodes /\ Alive' = Alive /\ Kids' = Kids
  BY DEF Nodes, Alive, Kids, Children
<1>2. ASSUME NEW n PROVE Reach(n)' = Reach(n) /\ Own(n)' = Own(n)
  BY <1>1 DEF Reach, Own
<1>3. Read' = Read /\ Top' = Top
  BY DEF Read, Top
<1>4. ASSUME NEW k PROVE Limit(k)' = Limit(k)
  <2>1. CASE pc = "return"
    BY <2>1 DEF Limit
  <2>2. CASE pc # "return"
    BY <2>2 DEF Limit
  <2> QED
    BY <2>1, <2>2
<1>5. Extents'
  BY <1>1, <1>3 DEF Track, Extents
<1>6. InOrder' /\ Sorted'
  BY <1>1 DEF Track, InOrder, Sorted
<1>7. Covered'
  BY <1>1, <1>2, <1>3 DEF Track, Covered
<1>8. Nested'
  BY <1>1 DEF Track, Nested
<1>9. ASSUME NEW p, NEW q PROVE Between(p, q)' = Between(p, q)
  BY <1>1 DEF Between
<1>10. Regions'
  <2>1. ASSUME NEW k \in DOMAIN stack'
        PROVE  (/\ Reach(stack[k].node) = Between(stack[k].node, Limit(k))
                /\ stack[k].node <= stack[k].blk + 1)'
    <3>1. PICK p, q : p = stack[k].node /\ q = Limit(k)
      OBVIOUS
    <3>2. Reach(p) = Between(p, q) /\ p <= stack[k].blk + 1
      BY <3>1 DEF Track, Regions
    <3>3. p = stack'[k].node /\ q = Limit(k)' /\ Reach(p)' = Between(p, q)'
      BY <1>2, <1>4, <1>9, <3>1, <3>2
    <3> QED
      BY <3>2, <3>3 DEF Reach, Between
  <2>2. (pc = "return" => Reach(val) = Between(val, Len(node) + 1))'
    <3>1. PICK p, q : p = val /\ q = Len(node) + 1
      OBVIOUS
    <3>2. pc = "return" => Reach(p) = Between(p, q)
      BY <3>1 DEF Track, Regions
    <3>3. p = val' /\ q = Len(node') + 1 /\ (pc' = "return" => Reach(p)' = Between(p, q)')
      BY <1>2, <1>9, <3>1, <3>2
    <3> QED
      BY <3>3 DEF Reach, Between
  <2> QED
    BY <2>1, <2>2 DEF Regions
<1>11. OpenBodies'
  BY DEF Track, OpenBodies, Closing
<1>12. ClosingLast'
  BY <1>1, <1>3 DEF Track, ClosingLast, Closing, ClosesOf, ClosedBy
<1>13. ASSUME NEW n PROVE BodyEnded(n)' <=> BodyEnded(n)
  BY <1>2 DEF BodyEnded, Closing
<1>14. Bodies' = Bodies /\ Opened' = Opened
  BY DEF Bodies, Opened
<1>15. AllEnded'
  BY <1>1, <1>13, <1>14 DEF Track, AllEnded
<1>16. ASSUME NEW name \in Names, NEW t, t = tblocks[name]
       PROVE  /\ t # 0 => t \in Alive' /\ node'[t].type = "BLOCK" /\ node'[t].name = name
              /\ \A n \in Alive' \ Opened' :
                   node'[n].type = "BLOCK" /\ node'[n].name = name =>
                     t # 0 /\ (n \in Reach(t)' \/ \A x \in Reach(n)' : x < t)
  BY <1>1, <1>2, <1>14, <1>16 DEF Track, Latest
<1>17. Latest'
  BY <1>16 DEF Latest
<1> QED
  BY <1>5, <1>6, <1>7, <1>8, <1>10, <1>11, <1>12, <1>15, <1>17 DEF Track

(* Every step keeps it.                                                    *)
LEMMA NextTInv ==
  ASSUME IInv, IInv', TInv, [Next]_vars
  PROVE  TInv'
<1>1. ASSUME pc = "body", Ended PROVE TInv'
  <2>1. Track
    BY <1>1 DEF TInv
  <2>2. CASE Making \/ Calling
    <3>1. Track' /\ pc' \in {"body", "return"}
      BY <1>1, <2>1, <2>2, GrowTrack
    <3> QED
      BY <3>1 DEF TInv
  <2>3. CASE Failing
    <3>1. Failed' /\ pc' = "fail"
      BY <1>1, <2>3, FailingFails
    <3> QED
      BY <3>1 DEF TInv
  <2>4. CASE Crash
    BY <2>4 DEF Crash, TInv
  <2> QED
    BY <1>1, <2>2, <2>3, <2>4 DEF Ended
<1>2. ASSUME \/ Content \/ StrayBrace \/ Variable \/ Break \/ Extends \/ For \/ If
             \/ Alternative \/ TBlock \/ Close \/ NoKeyword
      PROVE  Ended /\ pc = "body"
  BY <1>2, BlockEnds
<1>3. ASSUME Take \/ TakeAlternative \/ (EndOfSource /\ Top.kind # "template")
      PROVE  TInv'
  <2>1. pc \in {"body", "return"}
    BY <1>3 DEF Take, TakeAlternative, EndOfSource
  <2>2. Track
    BY <2>1 DEF TInv
  <2>3. Track' /\ pc' \in {"body", "return"}
    BY <1>3, <2>2, JoinTrack
  <2> QED
    BY <2>3 DEF TInv
<1>4. ASSUME EndOfSource, Top.kind = "template" PROVE TInv'
  <2>1. /\ pc = "body" /\ pc' = "parsed"
        /\ UNCHANGED <<toks, cur, stack, node, freed, tblocks, val>>
    BY <1>4 DEF EndOfSource
  <2>2. Len(stack) = 1 /\ Track
    BY <1>4, <2>1, TopTyped DEF IInv, TInv
  <2>3. Track'
    BY <2>1, <2>2, SameTrack
  <2> QED
    BY <2>1, <2>2, <2>3 DEF TInv
<1>5. ASSUME Unwind \/ GiveUp PROVE TInv'
  <2>1. pc = "fail" /\ pc' \in {"fail", "parsed", "crashed"} /\ UNCHANGED <<toks, cur, errors>>
    BY <1>5 DEF Unwind, GiveUp, Crash
  <2>2. Failed
    BY <2>1 DEF TInv
  <2>3. Failed'
    BY <2>1, <2>2 DEF Failed, Type, TypeAt, TokenAt
  <2> QED
    BY <2>1, <2>3 DEF TInv
<1>6. ASSUME Accept PROVE TInv'
  <2>1. /\ pc = "parsed" /\ pc' = "accepted" /\ errors = 0
        /\ UNCHANGED <<toks, cur, errors, stack, node, freed, tblocks, val>>
    BY <1>6 DEF Accept
  <2>2. CASE Failed
    <3>1. Failed'
      BY <2>1, <2>2 DEF Failed, Type, TypeAt, TokenAt
    <3> QED
      BY <2>1, <3>1 DEF TInv
  <2>3. CASE Track /\ Len(stack) = 1
    <3>1. Track'
      BY <2>1, <2>3, SameTrack
    <3> QED
      BY <2>1, <2>3, <3>1 DEF TInv
  <2> QED
    BY <2>1, <2>2, <2>3 DEF TInv
<1>7. ASSUME Reject PROVE TInv'
  BY <1>7 DEF Reject, Crash, TInv
<1>8. CASE UNCHANGED vars
  <2>1. /\ UNCHANGED <<toks, cur, errors, stack, node, freed, tblocks, pc, val>>
    BY <1>8 DEF vars
  <2>2. Track => Track'
    BY <2>1, SameTrack
  <2>3. Failed => Failed'
    BY <2>1 DEF Failed, Type, TypeAt, TokenAt
  <2> QED
    BY <2>1, <2>2, <2>3 DEF TInv
<1> QED
  BY <1>1, <1>2, <1>3, <1>4, <1>5, <1>6, <1>7, <1>8 DEF Next

-----------------------------------------------------------------------------
(* A template that was read to its end is all that is alive, and its body  *)
(* the only one that no tag ended.                                         *)
LEMMA CompleteIs ==
  ASSUME IInv, TInv, Complete
  PROVE  /\ Track /\ Read = Len(toks) /\ Len(toks) \in Nat
         /\ pc \notin {"crashed", "rejected"}
         /\ Bodies = {1} /\ Opened = {0} /\ node[1].type = "template"
         /\ Kept = Alive /\ \A n \in Alive : Below(n) = Reach(n)
<1>1. /\ pc = "accepted" /\ Type(cur) = "EOF" /\ errors = 0
  BY DEF Complete, TInv
<1>2. Track /\ Len(stack) = 1
  BY <1>1 DEF TInv, Failed
<1>3. Read = Len(toks) /\ Len(toks) \in Nat
  BY <1>1, AtEnd DEF IInv, Read
<1>4. DOMAIN stack = {1} /\ stack[1] = Template
  BY <1>2 DEF IInv, Frames
<1>5. stack[1].node = 1 /\ stack[1].blk = 0
  BY <1>4 DEF Template
<1>6. Bodies = {1} /\ Opened = {0}
  BY <1>4, <1>5 DEF Bodies, Opened
<1>7. node[1].type = "template"
  BY <1>2, <1>4, <1>5 DEF Track, OpenBodies
<1>8. \A n \in Alive : Below(n) = Reach(n)
  BY <1>1, BelowAlive DEF Alive, Reach
<1>9. Reach(1) = Alive
  <2>1. PICK N \in Nat : N = Len(node)
    BY DEF IInv, Typed
  <2>2. Limit(1) = N + 1
    BY <1>1, <1>2, <2>1 DEF Limit
  <2>3. Reach(1) = Between(1, N + 1)
    <3>1. Reach(stack[1].node) = Between(stack[1].node, Limit(1))
      BY <1>2, <1>4 DEF Track, Regions
    <3> QED
      BY <1>5, <2>2, <3>1
  <2>4. \A x \in Alive : 1 <= x /\ x < N + 1
    BY <2>1 DEF Alive, Nodes
  <2>5. Between(1, N + 1) = Alive
    BY <2>4 DEF Between
  <2> QED
    BY <2>3, <2>5
<1>10. Kept = Alive
  <2>1. 1 \in Alive
    BY <1>1, <1>4, <1>5, BodiesAlive DEF Alive
  <2> QED
    BY <1>8, <1>9, <2>1 DEF Kept
<1> QED
  BY <1>1, <1>2, <1>3, <1>6, <1>7, <1>8, <1>10

(* The tokens of a node follow those of the nodes before it.               *)
LEMMA OwnFollows ==
  ASSUME IInv, Track, pc \notin {"crashed", "rejected"},
         NEW m \in Alive, NEW n \in Alive, m < n, NEW j \in Own(n)
  PROVE  node[m].to < j /\ \A i \in Own(m) : i < j
<1>1. PICK f \in Nat, t \in Nat : f = node[n].from /\ t = node[n].to
  BY Living
<1>2. PICK g \in Nat, u \in Nat : g = node[m].from /\ u = node[m].to
  BY Living
<1>3. j \in f .. t
  BY <1>1 DEF Own
<1>4. (f = 1 /\ t = 0) \/ f \in 1 .. t
  BY <1>1 DEF Track, Extents
<1>5. t # 0
  BY <1>3, <1>4
<1>6. u < f
  BY <1>1, <1>2, <1>5 DEF Track, InOrder
<1>7. u < j
  BY <1>3, <1>6
<1>8. \A i \in g .. u : i < j
  BY <1>3, <1>7
<1> QED
  BY <1>2, <1>7, <1>8 DEF Own

(* What is below one child is before the next.                             *)
LEMMA SiblingsApart ==
  ASSUME IInv, Track, pc \notin {"crashed", "rejected"},
         NEW n \in Alive, NEW s \in Kids[n], NEW t \in Kids[n], s < t
  PROVE  \A x \in Reach(s), y \in Reach(t) : x < y
<1>1. s \in Alive /\ t \in Alive /\ n < s
  BY Living
<1>2. Reach(s) \subseteq Alive /\ \A x \in Reach(s) : s <= x
  BY <1>1, Living
<1>3. t \notin Reach(s)
  <2> SUFFICES ASSUME t \in Reach(s) PROVE FALSE
    OBVIOUS
  <2>1. Len(node) \in Nat /\ Upward(Len(node), Kids) /\ Owned(Len(node), Kids, freed, Roots)
    BY DEF IInv, Typed, Keeps
  <2>2. s \in 1 .. Len(node) /\ t # s
    BY <1>1, Living DEF Alive, Nodes
  <2>3. PICK p \in Reach(s) : t \in Kids[p]
    BY <2>1, <2>2, ReachedParent DEF Reach
  <2>4. p \in (1 .. Len(node)) \ freed /\ n \in (1 .. Len(node)) \ freed
    BY <1>2, <2>3 DEF Alive, Nodes
  <2>5. p = n
    BY <2>1, <2>3, <2>4 DEF Owned
  <2>6. s <= n /\ n < s /\ s \in Nat /\ n \in Nat
    BY <1>1, <1>2, <2>3, <2>5, Living
  <2> QED
    BY <2>6
<1>4. \A x \in Reach(s) : x < t
  BY <1>1, <1>3 DEF Track, Nested, Laminar, Reach
<1>5. Reach(t) \subseteq Alive /\ \A y \in Reach(t) : t <= y
  BY <1>1, Living
<1>6. Alive \subseteq Nat
  BY Living
<1>7. ASSUME NEW x \in Reach(s), NEW y \in Reach(t) PROVE x < y
  <2>1. x < t /\ t <= y /\ x \in Nat /\ y \in Nat /\ t \in Nat
    BY <1>1, <1>2, <1>4, <1>5, <1>6, <1>7
  <2> QED
    BY <2>1
<1> QED
  BY <1>7

(* So are its tokens.                                                      *)
LEMMA ExtentsApart ==
  ASSUME IInv, TInv, Complete,
         NEW n \in Alive, NEW s \in Kids[n], NEW i \in Extent(s)
  PROVE  /\ node[n].to < i
         /\ \A t \in Kids[n] : s < t => \A j \in Extent(t) : i < j
<1>1. Track /\ pc \notin {"crashed", "rejected"} /\ \A m \in Alive : Below(m) = Reach(m)
  BY CompleteIs
<1>2. s \in Alive /\ n < s
  BY <1>1, Living
<1>3. PICK x \in Reach(s) : i \in Own(x)
  BY <1>1, <1>2 DEF Extent
<1>4. x \in Alive /\ s <= x /\ s \in Nat /\ n \in Nat /\ x \in Nat
  BY <1>1, <1>2, <1>3, Living
<1>5. n < x
  BY <1>2, <1>4
<1>6. node[n].to < i
  BY <1>1, <1>3, <1>4, <1>5, OwnFollows
<1>7. ASSUME NEW t \in Kids[n], s < t, NEW j \in Extent(t) PROVE i < j
  <2>1. t \in Alive
    BY <1>1, Living
  <2>2. PICK y \in Reach(t) : j \in Own(y)
    BY <1>1, <1>7, <2>1 DEF Extent
  <2>3. x < y /\ y \in Alive
    BY <1>1, <1>3, <1>7, <2>1, <2>2, SiblingsApart, Living
  <2> QED
    BY <1>1, <1>3, <1>4, <2>2, <2>3, OwnFollows
<1> QED
  BY <1>6, <1>7

(* The tokens of an accepted template are each in one node.                *)
LEMMA TokensOnce == IInv /\ TInv => EveryTokenOnce
<1> SUFFICES ASSUME IInv, TInv, Complete
             PROVE  /\ \A i \in DOMAIN toks : Cardinality({n \in Kept : i \in Own(n)}) = 1
                    /\ \A n \in Kept : \A k \in DOMAIN node[n].subs :
                         \A i \in Extent(node[n].subs[k]) :
                           /\ node[n].to < i
                           /\ \A l \in k + 1 .. Len(node[n].subs) :
                                \A j \in Extent(node[n].subs[l]) : i < j
                           /\ node[n].next # 0 => \A j \in Extent(node[n].next) : i < j
                    /\ Kept \cup freed = Nodes
  BY DEF EveryTokenOnce
<1>1. /\ Track /\ Read = Len(toks) /\ Len(toks) \in Nat /\ pc \notin {"crashed", "rejected"}
      /\ Kept = Alive
  BY CompleteIs
<1>2. ASSUME NEW i \in DOMAIN toks PROVE Cardinality({n \in Kept : i \in Own(n)}) = 1
  <2> DEFINE P == {n \in Kept : i \in Own(n)}
  <2>1. i \in 1 .. Read
    BY <1>1, SourceAssumption DEF IInv, Typed
  <2>2. PICK n \in Alive : i \in Own(n)
    BY <1>1, <2>1 DEF Track, Covered
  <2>3. ASSUME NEW m \in P PROVE m = n
    <3>1. m \in Alive /\ i \in Own(m)
      BY <1>1
    <3>2. m \in Nat /\ n \in Nat /\ ~(i < i)
      BY <1>1, <2>1, <3>1, Living
    <3>3. ~(m < n)
      BY <1>1, <2>2, <3>1, <3>2, OwnFollows
    <3>4. ~(n < m)
      BY <1>1, <2>2, <3>1, <3>2, OwnFollows
    <3> QED
      BY <3>2, <3>3, <3>4
  <2>4. P = {n}
    BY <1>1, <2>2, <2>3
  <2> HIDE DEF P
  <2>5. Cardinality(P) = 1
    BY <2>4, FS_Singleton
  <2> QED
    BY <2>5 DEF P
<1>3. ASSUME NEW n \in Kept, NEW k \in DOMAIN node[n].subs, NEW i \in Extent(node[n].subs[k])
      PROVE  /\ node[n].to < i
             /\ \A l \in k + 1 .. Len(node[n].subs) : \A j \in Extent(node[n].subs[l]) : i < j
             /\ node[n].next # 0 => \A j \in Extent(node[n].next) : i < j
  <2>1. PICK s : s = node[n].subs[k]
    OBVIOUS
  <2>2. n \in Alive /\ s \in Kids[n]
    BY <1>1, <2>1, Living
  <2>3. /\ node[n].to < i
        /\ \A t \in Kids[n] : s < t => \A j \in Extent(t) : i < j
    <3>1. i \in Extent(s)
      BY <2>1
    <3> QED
      BY <2>2, <3>1, ExtentsApart
  <2>4. PICK q \in Seq(Nat) : q = node[n].subs
    BY <1>1, <2>2, Living
  <2>5. ASSUME NEW l \in k + 1 .. Len(q) PROVE \A j \in Extent(q[l]) : i < j
    <3>1. l \in DOMAIN q /\ k < l
      BY <2>4
    <3>2. s < q[l] /\ q[l] \in Kids[n]
      BY <1>1, <2>1, <2>2, <2>4, <3>1, Living DEF Track, Sorted
    <3> QED
      BY <2>3, <3>2
  <2>6. node[n].next # 0 => s < node[n].next /\ node[n].next \in Kids[n]
    BY <1>1, <2>1, <2>2, Living DEF Track, Sorted
  <2> QED
    BY <2>3, <2>4, <2>5, <2>6
<1>4. Kept \cup freed = Nodes
  BY <1>1 DEF Alive, IInv, Typed
<1> QED
  BY <1>2, <1>3, <1>4

(* Its bodies end with their own closing tags, with an alternative or with *)
(* the template.                                                           *)
LEMMA ClosingsFit == IInv /\ TInv => ClosingsMatch
<1> SUFFICES ASSUME IInv, TInv, Complete, NEW n \in Kept
             PROVE  LET subs == node[n].subs
                        last == IF subs = << >> THEN 0 ELSE subs[Len(subs)]
                    IN  /\ \A k \in DOMAIN subs : node[subs[k]].type = "CLOSE" =>
                             /\ subs[k] = last
                             /\ <<ClosedBy(n), toks[node[last].from + 2]>> \in Closings
                        /\ node[n].type \in {"FOR", "BLOCK", "branch"} =>
                             \/ last # 0 /\ node[last].type = "CLOSE"
                             \/ node[n].next # 0
                             \/ Len(toks) \in Extent(n)
  BY DEF ClosingsMatch
<1> DEFINE subs == node[n].subs
           last == IF subs = << >> THEN 0 ELSE subs[Len(subs)]
<1>1. /\ Track /\ pc \notin {"crashed", "rejected"} /\ n \in Alive /\ Below(n) = Reach(n)
      /\ Bodies = {1} /\ node[1].type = "template"
  BY CompleteIs
<1>2. subs \in Seq(Nat) /\ \A k \in DOMAIN subs : subs[k] \in Kids[n]
  BY <1>1, Living
<1>3. ASSUME NEW k \in DOMAIN subs, node[subs[k]].type = "CLOSE"
      PROVE  subs[k] = last /\ <<ClosedBy(n), toks[node[last].from + 2]>> \in Closings
  <2>1. k = Len(subs) /\ ClosesOf(n, subs[k])
    BY <1>1, <1>3 DEF Track, ClosingLast, Closing
  <2>2. subs # << >>
    BY <1>3
  <2>3. subs[k] = last
    BY <2>1, <2>2
  <2> QED
    BY <2>1, <2>3 DEF ClosesOf
<1>4. ASSUME node[n].type \in {"FOR", "BLOCK", "branch"}
      PROVE  \/ last # 0 /\ node[last].type = "CLOSE"
             \/ node[n].next # 0
             \/ Len(toks) \in Extent(n)
  <2>1. n \notin Bodies
    BY <1>1, <1>4
  <2>2. BodyEnded(n)
    BY <1>1, <1>4, <2>1 DEF Track, AllEnded
  <2>3. CASE subs # << >> /\ Closing(subs[Len(subs)])
    <3>1. Len(subs) \in DOMAIN subs
      BY <1>2, <2>3
    <3>2. subs[Len(subs)] \in Alive
      BY <1>1, <1>2, <3>1, Living
    <3>3. subs[Len(subs)] # 0
      BY <1>1, <3>2, Living
    <3> QED
      BY <2>3, <3>3 DEF Closing
  <2>4. CASE \E m \in Reach(n) : Len(toks) \in Own(m)
    BY <1>1, <2>4 DEF Extent
  <2> QED
    BY <2>2, <2>3, <2>4 DEF BodyEnded
<1> QED
  BY <1>3, <1>4

(* The last token of a node that has one.                                  *)
End(n) == CHOOSE i \in Extent(n) : \A j \in Extent(n) : j <= i

(* There is one if the node has a token of its own.                        *)
LEMMA EndIs ==
  ASSUME IInv, TInv, Complete, NEW n \in Alive, node[n].to # 0
  PROVE  /\ End(n) \in Nat /\ End(n) \in Extent(n) /\ \A j \in Extent(n) : j <= End(n)
<1>1. /\ Track /\ Read = Len(toks) /\ Len(toks) \in Nat /\ pc \notin {"crashed", "rejected"}
      /\ \A m \in Alive : Below(m) = Reach(m)
  BY CompleteIs
<1>2. n \in Reach(n) /\ Reach(n) \subseteq Alive
  BY <1>1, Living
<1>3. PICK N \in Nat : N = Len(toks)
  BY <1>1
<1>4. ASSUME NEW m \in Alive PROVE Own(m) \subseteq 0 .. N
  <2>1. PICK f \in Nat, t \in Nat : f = node[m].from /\ t = node[m].to
    BY <1>1, Living
  <2>2. t <= N \/ t = 0
    BY <1>1, <1>3, <2>1 DEF Track, Extents
  <2> QED
    BY <2>1, <2>2 DEF Own
<1>5. Extent(n) \subseteq 0 .. N
  BY <1>1, <1>2, <1>4 DEF Extent
<1>6. Extent(n) # {}
  <2>1. PICK f \in Nat, t \in Nat : f = node[n].from /\ t = node[n].to
    BY <1>1, Living
  <2>2. f \in 1 .. t
    BY <1>1, <2>1 DEF Track, Extents
  <2>3. f \in Own(n)
    BY <2>1, <2>2 DEF Own
  <2> QED
    BY <1>1, <1>2, <2>3 DEF Extent
<1>7. \E i \in Extent(n) : \A j \in Extent(n) : j <= i
  <2>1. PICK S : S = Extent(n)
    OBVIOUS
  <2>2. \E i \in S : \A j \in S : j <= i
    BY <1>3, <1>5, <1>6, <2>1, Greatest
  <2> QED
    BY <2>1, <2>2
<1>8. End(n) \in Extent(n) /\ \A j \in Extent(n) : j <= End(n)
  BY <1>7 DEF End
<1> QED
  BY <1>3, <1>5, <1>8

(* A name leads to the block that ended last.                              *)
LEMMA BlocksLatest == IInv /\ TInv => LatestBlocks
<1> SUFFICES ASSUME IInv, TInv, Complete, NEW name \in Names,
                    NEW named, named = {n \in Kept : node[n].type = "BLOCK" /\ node[n].name = name}
             PROVE  IF named = {} THEN tblocks[name] = 0
                    ELSE /\ tblocks[name] \in named
                         /\ \A n \in named \ {tblocks[name]} :
                              \/ End(n) < End(tblocks[name])
                              \/ End(n) = End(tblocks[name]) /\ n \in Below(tblocks[name])
  BY DEF LatestBlocks, End
<1>1. /\ Track /\ pc \notin {"crashed", "rejected"} /\ Kept = Alive /\ Opened = {0}
      /\ \A n \in Alive : Below(n) = Reach(n)
  BY CompleteIs
<1>2. PICK t : t = tblocks[name]
  OBVIOUS
<1>3. t # 0 => t \in named
  BY <1>1, <1>2 DEF Track, Latest
<1>4. ASSUME NEW n \in named
      PROVE  /\ n \in Alive /\ node[n].to # 0 /\ t # 0
             /\ n \in Reach(t) \/ \A x \in Reach(n) : x < t
  <2>1. n \in Alive /\ node[n].type = "BLOCK" /\ node[n].name = name
    BY <1>1
  <2>2. n \notin Opened
    BY <1>1, <2>1, Living
  <2>3. node[n].to # 0
    BY <1>1, <2>1 DEF Track, Extents
  <2> QED
    BY <1>1, <1>2, <2>1, <2>2, <2>3 DEF Track, Latest
<1>5. CASE named = {}
  BY <1>2, <1>3, <1>5
<1>6. CASE named # {}
  <2>1. t \in named
    BY <1>3, <1>4, <1>6
  <2>2. t \in Alive /\ End(t) \in Nat /\ End(t) \in Extent(t) /\ \A j \in Extent(t) : j <= End(t)
    BY <1>4, <2>1, EndIs
  <2>3. ASSUME NEW n \in named
        PROVE  End(n) < End(t) \/ (End(n) = End(t) /\ n \in Below(t))
    <3>1. n \in Alive /\ End(n) \in Nat /\ End(n) \in Extent(n)
      BY <1>4, EndIs
    <3>2. PICK x \in Reach(n) : End(n) \in Own(x)
      BY <1>1, <3>1 DEF Extent
    <3>3. PICK y \in Reach(t) : End(t) \in Own(y)
      BY <1>1, <2>2 DEF Extent
    <3>4. CASE n \in Reach(t)
      <4>1. Reach(n) \subseteq Reach(t)
        <5>1. Len(node) \in Nat /\ Upward(Len(node), Kids) /\ t \in 1 .. Len(node)
          BY <2>2 DEF IInv, Typed, Alive, Nodes
        <5>2. ClosedUnder(Len(node), Kids, Reach(t))
          BY <5>1, ReachedClosed DEF Reach
        <5>3. Reach(t) \subseteq 1 .. Len(node)
          BY DEF Reach, Reached
        <5>4. Reached(Len(node), Kids, n) \subseteq Reach(t)
          BY <3>4, <5>2, <5>3, ReachedLeast
        <5> QED
          BY <5>4 DEF Reach
      <4>2. End(n) \in Extent(t)
        BY <1>1, <2>2, <3>2, <4>1 DEF Extent
      <4>3. End(n) <= End(t)
        BY <2>2, <4>2
      <4> QED
        BY <1>1, <2>2, <3>1, <3>4, <4>3
    <3>5. CASE \A z \in Reach(n) : z < t
      <4>1. x \in Alive /\ y \in Alive /\ t <= y /\ x < t /\ x \in Nat /\ y \in Nat /\ t \in Nat
        BY <1>1, <2>2, <3>1, <3>2, <3>3, <3>5, Living
      <4>2. x < y
        BY <4>1
      <4>3. End(n) < End(t)
        BY <1>1, <3>2, <3>3, <4>1, <4>2, OwnFollows
      <4> QED
        BY <4>3
    <3> QED
      BY <1>4, <3>4, <3>5
  <2> QED
    BY <1>2, <1>6, <2>1, <2>3
<1> QED
  BY <1>5, <1>6

-----------------------------------------------------------------------------
(* Both invariants hold, of every template and its every step.             *)
LEMMA InvariantsHold == Spec => [](IInv /\ TInv)
<1>1. Init => IInv /\ TInv
  BY InitIInv, InitTInv
<1>2. IInv /\ TInv /\ [Next]_vars => (IInv /\ TInv)'
  BY NextIInv, NextTInv
<1> QED
  BY <1>1, <1>2, PTL DEF Spec

(* Whatever the template and however its expressions were read, the tree   *)
(* of an accepted one accounts for each of its tokens once and in order,   *)
(* and loses nothing that was allocated (EveryTokenOnce).                  *)
THEOREM TreeHasTokens == Spec => []EveryTokenOnce
BY InvariantsHold, TokensOnce, PTL

(* Each of its closing tags ends a body of its kind, and no other body is  *)
(* cut short (ClosingsMatch).                                              *)
THEOREM TreeClosed == Spec => []ClosingsMatch
BY InvariantsHold, ClosingsFit, PTL

(* The blocks that an inheriting template finds by their names are those   *)
(* that end last (LatestBlocks).                                           *)
THEOREM TreeNamed == Spec => []LatestBlocks
BY InvariantsHold, BlocksLatest, PTL

-----------------------------------------------------------------------------
(* What was not read to its end has an error, or a closing tag without its *)
(* brace; and the errors decide.                                           *)
Halted ==
  /\ pc \in {"fail", "parsed", "accepted"} /\ errors = 0 =>
       Unclosed(cur) \/ (pc # "fail" /\ Type(cur) = "EOF")
  /\ pc = "accepted" => errors = 0
  /\ pc = "rejected" => errors > 0

(* Nothing is halted at first.                                             *)
LEMMA InitHalted == Init => Halted
BY DEF Init, Halted

(* Every step keeps it.                                                    *)
LEMMA NextHalted ==
  ASSUME IInv, Halted, [Next]_vars
  PROVE  Halted'
<1>1. ASSUME pc = "body", Ended PROVE Halted'
  <2>1. CASE Making \/ Calling \/ Crash
    <3>1. pc' \in {"return", "body", "crashed"}
      BY <1>1, <2>1 DEF Making, Done, Calling, Call, Crash
    <3> QED
      BY <3>1 DEF Halted
  <2>2. CASE Failing
    BY <1>1, <2>2, FailingFails DEF Halted
  <2> QED
    BY <1>1, <2>1, <2>2 DEF Ended
<1>2. ASSUME Take \/ TakeAlternative \/ EndOfSource PROVE Halted'
  <2>1. \/ pc' \in {"body", "return"}
        \/ pc' = "parsed" /\ Type(cur) = "EOF" /\ UNCHANGED <<toks, cur>>
    BY <1>2 DEF Take, TakeAlternative, EndOfSource, Finish
  <2> QED
    BY <2>1 DEF Halted, Type, TypeAt, TokenAt
<1>3. ASSUME \/ Unwind \/ GiveUp \/ Accept \/ Reject PROVE Halted'
  <2>1. /\ UNCHANGED <<toks, cur, errors>>
        /\ \/ pc = "fail" /\ pc' \in {"fail", "parsed"}
           \/ pc = "parsed" /\ pc' = "accepted" /\ errors = 0
           \/ pc = "parsed" /\ pc' = "rejected" /\ errors > 0
           \/ pc' = "crashed"
    BY <1>3 DEF Unwind, GiveUp, Accept, Reject, Crash
  <2>2. (Unclosed(cur) => Unclosed(cur)') /\ Type(cur)' = Type(cur)
    BY <2>1 DEF Unclosed, Type, TypeAt, TokenAt
  <2> QED
    BY <2>1, <2>2 DEF Halted
<1>4. CASE UNCHANGED vars
  BY <1>4 DEF vars, Halted, Unclosed, Type, TypeAt, TokenAt
<1> QED
  BY <1>1, <1>2, <1>3, <1>4, BlockEnds DEF Next

-----------------------------------------------------------------------------
(* The tags that are open behind the first tokens: g is what Open is.      *)
Opens(ts, g, n) ==
  g = [i \in 0 .. n |-> IF i = 0 THEN << >> ELSE After(g[i - 1], TypeAt(ts, i))]

(* There is one, whatever the tokens,                                      *)
LEMMA OpensExists ==
  ASSUME NEW ts, NEW n \in Nat
  PROVE  \E g : Opens(ts, g, n)
<1> DEFINE S == {m \in Nat : ~\E g : Opens(ts, g, m)}
<1> SUFFICES ASSUME S # {} PROVE FALSE
  OBVIOUS
<1>1. PICK m \in S : \A k \in S : m <= k
  <2>1. S \subseteq Nat
    OBVIOUS
  <2> HIDE DEF S
  <2> QED
    BY <2>1, Least
<1>2. CASE m = 0
  <2>1. Opens(ts, [i \in 0 .. 0 |-> << >>], 0)
    BY DEF Opens
  <2> QED
    BY <1>1, <1>2, <2>1
<1>3. CASE m # 0
  <2>1. m - 1 \in Nat /\ m \in Nat /\ m - 1 \notin S
    BY <1>1, <1>3
  <2>2. PICK g : Opens(ts, g, m - 1)
    BY <2>1
  <2> DEFINE h == [i \in 0 .. m |-> IF i = m THEN After(g[m - 1], TypeAt(ts, m)) ELSE g[i]]
  <2>3. ASSUME NEW i \in 0 .. m
        PROVE  h[i] = IF i = 0 THEN << >> ELSE After(h[i - 1], TypeAt(ts, i))
    <3>1. CASE i = m
      <4>1. i # 0 /\ i - 1 \in 0 .. m /\ i - 1 # m /\ i - 1 = m - 1
        BY <1>3, <2>1, <3>1
      <4>2. h[i - 1] = g[m - 1] /\ h[i] = After(g[m - 1], TypeAt(ts, m))
        BY <3>1, <4>1
      <4> QED
        BY <3>1, <4>1, <4>2
    <3>2. CASE i # m
      <4>1. i \in 0 .. m - 1 /\ (i # 0 => i - 1 \in 0 .. m /\ i - 1 # m)
        BY <2>1, <3>2
      <4>2. h[i] = g[i] /\ (i # 0 => h[i - 1] = g[i - 1])
        BY <2>3, <3>2, <4>1
      <4>3. g[i] = IF i = 0 THEN << >> ELSE After(g[i - 1], TypeAt(ts, i))
        BY <2>2, <4>1 DEF Opens
      <4> QED
        BY <4>2, <4>3
    <3> QED
      BY <3>1, <3>2
  <2>4. h = [i \in 0 .. m |-> h[i]]
    OBVIOUS
  <2> HIDE DEF h
  <2>5. h = [i \in 0 .. m |-> IF i = 0 THEN << >> ELSE After(h[i - 1], TypeAt(ts, i))]
    BY <2>3, <2>4
  <2>6. Opens(ts, h, m)
    BY <2>5 DEF Opens
  <2> QED
    BY <1>1, <2>6
<1> QED
  BY <1>2, <1>3

(* and Open is it.                                                         *)
LEMMA OpenIs ==
  ASSUME Len(toks) \in Nat
  PROVE  /\ Open[0] = << >>
         /\ \A i \in 1 .. Len(toks) : Open[i] = After(Open[i - 1], Type(i))
<1> DEFINE Q(g) == g = [i \in 0 .. Len(toks) |->
                          IF i = 0 THEN << >> ELSE After(g[i - 1], TypeAt(toks, i))]
           open == CHOOSE g : Q(g)
<1>1. \E g : Q(g)
  <2>1. \A g : Q(g) <=> Opens(toks, g, Len(toks))
    BY DEF Opens
  <2> HIDE DEF Q
  <2> QED
    BY <2>1, OpensExists
<1>2. Q(open)
  <2> HIDE DEF Q
  <2> QED
    BY <1>1
<1>3. Open = open
  BY Zenon DEF Open, OpenIn
<1>4. PICK g : g = open
  OBVIOUS
<1>5. Q(g) /\ Open = g
  <2> HIDE DEF Q, open
  <2> QED
    BY <1>2, <1>3, <1>4
<1>6. g[0] = << >>
  BY <1>5
<1>7. ASSUME NEW i \in 1 .. Len(toks) PROVE g[i] = After(g[i - 1], Type(i))
  <2>1. i \in 0 .. Len(toks) /\ i # 0
    BY <1>7
  <2> QED
    BY <1>5, <2>1 DEF Type
<1> HIDE DEF Q, open
<1> QED
  BY <1>5, <1>6, <1>7

(* A mismatch is for good.                                                 *)
LEMMA MismatchStays ==
  ASSUME Len(toks) \in Nat, NEW i \in 0 .. Len(toks), Open[i] = Mismatch
  PROVE  Open[Len(toks)] = Mismatch
<1>1. PICK N \in Nat : N = Len(toks)
  OBVIOUS
<1> DEFINE S == {j \in 0 .. N : Open[j] = Mismatch}
<1>2. S \subseteq 0 .. N /\ S # {}
  BY <1>1
<1>3. PICK m \in S : \A k \in S : k <= m
  <2> HIDE DEF S
  <2> QED
    BY <1>2, Greatest
<1>4. CASE m = N
  BY <1>1, <1>3, <1>4
<1>5. CASE m # N
  <2>1. m + 1 \in 1 .. Len(toks) /\ m + 1 \in 0 .. N /\ m + 1 - 1 = m /\ ~(m + 1 <= m)
    BY <1>1, <1>3, <1>5
  <2>2. Open[m + 1] = After(Open[m], Type(m + 1))
    BY <2>1, OpenIs
  <2>3. Open[m + 1] = Mismatch
    BY <1>3, <2>2 DEF After
  <2> QED
    BY <1>3, <2>1, <2>3
<1> QED
  BY <1>4, <1>5

(* A token that is not a word of a bracketing tag leaves open what is.     *)
LEMMA OpenSame ==
  ASSUME Len(toks) \in Nat, NEW i \in 1 .. Len(toks), Type(i) \notin Bracketing
  PROVE  Open[i] = Open[i - 1]
<1>1. Open[i] = After(Open[i - 1], Type(i))
  BY OpenIs
<1>2. PICK s, t : s = Open[i - 1] /\ t = Type(i)
  OBVIOUS
<1>3. t \notin Tags /\ t \notin {"ELIF", "ELSE"} /\ t \notin Closers
  BY <1>2 DEF Bracketing
<1>4. After(s, t) = s
  BY <1>3 DEF After
<1> QED
  BY <1>1, <1>2, <1>4

(* The frame is that of an alternative, which opens nothing itself.        *)
Again(st, k) == st[k].kind = "IF" /\ st[k - 1].kind = "IF"

(* The calls in progress stand for the tags that are open: g[k] is what    *)
(* the first k of them stand for.                                          *)
Chain(st, g) ==
  /\ g \in [1 .. Len(st) -> Seq(Tags)]
  /\ g[1] = << >>
  /\ \A k \in 2 .. Len(st) :
       /\ g[k] = (IF Again(st, k) THEN g[k - 1] ELSE Append(g[k - 1], st[k].kind))
       /\ Len(g[k]) > 0 /\ g[k][Len(g[k])] = st[k].kind

Fits(st, s) == \E g : Chain(st, g) /\ s = g[Len(st)]

(* The innermost tag is that of the call on top.                           *)
LEMMA FitsTop ==
  ASSUME NEW st \in Seq(FrameSet), Len(st) > 0, NEW s, Fits(st, s)
  PROVE  /\ s \in Seq(Tags) /\ s # Mismatch
         /\ Len(st) = 1 => s = << >>
         /\ Len(st) > 1 => Len(s) > 0 /\ s # << >> /\ s[Len(s)] = st[Len(st)].kind
<1>1. PICK g : Chain(st, g) /\ s = g[Len(st)]
  BY DEF Fits
<1>2. PICK n \in Nat : n = Len(st) /\ n > 0
  OBVIOUS
<1>3. n \in 1 .. Len(st) /\ (n > 1 => n \in 2 .. Len(st))
  BY <1>2
<1>4. s \in Seq(Tags)
  BY <1>1, <1>2, <1>3 DEF Chain
<1>5. s # Mismatch
  <2> SUFFICES ASSUME s = Mismatch PROVE FALSE
    OBVIOUS
  <2>1. s[1] = "mismatch" /\ Len(s) = 1 /\ 1 \in 1 .. Len(s)
    BY DEF Mismatch
  <2>2. \A i \in 1 .. Len(s) : s[i] \in Tags
    <3> HIDE DEF Mismatch
    <3>1. PICK q \in Seq(Tags) : q = s
      BY <1>4
    <3>2. \A i \in 1 .. Len(q) : q[i] \in Tags
      OBVIOUS
    <3> QED
      BY <3>1, <3>2
  <2> QED
    BY <2>1, <2>2 DEF Tags
<1>6. n = 1 => s = << >>
  BY <1>1, <1>2 DEF Chain
<1>7. n > 1 => Len(s) > 0 /\ s[Len(s)] = st[n].kind
  BY <1>1, <1>2, <1>3 DEF Chain
<1>8. Len(s) > 0 => s # << >>
  OBVIOUS
<1> QED
  BY <1>2, <1>4, <1>5, <1>6, <1>7, <1>8

(* A call for an alternative in a condition stands for the condition;      *)
(* another one for one more tag.                                           *)
LEMMA FitsCall ==
  ASSUME NEW st \in Seq(FrameSet), Len(st) > 0, NEW s, Fits(st, s),
         st[1].kind = "template", NEW f \in FrameSet, f.kind \in Tags
  PROVE  Fits(Append(st, f), IF f.kind = "IF" /\ st[Len(st)].kind = "IF" THEN s
                             ELSE Append(s, f.kind))
<1>1. PICK g : Chain(st, g) /\ s = g[Len(st)]
  BY DEF Fits
<1>2. PICK n \in Nat : n = Len(st) /\ n > 0
  OBVIOUS
<1>3. PICK su : su = Append(st, f)
  OBVIOUS
<1>4. Len(su) = n + 1 /\ su[n + 1] = f /\ \A k \in 1 .. n : su[k] = st[k]
  BY <1>2, <1>3, AppendProperties
<1>5. PICK t : t = IF f.kind = "IF" /\ st[n].kind = "IF" THEN s ELSE Append(s, f.kind)
  OBVIOUS
<1>6. /\ s \in Seq(Tags) /\ (n = 1 => s = << >>)
      /\ n > 1 => Len(s) > 0 /\ s[Len(s)] = st[n].kind
  BY <1>2, FitsTop
<1>7. st[n].kind = "IF" => n > 1
  BY <1>2
<1> DEFINE h == [k \in 1 .. n + 1 |-> IF k = n + 1 THEN t ELSE g[k]]
<1>8. t \in Seq(Tags) /\ Len(t) > 0 /\ t[Len(t)] = f.kind
  <2>1. CASE f.kind = "IF" /\ st[n].kind = "IF"
    BY <1>5, <1>6, <1>7, <2>1
  <2>2. CASE ~(f.kind = "IF" /\ st[n].kind = "IF")
    <3>1. t = Append(s, f.kind)
      BY <1>5, <2>2
    <3> QED
      BY <1>6, <3>1, AppendProperties
  <2> QED
    BY <2>1, <2>2
<1>9. h \in [1 .. n + 1 -> Seq(Tags)]
  <2> SUFFICES ASSUME NEW k \in 1 .. n + 1 PROVE h[k] \in Seq(Tags)
    OBVIOUS
  <2>1. k # n + 1 => k \in 1 .. n
    BY <1>2
  <2> QED
    BY <1>1, <1>2, <1>8, <2>1 DEF Chain
<1>10. h[1] = << >>
  BY <1>1, <1>2 DEF Chain
<1>11. ASSUME NEW k \in 2 .. n + 1
      PROVE  /\ h[k] = (IF Again(su, k) THEN h[k - 1] ELSE Append(h[k - 1], su[k].kind))
             /\ Len(h[k]) > 0 /\ h[k][Len(h[k])] = su[k].kind
  <2>1. k - 1 \in 1 .. n /\ k \in 1 .. n + 1 /\ k - 1 # n + 1
    BY <1>2, <1>11
  <2>2. h[k - 1] = g[k - 1] /\ su[k - 1] = st[k - 1]
    BY <1>4, <2>1
  <2>3. CASE k = n + 1
    <3>1. h[k] = t /\ su[k] = f /\ k - 1 = n /\ g[k - 1] = s /\ h[k - 1] = s /\ su[k - 1] = st[n]
      BY <1>1, <1>2, <1>4, <2>1, <2>2, <2>3
    <3>2. Again(su, k) <=> f.kind = "IF" /\ st[n].kind = "IF"
      BY <3>1 DEF Again
    <3> HIDE DEF h
    <3> QED
      BY <1>5, <1>8, <3>1, <3>2
  <2>4. CASE k # n + 1
    <3>1. k \in 2 .. Len(st) /\ k \in 1 .. n
      BY <1>2, <1>11, <2>4
    <3>2. h[k] = g[k] /\ su[k] = st[k]
      BY <1>4, <2>1, <2>4, <3>1
    <3>3. Again(su, k) <=> Again(st, k)
      BY <2>2, <3>2 DEF Again
    <3>4. /\ g[k] = (IF Again(st, k) THEN g[k - 1] ELSE Append(g[k - 1], st[k].kind))
          /\ Len(g[k]) > 0 /\ g[k][Len(g[k])] = st[k].kind
      BY <1>1, <3>1 DEF Chain
    <3> HIDE DEF h
    <3> QED
      BY <2>2, <3>2, <3>3, <3>4
  <2> QED
    BY <2>3, <2>4
<1>12. h[n + 1] = t
  BY <1>2
<1> HIDE DEF h
<1>13. Chain(su, h)
  BY <1>4, <1>9, <1>10, <1>11 DEF Chain
<1>14. Fits(su, t)
  BY <1>4, <1>12, <1>13 DEF Fits
<1> QED
  BY <1>2, <1>3, <1>5, <1>14

Front(s) == SubSeq(s, 1, Len(s) - 1)

(* When a call returns, the tag it stood for is open no more, unless it    *)
(* was an alternative's.                                                   *)
LEMMA FitsReturn ==
  ASSUME NEW st \in Seq(FrameSet), Len(st) > 1, NEW s, Fits(st, s)
  PROVE  Fits(Front(st), IF Again(st, Len(st)) THEN s ELSE Front(s))
<1>1. PICK g : Chain(st, g) /\ s = g[Len(st)]
  BY DEF Fits
<1>2. PICK n \in Nat : n = Len(st) /\ n > 1
  OBVIOUS
<1>3. PICK sd : sd = Front(st)
  OBVIOUS
<1>4. Len(sd) = n - 1 /\ n - 1 \in Nat /\ \A k \in 1 .. n - 1 : sd[k] = st[k]
  BY <1>2, <1>3 DEF Front
<1> DEFINE h == [k \in 1 .. n - 1 |-> g[k]]
<1>5. h \in [1 .. n - 1 -> Seq(Tags)] /\ h[1] = << >>
  BY <1>1, <1>2 DEF Chain
<1>6. ASSUME NEW k \in 2 .. n - 1
      PROVE  /\ h[k] = (IF Again(sd, k) THEN h[k - 1] ELSE Append(h[k - 1], sd[k].kind))
             /\ Len(h[k]) > 0 /\ h[k][Len(h[k])] = sd[k].kind
  <2>1. k - 1 \in 1 .. n - 1 /\ k \in 1 .. n - 1 /\ k \in 2 .. Len(st)
    BY <1>2, <1>6
  <2>2. h[k - 1] = g[k - 1] /\ h[k] = g[k] /\ sd[k - 1] = st[k - 1] /\ sd[k] = st[k]
    BY <1>4, <2>1
  <2>3. Again(sd, k) <=> Again(st, k)
    BY <2>2 DEF Again
  <2>4. /\ g[k] = (IF Again(st, k) THEN g[k - 1] ELSE Append(g[k - 1], st[k].kind))
        /\ Len(g[k]) > 0 /\ g[k][Len(g[k])] = st[k].kind
    BY <1>1, <2>1 DEF Chain
  <2> HIDE DEF h
  <2> QED
    BY <2>2, <2>3, <2>4
<1>7. h[n - 1] = g[n - 1] /\ n \in 2 .. Len(st) /\ n - 1 \in 1 .. Len(st)
  BY <1>2
<1> HIDE DEF h
<1>8. Chain(sd, h)
  BY <1>4, <1>5, <1>6 DEF Chain
<1>9. Fits(sd, g[n - 1])
  BY <1>4, <1>7, <1>8 DEF Fits
<1>10. g[n] = (IF Again(st, n) THEN g[n - 1] ELSE Append(g[n - 1], st[n].kind))
  BY <1>1, <1>7 DEF Chain
<1>11. g[n - 1] = IF Again(st, n) THEN s ELSE Front(s)
  <2>1. CASE Again(st, n)
    BY <1>1, <1>2, <1>10, <2>1
  <2>2. CASE ~Again(st, n)
    <3>1. PICK q \in Seq(Tags) : q = g[n - 1]
      BY <1>1, <1>7 DEF Chain
    <3>2. PICK t \in Tags : t = st[n].kind
      <4>1. g[n] \in Seq(Tags) /\ Len(g[n]) > 0 /\ g[n][Len(g[n])] = st[n].kind
        BY <1>1, <1>2, <1>7 DEF Chain
      <4>2. PICK r \in Seq(Tags) : r = g[n] /\ Len(r) > 0 /\ r[Len(r)] = st[n].kind
        BY <4>1
      <4>3. Len(r) \in 1 .. Len(r)
        BY <4>2
      <4> QED
        BY <4>2, <4>3
    <3>3. s = Append(q, t)
      BY <1>1, <1>2, <1>10, <2>2, <3>1, <3>2
    <3>4. Front(Append(q, t)) = q
      <4>1. PICK r : r = Append(q, t)
        OBVIOUS
      <4>2. r \in Seq(Tags) /\ Len(r) = Len(q) + 1 /\ \A k \in 1 .. Len(q) : r[k] = q[k]
        BY <4>1, AppendProperties
      <4>3. /\ Front(r) \in Seq(Tags) /\ Len(Front(r)) = Len(q)
            /\ \A k \in 1 .. Len(q) : Front(r)[k] = q[k]
        BY <4>2 DEF Front
      <4> QED
        BY <4>1, <4>3, SeqEqual
    <3> QED
      BY <2>2, <3>1, <3>3, <3>4
  <2> QED
    BY <2>1, <2>2
<1> QED
  BY <1>2, <1>3, <1>9, <1>11

-----------------------------------------------------------------------------
(* A template of complete tags, without a condition right in a condition.  *)
Lawful == Tidy /\ ~DirectIf

(* A block may begin here: it is not inside of a tag or variable.          *)
Start(i) == Type(i - 1) # "LBRACE" /\ ~(Type(i - 1) = "PERCENT" /\ Type(i - 2) = "LBRACE")

Balanced == Open[Len(toks)] # Mismatch

(* All of this depends on the tokens only.                                 *)
LEMMA SameTokens ==
  ASSUME toks' = toks
  PROVE  /\ Lawful' <=> Lawful
         /\ Open' = Open /\ (Balanced' <=> Balanced)
         /\ \A i : Type(i)' = Type(i)
         /\ \A i : Start(i)' <=> Start(i)
<1>1. Open' = Open
  BY DEF Open
<1>2. \A i : Type(i)' = Type(i)
  BY DEF Type
<1>3. \A i : Start(i)' <=> Start(i)
  BY <1>2 DEF Start
<1>4. DirectIf' <=> DirectIf
  BY <1>1, <1>2 DEF DirectIf
<1>5. \A i, ts : FollowedBy(i, ts)' <=> FollowedBy(i, ts)
  BY <1>2 DEF FollowedBy
<1>6. Tidy' <=> Tidy
  BY <1>2, <1>5 DEF Tidy
<1>7. Balanced' <=> Balanced
  BY <1>1 DEF Balanced
<1> QED
  BY <1>1, <1>2, <1>3, <1>4, <1>6, <1>7 DEF Lawful

(* Between blocks the words of tags do not occur.                          *)
LEMMA StartsNoTag ==
  ASSUME Typed, Tidy, NEW i \in Nat, Start(i), Type(i) \in Bracketing
  PROVE  FALSE
<1>1. Type(i) # "EOF"
  BY DEF Bracketing, Tags, Closers, Closings
<1>2. i \in DOMAIN toks
  BY <1>1, SourceAssumption DEF Type, TypeAt, TokenAt
<1> QED
  BY <1>2 DEF Tidy, Start

(* A tag ends here.                                                        *)
EndAt(i) == Type(i) = "PERCENT" /\ Type(i + 1) = "RBRACE"

(* What a complete tag is.                                                 *)
TagIs ==
  \/ Keyword = "BREAK" /\ EndAt(cur + 3)
  \/ Keyword = "EXTENDS" /\ Type(cur + 3) = "STRING" /\ EndAt(cur + 4)
  \/ Keyword \in {"BLOCK", "IF", "ELIF"} /\ Type(cur + 3) = "IDENT" /\ EndAt(cur + 4)
  \/ Keyword = "ELSE" /\ EndAt(cur + 3)
  \/ /\ Keyword = "FOR" /\ Type(cur + 3) = "IDENT" /\ Type(cur + 4) = "IN"
     /\ Type(cur + 5) = "IDENT" /\ EndAt(cur + 6)
  \/ Keyword \in Closers /\ EndAt(cur + 3)

(* A tag that begins where a block may is one of those.                    *)
LEMMA TagComplete ==
  ASSUME Typed, Tidy, Tag, Start(cur)
  PROVE  TagIs
<1>1. PICK c \in Nat : c = cur
  BY DEF Typed
<1>2. Type(c) = "LBRACE" /\ Type(c + 1) = "PERCENT" /\ Type(c - 1) # "LBRACE"
  BY <1>1 DEF Tag, Start
<1>3. c \in DOMAIN toks
  BY <1>2, SourceAssumption DEF Type, TypeAt, TokenAt
<1>4. ~FollowedBy(c, <<"LBRACE", "IDENT", "RBRACE", "RBRACE">>)
  <2>1. FollowedBy(c, <<"LBRACE", "IDENT", "RBRACE", "RBRACE">>) => Type(c + 1) = "LBRACE"
    BY DEF FollowedBy
  <2> QED
    BY <1>2, <2>1
<1>5. PICK h \in Headers : FollowedBy(c + 1, h) /\ FollowedBy(c + 1 + Len(h), Ending)
  BY <1>2, <1>3, <1>4 DEF Tidy
<1>6. ASSUME NEW i \in Nat, FollowedBy(i, Ending) PROVE EndAt(i + 1)
  <2>1. Type(i + 1) = "PERCENT" /\ Type(i + 2) = "RBRACE"
    BY <1>6 DEF FollowedBy, Ending
  <2>2. i + 1 + 1 = i + 2
    OBVIOUS
  <2> QED
    BY <2>1, <2>2 DEF EndAt
<1>7. Keyword = Type(c + 2)
  BY <1>1 DEF Keyword
<1>8. CASE \E w \in {"BREAK", "ELSE"} \cup Closers : h = <<w>>
  <2>1. PICK w \in {"BREAK", "ELSE"} \cup Closers : h = <<w>>
    BY <1>8
  <2>2. Len(h) = 1 /\ DOMAIN h = {1} /\ h[1] = w
    BY <2>1
  <2>3. /\ Type(c + 1 + 1) = w /\ c + 1 + 1 = c + 2 /\ c + 1 + Len(h) = c + 2 /\ c + 2 \in Nat
        /\ c + 2 + 1 = c + 3
    BY <1>5, <2>2 DEF FollowedBy
  <2>4. EndAt(c + 3)
    BY <1>5, <1>6, <2>3
  <2> QED
    BY <1>1, <1>7, <2>1, <2>3, <2>4 DEF TagIs
<1>9. CASE h \in {<<"EXTENDS", "STRING">>, <<"BLOCK", "IDENT">>, <<"IF", "IDENT">>,
                 <<"ELIF", "IDENT">>}
  <2>1. Len(h) = 2 /\ 1 \in DOMAIN h /\ 2 \in DOMAIN h
    BY <1>9
  <2>2. /\ c + 1 + 1 = c + 2 /\ c + 1 + 2 = c + 3 /\ c + 1 + Len(h) = c + 3 /\ c + 3 \in Nat
        /\ c + 3 + 1 = c + 4
    BY <2>1
  <2>3. Type(c + 2) = h[1] /\ Type(c + 3) = h[2]
    BY <1>5, <2>1, <2>2 DEF FollowedBy
  <2>4. EndAt(c + 4)
    BY <1>5, <1>6, <2>2
  <2> QED
    BY <1>1, <1>7, <1>9, <2>3, <2>4 DEF TagIs
<1>10. CASE h = <<"FOR", "IDENT", "IN", "IDENT">>
  <2>1. Len(h) = 4 /\ \A m \in 1 .. 4 : m \in DOMAIN h
    BY <1>10
  <2>2. /\ c + 1 + 1 = c + 2 /\ c + 1 + 2 = c + 3 /\ c + 1 + 3 = c + 4 /\ c + 1 + 4 = c + 5
        /\ c + 1 + Len(h) = c + 5 /\ c + 5 \in Nat /\ c + 5 + 1 = c + 6
    BY <2>1
  <2>3. Type(c + 2) = h[1] /\ Type(c + 3) = h[2] /\ Type(c + 4) = h[3] /\ Type(c + 5) = h[4]
    BY <1>5, <2>1, <2>2 DEF FollowedBy
  <2>4. EndAt(c + 6)
    BY <1>5, <1>6, <2>2
  <2> QED
    BY <1>1, <1>7, <1>10, <2>3, <2>4 DEF TagIs
<1> QED
  BY <1>8, <1>9, <1>10 DEF Headers

(* The block that comes back ends the body it comes back to.               *)
Ends == node[val].type = "CLOSE" \/ (Top.kind = "IF" /\ node[val].type = "IF")

(* What is open in a body, and when a block comes back to it.              *)
AtBody ==
  /\ errors = 0
  /\ IF cur <= Len(toks) THEN Start(cur) /\ Fits(stack, Open[cur - 1]) ELSE Balanced

AtReturn ==
  /\ errors = 0
  /\ IF cur <= Len(toks)
     THEN /\ Start(cur + 1)
          /\ node[val].type = "CLOSE" => Type(cur + 1) = "RBRACE"
          /\ \E s : Fits(stack, s) /\ Open[cur] = IF Ends THEN Front(s) ELSE s
     ELSE Balanced

BInv ==
  Lawful =>
    /\ pc = "body" => AtBody
    /\ pc = "return" => AtReturn
    /\ pc = "fail" => errors > 0 /\ ~Balanced
    /\ pc \in {"parsed", "accepted", "rejected"} => (errors = 0 <=> Balanced)

-----------------------------------------------------------------------------
(* Tags that are open are no mismatch.                                     *)
LEMMA TagsOpen ==
  ASSUME NEW s \in Seq(Tags)
  PROVE  /\ s # Mismatch /\ Front(s) \in Seq(Tags)
<1>1. s # Mismatch
  <2> SUFFICES ASSUME s = Mismatch PROVE FALSE
    OBVIOUS
  <2>1. s[1] = "mismatch" /\ Len(s) = 1
    BY DEF Mismatch
  <2> HIDE DEF Mismatch
  <2>2. s[1] \in Tags
    BY <2>1
  <2> QED
    BY <2>1, <2>2 DEF Tags
<1>2. Front(s) \in Seq(Tags)
  <2>1. CASE Len(s) = 0
    BY <2>1 DEF Front
  <2>2. CASE Len(s) # 0
    BY <2>2 DEF Front
  <2> QED
    BY <2>1, <2>2
<1> QED
  BY <1>1, <1>2

(* What is open innermost is what the parser takes for it.                 *)
LEMMA InnerIs ==
  ASSUME IInv, NEW s, Fits(stack, s)
  PROVE  /\ Opening = IF s = << >> THEN "NULL" ELSE s[Len(s)]
         /\ s \in Seq(Tags) /\ s # Mismatch
         /\ s = << >> => Top.kind = "template"
         /\ s # << >> => Top.kind = s[Len(s)] /\ Len(stack) > 1 /\ Len(s) > 0
<1>1. /\ stack \in Seq(FrameSet) /\ Len(stack) \in Nat /\ Len(stack) > 0 /\ stack[1] = Template
      /\ Top = stack[Len(stack)]
      /\ Len(stack) > 1 => FrameOK(Top)
      /\ Len(stack) = 1 => Top = Template
  BY TopTyped DEF IInv, Frames
<1>2. /\ s \in Seq(Tags) /\ s # Mismatch
      /\ Len(stack) = 1 => s = << >>
      /\ Len(stack) > 1 => Len(s) > 0 /\ s # << >> /\ s[Len(s)] = stack[Len(stack)].kind
  BY <1>1, FitsTop
<1>3. CASE Len(stack) = 1
  BY <1>1, <1>2, <1>3 DEF Opening, Template
<1>4. CASE Len(stack) > 1
  <2>1. Top.blk # 0 /\ node[Top.blk].type = Top.kind
    BY <1>1, <1>4, TopTyped DEF FrameOK, Nodes, IInv, Typed
  <2> QED
    BY <1>1, <1>2, <1>4, <2>1 DEF Opening
<1>5. Len(stack) = 1 \/ Len(stack) > 1
  <2>1. PICK n \in Nat : n = Len(stack) /\ n > 0
    BY <1>1
  <2>2. n = 1 \/ n > 1
    BY <2>1
  <2> QED
    BY <2>1, <2>2
<1> QED
  BY <1>3, <1>4, <1>5

(* The tags open behind each word of a tag.                                *)
LEMMA AfterIs ==
  ASSUME NEW s \in Seq(Tags), NEW t
  PROVE  /\ t \in Tags => After(s, t) = Append(s, t)
         /\ t \in {"ELIF", "ELSE"} =>
              After(s, t) = IF (IF s = << >> THEN "NULL" ELSE s[Len(s)]) = "IF" THEN s ELSE Mismatch
         /\ t \in Closers =>
              After(s, t) = IF <<IF s = << >> THEN "NULL" ELSE s[Len(s)], t>> \in Closings
                            THEN Front(s) ELSE Mismatch
         /\ t \notin Bracketing => After(s, t) = s
<1>1. s # Mismatch
  BY TagsOpen
<1>2. PICK top : top = IF s = << >> THEN "NULL" ELSE s[Len(s)]
  OBVIOUS
<1>3. /\ t \in Tags => t \notin {"ELIF", "ELSE"} /\ t \notin Closers
      /\ t \in {"ELIF", "ELSE"} => t \notin Tags /\ t \notin Closers
      /\ t \in Closers => t \notin Tags /\ t \notin {"ELIF", "ELSE"}
      /\ t \in Tags \cup {"ELIF", "ELSE"} \cup Closers => t \in Bracketing
  BY DEF Tags, Closers, Closings, Bracketing
<1>4. CASE t \in Tags
  BY <1>1, <1>3, <1>4 DEF After
<1>5. CASE t \in {"ELIF", "ELSE"}
  BY <1>1, <1>2, <1>3, <1>5 DEF After
<1>6. CASE t \in Closers
  BY <1>1, <1>2, <1>3, <1>6 DEF After, Front
<1>7. CASE t \notin Bracketing
  BY <1>1, <1>7 DEF After, Bracketing
<1> QED
  BY <1>3, <1>4, <1>5, <1>6, <1>7

(* Other tokens leave open what is.                                        *)
LEMMA OpenNext ==
  ASSUME Typed, NEW j \in Nat, NEW k, k = j + 1,
         Type(k) \in {"LBRACE", "PERCENT", "RBRACE", "IDENT", "IN", "STRING"}
  PROVE  k \in 1 .. Len(toks) /\ Open[k] = Open[j]
<1>1. Type(k) # "EOF" /\ Type(k) \notin Bracketing
  BY DEF Bracketing, Tags, Closers, Closings
<1>2. k \in 1 .. Len(toks) /\ Len(toks) \in Nat
  BY <1>1, Inside, SourceAssumption DEF Typed
<1>3. Open[k] = Open[k - 1] /\ k - 1 = j
  BY <1>1, <1>2, OpenSame
<1> QED
  BY <1>2, <1>3

(* A tag opens and closes what its keyword says.                           *)
LEMMA OpenTag ==
  ASSUME Typed, Tag, Keyword # "EOF"
  PROVE  /\ cur + 2 \in 1 .. Len(toks) /\ Open[cur + 2] = After(Open[cur - 1], Keyword)
         /\ Open[cur + 1] = Open[cur - 1]
<1>1. PICK c \in Nat : c = cur /\ c > 0
  BY DEF Typed
<1>2. Type(c) = "LBRACE" /\ Type(c + 1) = "PERCENT" /\ Keyword = Type(c + 2)
  BY <1>1 DEF Tag, Keyword
<1>3. c - 1 \in Nat /\ c = (c - 1) + 1
  BY <1>1
<1>4. Open[c] = Open[c - 1]
  BY <1>2, <1>3, OpenNext
<1>5. Open[c + 1] = Open[c]
  BY <1>2, OpenNext
<1>6. c + 2 \in 1 .. Len(toks) /\ Len(toks) \in Nat
  BY <1>2, Inside, SourceAssumption DEF Typed
<1>7. Open[c + 2] = After(Open[c + 2 - 1], Type(c + 2)) /\ c + 2 - 1 = c + 1
  BY <1>6, OpenIs
<1> QED
  BY <1>1, <1>2, <1>4, <1>5, <1>6, <1>7

(* and its last tokens change nothing.                                     *)
LEMMA OpenEnd ==
  ASSUME Typed, NEW i \in Nat, EndAt(i + 1)
  PROVE  /\ Matched(i, Ending) = 2 /\ Expected(i, Ending)
         /\ i + 1 \in 1 .. Len(toks) /\ i + 2 \in 1 .. Len(toks)
         /\ Open[i + 1] = Open[i] /\ Open[i + 2] = Open[i]
         /\ Start(i + 3) /\ (Type(i) # "LBRACE" => Start(i + 2))
<1>1. Type(i + 1) = "PERCENT" /\ Type(i + 2) = "RBRACE"
  <2>1. i + 1 + 1 = i + 2
    OBVIOUS
  <2> QED
    BY <2>1 DEF EndAt
<1>2. i + 1 \in 1 .. Len(toks) /\ Open[i + 1] = Open[i]
  BY <1>1, OpenNext
<1>3. i + 2 \in 1 .. Len(toks) /\ Open[i + 2] = Open[i + 1]
  <2>1. i + 1 \in Nat /\ i + 2 = (i + 1) + 1
    OBVIOUS
  <2> QED
    BY <1>1, <2>1, OpenNext
<1>4. Matched(i, Ending) = 2 /\ Len(Ending) = 2
  <2>1. /\ Matched(i, Ending) \in 0 .. Len(Ending) /\ Len(Ending) = 2
        /\ Matched(i, Ending) < Len(Ending) =>
             Type(i + Matched(i, Ending) + 1) # Ending[Matched(i, Ending) + 1]
    BY Headers3, MatchedIs
  <2>2. PICK n \in 0 .. 2 : n = Matched(i, Ending)
    BY <2>1
  <2>3. n # 0
    <3> SUFFICES ASSUME n = 0 PROVE FALSE
      OBVIOUS
    <3>1. Type(i + 0 + 1) # Ending[0 + 1] /\ i + 0 + 1 = i + 1 /\ Ending[0 + 1] = "PERCENT"
      BY <2>1, <2>2 DEF Ending
    <3> QED
      BY <1>1, <3>1
  <2>4. n # 1
    <3> SUFFICES ASSUME n = 1 PROVE FALSE
      OBVIOUS
    <3>1. Type(i + 1 + 1) # Ending[1 + 1] /\ i + 1 + 1 = i + 2 /\ Ending[1 + 1] = "RBRACE"
      BY <2>1, <2>2 DEF Ending
    <3> QED
      BY <1>1, <3>1
  <2> QED
    BY <2>1, <2>2, <2>3, <2>4
<1>5. Start(i + 3)
  <2>1. i + 3 - 1 = i + 2 /\ i + 3 - 2 = i + 1
    OBVIOUS
  <2> QED
    BY <1>1, <2>1 DEF Start
<1>6. Type(i) # "LBRACE" => Start(i + 2)
  <2>1. i + 2 - 1 = i + 1 /\ i + 2 - 2 = i
    OBVIOUS
  <2> QED
    BY <1>1, <2>1 DEF Start
<1> QED
  BY <1>2, <1>3, <1>4, <1>5, <1>6 DEF Expected

(* The parser begins a block in a template of complete tags.               *)
Ready ==
  /\ IInv /\ Lawful /\ errors = 0 /\ Start(cur) /\ cur \in 1 .. Len(toks)
  /\ Fits(stack, Open[cur - 1])

(* A block was made, which closes what is open innermost or leaves it.     *)
Makes ==
  \E b, i :
    /\ i \in 1 .. Len(toks) /\ node' = Append(node, b) /\ Done(i, 0)
    /\ b.type # "IF" /\ Start(i + 1)
    /\ b.type = "CLOSE" => Type(i + 1) = "RBRACE"
    /\ Open[i] = IF b.type = "CLOSE" THEN Front(Open[cur - 1]) ELSE Open[cur - 1]

(* A body begins, that of an alternative or of a tag that opens.           *)
Calls ==
  \E f, made, i :
    /\ i \in 1 .. Len(toks) /\ Call(f, i, 0, made) /\ f \in FrameSet /\ f.kind \in Tags
    /\ Start(i + 1)
    /\ Open[i] = IF f.kind = "IF" /\ Top.kind = "IF" THEN Open[cur - 1]
                 ELSE Append(Open[cur - 1], f.kind)

(* A tag is refused that does not fit what is open.                        *)
Refuses ==
  \E made, i, n, gone : Fail(i, n, made, gone) /\ n \in Nat /\ n > 0 /\ ~Balanced

Proceeds == Makes \/ Calls \/ Refuses \/ Crash

(* The variables are what they should be then,                             *)
LEMMA ReadyTyped == ASSUME Ready PROVE Typed
BY DEF Ready, IInv

(* and so is what is open.                                                 *)
LEMMA ReadyIs ==
  ASSUME Ready
  PROVE  /\ Typed /\ FewErrors /\ Tidy /\ Len(toks) \in Nat /\ toks \in Sources
         /\ Open[cur - 1] \in Seq(Tags)
         /\ Opening = (IF Open[cur - 1] = << >> THEN "NULL"
                       ELSE Open[cur - 1][Len(Open[cur - 1])])
         /\ Top.kind = "IF" <=> Opening = "IF"
         /\ Len(node) \in Nat
<1>1. Typed /\ FewErrors /\ Tidy /\ Len(toks) \in Nat /\ toks \in Sources /\ Len(node) \in Nat
  BY SourceAssumption DEF Ready, IInv, Typed, Lawful
<1>2. PICK s : s = Open[cur - 1]
  OBVIOUS
<1>3. /\ Opening = IF s = << >> THEN "NULL" ELSE s[Len(s)]
      /\ s \in Seq(Tags)
      /\ s = << >> => Top.kind = "template"
      /\ s # << >> => Top.kind = s[Len(s)]
  BY <1>2, InnerIs DEF Ready
<1>4. Top.kind = "IF" <=> Opening = "IF"
  BY <1>3
<1> QED
  BY <1>1, <1>2, <1>3, <1>4

(* Content.                                                                *)
LEMMA ContentGoes == ASSUME Ready, Content PROVE Proceeds
<1>1. Type(cur) \notin Bracketing
  BY ReadyIs, StartsNoTag DEF Ready
<1>2. Open[cur] = Open[cur - 1]
  BY <1>1, ReadyIs, OpenSame DEF Ready
<1>3. Start(cur + 1)
  <2>1. PICK c \in Nat : c = cur
    BY DEF Ready
  <2>2. c + 1 - 1 = c /\ c + 1 - 2 = c - 1
    OBVIOUS
  <2>3. Type(c) # "LBRACE" /\ Type(c - 1) # "LBRACE"
    BY <2>1 DEF Content, Ready, Start
  <2> QED
    BY <2>1, <2>2, <2>3 DEF Start
<1>4. PICK b : b = Leaf("content", cur, cur)
  OBVIOUS
<1>5. b.type = "content"
  BY <1>4 DEF Leaf, Node
<1> QED
  BY <1>2, <1>3, <1>4, <1>5 DEF Proceeds, Makes, Content, Ready

(* No brace is a stray one.                                                *)
LEMMA StrayBraceGoes == ASSUME Ready, StrayBrace PROVE FALSE
<1>1. PICK c \in Nat : c = cur
  BY DEF Ready
<1>2. c \in DOMAIN toks /\ Type(c) = "LBRACE" /\ Type(c - 1) # "LBRACE"
      /\ Type(c + 1) \notin {"LBRACE", "PERCENT"}
  BY <1>1, SourceAssumption DEF StrayBrace, Type, TypeAt, TokenAt, Ready, Start
<1>3. ~FollowedBy(c, <<"LBRACE", "IDENT", "RBRACE", "RBRACE">>)
  BY <1>2 DEF FollowedBy
<1> QED
  BY <1>2, <1>3, ReadyIs DEF Tidy

(* A name in the place of an expression is one.                            *)
LEMMA NameRead ==
  ASSUME Typed, NEW i \in Nat, Type(i) = "IDENT", Type(i + 1) \in {"RBRACE", "PERCENT"}
  PROVE  ParseExpr(toks, i) = [expr |-> "whole", cur |-> i, errors |-> 0, crash |-> FALSE]
<1>1. i \in 1 .. Len(toks) /\ Len(toks) \in Nat /\ toks \in Sources
  BY Inside, SourceAssumption DEF Typed
<1>2. /\ i \in 1 .. Len(toks) + 1 /\ TypeAt(toks, i) = "IDENT"
      /\ TypeAt(toks, i + 1) \in {"RBRACE", "PERCENT"}
  BY <1>1 DEF Type
<1> QED
  BY <1>1, <1>2, ParseExprAssumption

(* What is expected is there.                                              *)
LEMMA MatchedAll ==
  ASSUME NEW i \in Nat, NEW A, NEW ts \in Seq(A), \A m \in 1 .. Len(ts) : Type(i + m) = ts[m]
  PROVE  Matched(i, ts) = Len(ts) /\ Expected(i, ts)
<1>1. PICK n \in 0 .. Len(ts) :
        n = Matched(i, ts) /\ (n < Len(ts) => Type(i + n + 1) # ts[n + 1])
  BY MatchedIs
<1>2. ASSUME n < Len(ts) PROVE FALSE
  <2>1. n + 1 \in 1 .. Len(ts) /\ i + (n + 1) = i + n + 1
    BY <1>2
  <2> QED
    BY <1>1, <1>2, <2>1
<1>3. n = Len(ts)
  BY <1>2
<1> QED
  BY <1>1, <1>3 DEF Expected

(* {{ name }}                                                              *)
LEMMA VariableGoes == ASSUME Ready, Variable PROVE Proceeds
<1>1. PICK c \in Nat : c = cur /\ c \in DOMAIN toks
  BY SourceAssumption DEF Ready, IInv, Typed
<1>2. Type(c) = "LBRACE" /\ Type(c - 1) # "LBRACE" /\ Type(c + 1) = "LBRACE"
  BY <1>1 DEF Variable, Ready, Start
<1>3. FollowedBy(c, <<"LBRACE", "IDENT", "RBRACE", "RBRACE">>)
  BY <1>1, <1>2, ReadyIs DEF Tidy
<1>4. Type(c + 2) = "IDENT" /\ Type(c + 3) = "RBRACE" /\ Type(c + 4) = "RBRACE"
  BY <1>3 DEF FollowedBy
<1>5. PICK e : /\ e = [expr |-> "whole", cur |-> c + 2, errors |-> 0, crash |-> FALSE]
               /\ e = ParseExpr(toks, c + 2)
  <2>1. c + 2 \in Nat /\ c + 2 + 1 = c + 3
    OBVIOUS
  <2> QED
    BY <1>4, <2>1, ReadyTyped, NameRead
<1>6. Matched(c + 2, <<"RBRACE", "RBRACE">>) = 2
  <2>1. /\ <<"RBRACE", "RBRACE">> \in Seq({"RBRACE"}) /\ Len(<<"RBRACE", "RBRACE">>) = 2
        /\ <<"RBRACE", "RBRACE">>[1] = "RBRACE" /\ <<"RBRACE", "RBRACE">>[2] = "RBRACE"
    OBVIOUS
  <2>2. PICK ts : ts = <<"RBRACE", "RBRACE">>
    OBVIOUS
  <2>3. c + 2 \in Nat /\ c + 2 + 1 = c + 3 /\ c + 2 + 2 = c + 4
    OBVIOUS
  <2>4. \A m \in 1 .. Len(ts) : Type(c + 2 + m) = ts[m]
    BY <1>4, <2>1, <2>2, <2>3
  <2> QED
    BY <2>1, <2>2, <2>3, <2>4, MatchedAll
<1>7. PICK b : b = Node("variable", cur, c + 4, NoName, "whole")
  OBVIOUS
<1>8. node' = Append(node, b) /\ Done(c + 4, 0)
  <2>1. e.cur = c + 2 /\ e.expr = "whole" /\ e.errors = 0 /\ ~e.crash /\ e.expr # "none"
        /\ e.cur + 2 = c + 4
    BY <1>5
  <2>2. \/ e.crash
        \/ /\ ~(e.expr # "none" /\ Matched(e.cur, <<"RBRACE", "RBRACE">>) = 2)
           /\ e.expr # "whole"
        \/ /\ node' = Append(node, Node("variable", cur, e.cur + 2, NoName, e.expr))
           /\ Done(e.cur + 2, e.errors)
        \/ ~(e.expr # "none" /\ Matched(e.cur, <<"RBRACE", "RBRACE">>) = 2)
    BY <1>1, <1>5 DEF Variable
  <2> QED
    BY <1>6, <1>7, <2>1, <2>2
<1>9. /\ c + 4 \in 1 .. Len(toks) /\ Open[c + 4] = Open[c - 1]
  <2>1. /\ c = (c - 1) + 1 /\ c - 1 \in Nat /\ c + 2 = (c + 1) + 1 /\ c + 3 = (c + 2) + 1
        /\ c + 4 = (c + 3) + 1 /\ c + 1 \in Nat /\ c + 2 \in Nat /\ c + 3 \in Nat
    BY <1>1 DEF Ready
  <2>2. Open[c] = Open[c - 1] /\ Open[c + 1] = Open[c]
    BY <1>2, <2>1, ReadyTyped, OpenNext
  <2>3. Open[c + 2] = Open[c + 1]
    BY <1>4, <2>1, ReadyTyped, OpenNext
  <2>4. Open[c + 3] = Open[c + 2]
    BY <1>4, <2>1, ReadyTyped, OpenNext
  <2>5. Open[c + 4] = Open[c + 3] /\ c + 4 \in 1 .. Len(toks)
    BY <1>4, <2>1, ReadyTyped, OpenNext
  <2> QED
    BY <2>2, <2>3, <2>4, <2>5
<1>10. Start(c + 4 + 1)
  <2>1. c + 4 + 1 - 1 = c + 4 /\ c + 4 + 1 - 2 = c + 3
    OBVIOUS
  <2> QED
    BY <1>4, <2>1 DEF Start
<1>11. b.type = "variable"
  BY <1>7 DEF Node
<1> QED
  BY <1>1, <1>8, <1>9, <1>10, <1>11 DEF Proceeds, Makes

(* A complete tag, and what is open behind its keyword.                    *)
LEMMA TagRead ==
  ASSUME Ready, Tag
  PROVE  /\ TagIs /\ Keyword # "EOF" /\ cur + 2 \in 1 .. Len(toks)
         /\ Open[cur + 2] = After(Open[cur - 1], Keyword) /\ Open[cur + 1] = Open[cur - 1]
         /\ Keyword \in Bracketing \cup {"BREAK", "EXTENDS"}
<1>1. TagIs
  BY ReadyIs, TagComplete DEF Ready
<1>2. Keyword # "EOF" /\ Keyword \in Bracketing \cup {"BREAK", "EXTENDS"}
  BY <1>1 DEF TagIs, Bracketing, Tags, Closers, Closings
<1> QED
  BY <1>1, <1>2, ReadyTyped, OpenTag

(* {% break %} is a block.                                                 *)
LEMMA BreakGoes == ASSUME Ready, Break PROVE Proceeds
<1>1. Tag /\ Keyword = "BREAK"
  BY DEF Break
<1>2. TagIs /\ Open[cur + 2] = After(Open[cur - 1], Keyword)
  BY <1>1, TagRead
<1>3. PICK c \in Nat : c = cur
  BY DEF Ready
<1>4. EndAt(c + 2 + 1) /\ c + 2 \in Nat
  <2>1. c + 2 + 1 = c + 3
    OBVIOUS
  <2> QED
    BY <1>1, <1>2, <1>3, <2>1 DEF TagIs, Closers, Closings
<1>5. /\ Matched(c + 2, Ending) = 2 /\ Expected(c + 2, Ending)
      /\ c + 2 + 2 \in 1 .. Len(toks) /\ Open[c + 2 + 2] = Open[c + 2] /\ Start(c + 2 + 3)
  BY <1>4, ReadyTyped, OpenEnd
<1>6. Open[c + 2] = Open[c - 1]
  <2>1. Keyword \notin Bracketing
    BY <1>1 DEF Bracketing, Tags, Closers, Closings
  <2> QED
    BY <1>2, <1>3, <2>1, ReadyIs, AfterIs
<1>7. PICK b : b = Leaf("BREAK", cur, cur + 4)
  OBVIOUS
<1>8. b.type = "BREAK"
  BY <1>7 DEF Leaf, Node
<1>9. node' = Append(node, b) /\ Done(c + 2 + 2, 0)
  BY <1>3, <1>5, <1>7 DEF Break
<1>10. Start(c + 2 + 2 + 1)
  <2>1. c + 2 + 2 + 1 = c + 2 + 3
    OBVIOUS
  <2> QED
    BY <1>5, <2>1
<1> QED
  BY <1>3, <1>5, <1>6, <1>8, <1>9, <1>10 DEF Proceeds, Makes

(* The header of a tag with one word.                                      *)
LEMMA HeaderComplete ==
  ASSUME Typed, NEW i \in Nat, NEW t \in {"STRING", "IDENT"}, Type(i + 1) = t, EndAt(i + 2)
  PROVE  /\ Matched(i, <<t>> \o Ending) = 3 /\ Expected(i, <<t>> \o Ending)
         /\ i + 3 \in 1 .. Len(toks) /\ Open[i + 3] = Open[i] /\ Start(i + 3 + 1)
<1>1. PICK h : h = <<t>> \o Ending
  OBVIOUS
<1>2. /\ h \in Seq({t, "PERCENT", "RBRACE"}) /\ Len(h) = 3
      /\ h[1] = t /\ h[2] = "PERCENT" /\ h[3] = "RBRACE"
  BY <1>1, Header1
<1>3. Type(i + 2) = "PERCENT" /\ Type(i + 3) = "RBRACE" /\ i + 3 = i + 2 + 1 /\ i + 1 + 1 = i + 2
  BY DEF EndAt
<1>4. \A m \in 1 .. Len(h) : Type(i + m) = h[m]
  BY <1>2, <1>3
<1>5. Matched(i, h) = 3 /\ Expected(i, h)
  BY <1>2, <1>4, MatchedAll
<1>6. Open[i + 1] = Open[i]
  BY OpenNext
<1>7. EndAt(i + 1 + 1) /\ i + 1 \in Nat /\ i + 1 + 2 = i + 3 /\ i + 1 + 3 = i + 3 + 1
  BY <1>3
<1>8. i + 1 + 2 \in 1 .. Len(toks) /\ Open[i + 1 + 2] = Open[i + 1] /\ Start(i + 1 + 3)
  BY <1>7, OpenEnd
<1> QED
  BY <1>1, <1>5, <1>6, <1>7, <1>8

(* So is {% extends "name" %}.                                             *)
LEMMA ExtendsGoes == ASSUME Ready, Extends PROVE Proceeds
<1>1. Tag /\ Keyword = "EXTENDS"
  BY DEF Extends
<1>2. TagIs /\ Open[cur + 2] = After(Open[cur - 1], Keyword)
  BY <1>1, TagRead
<1>3. PICK c \in Nat : c = cur
  BY DEF Ready
<1>4. EndAt(c + 2 + 2) /\ c + 2 \in Nat /\ Type(c + 2 + 1) = "STRING"
  <2>1. c + 2 + 2 = c + 4 /\ c + 2 + 1 = c + 3
    OBVIOUS
  <2> QED
    BY <1>1, <1>2, <1>3, <2>1 DEF TagIs, Closers, Closings
<1>5. /\ Matched(c + 2, <<"STRING">> \o Ending) = 3 /\ Expected(c + 2, <<"STRING">> \o Ending)
      /\ c + 2 + 3 \in 1 .. Len(toks) /\ Open[c + 2 + 3] = Open[c + 2] /\ Start(c + 2 + 3 + 1)
  BY <1>4, ReadyTyped, HeaderComplete
<1>6. Open[c + 2] = Open[c - 1]
  <2>1. Keyword \notin Bracketing
    BY <1>1 DEF Bracketing, Tags, Closers, Closings
  <2> QED
    BY <1>2, <1>3, <2>1, ReadyIs, AfterIs
<1>7. PICK b : b = Leaf("EXTENDS", cur, cur + 5)
  OBVIOUS
<1>8. b.type = "EXTENDS"
  BY <1>7 DEF Leaf, Node
<1>9. node' = Append(node, b) /\ Done(c + 2 + 3, 0)
  BY <1>3, <1>5, <1>7 DEF Extends
<1> QED
  BY <1>3, <1>5, <1>6, <1>8, <1>9 DEF Proceeds, Makes

(* {% block name %} opens a body.                                          *)
LEMMA TBlockGoes == ASSUME Ready, TBlock PROVE Proceeds
<1>1. Tag /\ Keyword = "BLOCK"
  BY DEF TBlock
<1>2. TagIs /\ Open[cur + 2] = After(Open[cur - 1], Keyword)
  BY <1>1, TagRead
<1>3. PICK c \in Nat : c = cur
  BY DEF Ready
<1>4. EndAt(c + 2 + 2) /\ c + 2 \in Nat /\ Type(c + 2 + 1) = "IDENT"
  <2>1. c + 2 + 2 = c + 4 /\ c + 2 + 1 = c + 3
    OBVIOUS
  <2> QED
    BY <1>1, <1>2, <1>3, <2>1 DEF TagIs, Closers, Closings
<1>5. /\ Matched(c + 2, <<"IDENT">> \o Ending) = 3 /\ Expected(c + 2, <<"IDENT">> \o Ending)
      /\ c + 2 + 3 \in 1 .. Len(toks) /\ Open[c + 2 + 3] = Open[c + 2] /\ Start(c + 2 + 3 + 1)
  BY <1>4, ReadyTyped, HeaderComplete
<1>6. Open[c + 2] = Append(Open[c - 1], "BLOCK")
  <2>1. "BLOCK" \in Tags
    BY DEF Tags
  <2> QED
    BY <1>1, <1>2, <1>3, <2>1, ReadyIs, AfterIs
<1>7. PICK b, f : /\ b = Node("BLOCK", cur, cur + 5, TokenAt(toks, cur + 3), "whole")
                  /\ f = [kind |-> "BLOCK", blk |-> New, node |-> New]
  OBVIOUS
<1>8. Call(f, c + 2 + 3, 0, <<b>>)
  BY <1>3, <1>5, <1>7 DEF TBlock
<1>9. f \in FrameSet /\ f.kind = "BLOCK" /\ f.kind \in Tags /\ f.kind # "IF"
  BY <1>7, ReadyIs DEF FrameSet, Tags, New
<1> QED
  BY <1>3, <1>5, <1>6, <1>8, <1>9 DEF Proceeds, Calls

(* So does {% for item in name %}.                                         *)
LEMMA ForGoes == ASSUME Ready, For PROVE Proceeds
<1>1. Tag /\ Keyword = "FOR"
  BY DEF For
<1>2. TagIs /\ Open[cur + 2] = After(Open[cur - 1], Keyword)
  BY <1>1, TagRead
<1>3. PICK c \in Nat : c = cur
  BY DEF Ready
<1>4. /\ Type(c + 3) = "IDENT" /\ Type(c + 4) = "IN" /\ Type(c + 5) = "IDENT" /\ EndAt(c + 5 + 1)
      /\ c + 2 + 1 = c + 3 /\ c + 2 + 2 = c + 4 /\ c + 2 + 3 = c + 5 /\ c + 3 + 1 = c + 4
      /\ c + 4 + 1 = c + 5 /\ c + 2 \in Nat /\ c + 3 \in Nat /\ c + 4 \in Nat /\ c + 5 \in Nat
  <2>1. c + 5 + 1 = c + 6
    OBVIOUS
  <2>2. Type(c + 3) = "IDENT" /\ Type(c + 4) = "IN" /\ Type(c + 5) = "IDENT" /\ EndAt(c + 5 + 1)
    BY <1>1, <1>2, <1>3, <2>1 DEF TagIs, Closers, Closings
  <2> QED
    BY <2>2
<1>5. PICK h : h = <<"IDENT", "IN", "IDENT">>
  OBVIOUS
<1>6. Matched(c + 2, h) = 3 /\ Expected(c + 2, h)
  <2>1. h \in Seq({"IDENT", "IN"}) /\ Len(h) = 3 /\ h[1] = "IDENT" /\ h[2] = "IN" /\ h[3] = "IDENT"
    BY <1>5
  <2>2. \A m \in 1 .. Len(h) : Type(c + 2 + m) = h[m]
    BY <1>4, <2>1
  <2> QED
    BY <1>4, <2>1, <2>2, MatchedAll
<1>7. PICK e : /\ e = [expr |-> "whole", cur |-> c + 5, errors |-> 0, crash |-> FALSE]
               /\ e = ParseExpr(toks, c + 5)
  <2>1. Type(c + 5 + 1) = "PERCENT"
    BY <1>4 DEF EndAt
  <2> QED
    BY <1>4, <2>1, ReadyTyped, NameRead
<1>8. /\ Matched(c + 5, Ending) = 2 /\ c + 5 + 2 \in 1 .. Len(toks)
      /\ Open[c + 5 + 2] = Open[c + 5] /\ Start(c + 5 + 3) /\ c + 5 + 3 = c + 5 + 2 + 1
  <2>1. Typed /\ c + 5 \in Nat /\ EndAt(c + 5 + 1) /\ c + 5 + 3 = c + 5 + 2 + 1
    BY <1>4, ReadyTyped
  <2> QED
    BY <2>1, OpenEnd
<1>9. Open[c + 5] = Open[c + 2]
  <2>1. Open[c + 3] = Open[c + 2] /\ Open[c + 4] = Open[c + 3] /\ Open[c + 5] = Open[c + 4]
    BY <1>4, ReadyTyped, OpenNext
  <2> QED
    BY <2>1
<1>10. Open[c + 2] = Append(Open[c - 1], "FOR")
  <2>1. "FOR" \in Tags
    BY DEF Tags
  <2> QED
    BY <1>1, <1>2, <1>3, <2>1, ReadyIs, AfterIs
<1>11. PICK b, f : /\ b = Node("FOR", cur, c + 5 + 2, NoName, "whole")
                   /\ f = [kind |-> "FOR", blk |-> New, node |-> New]
  OBVIOUS
<1>12. Call(f, c + 5 + 2, 0, <<b>>)
  <2>1. e.cur = c + 5 /\ e.errors = 0 /\ ~e.crash /\ e.expr = "whole"
    BY <1>7
  <2>2. \/ e.crash
        \/ Call([kind |-> "FOR", blk |-> New, node |-> New], e.cur + 2, e.errors,
                <<Node("FOR", cur, e.cur + 2, NoName, e.expr)>>)
        \/ Matched(e.cur, Ending) < 2
    BY <1>3, <1>4, <1>5, <1>6, <1>7 DEF For
  <2> QED
    BY <1>8, <1>11, <2>1, <2>2
<1>13. f \in FrameSet /\ f.kind = "FOR" /\ f.kind \in Tags /\ f.kind # "IF"
  BY <1>11, ReadyIs DEF FrameSet, Tags, New
<1> QED
  BY <1>3, <1>8, <1>9, <1>10, <1>12, <1>13 DEF Proceeds, Calls

(* The header of a branch is complete, and its body begins.                *)
LEMMA BranchGoes ==
  ASSUME Ready, NEW i \in Nat, EndAt(i + 1), NEW e, BranchFrom(e),
         e.cur = i, e.errors = 0, e.crash = FALSE,
         Open[i] = IF Top.kind = "IF" THEN Open[cur - 1] ELSE Append(Open[cur - 1], "IF")
  PROVE  Proceeds
<1>1. /\ Matched(i, Ending) = 2 /\ i + 2 \in 1 .. Len(toks)
      /\ Open[i + 2] = Open[i] /\ Start(i + 2 + 1)
  <2>1. i + 2 + 1 = i + 3
    OBVIOUS
  <2> QED
    BY <2>1, ReadyTyped, OpenEnd
<1>2. PICK f, made :
        /\ f = [kind |-> "IF", blk |-> New, node |-> New + 1]
        /\ made = <<[Leaf("IF", 1, 0) EXCEPT !.next = New + 1],
                    Node("branch", cur, e.cur + 2, NoName, e.expr)>>
  OBVIOUS
<1>3. Call(f, i + 2, 0, made)
  <2>1. \/ e.crash
        \/ Call(f, e.cur + 2, e.errors, made)
        \/ Matched(e.cur, Ending) < 2
    BY <1>2 DEF BranchFrom
  <2> QED
    BY <1>1, <2>1
<1>4. f \in FrameSet /\ f.kind = "IF" /\ f.kind \in Tags
  BY <1>2, ReadyIs DEF FrameSet, Tags, New
<1> QED
  BY <1>1, <1>3, <1>4 DEF Proceeds, Calls

(* A condition is not right inside of another.                             *)
LEMMA IfGoes == ASSUME Ready, If PROVE Proceeds
<1>1. Tag /\ Keyword = "IF" /\ BranchFrom(ParseExpr(toks, cur + 2 + 1))
  BY DEF If, Branch, BranchFrom
<1>2. /\ TagIs /\ Open[cur + 2] = After(Open[cur - 1], Keyword) /\ Open[cur + 1] = Open[cur - 1]
      /\ cur + 2 \in 1 .. Len(toks)
  BY <1>1, TagRead
<1>3. PICK c \in Nat : c = cur
  BY DEF Ready
<1>4. /\ EndAt(c + 3 + 1) /\ c + 3 \in Nat /\ Type(c + 3) = "IDENT" /\ c + 3 = c + 2 + 1
      /\ c + 2 - 1 = c + 1 /\ c + 2 \in Nat
  <2>1. c + 3 + 1 = c + 4 /\ c + 3 = c + 2 + 1 /\ c + 2 - 1 = c + 1
    OBVIOUS
  <2> QED
    BY <1>1, <1>2, <1>3, <2>1 DEF TagIs, Closers, Closings
<1>5. PICK e : e = ParseExpr(toks, c + 3)
  OBVIOUS
<1>6. BranchFrom(e) /\ e.cur = c + 3 /\ e.errors = 0 /\ e.crash = FALSE
  <2>1. Type(c + 3 + 1) = "PERCENT"
    BY <1>4 DEF EndAt
  <2>2. e = [expr |-> "whole", cur |-> c + 3, errors |-> 0, crash |-> FALSE]
    BY <1>4, <1>5, <2>1, ReadyTyped, NameRead
  <2>3. BranchFrom(e)
    BY <1>1, <1>3, <1>4, <1>5
  <2> QED
    BY <2>2, <2>3
<1>7. Open[c + 3] = Append(Open[c - 1], "IF")
  <2>1. "IF" \in Tags
    BY DEF Tags
  <2>2. Open[c + 2] = Append(Open[c - 1], "IF")
    BY <1>1, <1>2, <1>3, <2>1, ReadyIs, AfterIs
  <2>3. Open[c + 3] = Open[c + 2]
    BY <1>4, ReadyTyped, OpenNext
  <2> QED
    BY <2>2, <2>3
<1>8. Top.kind # "IF"
  <2>1. c + 2 \in DOMAIN toks /\ Type(c + 2) = "IF"
    BY <1>1, <1>2, <1>3, SourceAssumption, ReadyIs DEF Keyword
  <2>2. ~(Open[c + 2 - 1] # << >> /\ Open[c + 2 - 1][Len(Open[c + 2 - 1])] = "IF")
    BY <2>1 DEF Ready, Lawful, DirectIf
  <2>3. ~(Open[cur - 1] # << >> /\ Open[cur - 1][Len(Open[cur - 1])] = "IF")
    BY <1>2, <1>3, <1>4, <2>2
  <2> QED
    BY <2>3, ReadyIs
<1> QED
  BY <1>3, <1>4, <1>6, <1>7, <1>8, BranchGoes

(* An alternative continues the condition that is open innermost.          *)
LEMMA AlternativeGoes == ASSUME Ready, Alternative PROVE Proceeds
<1>1. Tag /\ Keyword \in {"ELIF", "ELSE"}
  BY DEF Alternative
<1>2. /\ TagIs /\ Open[cur + 2] = After(Open[cur - 1], Keyword)
      /\ cur + 2 \in 1 .. Len(toks)
  BY <1>1, TagRead
<1>3. PICK c \in Nat : c = cur /\ c > 0
  BY DEF Ready
<1>4. Open[c + 2] = IF Opening = "IF" THEN Open[c - 1] ELSE Mismatch
  BY <1>1, <1>2, <1>3, ReadyIs, AfterIs
<1>5. c + 3 + 1 = c + 4 /\ c + 3 = c + 2 + 1 /\ c + 2 \in Nat /\ c + 3 \in Nat
  OBVIOUS
<1>6. CASE Opening # "IF"
  <2>1. Fail(cur + 2, 1, <<Leaf("IF", 1, 0)>>, {New})
    BY <1>6 DEF Alternative
  <2>2. c + 2 \in 0 .. Len(toks) /\ Open[c + 2] = Mismatch
    BY <1>2, <1>3, <1>4, <1>6
  <2>3. ~Balanced
    BY <2>2, ReadyIs, MismatchStays DEF Balanced
  <2> QED
    BY <2>1, <2>3 DEF Proceeds, Refuses
<1>7. CASE Opening = "IF" /\ Keyword = "ELIF"
  <2>1. BranchFrom(ParseExpr(toks, c + 3))
    BY <1>3, <1>5, <1>7 DEF Alternative, Branch, BranchFrom
  <2>2. EndAt(c + 3 + 1) /\ Type(c + 3) = "IDENT"
    BY <1>2, <1>3, <1>5, <1>7 DEF TagIs, Closers, Closings
  <2>3. PICK e : e = ParseExpr(toks, c + 3)
    OBVIOUS
  <2>4. BranchFrom(e) /\ e.cur = c + 3 /\ e.errors = 0 /\ e.crash = FALSE
    <3>1. Type(c + 3 + 1) = "PERCENT"
      BY <2>2 DEF EndAt
    <3>2. e = [expr |-> "whole", cur |-> c + 3, errors |-> 0, crash |-> FALSE]
      BY <1>5, <2>2, <2>3, <3>1, ReadyTyped, NameRead
    <3>3. BranchFrom(e)
      BY <2>1, <2>3
    <3> QED
      BY <3>2, <3>3
  <2>5. Open[c + 3] = Open[c + 2]
    BY <1>5, <2>2, ReadyTyped, OpenNext
  <2>6. Top.kind = "IF"
    BY <1>7, ReadyIs
  <2> QED
    BY <1>3, <1>4, <1>5, <1>7, <2>2, <2>4, <2>5, <2>6, BranchGoes
<1>8. CASE Opening = "IF" /\ Keyword = "ELSE"
  <2>1. PICK e : /\ e = [expr |-> "none", cur |-> c + 2, errors |-> 0, crash |-> FALSE]
                 /\ BranchFrom(e)
    BY <1>3, <1>8 DEF Alternative, Branch, BranchFrom
  <2>2. EndAt(c + 2 + 1)
    BY <1>2, <1>3, <1>5, <1>8 DEF TagIs, Closers, Closings
  <2>3. e.cur = c + 2 /\ e.errors = 0 /\ e.crash = FALSE
    BY <2>1
  <2>4. Top.kind = "IF"
    BY <1>8, ReadyIs
  <2> QED
    BY <1>3, <1>4, <1>5, <1>8, <2>1, <2>2, <2>3, <2>4, BranchGoes
<1> QED
  BY <1>1, <1>6, <1>7, <1>8

(* A closing tag closes what is open innermost, or is refused.             *)
LEMMA CloseGoes == ASSUME Ready, Close PROVE Proceeds
<1>1. Tag /\ Keyword \in Closers
  BY DEF Close
<1>2. /\ TagIs /\ Open[cur + 2] = After(Open[cur - 1], Keyword)
      /\ cur + 2 \in 1 .. Len(toks)
  BY <1>1, TagRead
<1>3. PICK c \in Nat : c = cur /\ c > 0
  BY DEF Ready
<1>4. Open[c + 2] = IF Matches THEN Front(Open[c - 1]) ELSE Mismatch
  <2>1. Matches <=> <<Opening, Keyword>> \in Closings
    BY DEF Matches
  <2> QED
    BY <1>1, <1>2, <1>3, <2>1, ReadyIs, AfterIs
<1>5. /\ EndAt(c + 2 + 1) /\ c + 2 + 1 = c + 3 /\ c + 2 \in Nat /\ Type(c + 2) # "LBRACE"
      /\ c + 2 + 2 = c + 2 + 1 + 1
  <2>1. c + 2 + 1 = c + 3 /\ c + 2 + 2 = c + 2 + 1 + 1
    OBVIOUS
  <2>2. EndAt(c + 3) /\ Keyword # "LBRACE"
    BY <1>1, <1>2, <1>3 DEF TagIs, Closers, Closings
  <2> QED
    BY <1>3, <2>1, <2>2 DEF Keyword
<1>6. /\ Matched(c + 2, Ending) = 2 /\ Expected(c + 2, Ending)
      /\ c + 2 + 1 \in 1 .. Len(toks) /\ Open[c + 2 + 1] = Open[c + 2]
      /\ Start(c + 2 + 1 + 1)
  BY <1>5, ReadyTyped, OpenEnd
<1>7. PICK b : b = Leaf("CLOSE", cur, cur + 4)
  OBVIOUS
<1>8. b.type = "CLOSE"
  BY <1>7 DEF Leaf, Node
<1>9. \/ Matches /\ node' = Append(node, b) /\ Done(c + 2 + 1, 0)
      \/ ~Matches /\ Fail(c + 2, 1, <<b>>, {New})
  BY <1>3, <1>6, <1>7 DEF Close
<1>10. CASE Matches /\ node' = Append(node, b) /\ Done(c + 2 + 1, 0)
  <2>1. Type(c + 2 + 1 + 1) = "RBRACE"
    BY <1>5 DEF EndAt
  <2> QED
    BY <1>3, <1>4, <1>6, <1>8, <1>10, <2>1 DEF Proceeds, Makes
<1>11. CASE ~Matches /\ Fail(c + 2, 1, <<b>>, {New})
  <2>1. c + 2 \in 0 .. Len(toks) /\ Open[c + 2] = Mismatch
    BY <1>2, <1>3, <1>4, <1>11
  <2>2. ~Balanced
    BY <2>1, ReadyIs, MismatchStays DEF Balanced
  <2> QED
    BY <1>11, <2>2 DEF Proceeds, Refuses
<1> QED
  BY <1>9, <1>10, <1>11

(* Each complete tag has a keyword.                                        *)
LEMMA NoKeywordGoes == ASSUME Ready, NoKeyword PROVE FALSE
<1>1. Tag /\ Keyword \notin {"FOR", "BREAK", "IF", "ELIF", "ELSE", "EXTENDS", "BLOCK"} \cup Closers
  BY DEF NoKeyword
<1>2. Keyword \in Bracketing \cup {"BREAK", "EXTENDS"}
  BY <1>1, TagRead
<1> QED
  BY <1>1, <1>2 DEF Bracketing, Tags

(* No other case of parser_parse_block is met.                             *)
LEMMA ReadyProceeds ==
  ASSUME Ready,
         \/ Content \/ StrayBrace \/ Variable \/ Break \/ Extends \/ For \/ If
         \/ Alternative \/ TBlock \/ Close \/ NoKeyword
  PROVE  Proceeds
BY ContentGoes, StrayBraceGoes, VariableGoes, BreakGoes, ExtendsGoes, ForGoes, IfGoes,
   AlternativeGoes, TBlockGoes, CloseGoes, NoKeywordGoes

(* What comes back fits what is open.                                      *)
LEMMA MakesStep ==
  ASSUME Ready, pc = "body", Makes
  PROVE  BInv'
<1>1. PICK b, i :
        /\ i \in 1 .. Len(toks) /\ node' = Append(node, b) /\ Done(i, 0)
        /\ b.type # "IF" /\ Start(i + 1)
        /\ b.type = "CLOSE" => Type(i + 1) = "RBRACE"
        /\ Open[i] = IF b.type = "CLOSE" THEN Front(Open[cur - 1]) ELSE Open[cur - 1]
  BY DEF Makes
<1>2. /\ toks' = toks /\ stack' = stack /\ cur' = i /\ pc' = "return" /\ val' = Len(node')
      /\ errors' = 0
  BY <1>1 DEF Done, Ready
<1>3. node'[val'] = b
  <2>1. node \in Seq(NodeSet) /\ Len(node) \in Nat
    BY DEF Ready, IInv, Typed
  <2>2. Len(node') = Len(node) + 1 /\ node'[Len(node) + 1] = b
    BY <1>1, <2>1, AppendProperties
  <2> QED
    BY <1>2, <2>2
<1>4. PICK s : s = Open[cur - 1] /\ Fits(stack, s)
  BY DEF Ready
<1>5. Ends' <=> b.type = "CLOSE"
  BY <1>1, <1>3 DEF Ends
<1>6. Open' = Open /\ Start(cur + 1)' /\ (b.type = "CLOSE" => Type(cur + 1)' = "RBRACE")
  BY <1>1, <1>2 DEF Start, Type, Open
<1>7. Open'[cur'] = IF Ends' THEN Front(s) ELSE s
  BY <1>1, <1>2, <1>4, <1>5, <1>6
<1>8. AtReturn'
  BY <1>1, <1>2, <1>3, <1>4, <1>6, <1>7 DEF AtReturn
<1> QED
  BY <1>2, <1>8 DEF BInv

(* What stands for the calls is no mismatch.                               *)
LEMMA FitsBalanced ==
  ASSUME IInv, NEW s, Fits(stack, s)
  PROVE  /\ s # Mismatch /\ Front(s) # Mismatch
BY InnerIs, TagsOpen

(* So does the body that begins,                                           *)
LEMMA CallsStep ==
  ASSUME Ready, pc = "body", Calls
  PROVE  BInv'
<1>1. PICK f, made, i :
        /\ i \in 1 .. Len(toks) /\ Call(f, i, 0, made) /\ f \in FrameSet /\ f.kind \in Tags
        /\ Start(i + 1)
        /\ Open[i] = IF f.kind = "IF" /\ Top.kind = "IF" THEN Open[cur - 1]
                     ELSE Append(Open[cur - 1], f.kind)
  BY DEF Calls
<1>2. /\ toks' = toks /\ stack' = Append(stack, f) /\ cur' = i + 1 /\ pc' = "body" /\ errors' = 0
  BY <1>1 DEF Call, Ready
<1>3. PICK st \in Seq(FrameSet) : st = stack
  BY DEF Ready, IInv, Frames
<1>4. PICK s : s = Open[cur - 1]
  OBVIOUS
<1>5. /\ Len(st) > 0 /\ Fits(st, s) /\ st[1].kind = "template" /\ Top = st[Len(st)]
  BY <1>3, <1>4 DEF Ready, IInv, Frames, Template, Top
<1>6. Fits(Append(st, f), IF f.kind = "IF" /\ st[Len(st)].kind = "IF" THEN s ELSE Append(s, f.kind))
  BY <1>1, <1>5, FitsCall
<1>7. Fits(Append(st, f), Open[i])
  BY <1>1, <1>5, <1>6, <1>4
<1>8. Open[i] # Mismatch
  <2>1. Append(st, f) \in Seq(FrameSet) /\ Len(Append(st, f)) > 0
    BY <1>1, AppendProperties
  <2> QED
    BY <1>7, <2>1, FitsTop
<1>9. Open' = Open /\ Len(toks) \in Nat /\ Start(cur)'
  BY <1>1, <1>2, ReadyIs DEF Open, Start, Type
<1>10. CASE i < Len(toks)
  <2>1. cur' <= Len(toks') /\ cur' - 1 = i
    BY <1>1, <1>2, <1>9, <1>10
  <2>2. Fits(stack, Open[cur - 1])'
    BY <1>2, <1>3, <1>7, <1>9, <2>1
  <2>3. AtBody'
    BY <1>2, <1>9, <2>1, <2>2 DEF AtBody
  <2> QED
    BY <1>2, <2>3 DEF BInv
<1>11. CASE i = Len(toks)
  <2>1. ~(cur' <= Len(toks'))
    BY <1>1, <1>2, <1>9, <1>11
  <2>3. Balanced'
    BY <1>2, <1>8, <1>9, <1>11 DEF Balanced
  <2>2. AtBody'
    BY <1>2, <2>1, <2>3 DEF AtBody
  <2> QED
    BY <1>2, <2>2 DEF BInv
<1> QED
  BY <1>1, <1>9, <1>10, <1>11

(* and what was refused does not.                                          *)
LEMMA RefusesStep ==
  ASSUME Ready, pc = "body", Refuses
  PROVE  BInv'
<1>1. PICK made, i, n, gone : Fail(i, n, made, gone) /\ n \in Nat /\ n > 0 /\ ~Balanced
  BY DEF Refuses
<1>2. toks' = toks /\ pc' = "fail" /\ errors' > 0 /\ ~Balanced'
  BY <1>1 DEF Fail, Ready, Balanced, Open
<1> QED
  BY <1>2 DEF BInv

(* The call on top returns, and another one may be for its alternative.    *)
LEMMA FinishFits ==
  ASSUME IInv, Finish, Len(stack) > 1, node'[Top.blk].type = node[Top.blk].type,
         NEW s, Fits(stack, s)
  PROVE  /\ \E t : Fits(stack', t) /\ Front(s) = IF Ends' THEN Front(t) ELSE t
         /\ pc' = "return" /\ node'[val'].type # "CLOSE"
<1>1. stack' = Pop /\ pc' = "return" /\ val' = Top.blk
  BY DEF Finish
<1>2. PICK st \in Seq(FrameSet) : st = stack
  BY DEF IInv, Frames
<1>3. PICK n \in Nat : n = Len(st) /\ n > 1
  BY <1>2
<1>4. FrameOK(Top) /\ Top = st[n]
  BY <1>2, <1>3, TopTyped DEF IInv
<1>5. node'[val'].type = st[n].kind /\ st[n].kind # "CLOSE"
  <2>1. st[n] \in FrameSet
    BY <1>3
  <2> QED
    BY <1>1, <1>4, <2>1 DEF FrameOK, FrameSet
<1>6. Top'.kind = st[n - 1].kind
  <2>1. PICK sd : sd = Front(st)
    OBVIOUS
  <2>2. Len(sd) = n - 1 /\ sd[n - 1] = st[n - 1]
    BY <1>3, <2>1 DEF Front
  <2>3. stack' = sd
    BY <1>1, <1>2, <2>1 DEF Pop, Front
  <2> QED
    BY <2>2, <2>3 DEF Top
<1>7. Ends' <=> Again(st, n)
  BY <1>5, <1>6 DEF Ends, Again
<1>8. Fits(Front(st), IF Again(st, Len(st)) THEN s ELSE Front(s))
  BY <1>2, <1>3, FitsReturn
<1>9. Fits(stack', IF Ends' THEN s ELSE Front(s))
  BY <1>1, <1>2, <1>3, <1>7, <1>8 DEF Pop, Front
<1> QED
  BY <1>1, <1>5, <1>9

(* Behind the last token there is nothing that opens or closes.            *)
LEMMA TakeBal ==
  ASSUME IInv, BInv, Lawful, Take
  PROVE  BInv'
<1>1. /\ pc = "return" /\ toks' = toks /\ errors' = errors
      /\ cur' = (IF Type(cur) = "EOF" THEN cur ELSE cur + 1)
      /\ ~(Top.kind = "IF" /\ node[val].type = "IF")
      /\ node' = [node EXCEPT ![Top.node].subs = Append(@, val)]
      /\ \/ node[val].type = "CLOSE" /\ Finish
         \/ node[val].type # "CLOSE" /\ pc' = "body" /\ stack' = stack
  BY DEF Take, Push
<1>2. AtReturn /\ errors' = 0
  BY <1>1 DEF BInv, AtReturn
<1>3. /\ Len(toks) \in Nat /\ cur \in Nat
      /\ Type(cur) = "EOF" => cur = Len(toks) + 1
      /\ Type(cur) # "EOF" => cur <= Len(toks)
  BY AtEnd DEF IInv
<1>4. Open' = Open /\ (Balanced => Balanced')
  BY <1>1 DEF Open, Balanced
<1>5. node[val].type = "CLOSE" => Len(stack) > 1
  BY <1>1 DEF IInv, Value
<1>6. node'[Top.blk].type = node[Top.blk].type
  <2>1. PICK p, x : p = Top.node /\ x = Append(node[p].subs, val)
    OBVIOUS
  <2>2. node' = [node EXCEPT ![p].subs = x]
    BY <1>1, <2>1
  <2>3. PICK nd \in Seq(NodeSet) : nd = node
    BY DEF IInv, Typed
  <2>4. p \in 1 .. Len(nd)
    BY <2>1, <2>3, TopTyped DEF IInv, Nodes
  <2>5. nd[p] \in NodeSet
    BY <2>4
  <2>6. [nd[p] EXCEPT !.subs = x].type = nd[p].type
    BY <2>5 DEF NodeSet
  <2>7. node' = [nd EXCEPT ![p] = [nd[p] EXCEPT !.subs = x]]
    BY <2>2, <2>3
  <2>8. \A q : node'[q].type = nd[q].type
    BY <2>4, <2>6, <2>7
  <2> QED
    BY <2>3, <2>8
<1>7. CASE Type(cur) = "EOF"
  <2>1. cur' = cur /\ ~(cur <= Len(toks)) /\ Balanced
    BY <1>1, <1>2, <1>3, <1>7 DEF AtReturn
  <2>2. ~(cur' <= Len(toks')) /\ Balanced'
    BY <1>1, <1>4, <2>1
  <2>3. AtReturn' /\ AtBody' /\ pc' \in {"body", "return"}
    BY <1>1, <1>2, <2>2 DEF AtReturn, AtBody, Finish
  <2> QED
    BY <2>3 DEF BInv
<1>8. CASE Type(cur) # "EOF"
  <2>1. cur <= Len(toks) /\ cur' = cur + 1
    BY <1>1, <1>3, <1>8
  <2>2. PICK s : Fits(stack, s) /\ Open[cur] = IF Ends THEN Front(s) ELSE s
    BY <1>2, <2>1 DEF AtReturn
  <2>3. Start(cur + 1) /\ (node[val].type = "CLOSE" => Type(cur + 1) = "RBRACE")
    BY <1>2, <2>1 DEF AtReturn
  <2>4. PICK c \in Nat : c = cur /\ c <= Len(toks)
    BY <1>3, <2>1
  <2>5. CASE node[val].type = "CLOSE"
    <3>1. Finish /\ Len(stack) > 1 /\ Open[c] = Front(s)
      BY <1>1, <1>5, <2>2, <2>4, <2>5 DEF Ends
    <3>2. PICK t : Fits(stack', t) /\ Front(s) = IF Ends' THEN Front(t) ELSE t
      BY <1>6, <2>2, <3>1, FinishFits
    <3>3. pc' = "return" /\ node'[val'].type # "CLOSE"
      BY <1>6, <2>2, <3>1, FinishFits
    <3>4. c + 1 \in 1 .. Len(toks) /\ Open[c + 1] = Open[c]
      <4>1. Type(c + 1) = "RBRACE" /\ Typed
        BY <2>3, <2>4, <2>5 DEF IInv
      <4> QED
        BY <4>1, OpenNext
    <3>5. Start(cur + 1)'
      <4>1. c + 1 + 1 - 1 = c + 1 /\ c + 1 + 1 - 2 = c
        OBVIOUS
      <4>2. Start(c + 1 + 1)
        BY <2>3, <2>4, <2>5, <4>1 DEF Start
      <4> QED
        BY <1>1, <2>1, <2>4, <4>2 DEF Start, Type
    <3>6. cur' <= Len(toks') /\ Open'[cur'] = IF Ends' THEN Front(t) ELSE t
      BY <1>1, <1>3, <1>4, <2>1, <2>4, <3>1, <3>2, <3>4
    <3>7. AtReturn'
      BY <1>2, <3>2, <3>3, <3>5, <3>6 DEF AtReturn
    <3> QED
      BY <3>3, <3>7 DEF BInv
  <2>6. CASE node[val].type # "CLOSE"
    <3>1. pc' = "body" /\ stack' = stack /\ Open[c] = s
      BY <1>1, <2>2, <2>4, <2>6 DEF Ends
    <3>2. CASE c < Len(toks)
      <4>1. cur' <= Len(toks') /\ cur' - 1 = c
        BY <1>1, <1>3, <2>1, <2>4, <3>2
      <4>2. Start(cur)'
        BY <1>1, <2>1, <2>3 DEF Start, Type
      <4>3. Fits(stack', Open'[cur' - 1])
        BY <1>4, <2>2, <3>1, <4>1
      <4>4. AtBody'
        BY <1>2, <4>1, <4>2, <4>3 DEF AtBody
      <4> QED
        BY <3>1, <4>4 DEF BInv
    <3>3. CASE c = Len(toks)
      <4>1. ~(cur' <= Len(toks'))
        BY <1>1, <2>1, <2>4, <3>3
      <4>2. Balanced'
        BY <1>4, <2>2, <3>1, <3>3, FitsBalanced DEF Balanced
      <4>3. AtBody'
        BY <1>2, <4>1, <4>2 DEF AtBody
      <4> QED
        BY <3>1, <4>3 DEF BInv
    <3> QED
      BY <1>3, <2>4, <3>2, <3>3
  <2> QED
    BY <2>5, <2>6
<1> QED
  BY <1>7, <1>8

(* A branch ends with the one that came back for its alternative.          *)
LEMMA TakeAlternativeBal ==
  ASSUME IInv, BInv, Lawful, TakeAlternative
  PROVE  BInv'
<1>1. /\ pc = "return" /\ toks' = toks /\ errors' = errors /\ cur' = cur
      /\ Top.kind = "IF" /\ node[val].type = "IF" /\ Finish /\ Ends
      /\ node' = [node EXCEPT ![Top.node].next = node[val].next]
  BY DEF TakeAlternative, Ends
<1>2. AtReturn /\ errors' = 0
  BY <1>1 DEF BInv, AtReturn
<1>3. Open' = Open /\ (Balanced => Balanced')
  BY <1>1 DEF Open, Balanced
<1>4. Len(stack) > 1
  <2>1. Len(stack) # 1 /\ Len(stack) \in Nat /\ Len(stack) > 0
    BY <1>1, TopTyped DEF IInv, Frames
  <2>2. PICK n \in Nat : n = Len(stack)
    BY <2>1
  <2>3. n > 1
    BY <2>1, <2>2
  <2> QED
    BY <2>2, <2>3
<1>5. node'[Top.blk].type = node[Top.blk].type
  <2>1. PICK p, x : p = Top.node /\ x = node[val].next
    OBVIOUS
  <2>2. PICK nd \in Seq(NodeSet) : nd = node
    BY DEF IInv, Typed
  <2>3. p \in 1 .. Len(nd)
    BY <2>1, <2>2, TopTyped DEF IInv, Nodes
  <2>4. [nd[p] EXCEPT !.next = x].type = nd[p].type
    BY <2>3 DEF NodeSet
  <2>5. node' = [nd EXCEPT ![p] = [nd[p] EXCEPT !.next = x]]
    BY <1>1, <2>1, <2>2
  <2>6. \A q : node'[q].type = nd[q].type
    BY <2>3, <2>4, <2>5
  <2> QED
    BY <2>2, <2>6
<1>6. CASE cur <= Len(toks)
  <2>1. Start(cur + 1)
    BY <1>2, <1>6 DEF AtReturn
  <2>2. PICK s : Fits(stack, s) /\ Open[cur] = Front(s)
    BY <1>1, <1>2, <1>6 DEF AtReturn
  <2>3. PICK t : Fits(stack', t) /\ Front(s) = IF Ends' THEN Front(t) ELSE t
    BY <1>1, <1>4, <1>5, <2>2, FinishFits
  <2>4. pc' = "return" /\ node'[val'].type # "CLOSE"
    BY <1>1, <1>4, <1>5, <2>2, FinishFits
  <2>5. Start(cur + 1)'
    BY <1>1, <2>1 DEF Start, Type
  <2>6. cur' <= Len(toks') /\ Open'[cur'] = IF Ends' THEN Front(t) ELSE t
    BY <1>1, <1>3, <1>6, <2>2, <2>3
  <2>7. AtReturn'
    BY <1>2, <2>3, <2>4, <2>5, <2>6 DEF AtReturn
  <2> QED
    BY <2>4, <2>7 DEF BInv
<1>7. CASE ~(cur <= Len(toks))
  <2>1. ~(cur' <= Len(toks')) /\ Balanced'
    BY <1>1, <1>2, <1>3, <1>7 DEF AtReturn
  <2>2. AtReturn' /\ pc' = "return"
    BY <1>1, <1>2, <2>1 DEF AtReturn, Finish
  <2> QED
    BY <2>2 DEF BInv
<1> QED
  BY <1>6, <1>7

(* At the end what is open stays so.                                       *)
LEMMA EndOfSourceBal ==
  ASSUME IInv, BInv, Lawful, EndOfSource
  PROVE  BInv'
<1>1. /\ pc = "body" /\ Type(cur) = "EOF" /\ toks' = toks /\ cur' = cur /\ errors' = errors
      /\ pc' \in {"parsed", "return"}
  BY DEF EndOfSource, Finish
<1>2. AtBody /\ errors' = 0
  BY <1>1 DEF BInv, AtBody
<1>3. ~(cur <= Len(toks))
  BY <1>1, AtEnd DEF IInv
<1>4. ~(cur' <= Len(toks')) /\ Balanced'
  BY <1>1, <1>2, <1>3 DEF AtBody, Balanced, Open
<1>5. AtReturn'
  BY <1>2, <1>4 DEF AtReturn
<1> QED
  BY <1>1, <1>2, <1>4, <1>5 DEF BInv

(* Nothing is open at first.                                               *)
LEMMA InitBal == Init => BInv
<1> SUFFICES ASSUME Init PROVE BInv
  OBVIOUS
<1>1. /\ pc = "body" /\ cur = 1 /\ errors = 0 /\ stack = <<Template>> /\ toks \in Sources
  BY DEF Init
<1>2. Len(toks) \in Nat
  BY <1>1, SourceAssumption
<1>3. Open[0] = << >>
  BY <1>2, OpenIs
<1>4. Start(1)
  <2>1. 0 \notin DOMAIN toks
    BY <1>1, SourceAssumption
  <2>2. Type(0) = "EOF"
    BY <2>1, SourceAssumption DEF Type, TypeAt, TokenAt
  <2> QED
    BY <2>2 DEF Start
<1>5. Fits(stack, << >>)
  <2>1. PICK g : g = [k \in 1 .. 1 |-> << >>]
    OBVIOUS
  <2>2. g \in [1 .. 1 -> Seq(Tags)] /\ g[1] = << >>
    BY <2>1
  <2>3. Len(stack) = 1
    BY <1>1
  <2>4. Chain(stack, g)
    BY <2>2, <2>3 DEF Chain
  <2> QED
    BY <2>2, <2>3, <2>4 DEF Fits
<1>6. CASE cur <= Len(toks)
  BY <1>1, <1>3, <1>4, <1>5, <1>6 DEF BInv, AtBody
<1>7. CASE ~(cur <= Len(toks))
  <2>1. Len(toks) = 0
    BY <1>1, <1>2, <1>7
  <2>2. Balanced
    <3>1. << >> \in Seq(Tags)
      OBVIOUS
    <3>2. << >> # Mismatch
      BY <3>1, TagsOpen
    <3> QED
      BY <1>3, <2>1, <3>2 DEF Balanced
  <2> QED
    BY <1>1, <1>7, <2>2 DEF BInv, AtBody
<1> QED
  BY <1>6, <1>7

(* Every step keeps what is open and what the calls stand for together.    *)
LEMMA NextBal ==
  ASSUME IInv, BInv, [Next]_vars
  PROVE  BInv'
<1>1. toks' = toks
  BY DEF Next, vars, Content, StrayBrace, Variable, Break, Extends, For, If, Alternative, Branch,
         TBlock, Close, NoKeyword, EndOfSource, Take, TakeAlternative, Unwind, GiveUp, Accept,
         Reject, Done, Fail, Crash, Call
<1>2. CASE ~Lawful
  <2>1. ~Lawful'
    BY <1>1, <1>2, SameTokens
  <2> QED
    BY <2>1 DEF BInv
<1>3. CASE Lawful
  <2>1. ASSUME \/ Content \/ StrayBrace \/ Variable \/ Break \/ Extends \/ For \/ If
               \/ Alternative \/ TBlock \/ Close \/ NoKeyword
        PROVE  BInv'
    <3>1. Block
      BY <2>1 DEF Content, StrayBrace, Variable, Break, Extends, For, If, Alternative, TBlock,
                  Close, NoKeyword, Tag
    <3>2. pc = "body" /\ cur \in 1 .. Len(toks) /\ Len(toks) \in Nat
      BY <3>1, AtBlock DEF IInv
    <3>3. AtBody /\ cur <= Len(toks)
      BY <1>3, <3>2 DEF BInv
    <3>4. Ready
      BY <1>3, <3>2, <3>3 DEF Ready, AtBody
    <3>5. Makes \/ Calls \/ Refuses \/ Crash
      BY <2>1, <3>4, ReadyProceeds DEF Proceeds
    <3>6. Crash => BInv'
      BY DEF Crash, BInv
    <3> QED
      BY <3>2, <3>4, <3>5, <3>6, MakesStep, CallsStep, RefusesStep
  <2>2. ASSUME Unwind \/ GiveUp \/ Accept \/ Reject PROVE BInv'
    <3>1. /\ errors' = errors /\ errors \in Nat
          /\ \/ pc = "fail" /\ pc' \in {"fail", "parsed"}
             \/ pc = "parsed" /\ pc' \in {"accepted", "rejected"}
             \/ pc' = "crashed"
      BY <2>2 DEF Unwind, GiveUp, Accept, Reject, Crash, IInv, Typed
    <3>2. Balanced' <=> Balanced
      BY <1>1, SameTokens
    <3> QED
      BY <1>3, <3>1, <3>2 DEF BInv
  <2>3. CASE UNCHANGED vars
    <3>1. (AtBody => AtBody') /\ (AtReturn => AtReturn') /\ (Balanced' <=> Balanced)
      BY <2>3 DEF vars, AtBody, AtReturn, Balanced, Open, Start, Type, Ends, Top
    <3> QED
      BY <1>3, <2>3, <3>1 DEF BInv, vars
  <2> QED
    BY <1>3, <2>1, <2>2, <2>3, TakeBal, TakeAlternativeBal, EndOfSourceBal DEF Next
<1> QED
  BY <1>2, <1>3

(* The invariants come to the property.                                    *)
LEMMA IffBalanced == IInv /\ BInv /\ Halted => AcceptedIffBalanced
<1> SUFFICES ASSUME IInv, BInv, Halted PROVE AcceptedIffBalanced
  OBVIOUS
<1>1. ASSUME pc \in {"accepted", "rejected"}, Tidy, ~DirectIf
      PROVE  pc = "accepted" <=> Open[Len(toks)] # Mismatch
  BY <1>1 DEF BInv, Halted, Lawful, Balanced, IInv, Typed
<1>2. ASSUME pc = "accepted"
      PROVE  \/ Type(cur) = "EOF"
             \/ Type(cur) = "PERCENT" /\ Type(cur - 1) \in Closers /\ Type(cur + 1) # "RBRACE"
  BY <1>2 DEF Halted, Unclosed
<1> QED
  BY <1>1, <1>2 DEF AcceptedIffBalanced

(* Whatever the template, if it is made of complete tags and no condition  *)
(* stands right inside of another, it is accepted exactly if its closing   *)
(* and alternative tags fit what is open; and what is accepted was read to *)
(* its end, or to a closing tag without its brace (AcceptedIffBalanced).   *)
THEOREM AcceptsBalanced == Spec => []AcceptedIffBalanced
<1>1. Init => IInv /\ BInv /\ Halted
  BY InitIInv, InitBal, InitHalted
<1>2. (IInv /\ BInv /\ Halted) /\ [Next]_vars => (IInv /\ BInv /\ Halted)'
  BY NextIInv, NextBal, NextHalted
<1> QED
  BY <1>1, <1>2, IffBalanced, PTL DEF Spec
=============================================================================
