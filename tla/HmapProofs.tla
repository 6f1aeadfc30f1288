----------------------------- MODULE HmapProofs -----------------------------
(***************************************************************************)
(* The lists, the size and the iterators of a hash map, for every finite   *)
(* set of keys, every hash and every number of buckets and iterators.      *)
(***************************************************************************)
EXTENDS Hmap, FiniteSetTheorems, WellFoundedInduction, TLAPS

(* A list as it should be in the bucket b.                                 *)
Good(s, b) ==
  /\ s \in Seq(Node)
  /\ \A n \in DOMAIN s : Pos[s[n].key] = b
  /\ \A n, m \in DOMAIN s : s[n].key = s[m].key => n = m

Holds(s, x) == \E n \in DOMAIN s : s[n] = x

(* What hmap_gets finds.                                                   *)
Found(s, k) == IF Match(s, k) = {} THEN NULL ELSE s[First(Match(s, k))].val

(* A list with another value at n.                                         *)
With(s, n, v) == [s EXCEPT ![n].val = v]

-----------------------------------------------------------------------------
(* A set of numbers has a least one.                                       *)
LEMMA Least ==
  ASSUME NEW S, S \subseteq Nat, S # {}
  PROVE  First(S) \in S /\ \A m \in S : First(S) <= m
<1> DEFINE R == OpToRel(<, Nat)
<1>1. IsWellFoundedOn(R, Nat)
  BY NatLessThanWellFounded
<1>2. \A x, y \in Nat : <<x, y>> \in R <=> x < y
  BY DEF OpToRel
<1> HIDE DEF R
<1>3. PICK x \in S : \A y \in S : ~ (<<y, x>> \in R)
  BY <1>1, WFMin
<1>4. ASSUME NEW y \in S PROVE x <= y
  <2>1. x \in Nat /\ y \in Nat /\ ~ (y < x)
    BY <1>2, <1>3, <1>4
  <2> QED  BY <2>1
<1> QED
  BY <1>4 DEF First

(* The nodes of a list.                                                    *)
LEMMA Elements ==
  ASSUME NEW s \in Seq(Node)
  PROVE  /\ DOMAIN s = 1 .. Len(s) /\ Len(s) \in Nat
         /\ \A n \in DOMAIN s : /\ s[n] \in Node /\ s[n].key \in Key /\ s[n].val \in Val
                                /\ s[n] = [key |-> s[n].key, val |-> s[n].val]
<1>1. /\ DOMAIN s = 1 .. Len(s) /\ Len(s) \in Nat
      /\ \A n \in DOMAIN s : s[n] \in Node
  OBVIOUS
<1>2. \A e \in Node : e.key \in Key /\ e.val \in Val /\ e = [key |-> e.key, val |-> e.val]
  BY DEF Node
<1> QED  BY <1>1, <1>2

(* A node with another value.                                              *)
LEMMA NodeSet ==
  ASSUME NEW e \in Node, NEW v \in Val
  PROVE  /\ [e EXCEPT !.val = v] = [key |-> e.key, val |-> v]
         /\ [e EXCEPT !.val = v] \in Node
         /\ [e EXCEPT !.val = v].key = e.key
BY DEF Node

LEMMA Concat ==
  ASSUME NEW l \in Seq(Node), NEW r \in Seq(Node)
  PROVE  /\ l \o r \in Seq(Node) /\ Len(l \o r) = Len(l) + Len(r)
         /\ \A m \in 1 .. Len(l) : (l \o r)[m] = l[m]
         /\ \A m \in 1 .. Len(r) : (l \o r)[Len(l) + m] = r[m]
OBVIOUS

LEMMA GoodCons ==
  ASSUME NEW b, NEW s, Good(s, b), NEW k \in Key, NEW v \in Val,
         Pos[k] = b, Match(s, k) = {}
  PROVE  LET t == <<[key |-> k, val |-> v]>> \o s IN
         /\ Good(t, b) /\ Len(t) = Len(s) + 1
         /\ \A x \in Node : Holds(t, x) <=> x = [key |-> k, val |-> v] \/ Holds(s, x)
<1> DEFINE x == [key |-> k, val |-> v]
           t == <<x>> \o s
<1>1. s \in Seq(Node) /\ x \in Node /\ x.key = k
  BY DEF Good, Node
<1>2. DOMAIN s = 1 .. Len(s) /\ Len(s) \in Nat /\ \A n \in DOMAIN s : s[n].key # k
  BY <1>1, Elements DEF Match
<1> HIDE DEF x
<1>3. /\ t \in Seq(Node) /\ Len(t) = Len(s) + 1
      /\ t[1] = x /\ \A n \in 1 .. Len(s) : t[n + 1] = s[n]
  BY <1>1, <1>2
<1> HIDE DEF t
<1>4. /\ DOMAIN t = 1 .. Len(s) + 1 /\ 1 \in DOMAIN t
      /\ \A n \in DOMAIN t \ {1} : n - 1 \in DOMAIN s /\ t[n] = s[n - 1]
      /\ \A n \in DOMAIN s : n + 1 \in DOMAIN t /\ t[n + 1] = s[n]
  <2>1. DOMAIN t = 1 .. Len(s) + 1
    BY <1>2, <1>3, Elements
  <2>2. ASSUME NEW n \in DOMAIN t \ {1}
        PROVE  n - 1 \in DOMAIN s /\ t[n] = s[n - 1]
    <3>1. n - 1 \in 1 .. Len(s) /\ (n - 1) + 1 = n
      BY <1>2, <2>1
    <3> QED  BY <1>2, <1>3, <3>1
  <2> QED  BY <1>2, <1>3, <2>1, <2>2
<1>5. \A n \in DOMAIN t : Pos[t[n].key] = b
  BY <1>1, <1>3, <1>4 DEF Good
<1>6. ASSUME NEW n \in DOMAIN t, NEW m \in DOMAIN t, t[n].key = t[m].key
      PROVE  n = m
  <2>1. CASE n = 1 \/ m = 1
    BY <2>1, <1>1, <1>2, <1>3, <1>4, <1>6
  <2>2. CASE n # 1 /\ m # 1
    <3>1. n - 1 = m - 1
      BY <2>2, <1>4, <1>6 DEF Good
    <3> QED  BY <3>1, <1>2, <1>4
  <2> QED  BY <2>1, <2>2
<1>7. \A y \in Node : Holds(t, y) <=> y = x \/ Holds(s, y)
  BY ZenonT(40), <1>3, <1>4 DEF Holds
<1> QED
  BY <1>3, <1>5, <1>6, <1>7 DEF Good, t, x

LEMMA GoodSet ==
  ASSUME NEW b, NEW s, Good(s, b), NEW n \in DOMAIN s, NEW v \in Val
  PROVE  LET t == With(s, n, v) IN
         /\ Good(t, b) /\ Len(t) = Len(s)
         /\ \A x \in Node : Holds(t, x) <=> \/ x = [key |-> s[n].key, val |-> v]
                                            \/ Holds(s, x) /\ x.key # s[n].key
<1> DEFINE t == With(s, n, v)
           e == [s[n] EXCEPT !.val = v]
<1>1. s \in Seq(Node) /\ DOMAIN s = 1 .. Len(s) /\ Len(s) \in Nat
  BY Elements DEF Good
<1>2. e \in Node /\ e = [key |-> s[n].key, val |-> v] /\ e.key = s[n].key
  BY <1>1, Elements, NodeSet
<1> HIDE DEF e
<1>3. t = [s EXCEPT ![n] = e]
  BY DEF With, e
<1>4. /\ t \in Seq(Node) /\ Len(t) = Len(s) /\ DOMAIN t = DOMAIN s
      /\ \A m \in DOMAIN s : t[m] = IF m = n THEN e ELSE s[m]
  <2> HIDE DEF t
  <2> QED  BY <1>1, <1>2, <1>3
<1> HIDE DEF t
<1>5. \A m \in DOMAIN s : t[m].key = s[m].key
  BY <1>2, <1>4
<1>6. Good(t, b)
  BY <1>4, <1>5 DEF Good
<1>7. ASSUME NEW x \in Node
      PROVE  Holds(t, x) <=> x = e \/ (Holds(s, x) /\ x.key # s[n].key)
  BY <1>2, <1>4 DEF Holds, Good
<1> QED
  BY <1>2, <1>4, <1>6, <1>7 DEF t

LEMMA GoodWithout ==
  ASSUME NEW b, NEW s, Good(s, b), NEW n \in DOMAIN s
  PROVE  /\ Good(Without(s, n), b) /\ Len(Without(s, n)) = Len(s) - 1
         /\ \A x \in Node : Holds(Without(s, n), x) <=> Holds(s, x) /\ x.key # s[n].key
<1> DEFINE t == Without(s, n)
<1>1. s \in Seq(Node) /\ DOMAIN s = 1 .. Len(s) /\ Len(s) \in Nat
  BY Elements DEF Good
<1>2. /\ SubSeq(s, 1, n - 1) \in Seq(Node) /\ Len(SubSeq(s, 1, n - 1)) = n - 1
      /\ \A m \in 1 .. n - 1 : SubSeq(s, 1, n - 1)[m] = s[m]
  BY <1>1
<1>3. /\ SubSeq(s, n + 1, Len(s)) \in Seq(Node)
      /\ Len(SubSeq(s, n + 1, Len(s))) = Len(s) - n
      /\ \A m \in 1 .. Len(s) - n : SubSeq(s, n + 1, Len(s))[m] = s[n + m]
  BY <1>1
<1>4. /\ t \in Seq(Node) /\ Len(t) = Len(s) - 1 /\ DOMAIN t = 1 .. Len(s) - 1
      /\ \A m \in DOMAIN t : t[m] = IF m < n THEN s[m] ELSE s[m + 1]
  <2> DEFINE l == SubSeq(s, 1, n - 1)
             r == SubSeq(s, n + 1, Len(s))
  <2>1. t = l \o r
    BY DEF Without
  <2> HIDE DEF l, r, t
  <2>2. /\ l \in Seq(Node) /\ Len(l) = n - 1 /\ \A m \in 1 .. n - 1 : l[m] = s[m]
        /\ r \in Seq(Node) /\ Len(r) = Len(s) - n /\ \A m \in 1 .. Len(s) - n : r[m] = s[n + m]
    BY <1>2, <1>3 DEF l, r
  <2>3. /\ t \in Seq(Node) /\ Len(t) = Len(s) - 1 /\ DOMAIN t = 1 .. Len(s) - 1
    <3>1. t \in Seq(Node) /\ Len(t) = Len(l) + Len(r)
      BY <2>1, <2>2, Concat
    <3> QED  BY <3>1, <2>2, <1>1, Elements
  <2>4. ASSUME NEW m \in 1 .. Len(s) - 1
        PROVE  t[m] = IF m < n THEN s[m] ELSE s[m + 1]
    <3>1. CASE m < n
      BY <3>1, <2>1, <2>2, <1>1
    <3>2. CASE ~(m < n)
      <4>1. m - (n - 1) \in 1 .. Len(s) - n /\ n + (m - (n - 1)) = m + 1
        BY <3>2, <1>1
      <4>2. t[m] = r[m - (n - 1)]
        BY SMTT(30), <3>2, <4>1, <2>1, <2>2, <1>1, Concat
      <4> QED  BY <3>2, <4>1, <4>2, <2>2
    <3> QED  BY <3>1, <3>2
  <2> QED  BY <2>3, <2>4
<1> HIDE DEF t
<1> DEFINE at(m) == IF m < n THEN m ELSE m + 1
<1>5. \A m \in DOMAIN t : at(m) \in DOMAIN s /\ at(m) # n /\ t[m] = s[at(m)]
  BY <1>1, <1>4
<1>6. \A m, j \in DOMAIN t : at(m) = at(j) => m = j
  BY <1>1, <1>4
<1>7. \A j \in DOMAIN s \ {n} : \E m \in DOMAIN t : at(m) = j
  <2> SUFFICES ASSUME NEW j \in DOMAIN s \ {n}
               PROVE  \E m \in DOMAIN t : at(m) = j
    OBVIOUS
  <2>1. CASE j < n
    BY <2>1, <1>1, <1>4
  <2>2. CASE j > n
    <3>1. j - 1 \in DOMAIN t /\ at(j - 1) = j
      BY <2>2, <1>1, <1>4
    <3> QED  BY <3>1
  <2> QED  BY <2>1, <2>2, <1>1
<1> HIDE DEF at
<1>8. Good(t, b)
  BY <1>4, <1>5, <1>6 DEF Good
<1>9. \A x \in Node : Holds(t, x) <=> Holds(s, x) /\ x.key # s[n].key
  BY <1>5, <1>7 DEF Holds, Good
<1> QED
  BY <1>4, <1>8, <1>9 DEF t

LEMMA GoodTail ==
  ASSUME NEW b, NEW s, Good(s, b), s # << >>
  PROVE  /\ Head(s) \in Node /\ Holds(s, Head(s))
         /\ Good(Tail(s), b) /\ Len(Tail(s)) = Len(s) - 1
         /\ \A x \in Node : Holds(Tail(s), x) <=> Holds(s, x) /\ x.key # Head(s).key
<1> DEFINE t == Tail(s)
<1>1. /\ s \in Seq(Node) /\ DOMAIN s = 1 .. Len(s) /\ Len(s) \in Nat
      /\ 1 \in DOMAIN s /\ Head(s) = s[1] /\ s[1] \in Node
  BY Elements DEF Good
<1>2. /\ t \in Seq(Node) /\ Len(t) = Len(s) - 1
      /\ \A m \in 1 .. Len(s) - 1 : t[m] = s[m + 1]
  BY <1>1
<1> HIDE DEF t
<1>3. /\ DOMAIN t = 1 .. Len(s) - 1
      /\ \A m \in DOMAIN t : m + 1 \in DOMAIN s /\ m + 1 # 1 /\ t[m] = s[m + 1]
      /\ \A j \in DOMAIN s \ {1} : j - 1 \in DOMAIN t /\ t[j - 1] = s[j]
  <2>1. DOMAIN t = 1 .. Len(s) - 1
    BY <1>2, Elements
  <2>2. ASSUME NEW j \in DOMAIN s \ {1}
        PROVE  j - 1 \in DOMAIN t /\ t[j - 1] = s[j]
    <3>1. j - 1 \in 1 .. Len(s) - 1 /\ (j - 1) + 1 = j
      BY <1>1
    <3> QED  BY <1>2, <2>1, <3>1
  <2> QED  BY <1>1, <1>2, <2>1, <2>2
<1>4. ASSUME NEW m \in DOMAIN t, NEW j \in DOMAIN t, t[m].key = t[j].key
      PROVE  m = j
  <2>1. m + 1 = j + 1
    BY <1>3, <1>4 DEF Good
  <2> QED  BY <2>1, <1>1, <1>3
<1>5. Good(t, b)
  BY <1>2, <1>3, <1>4 DEF Good
<1>6. ASSUME NEW x \in Node
      PROVE  Holds(t, x) <=> Holds(s, x) /\ x.key # s[1].key
  <2>1. ASSUME NEW m \in DOMAIN t, t[m] = x
        PROVE  Holds(s, x) /\ x.key # s[1].key
    <3>1. m + 1 \in DOMAIN s /\ m + 1 # 1 /\ s[m + 1] = x
      BY <2>1, <1>3
    <3> QED  BY <3>1, <1>1 DEF Holds, Good
  <2>2. ASSUME NEW j \in DOMAIN s, s[j] = x, x.key # s[1].key
        PROVE  Holds(t, x)
    <3>1. j - 1 \in DOMAIN t /\ t[j - 1] = x
      BY <2>2, <1>3
    <3> QED  BY <3>1 DEF Holds
  <2> QED  BY <2>1, <2>2 DEF Holds
<1> QED
  BY <1>1, <1>2, <1>5, <1>6 DEF t, Holds

(* What is found is the one node there is, and depends on no order.        *)
LEMMA FoundIs ==
  ASSUME NEW k \in Key, NEW s, Good(s, Pos[k])
  PROVE  /\ \A n \in DOMAIN s : s[n].key = k => First(Match(s, k)) = n /\ Found(s, k) = s[n].val
         /\ Match(s, k) # {} => /\ First(Match(s, k)) \in DOMAIN s
                                /\ s[First(Match(s, k))].key = k
                                /\ Found(s, k) \in Val
         /\ Match(s, k) = {} => Found(s, k) = NULL
         /\ \A v \in Val : Found(s, k) = v <=> Holds(s, [key |-> k, val |-> v])
<1>1. /\ s \in Seq(Node) /\ DOMAIN s = 1 .. Len(s) /\ Len(s) \in Nat
      /\ \A n \in DOMAIN s : s[n] = [key |-> s[n].key, val |-> s[n].val] /\ s[n].val \in Val
  BY Elements DEF Good
<1>2. Match(s, k) \subseteq Nat
  BY <1>1 DEF Match
<1>3. ASSUME NEW n \in DOMAIN s, s[n].key = k
      PROVE  First(Match(s, k)) = n /\ Found(s, k) = s[n].val
  <2>1. n \in Match(s, k) /\ \A m \in Match(s, k) : m = n
    BY <1>3 DEF Match, Good
  <2> QED  BY <2>1, <1>2, Least DEF Found
<1>4. ASSUME Match(s, k) # {}
      PROVE  /\ First(Match(s, k)) \in DOMAIN s /\ s[First(Match(s, k))].key = k
             /\ Found(s, k) \in Val
  <2>1. PICK n \in DOMAIN s : s[n].key = k
    BY <1>4 DEF Match
  <2> QED  BY <2>1, <1>1, <1>3
<1>5. Match(s, k) = {} => Found(s, k) = NULL
  BY DEF Found
<1>6. ASSUME NEW v \in Val
      PROVE  Found(s, k) = v <=> Holds(s, [key |-> k, val |-> v])
  <2>1. ASSUME Found(s, k) = v
        PROVE  Holds(s, [key |-> k, val |-> v])
    <3>1. NULL # v
      BY HmapAssumption
    <3>2. PICK n \in DOMAIN s : s[n].key = k
      BY <2>1, <3>1, <1>5 DEF Match
    <3> QED  BY <2>1, <3>2, <1>1, <1>3 DEF Holds
  <2>2. ASSUME NEW n \in DOMAIN s, s[n] = [key |-> k, val |-> v]
        PROVE  Found(s, k) = v
    BY <2>2, <1>3
  <2> QED  BY <2>1, <2>2 DEF Holds
<1> QED
  BY <1>3, <1>4, <1>5, <1>6

(* No list is longer than there are keys.                                  *)
LEMMA Bounded ==
  ASSUME NEW b, NEW s, Good(s, b)
  PROVE  Len(s) \in Nat /\ Len(s) <= Cardinality(Key)
<1> DEFINE f == [n \in DOMAIN s |-> s[n].key]
<1>1. /\ s \in Seq(Node) /\ DOMAIN s = 1 .. Len(s) /\ Len(s) \in Nat
      /\ \A n \in DOMAIN s : s[n].key \in Key
  BY Elements DEF Good
<1>2. f \in Injection(DOMAIN s, Key)
  BY <1>1 DEF Good, Injection, IsInjective
<1> HIDE DEF f
<1>3. Cardinality(DOMAIN s) <= Cardinality(Key)
  BY <1>2, FS_Injection, HmapAssumption
<1>4. Cardinality(DOMAIN s) = Len(s)
  <2>1. Cardinality(1 .. Len(s)) = IF 1 > Len(s) THEN 0 ELSE Len(s) - 1 + 1
    BY <1>1, FS_Interval
  <2> QED  BY <2>1, <1>1
<1> QED  BY <1>1, <1>3, <1>4

-----------------------------------------------------------------------------
(* The lists of a map.                                                     *)
Lists ==
  /\ buckets \in [Bucket -> Seq(Node)]
  /\ \A b \in Bucket : Good(buckets[b], b)

LEMMA Where ==
  ASSUME Lists
  PROVE  /\ IsFiniteSet(Places) /\ Cardinality(Places) \in Nat
         /\ \A b \in Bucket : DOMAIN buckets[b] = 1 .. Len(buckets[b])
         /\ \A b \in Bucket, n \in Nat : <<b, n>> \in Places <=> n \in DOMAIN buckets[b]
         /\ \A p \in Places : /\ p = <<p[1], p[2]>> /\ p[1] \in Bucket /\ p[2] \in Nat \ {0}
                              /\ p[2] \in DOMAIN buckets[p[1]] /\ NodeAt(p) \in Node
<1>1. /\ Cap \in Nat /\ IsFiniteSet(Key) /\ Cardinality(Key) \in Nat
  BY HmapAssumption, FS_CardinalityType
<1>2. IsFiniteSet(Bucket) /\ IsFiniteSet(1 .. Cardinality(Key))
  BY <1>1, FS_Interval DEF Bucket
<1>3. IsFiniteSet(Bucket \X (1 .. Cardinality(Key)))
  BY <1>2, FS_Product
<1>4. IsFiniteSet(Places) /\ Cardinality(Places) \in Nat
  BY <1>3, FS_Subset, FS_CardinalityType DEF Places
<1>5. ASSUME NEW b \in Bucket
      PROVE  /\ DOMAIN buckets[b] = 1 .. Len(buckets[b]) /\ Len(buckets[b]) \in Nat
             /\ Len(buckets[b]) <= Cardinality(Key)
             /\ \A n \in DOMAIN buckets[b] : buckets[b][n] \in Node
  BY Elements, Bounded DEF Lists, Good
<1>6. ASSUME NEW b \in Bucket, NEW n \in Nat
      PROVE  <<b, n>> \in Places <=> n \in DOMAIN buckets[b]
  BY <1>1, <1>5 DEF Places
<1>7. ASSUME NEW p \in Places
      PROVE  /\ p = <<p[1], p[2]>> /\ p[1] \in Bucket /\ p[2] \in Nat \ {0}
             /\ p[2] \in DOMAIN buckets[p[1]] /\ NodeAt(p) \in Node
  BY <1>5 DEF Places, NodeAt
<1> QED  BY <1>4, <1>5, <1>6, <1>7

(* Another list in one bucket.                                             *)
LEMMA Changed ==
  ASSUME Lists, NEW b \in Bucket, NEW s, Good(s, b), buckets' = [buckets EXCEPT ![b] = s]
  PROVE  /\ Lists' /\ Cardinality(Places') \in Nat
         /\ Len(s) = Len(buckets[b]) => Places' = Places
         /\ Len(s) = Len(buckets[b]) + 1 => Cardinality(Places') = Cardinality(Places) + 1
         /\ Len(s) = Len(buckets[b]) - 1 => Cardinality(Places') = Cardinality(Places) - 1
<1>1. /\ buckets' \in [Bucket -> Seq(Node)]
      /\ \A c \in Bucket : buckets'[c] = IF c = b THEN s ELSE buckets[c]
  BY DEF Lists, Good
<1>2. Lists'
  BY <1>1 DEF Lists
<1>3. /\ DOMAIN s = 1 .. Len(s) /\ Len(s) \in Nat
      /\ DOMAIN buckets[b] = 1 .. Len(buckets[b]) /\ Len(buckets[b]) \in Nat
  BY Elements DEF Lists, Good
<1>4. ASSUME NEW p
      PROVE  /\ p \in Places => p \in Places' \/ (p = <<b, p[2]>> /\ p[2] \in DOMAIN buckets[b] \ DOMAIN s)
             /\ p \in Places' => p \in Places \/ (p = <<b, p[2]>> /\ p[2] \in DOMAIN s \ DOMAIN buckets[b])
  BY <1>1 DEF Places
<1>5. /\ \A n \in Nat : <<b, n>> \in Places <=> n \in DOMAIN buckets[b]
      /\ \A n \in Nat : <<b, n>> \in Places' <=> n \in DOMAIN s
      /\ IsFiniteSet(Places) /\ IsFiniteSet(Places')
      /\ Cardinality(Places) \in Nat /\ Cardinality(Places') \in Nat
  <2>1. \A n \in Nat : <<b, n>> \in Places <=> n \in DOMAIN buckets[b]
    BY Where
  <2>2. \A n \in Nat : <<b, n>> \in Places' <=> n \in DOMAIN s
    <3>1. Len(s) <= Cardinality(Key) /\ Cardinality(Key) \in Nat
      BY Bounded, HmapAssumption, FS_CardinalityType
    <3> QED  BY <1>1, <1>3, <3>1 DEF Places
  <2>3. IsFiniteSet(Places) /\ Cardinality(Places) \in Nat
    BY Where
  <2>4. Places' \subseteq Bucket \X (1 .. Cardinality(Key)) /\ IsFiniteSet(Bucket \X (1 .. Cardinality(Key)))
    <3>1. IsFiniteSet(Bucket) /\ IsFiniteSet(1 .. Cardinality(Key))
      BY HmapAssumption, FS_Interval, FS_CardinalityType DEF Bucket
    <3> QED  BY <3>1, FS_Product DEF Places
  <2> QED  BY <2>1, <2>2, <2>3, <2>4, FS_Subset, FS_CardinalityType
<1>6. ASSUME Len(s) = Len(buckets[b])
      PROVE  Places' = Places
  BY <1>3, <1>4, <1>6
<1>7. ASSUME Len(s) = Len(buckets[b]) + 1
      PROVE  Cardinality(Places') = Cardinality(Places) + 1
  <2>1. DOMAIN s = DOMAIN buckets[b] \cup {Len(s)} /\ Len(s) \notin DOMAIN buckets[b]
    BY <1>3, <1>7
  <2>2. <<b, Len(s)>> \in Places' /\ <<b, Len(s)>> \notin Places
    BY <2>1, <1>3, <1>5
  <2>3. ASSUME NEW p
        PROVE  p \in Places' <=> p \in Places \cup {<<b, Len(s)>>}
    <3>1. p \in Places => p \in Places'
      BY <1>4, <2>1
    <3>2. p \in Places' => p \in Places \/ p = <<b, Len(s)>>
      BY <1>4, <2>1
    <3> QED  BY <3>1, <3>2, <2>2
  <2>4. Places' = Places \cup {<<b, Len(s)>>}
    BY <2>3
  <2> QED  BY <2>2, <2>4, <1>5, FS_AddElement
<1>8. ASSUME Len(s) = Len(buckets[b]) - 1
      PROVE  Cardinality(Places') = Cardinality(Places) - 1
  <2> DEFINE l == Len(buckets[b])
  <2>1. DOMAIN buckets[b] = DOMAIN s \cup {l} /\ l \notin DOMAIN s
    BY <1>3, <1>8
  <2>2. <<b, l>> \in Places /\ <<b, l>> \notin Places'
    BY <2>1, <1>3, <1>5
  <2>3. ASSUME NEW p
        PROVE  p \in Places' <=> p \in Places \ {<<b, l>>}
    <3>1. p \in Places' => p \in Places
      BY <1>4, <2>1
    <3>2. p \in Places => p \in Places' \/ p = <<b, l>>
      BY <1>4, <2>1
    <3> QED  BY <3>1, <3>2, <2>2
  <2>4. Places' = Places \ {<<b, l>>}
    BY <2>3
  <2> QED  BY <2>2, <2>4, <1>5, FS_RemoveElement
<1> QED  BY <1>2, <1>5, <1>6, <1>7, <1>8
-----------------------------------------------------------------------------
IterState ==
  [used : BOOLEAN, index : 0 .. Cap + 1, count : Nat, cur : Place \cup {NULL}]

Rest ==
  /\ size \in Nat
  /\ ret \in Val \cup Node \cup {NULL, Done, Wild}
  /\ iter \in [Iter -> IterState]
  /\ doomed \in BOOLEAN

(* What IterSound says of an iterator in use.                              *)
Placed(it) ==
  /\ it.count = Cardinality(Ahead(it))
  /\ it.index <= Cap
  /\ it.cur # NULL =>
       it.cur.at = it.index - 1 /\ it.cur.n \in DOMAIN buckets[it.cur.at]

Counted == ~doomed => size = Cardinality(Places)

(* No loop over the map runs while hmap_destroy does.                      *)
Calm == doomed => \A i \in Iter : ~iter[i].used

IInv ==
  /\ Lists
  /\ Rest
  /\ Counted
  /\ \A i \in Iter : iter[i].used => Placed(iter[i])
  /\ Calm

LEMMA Ahead0 ==
  ASSUME Lists, NEW it \in IterState
  PROVE  /\ Ahead(it) \subseteq Places /\ IsFiniteSet(Ahead(it))
         /\ Cardinality(Ahead(it)) \in Nat
         /\ Cardinality(Ahead(it)) = 0 <=> Ahead(it) = {}
<1>1. Ahead(it) \subseteq Places
  BY DEF Ahead
<1> QED  BY <1>1, Where, FS_Subset, FS_EmptySet, FS_CardinalityType

(* A step of an iterator with nodes in front of it goes to the place next  *)
(* in front of it.                                                         *)
LEMMA Stepped ==
  ASSUME Lists, NEW it \in IterState, Placed(it), it.count > 0
  PROVE  LET next == Advance(it)
             at   == <<next.cur.at, next.cur.n>> IN
         /\ next \in IterState /\ next.cur \in Place /\ next.used = it.used
         /\ at \in Ahead(it) /\ Ahead(next) = Ahead(it) \ {at}
         /\ Placed(next)
<1> DEFINE next == Advance(it)
           at   == <<next.cur.at, next.cur.n>>
<1>1. /\ it.used \in BOOLEAN /\ it.index \in 0 .. Cap /\ it.count \in Nat \ {0}
      /\ it.cur \in Place \cup {NULL} /\ Cap \in Nat /\ NULL \notin Place
  BY HmapAssumption DEF IterState, Placed
<1>2. Ahead(it) # {}
  BY <1>1, Ahead0, FS_EmptySet DEF Placed
<1>3. /\ next \in IterState /\ next.cur \in Place /\ next.used = it.used
      /\ next.count = it.count - 1 /\ next.index <= Cap /\ next.cur.at = next.index - 1
      /\ at \in Ahead(it) /\ \A p \in Places : p \in Ahead(next) <=> p \in Ahead(it) /\ p # at
  <2>1. CASE HasNext(it)
    <3> DEFINE b == it.cur.at
               n == it.cur.n
    <3>1. /\ it.cur \in Place /\ b \in Bucket /\ n \in Nat \ {0} /\ b = it.index - 1
          /\ n < Len(buckets[b]) /\ Len(buckets[b]) \in Nat
      BY <2>1, <1>1, Elements DEF HasNext, Place, Placed, Lists, Good
    <3>2. next = [it EXCEPT !.cur.n = @ + 1, !.count = @ - 1]
      BY <2>1 DEF Advance
    <3>3. /\ next.used = it.used /\ next.index = it.index /\ next.count = it.count - 1
          /\ next.cur.at = b /\ next.cur.n = n + 1
          /\ next.cur = [at |-> b, n |-> n + 1]
          /\ next = [used |-> it.used, index |-> it.index, count |-> it.count - 1,
                     cur |-> [at |-> b, n |-> n + 1]]
      BY <3>1, <3>2 DEF IterState, Place
    <3> HIDE DEF next
    <3>4. next \in IterState /\ next.cur \in Place
      <4>1. [at |-> b, n |-> n + 1] \in Place
        BY <3>1 DEF Place
      <4> HIDE DEF b, n
      <4> QED  BY <4>1, <1>1, <3>3 DEF IterState
    <3>5. at = <<b, n + 1>> /\ at \in Places
      <4>1. n + 1 \in DOMAIN buckets[b] /\ n + 1 \in Nat
        BY <3>1, Where
      <4> QED  BY <4>1, <3>1, <3>3, Where
    <3>6. at \in Ahead(it)
      BY <3>1, <3>5, <1>1 DEF Ahead
    <3>7. ASSUME NEW p \in Places
          PROVE  p \in Ahead(next) <=> p \in Ahead(it) /\ p # at
      <4>1. p = <<p[1], p[2]>> /\ p[1] \in Nat /\ p[2] \in Nat
        BY Where DEF Bucket
      <4>2. p \in Ahead(next) <=> p[1] >= it.index \/ (p[1] = b /\ p[2] > n + 1)
        BY <3>3, <3>4, <1>1 DEF Ahead
      <4>3. p \in Ahead(it) <=> p[1] >= it.index \/ (p[1] = b /\ p[2] > n)
        BY <3>1, <1>1 DEF Ahead
      <4>4. p = at <=> p[1] = b /\ p[2] = n + 1
        BY <4>1, <3>5
      <4> HIDE DEF b, n
      <4> QED  BY <4>1, <4>2, <4>3, <4>4, <3>1, <1>1
    <3> QED  BY <3>1, <3>3, <3>4, <3>6, <3>7, <1>1
  <2>2. CASE ~HasNext(it)
    <3> DEFINE b == Scan(it.index)
               S == {c \in NonEmpty : c >= it.index}
    <3>1. \A p \in Places : p \in Ahead(it) <=> p[1] >= it.index
      <4>1. ASSUME NEW p \in Places, it.cur # NULL, p[1] = it.cur.at, p[2] > it.cur.n
            PROVE  FALSE
        <5>1. /\ it.cur.n \in Nat /\ p[2] \in 1 .. Len(buckets[it.cur.at])
              /\ Len(buckets[it.cur.at]) \in Nat
          BY <1>1, <4>1, Where, Elements DEF Place, Lists, Good
        <5>2. ~(it.cur.n < Len(buckets[it.cur.at]))
          BY <2>2, <4>1 DEF HasNext
        <5> QED  BY <4>1, <5>1, <5>2
      <4> QED  BY <4>1 DEF Ahead
    <3>2. PICK q \in Places : q[1] >= it.index
      BY <1>2, <3>1, Ahead0
    <3>3. q[1] \in S
      BY <3>2, Where DEF NonEmpty
    <3>4. S \subseteq Nat
      BY DEF NonEmpty, Bucket
    <3>5. b \in S /\ \A c \in S : b <= c
      <4>1. b = First(S)
        BY <3>3 DEF Scan
      <4> HIDE DEF b, S
      <4> QED  BY <4>1, <3>3, <3>4, Least
    <3>6. b \in Bucket /\ b >= it.index /\ buckets[b] # << >>
      BY <3>5 DEF NonEmpty
    <3>7. next = [it EXCEPT !.index = b + 1, !.cur = [at |-> b, n |-> 1], !.count = @ - 1]
      BY <2>2 DEF Advance
    <3>8. \A p \in Places : p[1] >= it.index => p[1] >= b
      <4> TAKE p \in Places
      <4> HAVE p[1] >= it.index
      <4>1. p[1] \in S
        BY Where DEF NonEmpty
      <4>2. p[1] \in Nat /\ b \in Nat
        BY <3>6, Where DEF Bucket
      <4> QED  BY <4>1, <4>2, <3>5
    <3> HIDE DEF b, S
    <3>9. /\ next.used = it.used /\ next.index = b + 1 /\ next.count = it.count - 1
          /\ next.cur = [at |-> b, n |-> 1] /\ next.cur.at = b /\ next.cur.n = 1
          /\ next = [used |-> it.used, index |-> b + 1, count |-> it.count - 1,
                     cur |-> [at |-> b, n |-> 1]]
      <4>1. next = [used |-> it.used, index |-> b + 1, count |-> it.count - 1,
                    cur |-> [at |-> b, n |-> 1]]
        BY <3>7 DEF IterState
      <4> HIDE DEF next
      <4> QED  BY <4>1
    <3> HIDE DEF next
    <3>10. /\ next \in IterState /\ next.cur \in Place /\ b \in 0 .. Cap - 1
      <4>1. [at |-> b, n |-> 1] \in Place /\ b \in 0 .. Cap - 1
        BY <3>6 DEF Place, Bucket
      <4> QED  BY <4>1, <1>1, <3>9 DEF IterState
    <3>11. at = <<b, 1>> /\ at \in Places
      <4>1. buckets[b] \in Seq(Node)
        BY <3>6 DEF Lists
      <4>2. 1 \in DOMAIN buckets[b]
        BY <4>1, <3>6
      <4> QED  BY <4>2, <3>6, <3>9, Where
    <3>12. ASSUME NEW p \in Places
           PROVE  p \in Ahead(next) <=> p \in Ahead(it) /\ p # at
      <4>1. p = <<p[1], p[2]>> /\ p[1] \in Nat /\ p[2] \in Nat \ {0}
        BY Where DEF Bucket
      <4>2. p \in Ahead(next) <=> p[1] >= b + 1 \/ (p[1] = b /\ p[2] > 1)
        BY <3>9, <3>10, <1>1 DEF Ahead
      <4>3. p \in Ahead(it) <=> p[1] >= b
        BY <3>1, <3>6, <3>8, <3>10, <1>1, <4>1
      <4>4. p = at <=> p[1] = b /\ p[2] = 1
        BY <4>1, <3>11
      <4> QED  BY <4>1, <4>2, <4>3, <4>4, <3>10, <1>1
    <3>13. at \in Ahead(it)
      BY <3>1, <3>6, <3>11
    <3> QED  BY <3>9, <3>10, <3>12, <3>13, <1>1
  <2> QED  BY <2>1, <2>2
<1> HIDE DEF next
<1>4. Ahead(next) = Ahead(it) \ {at}
  BY <1>3, Ahead0
<1>5. Cardinality(Ahead(next)) = Cardinality(Ahead(it)) - 1
  <2>1. IsFiniteSet(Ahead(it)) /\ at \in Ahead(it)
    BY <1>3, Ahead0
  <2> HIDE DEF at
  <2> QED  BY <1>4, <2>1, FS_RemoveElement
<1>6. Placed(next)
  <2>1. next.cur.n \in DOMAIN buckets[next.cur.at]
    <3>1. at \in Places
      BY <1>3, Ahead0
    <3>2. at[1] = next.cur.at /\ at[2] = next.cur.n
      OBVIOUS
    <3> HIDE DEF at
    <3> QED  BY <3>1, <3>2, Where
  <2> QED  BY <2>1, <1>3, <1>5 DEF Placed
<1> QED  BY <1>3, <1>4, <1>6 DEF next

LEMMA Same ==
  ASSUME buckets' = buckets
  PROVE  /\ Lists => Lists'
         /\ Places' = Places
         /\ \A i \in Iter : Placed(iter'[i]) <=> Placed(iter[i])'
<1>1. Places' = Places
  BY DEF Places
<1>2. ASSUME NEW i \in Iter
      PROVE  Ahead(iter'[i]) = Ahead(iter[i])'
  BY <1>1 DEF Ahead
<1> QED  BY <1>1, <1>2 DEF Lists, Placed

(* Overwrite and Insert leave good lists, and the size the number of nodes.*)
LEMMA SetsStep ==
  ASSUME IInv, NEW k \in Key, NEW v \in Val, Sets(k, v)
  PROVE  /\ Lists' /\ size' \in Nat /\ size' = Cardinality(Places')
         /\ ret' \in Val \cup {NULL}
<1> DEFINE b == Pos[k]
           s == buckets[b]
           n == First(Match(s, k))
<1>1. /\ b \in Bucket /\ Good(s, b) /\ s \in Seq(Node) /\ buckets \in [Bucket -> Seq(Node)]
      /\ Len(s) \in Nat
  BY HmapAssumption DEF IInv, Lists, Bucket, Good
<1>2. /\ Match(s, k) # {} => n \in DOMAIN s /\ s[n].key = k /\ s[n].val \in Val
  BY <1>1, FoundIs, Elements
<1>3. ~doomed /\ size = Cardinality(Places) /\ size \in Nat
  BY DEF IInv, Counted, Rest, Sets, Overwrite, Insert, Idle
<1>4. CASE Overwrite(k, v)
  <2> DEFINE t == With(s, n, v)
  <2>1. Match(s, k) # {} /\ ret' = s[n].val /\ size' = size /\ buckets' = [buckets EXCEPT ![b] = t]
    BY <1>4 DEF Overwrite, With
  <2> HIDE DEF s, n, b
  <2>2. Good(t, b) /\ Len(t) = Len(s)
    BY <2>1, <1>1, <1>2, GoodSet
  <2> HIDE DEF t
  <2>3. Lists' /\ Places' = Places
    BY <2>1, <2>2, <1>1, Changed DEF IInv, s
  <2> QED  BY <2>1, <2>3, <1>2, <1>3
<1>5. CASE Insert(k, v)
  <2> DEFINE t == <<[key |-> k, val |-> v]>> \o s
  <2>1. Match(s, k) = {} /\ ret' = NULL /\ size' = size + 1 /\ buckets' = [buckets EXCEPT ![b] = t]
    BY <1>5 DEF Insert
  <2>2. Good(t, b) /\ Len(t) = Len(s) + 1
    BY <2>1, <1>1, GoodCons
  <2> HIDE DEF t, s, n, b
  <2>3. Lists' /\ Cardinality(Places') = Cardinality(Places) + 1
    BY <2>1, <2>2, <1>1, Changed DEF IInv, s
  <2> QED  BY <2>1, <2>3, <1>3
<1> QED  BY <1>4, <1>5 DEF Sets

(* Removes leaves good lists, and the size the number of nodes.            *)
LEMMA RemovesStep ==
  ASSUME IInv, NEW k \in Key, Removes(k)
  PROVE  /\ Lists' /\ size' \in Nat /\ size' = Cardinality(Places')
         /\ ret' \in Val \cup {NULL}
<1> DEFINE b == Pos[k]
           s == buckets[b]
           n == First(Match(s, k))
<1>1. /\ b \in Bucket /\ Good(s, b) /\ s \in Seq(Node) /\ buckets \in [Bucket -> Seq(Node)]
      /\ Len(s) \in Nat
  BY HmapAssumption DEF IInv, Lists, Bucket, Good
<1>2. /\ Match(s, k) # {} => n \in DOMAIN s /\ s[n].key = k /\ s[n].val \in Val
  BY <1>1, FoundIs, Elements
<1>3. ~doomed /\ size = Cardinality(Places) /\ size \in Nat
  BY DEF IInv, Counted, Rest, Removes, Idle
<1>4. CASE Match(s, k) = {}
  <2>1. ret' = NULL /\ size' = size /\ buckets' = buckets
    BY <1>4 DEF Removes
  <2> QED  BY <2>1, <1>3, Same DEF IInv
<1>5. CASE Match(s, k) # {}
  <2> DEFINE t == Without(s, n)
  <2>1. ret' = s[n].val /\ size' = size - 1 /\ buckets' = [buckets EXCEPT ![b] = t]
    BY <1>5 DEF Removes
  <2>2. Good(t, b) /\ Len(t) = Len(s) - 1
    BY <1>1, <1>2, <1>5, GoodWithout
  <2> HIDE DEF t, s, n, b
  <2>3. /\ Lists' /\ Cardinality(Places') = Cardinality(Places) - 1
        /\ Cardinality(Places') \in Nat
    BY <2>1, <2>2, <1>1, Changed DEF IInv, s
  <2> QED  BY <2>1, <2>3, <1>2, <1>3, <1>5
<1> QED  BY <1>4, <1>5

(* The list Walk takes a node from.                                        *)
LEMMA WalkStep ==
  ASSUME IInv, Walk
  PROVE  /\ First(NonEmpty) \in Bucket /\ buckets[First(NonEmpty)] # << >>
         /\ Good(buckets[First(NonEmpty)], First(NonEmpty))
         /\ Lists' /\ ret' \in Node
<1> DEFINE b == First(NonEmpty)
<1>1. NonEmpty # {} /\ NonEmpty \subseteq Nat
  BY DEF Walk, NonEmpty, Bucket
<1>2. b \in NonEmpty
  BY <1>1, Least
<1> HIDE DEF b
<1>3. b \in Bucket /\ buckets[b] # << >> /\ Good(buckets[b], b)
  BY <1>2 DEF NonEmpty, IInv, Lists
<1>4. /\ ret' = Head(buckets[b]) /\ buckets' = [buckets EXCEPT ![b] = Tail(buckets[b])]
  BY DEF Walk, b
<1>5. Head(buckets[b]) \in Node /\ Good(Tail(buckets[b]), b)
  BY <1>3, GoodTail
<1>6. Lists'
  BY <1>3, <1>4, <1>5, Changed DEF IInv
<1> QED  BY <1>3, <1>4, <1>5, <1>6 DEF b

(* An empty map has no places.                                             *)
LEMMA EmptyMap ==
  ASSUME \A b \in Bucket : buckets[b] = << >>
  PROVE  Places = {} /\ Cardinality(Places) = 0
<1>1. Places = {}
  BY DEF Places
<1> QED  BY <1>1, FS_EmptySet

(* The invariant holds at first.                                           *)
LEMMA InitHolds == Init => IInv
<1> SUFFICES ASSUME Init
             PROVE  IInv
  OBVIOUS
<1>1. \A b \in Bucket : buckets[b] = << >>
  BY DEF Init
<1>2. Lists
  <2>1. \A b : Good(<< >>, b)
    BY DEF Good
  <2> QED  BY <1>1, <2>1 DEF Init, Lists
<1>3. size = Cardinality(Places)
  BY <1>1, EmptyMap DEF Init
<1>4. /\ iter \in [Iter -> IterState] /\ \A i \in Iter : ~iter[i].used
  <2>1. Unused \in IterState /\ ~Unused.used
    BY HmapAssumption DEF Unused, IterState
  <2> QED  BY <2>1 DEF Init
<1>5. Rest
  BY <1>4 DEF Init, Rest
<1>6. Counted /\ Calm
  BY <1>3, <1>4 DEF Counted, Calm
<1> QED  BY <1>2, <1>4, <1>5, <1>6 DEF IInv

(* A step with the iterators idle.                                         *)
LEMMA QuietStep ==
  ASSUME IInv, \A i \in Iter : ~iter[i].used, iter' = iter, Lists', size' \in Nat,
         ret' \in Val \cup Node \cup {NULL, Done, Wild}, doomed' \in BOOLEAN, Counted'
  PROVE  IInv'
BY DEF IInv, Rest, Calm

(* A step of one iterator, or of none.                                     *)
LEMMA IterStep ==
  ASSUME IInv, NEW i \in Iter, NEW it \in IterState, iter' = [iter EXCEPT ![i] = it],
         it.used => Placed(it) /\ ~doomed,
         buckets' = buckets, size' = size, doomed' = doomed,
         ret' \in Val \cup Node \cup {NULL, Done, Wild}
  PROVE  IInv'
<1>1. Lists' /\ Places' = Places /\ \A j \in Iter : Placed(iter'[j]) <=> Placed(iter[j])'
  BY Same DEF IInv
<1>2. iter' \in [Iter -> IterState] /\ \A j \in Iter : iter'[j] = IF j = i THEN it ELSE iter[j]
  BY DEF IInv, Rest
<1>3. \A j \in Iter : iter'[j].used => Placed(iter'[j])
  BY <1>2 DEF IInv
<1> QED  BY <1>1, <1>2, <1>3 DEF IInv, Rest, Counted, Calm

(* Every step keeps the invariant.                                         *)
LEMMA StepHolds == IInv /\ [Next]_vars => IInv'
<1> SUFFICES ASSUME IInv, [Next]_vars
             PROVE  IInv'
  OBVIOUS
<1>1. CASE UNCHANGED vars
  <2>1. buckets' = buckets /\ iter' = iter /\ size' = size /\ ret' = ret /\ doomed' = doomed
    BY <1>1 DEF vars
  <2>2. Lists' /\ Places' = Places /\ \A i \in Iter : Placed(iter'[i]) <=> Placed(iter[i])'
    BY <2>1, Same DEF IInv
  <2>3. \A i \in Iter : iter'[i].used => Placed(iter'[i])
    BY <2>1 DEF IInv
  <2> QED  BY <2>1, <2>2, <2>3 DEF IInv, Rest, Counted, Calm
<1>2. ASSUME NEW k \in Key, Gets(k)
      PROVE  IInv'
  <2>1. /\ buckets' = buckets /\ iter' = iter /\ size' = size /\ doomed' = doomed
        /\ ret' = Found(buckets[Pos[k]], k)
    BY <1>2 DEF Gets, Found
  <2>2. ret' \in Val \cup {NULL}
    <3>1. Pos[k] \in Bucket /\ Good(buckets[Pos[k]], Pos[k])
      BY HmapAssumption DEF IInv, Lists, Bucket
    <3> QED  BY <2>1, <3>1, FoundIs
  <2>3. Lists' /\ Places' = Places /\ \A i \in Iter : Placed(iter'[i]) <=> Placed(iter[i])'
    BY <2>1, Same DEF IInv
  <2>4. \A i \in Iter : iter'[i].used => Placed(iter'[i])
    BY <2>1 DEF IInv
  <2> QED  BY <2>1, <2>2, <2>3, <2>4 DEF IInv, Rest, Counted, Calm
<1>3. ASSUME NEW k \in Key, NEW v \in Val, Sets(k, v)
      PROVE  IInv'
  <2>1. /\ \A i \in Iter : ~iter[i].used
        /\ iter' = iter /\ ~doomed /\ doomed' = doomed
    BY <1>3 DEF Sets, Overwrite, Insert, Idle
  <2>2. Lists' /\ size' \in Nat /\ size' = Cardinality(Places') /\ ret' \in Val \cup {NULL}
    BY <1>3, SetsStep
  <2>3. doomed' \in BOOLEAN
    BY <2>1 DEF IInv, Rest
  <2> QED  BY <2>1, <2>2, <2>3, QuietStep DEF Counted
<1>4. ASSUME NEW k \in Key, Removes(k)
      PROVE  IInv'
  <2>1. /\ \A i \in Iter : ~iter[i].used
        /\ iter' = iter /\ ~doomed /\ doomed' = doomed
    BY <1>4 DEF Removes, Idle
  <2>2. Lists' /\ size' \in Nat /\ size' = Cardinality(Places') /\ ret' \in Val \cup {NULL}
    BY <1>4, RemovesStep
  <2>3. doomed' \in BOOLEAN
    BY <2>1 DEF IInv, Rest
  <2> QED  BY <2>1, <2>2, <2>3, QuietStep DEF Counted
<1>5. CASE Destroy
  <2>1. /\ \A i \in Iter : ~iter[i].used
        /\ iter' = iter /\ doomed' = TRUE /\ buckets' = buckets /\ size' = size /\ ret' = ret
    BY <1>5 DEF Destroy, Idle
  <2>2. Lists' /\ size' \in Nat /\ ret' \in Val \cup Node \cup {NULL, Done, Wild}
    BY <2>1, Same DEF IInv, Rest
  <2> QED  BY <2>1, <2>2, QuietStep DEF Counted
<1>6. CASE Walk
  <2>1. /\ \A i \in Iter : ~iter[i].used
        /\ iter' = iter /\ doomed' = TRUE /\ size' = size
    BY <1>6 DEF Walk, IInv, Calm, Rest
  <2>2. Lists' /\ size' \in Nat /\ ret' \in Node
    BY <1>6, <2>1, WalkStep DEF IInv, Rest
  <2> QED  BY <2>1, <2>2, QuietStep DEF Counted
<1>7. CASE Destroyed
  <2>1. /\ \A i \in Iter : ~iter[i].used
        /\ iter' = iter /\ doomed' = FALSE /\ size' = 0 /\ buckets' = buckets /\ ret' = ret
        /\ NonEmpty = {}
    BY <1>7 DEF Destroyed, IInv, Calm
  <2>2. Cardinality(Places') = 0
    <3>1. Places' = Places
      BY <2>1, Same
    <3>2. Cardinality(Places) = 0
      BY <2>1, EmptyMap DEF NonEmpty
    <3> QED  BY <3>1, <3>2
  <2>3. Lists' /\ ret' \in Val \cup Node \cup {NULL, Done, Wild}
    BY <2>1, Same DEF IInv, Rest
  <2> QED  BY <2>1, <2>2, <2>3, QuietStep DEF Counted
<1>8. ASSUME NEW i \in Iter, IterNew(i)
      PROVE  IInv'
  <2> DEFINE it == [used |-> TRUE, index |-> 0, count |-> size, cur |-> NULL]
  <2>1. /\ iter' = [iter EXCEPT ![i] = it] /\ ~doomed
        /\ buckets' = buckets /\ size' = size /\ doomed' = doomed /\ ret' = ret
    BY <1>8 DEF IterNew
  <2>2. it \in IterState /\ it.index = 0 /\ it.cur = NULL /\ it.count = Cardinality(Places)
    BY <2>1, HmapAssumption DEF IInv, Rest, Counted, IterState
  <2>3. ret \in Val \cup Node \cup {NULL, Done, Wild}
    BY DEF IInv, Rest
  <2> HIDE DEF it
  <2>4. Ahead(it) = Places
    <3>1. \A p \in Places : p[1] >= 0
      BY Where DEF IInv, Bucket
    <3> QED  BY <2>2, <3>1 DEF Ahead
  <2>5. Placed(it)
    BY <2>2, <2>4, HmapAssumption DEF Placed
  <2> QED  BY <2>1, <2>2, <2>3, <2>5, IterStep
<1>9. ASSUME NEW i \in Iter, IterNext(i)
      PROVE  IInv'
  <2> DEFINE it == Advance(iter[i])
  <2>1. /\ iter' = [iter EXCEPT ![i] = it] /\ iter[i].used /\ iter[i].count > 0
        /\ buckets' = buckets /\ size' = size /\ doomed' = doomed
        /\ ret' = IF it.cur.at < Cap THEN buckets[it.cur.at][it.cur.n] ELSE Wild
    BY <1>9 DEF IterNext
  <2>2. iter[i] \in IterState /\ Placed(iter[i]) /\ ~doomed
    BY <2>1 DEF IInv, Rest, Calm
  <2>3. it \in IterState /\ Placed(it) /\ <<it.cur.at, it.cur.n>> \in Places
    BY <2>1, <2>2, Stepped, Ahead0 DEF IInv
  <2> HIDE DEF it
  <2>4. ret' \in Node \cup {Wild}
    <3>1. NodeAt(<<it.cur.at, it.cur.n>>) \in Node
      BY <2>3, Where DEF IInv
    <3>2. NodeAt(<<it.cur.at, it.cur.n>>) = buckets[it.cur.at][it.cur.n]
      BY DEF NodeAt
    <3> QED  BY <2>1, <3>1, <3>2
  <2> QED  BY <2>1, <2>2, <2>3, <2>4, IterStep
<1>10. ASSUME NEW i \in Iter, IterEnd(i) \/ IterBreak(i)
       PROVE  IInv'
  <2>1. /\ iter' = [iter EXCEPT ![i] = Unused]
        /\ buckets' = buckets /\ size' = size /\ doomed' = doomed /\ ret' \in {ret, Done}
    BY <1>10 DEF IterEnd, IterBreak
  <2>2. Unused \in IterState /\ ~Unused.used
    BY HmapAssumption DEF Unused, IterState
  <2>3. ret' \in Val \cup Node \cup {NULL, Done, Wild}
    BY <2>1 DEF IInv, Rest
  <2> HIDE DEF Unused
  <2> QED  BY <2>1, <2>2, <2>3, IterStep
<1>11. CASE Free
  <2>1. /\ \A i \in Iter : ~iter[i].used
        /\ iter' = iter /\ doomed' = doomed /\ size' = 0 /\ ret' = ret
        /\ buckets' = [b \in Bucket |-> << >>]
    BY <1>11 DEF Free, Idle
  <2>2. Lists'
    <3>1. \A b : Good(<< >>, b)
      BY DEF Good
    <3> QED  BY <2>1, <3>1 DEF Lists
  <2>3. Cardinality(Places') = 0
    <3>1. Places' = {}
      BY <2>1 DEF Places
    <3> QED  BY <3>1, FS_EmptySet
  <2>4. ret' \in Val \cup Node \cup {NULL, Done, Wild} /\ doomed' \in BOOLEAN
    BY <2>1 DEF IInv, Rest
  <2> QED  BY <2>1, <2>2, <2>3, <2>4, QuietStep DEF Counted
<1> QED
  BY <1>1, <1>2, <1>3, <1>4, <1>5, <1>6, <1>7, <1>8, <1>9, <1>10, <1>11 DEF Next

-----------------------------------------------------------------------------
(* The lists are sound and the iterators placed in every reachable state.  *)
THEOREM IInvHolds == Spec => []IInv
<1>1. Init => IInv
  BY InitHolds
<1>2. IInv /\ [Next]_vars => IInv'
  BY StepHolds
<1> QED  BY <1>1, <1>2, PTL DEF Spec

(* hmap_sets, hmap_removes and hmap_destroy keep a key to one node, in the *)
(* list its hash names, and size the number of nodes.                      *)
THEOREM ListsAreSound == Spec => []ChainsSound
<1>1. IInv => ChainsSound
  <2> SUFFICES ASSUME IInv
               PROVE  ChainsSound
    OBVIOUS
  <2>1. Lists /\ Rest /\ Counted
    BY DEF IInv
  <2>2. TypeOK
    BY <2>1 DEF TypeOK, Lists, Rest, IterState
  <2>3. \A b \in Bucket : Len(buckets[b]) <= Cardinality(Key)
    BY <2>1, Bounded DEF Lists
  <2>4. ASSUME NEW p \in Places
        PROVE  Pos[NodeAt(p).key] = p[1]
    BY <2>1, Where DEF Lists, Good, NodeAt
  <2>5. ASSUME NEW p \in Places, NEW q \in Places, NodeAt(p).key = NodeAt(q).key
        PROVE  p = q
    <3>1. p[1] = q[1]
      BY <2>4, <2>5
    <3>2. p[2] = q[2]
      BY <2>1, <2>5, <3>1, Where DEF Lists, Good, NodeAt
    <3> QED  BY <2>1, <3>1, <3>2, Where
  <2> QED  BY <2>1, <2>2, <2>3, <2>4, <2>5 DEF ChainsSound, Counted
<1> QED  BY <1>1, IInvHolds, PTL

(* An iterator's count is the number of nodes in front of it, so that      *)
(* hmap_iter_next never runs off the end of the buckets.                   *)
THEOREM IteratorsAreSound == Spec => []IterSound
<1>1. IInv => IterSound
  BY DEF IInv, IterSound, Placed
<1> QED  BY <1>1, IInvHolds, PTL

-----------------------------------------------------------------------------
(* The map of lists and its iterators keep the promise of HmapSpec.        *)

(* Two lists that hold the same node at a key answer the same for it.      *)
LEMMA FoundSame ==
  ASSUME NEW k \in Key, NEW s, NEW t, Good(s, Pos[k]), Good(t, Pos[k]),
         \A v \in Val : Holds(s, [key |-> k, val |-> v]) <=> Holds(t, [key |-> k, val |-> v])
  PROVE  Found(s, k) = Found(t, k)
<1>1. Found(s, k) \in Val \cup {NULL} /\ Found(t, k) \in Val \cup {NULL}
  BY FoundIs
<1>2. \A v \in Val : Found(s, k) = v <=> Found(t, k) = v
  BY FoundIs
<1> QED  BY <1>1, <1>2

(* The list t is s with w at k, or with nothing there when w is no value.  *)
Assigned(s, t, k, w) ==
  \A x \in Node : Holds(t, x) <=> (x.key = k /\ x.val = w) \/ (Holds(s, x) /\ x.key # k)

(* The list of a key takes another value for it, or loses it.              *)
LEMMA Remapped ==
  ASSUME Lists, NEW b \in Bucket, NEW t, Good(t, b), buckets' = [buckets EXCEPT ![b] = t],
         NEW k \in Key, Pos[k] = b, NEW w \in Val \cup {NULL},
         Assigned(buckets[b], t, k, w)
  PROVE  Mapped' = [Mapped EXCEPT ![k] = w]
<1>1. \A c \in Bucket : buckets'[c] = IF c = b THEN t ELSE buckets[c]
  BY DEF Lists
<1>2. \A j \in Key : Pos[j] \in Bucket
  BY HmapAssumption DEF Bucket
<1>3. \A j \in Key, v \in Val :
        /\ [key |-> j, val |-> v] \in Node
        /\ [key |-> j, val |-> v].key = j /\ [key |-> j, val |-> v].val = v
  BY DEF Node
<1>4. ASSUME NEW j \in Key
      PROVE  Mapped'[j] = IF j = k THEN w ELSE Mapped[j]
  <2>1. Mapped'[j] = Found(buckets'[Pos[j]], j) /\ Mapped[j] = Found(buckets[Pos[j]], j)
    BY DEF Mapped, Lookup, Found
  <2>2. CASE Pos[j] # b
    BY <2>1, <2>2, <1>1, <1>2
  <2>3. CASE Pos[j] = b /\ j # k
    <3>1. Good(t, Pos[j]) /\ Good(buckets[b], Pos[j])
      BY <2>3 DEF Lists
    <3>2. \A v \in Val : Holds(t, [key |-> j, val |-> v])
                           <=> Holds(buckets[b], [key |-> j, val |-> v])
      BY <2>3, <1>3 DEF Assigned
    <3>3. Found(t, j) = Found(buckets[b], j)
      BY <3>1, <3>2, FoundSame
    <3> QED  BY <2>1, <2>3, <3>3, <1>1
  <2>4. CASE j = k
    <3>1. Mapped'[j] = Found(t, k)
      BY <2>1, <2>4, <1>1
    <3>2. \A v \in Val : Found(t, k) = v <=> Holds(t, [key |-> k, val |-> v])
      BY FoundIs
    <3>3. \A v \in Val : Found(t, k) = v <=> v = w
      BY ZenonT(40), <3>2, <1>3 DEF Assigned
    <3>4. Found(t, k) \in Val \cup {NULL}
      BY FoundIs
    <3> QED  BY <2>4, <3>1, <3>3, <3>4
  <2> QED  BY <2>2, <2>3, <2>4
<1>5. DOMAIN Mapped = Key /\ Mapped' = [j \in Key |-> Mapped'[j]]
      /\ Mapped = [j \in Key |-> Mapped[j]]
  BY DEF Mapped
<1> HIDE DEF Mapped
<1> QED  BY <1>4, <1>5

(* The pairs of the map are the nodes at its places, each at one of them.  *)
LEMMA PairsAre ==
  ASSUME IInv
  PROVE  /\ Promise!Pairs(Mapped) = {NodeAt(p) : p \in Places}
         /\ \A b \in Bucket, x \in Node : Holds(buckets[b], x) => x \in Promise!Pairs(Mapped)
         /\ \A p, q \in Places : NodeAt(p) = NodeAt(q) => p = q
<1>1. Lists /\ \A j \in Key : Pos[j] \in Bucket
  BY HmapAssumption DEF IInv, Bucket
<1>2. Promise!Pairs(Mapped) = {x \in Node : Mapped[x.key] = x.val}
  BY DEF Promise!Pairs, Promise!Pair, Node
<1>3. ASSUME NEW x \in Node
      PROVE  Mapped[x.key] = x.val <=> Holds(buckets[Pos[x.key]], x)
  <2>1. x.key \in Key /\ x.val \in Val /\ x = [key |-> x.key, val |-> x.val]
    BY DEF Node
  <2>2. Mapped[x.key] = Found(buckets[Pos[x.key]], x.key)
    BY <2>1 DEF Mapped, Lookup, Found
  <2>3. Good(buckets[Pos[x.key]], Pos[x.key])
    BY <2>1, <1>1 DEF Lists
  <2> QED  BY <2>1, <2>2, <2>3, FoundIs
<1>4. ASSUME NEW b \in Bucket, NEW n \in DOMAIN buckets[b]
      PROVE  /\ <<b, n>> \in Places /\ NodeAt(<<b, n>>) = buckets[b][n]
             /\ buckets[b][n] \in Node /\ Pos[buckets[b][n].key] = b
  <2>1. DOMAIN buckets[b] = 1 .. Len(buckets[b]) /\ Good(buckets[b], b)
    BY <1>1, Where DEF Lists
  <2>2. <<b, n>> \in Places
    BY <2>1, <1>1, Where
  <2> QED  BY <2>1, <2>2, <1>1, Elements DEF NodeAt, Good
<1>5. ASSUME NEW p \in Places
      PROVE  /\ NodeAt(p) \in Node /\ p[1] \in Bucket /\ p[2] \in DOMAIN buckets[p[1]]
             /\ p = <<p[1], p[2]>> /\ NodeAt(p) = buckets[p[1]][p[2]]
  BY <1>1, Where DEF NodeAt
<1>6. \A b \in Bucket, x \in Node : Holds(buckets[b], x) => x \in Promise!Pairs(Mapped)
  BY ZenonT(40), <1>2, <1>3, <1>4 DEF Holds
<1>7. \A x \in Promise!Pairs(Mapped) : \E p \in Places : x = NodeAt(p)
  <2> TAKE x \in Promise!Pairs(Mapped)
  <2>1. x \in Node /\ x.key \in Key /\ Holds(buckets[Pos[x.key]], x)
    BY <1>2, <1>3 DEF Node
  <2>2. PICK n \in DOMAIN buckets[Pos[x.key]] : buckets[Pos[x.key]][n] = x
    BY <2>1 DEF Holds
  <2>3. Pos[x.key] \in Bucket
    BY <2>1, <1>1
  <2>4. <<Pos[x.key], n>> \in Places /\ NodeAt(<<Pos[x.key], n>>) = x
    BY <2>2, <2>3, <1>4
  <2> QED  BY <2>4
<1>8. \A p \in Places : NodeAt(p) \in Promise!Pairs(Mapped)
  BY <1>5, <1>6 DEF Holds
<1>9. ASSUME NEW p \in Places, NEW q \in Places, NodeAt(p) = NodeAt(q)
      PROVE  p = q
  <2>1. p[1] = q[1]
    BY <1>4, <1>5, <1>9
  <2>2. p[2] = q[2]
    BY <2>1, <1>1, <1>5, <1>9 DEF Lists, Good
  <2> QED  BY <2>1, <2>2, <1>5
<1> QED  BY <1>6, <1>7, <1>8, <1>9

(* What an iterator has still to yield.                                    *)
LEMMA TodoIs ==
  ASSUME IInv
  PROVE  /\ Todo = [i \in Iter |-> Todo[i]]
         /\ \A i \in Iter :
              /\ iter[i].used => /\ Todo[i] = {NodeAt(p) : p \in Ahead(iter[i])}
                                 /\ Todo[i] # NULL
              /\ ~iter[i].used => Todo[i] = NULL
<1>1. ASSUME NEW i \in Iter
      PROVE  {NodeAt(p) : p \in Ahead(iter[i])} # NULL
  <2>1. Ahead(iter[i]) \subseteq Places
    BY DEF Ahead
  <2>2. {NodeAt(p) : p \in Ahead(iter[i])} \subseteq Node
    BY <2>1, Where DEF IInv
  <2> QED  BY <2>2, HmapAssumption
<1> QED  BY <1>1 DEF Todo

(* A list and what is found in it for a key.                               *)
LEMMA AtKey ==
  ASSUME IInv, NEW k \in Key
  PROVE  /\ Pos[k] \in Bucket /\ Good(buckets[Pos[k]], Pos[k])
         /\ Mapped[k] = Found(buckets[Pos[k]], k)
BY HmapAssumption DEF IInv, Lists, Bucket, Mapped, Lookup, Found

(* Overwrite and Insert are Set.                                           *)
LEMMA SetsKeeps ==
  ASSUME IInv, NEW k \in Key, NEW v \in Val, Sets(k, v)
  PROVE  Mapped' = [Mapped EXCEPT ![k] = v] /\ ret' = Mapped[k]
<1> DEFINE b == Pos[k]
           s == buckets[b]
           n == First(Match(s, k))
<1>1. /\ b \in Bucket /\ Good(s, b) /\ Mapped[k] = Found(s, k) /\ Lists
      /\ Pos[k] = b /\ s = buckets[b]
  BY AtKey DEF IInv
<1> HIDE DEF b, s
<1>2. Match(s, k) # {} => n \in DOMAIN s /\ s[n].key = k
  BY <1>1, FoundIs
<1>3. \A x \in Node : x = [key |-> k, val |-> v] <=> x.key = k /\ x.val = v
  BY DEF Node
<1>4. CASE Overwrite(k, v)
  <2> DEFINE t == With(s, n, v)
  <2>1. Match(s, k) # {} /\ ret' = s[n].val /\ buckets' = [buckets EXCEPT ![b] = t]
    BY <1>4 DEF Overwrite, With, b, s
  <2>2. ret' = Found(s, k)
    BY <2>1 DEF Found
  <2> HIDE DEF n
  <2>3. /\ Good(t, b)
        /\ \A x \in Node :
             Holds(t, x) <=> (x = [key |-> s[n].key, val |-> v])
                               \/ (Holds(s, x) /\ x.key # s[n].key)
    BY <2>1, <1>1, <1>2, GoodSet
  <2> HIDE DEF t
  <2>4. Assigned(s, t, k, v)
    BY <2>1, <2>3, <1>2, <1>3 DEF Assigned
  <2>5. v \in Val \cup {NULL} /\ Assigned(buckets[b], t, k, v)
    BY <2>4, <1>1
  <2>6. Mapped' = [Mapped EXCEPT ![k] = v]
    <3>1. /\ Lists /\ b \in Bucket /\ Good(t, b) /\ Pos[k] = b
          /\ buckets' = [buckets EXCEPT ![b] = t]
      BY <2>1, <2>3, <1>1
    <3> QED  BY <3>1, <2>5, Remapped
  <2> QED  BY <2>2, <2>6, <1>1
<1>5. CASE Insert(k, v)
  <2> DEFINE t == <<[key |-> k, val |-> v]>> \o s
  <2>1. Match(s, k) = {} /\ ret' = NULL /\ buckets' = [buckets EXCEPT ![b] = t]
    BY <1>5 DEF Insert, b, s
  <2>2. ret' = Found(s, k)
    BY <2>1 DEF Found
  <2>3. Good(t, b) /\ \A x \in Node : Holds(t, x) <=> x = [key |-> k, val |-> v] \/ Holds(s, x)
    BY <2>1, <1>1, GoodCons
  <2>4. \A x \in Node : Holds(s, x) => x.key # k
    BY <2>1 DEF Match, Holds
  <2> HIDE DEF t
  <2>5. Assigned(s, t, k, v)
    BY <2>3, <2>4, <1>3 DEF Assigned
  <2>6. v \in Val \cup {NULL} /\ Assigned(buckets[b], t, k, v)
    BY <2>5, <1>1
  <2>7. Mapped' = [Mapped EXCEPT ![k] = v]
    <3>1. /\ Lists /\ b \in Bucket /\ Good(t, b) /\ Pos[k] = b
          /\ buckets' = [buckets EXCEPT ![b] = t]
      BY <2>1, <2>3, <1>1
    <3> QED  BY <3>1, <2>6, Remapped
  <2> QED  BY <2>2, <2>7, <1>1
<1> QED  BY <1>4, <1>5 DEF Sets

(* Removes is Remove.                                                      *)
LEMMA RemovesKeeps ==
  ASSUME IInv, NEW k \in Key, Removes(k)
  PROVE  Mapped' = [Mapped EXCEPT ![k] = NULL] /\ ret' = Mapped[k]
<1> DEFINE b == Pos[k]
           s == buckets[b]
           n == First(Match(s, k))
<1>1. /\ b \in Bucket /\ Good(s, b) /\ Mapped[k] = Found(s, k) /\ Lists
      /\ Pos[k] = b /\ s = buckets[b]
  BY AtKey DEF IInv
<1> HIDE DEF b, s
<1>2. Match(s, k) # {} => n \in DOMAIN s /\ s[n].key = k
  BY <1>1, FoundIs
<1>3. \A x \in Node : x.val # NULL
  BY HmapAssumption DEF Node
<1>4. CASE Match(s, k) = {}
  <2>1. ret' = NULL /\ buckets' = buckets
    BY <1>4 DEF Removes, b, s
  <2>2. Mapped[k] = NULL /\ ret' = Mapped[k]
    BY <2>1, <1>1, <1>4 DEF Found
  <2>3. Mapped' = Mapped
    BY <2>1 DEF Mapped, Lookup
  <2> QED  BY <2>2, <2>3 DEF Mapped
<1>5. CASE Match(s, k) # {}
  <2> DEFINE t == Without(s, n)
  <2>1. ret' = s[n].val /\ buckets' = [buckets EXCEPT ![b] = t]
    BY <1>5 DEF Removes, b, s
  <2>2. ret' = Found(s, k)
    BY <2>1, <1>5 DEF Found
  <2> HIDE DEF n
  <2>3. Good(t, b) /\ \A x \in Node : Holds(t, x) <=> Holds(s, x) /\ x.key # s[n].key
    BY <1>1, <1>2, <1>5, GoodWithout
  <2> HIDE DEF t
  <2>4. Assigned(s, t, k, NULL)
    BY <2>3, <1>2, <1>3, <1>5 DEF Assigned
  <2>5. NULL \in Val \cup {NULL} /\ Assigned(buckets[b], t, k, NULL)
    BY <2>4, <1>1
  <2>6. Mapped' = [Mapped EXCEPT ![k] = NULL]
    <3>1. /\ Lists /\ b \in Bucket /\ Good(t, b) /\ Pos[k] = b
          /\ buckets' = [buckets EXCEPT ![b] = t]
      BY <2>1, <2>3, <1>1
    <3> QED  BY <3>1, <2>5, Remapped
  <2> QED  BY <2>2, <2>6, <1>1
<1> QED  BY <1>4, <1>5

(* Walk is Callback.                                                       *)
LEMMA WalkKeeps ==
  ASSUME IInv, Walk
  PROVE  /\ ret' \in Promise!Pairs(Mapped)
         /\ Mapped' = [Mapped EXCEPT ![ret'.key] = NULL]
<1> DEFINE b == First(NonEmpty)
           s == buckets[b]
<1>1. b \in Bucket /\ s # << >> /\ Good(s, b) /\ Lists /\ s = buckets[b]
  BY WalkStep DEF IInv
<1>2. ret' = Head(s) /\ buckets' = [buckets EXCEPT ![b] = Tail(s)]
  BY DEF Walk
<1> HIDE DEF b, s
<1>3. /\ Head(s) \in Node /\ Holds(s, Head(s)) /\ Good(Tail(s), b)
      /\ \A x \in Node : Holds(Tail(s), x) <=> Holds(s, x) /\ x.key # Head(s).key
  BY <1>1, GoodTail
<1>4. Head(s).key \in Key /\ Pos[Head(s).key] = b /\ \A x \in Node : x.val # NULL
  <2>1. Head(s).key \in Key /\ \A x \in Node : x.val # NULL
    BY <1>3, HmapAssumption DEF Node
  <2> QED  BY <2>1, <1>1, <1>3 DEF Holds, Good
<1>5. Head(s) \in Promise!Pairs(Mapped)
  BY <1>1, <1>3, PairsAre
<1>6. Mapped' = [Mapped EXCEPT ![Head(s).key] = NULL]
  <2> DEFINE t == Tail(s)
             k == Head(s).key
  <2>1. Good(t, b) /\ buckets' = [buckets EXCEPT ![b] = t] /\ k \in Key /\ Pos[k] = b
    BY <1>2, <1>3, <1>4
  <2>2. Assigned(s, t, k, NULL)
    BY <1>3, <1>4 DEF Assigned
  <2> HIDE DEF t, k
  <2>3. NULL \in Val \cup {NULL}
    OBVIOUS
  <2>4. Mapped' = [Mapped EXCEPT ![k] = NULL]
    BY <2>1, <2>2, <2>3, <1>1, Remapped
  <2> QED  BY <2>4 DEF k
<1> QED  BY <1>2, <1>5, <1>6

(* Nothing about an iterator changes while the buckets and it do not.      *)
LEMMA Unmoved ==
  ASSUME IInv, buckets' = buckets, NEW i \in Iter, iter'[i] = iter[i]
  PROVE  Todo'[i] = Todo[i]
<1>1. Places' = Places
  BY DEF Places
<1>2. Ahead(iter[i])' = Ahead(iter[i])
  BY <1>1 DEF Ahead
<1>3. \A p : NodeAt(p)' = NodeAt(p)
  BY DEF NodeAt
<1> QED  BY <1>2, <1>3 DEF Todo

(* With no iterator in use, Todo is null throughout.                       *)
LEMMA AllIdle ==
  ASSUME IInv, iter' = iter, \A i \in Iter : ~iter[i].used
  PROVE  Todo' = Todo /\ \A i \in Iter : Todo[i] = NULL
BY DEF Todo

(* IterNew is Start.                                                       *)
LEMMA NewKeeps ==
  ASSUME IInv, NEW i \in Iter, IterNew(i)
  PROVE  Todo[i] = NULL /\ Todo' = [Todo EXCEPT ![i] = Promise!Pairs(Mapped)]
<1> DEFINE it == [used |-> TRUE, index |-> 0, count |-> size, cur |-> NULL]
<1>1. iter' = [iter EXCEPT ![i] = it] /\ buckets' = buckets /\ ~iter[i].used
  BY DEF IterNew
<1>2. it.used /\ it.index = 0 /\ it.cur = NULL
  OBVIOUS
<1> HIDE DEF it
<1>3. iter'[i] = it /\ \A j \in Iter \ {i} : iter'[j] = iter[j]
  BY <1>1 DEF IInv, Rest
<1>4. Places' = Places /\ \A p \in Places : p[1] >= 0
  BY <1>1, Where DEF Places, IInv, Bucket
<1>5. Todo'[i] = {NodeAt(p) : p \in Places}
  <2>1. Todo'[i] = {NodeAt(p)' : p \in Ahead(iter[i])'}
    BY <1>2, <1>3 DEF Todo
  <2>2. Ahead(iter[i])' = Places
    BY <1>2, <1>3, <1>4 DEF Ahead
  <2> QED  BY <2>1, <2>2, <1>1 DEF NodeAt
<1>6. \A j \in Iter \ {i} : Todo'[j] = Todo[j]
  BY <1>1, <1>3, Unmoved
<1>7. Todo = [j \in Iter |-> Todo[j]] /\ Todo' = [j \in Iter |-> Todo'[j]] /\ DOMAIN Todo = Iter
  BY DEF Todo
<1>8. Promise!Pairs(Mapped) = {NodeAt(p) : p \in Places} /\ Todo[i] = NULL
  BY <1>1, PairsAre, TodoIs
<1> HIDE DEF Todo
<1> QED  BY <1>5, <1>6, <1>7, <1>8

(* IterNext is Yield.                                                      *)
LEMMA NextKeeps ==
  ASSUME IInv, NEW i \in Iter, IterNext(i)
  PROVE  /\ Todo[i] # NULL /\ ret' \in Todo[i]
         /\ Todo' = [Todo EXCEPT ![i] = Todo[i] \ {ret'}]
<1> DEFINE it == Advance(iter[i])
           at == <<it.cur.at, it.cur.n>>
<1>1. /\ iter' = [iter EXCEPT ![i] = it] /\ iter[i].used /\ iter[i].count > 0
      /\ buckets' = buckets
      /\ ret' = IF it.cur.at < Cap THEN buckets[it.cur.at][it.cur.n] ELSE Wild
  BY DEF IterNext
<1>2. iter[i] \in IterState /\ Placed(iter[i]) /\ Lists
  BY <1>1 DEF IInv, Rest
<1>3. /\ it.cur \in Place /\ it.used /\ at \in Ahead(iter[i])
      /\ Ahead(it) = Ahead(iter[i]) \ {at}
  BY <1>1, <1>2, Stepped
<1> HIDE DEF it
<1>4. ret' = NodeAt(at)
  <2>1. it.cur.at < Cap
    BY <1>3, HmapAssumption DEF Place, Bucket
  <2> QED  BY <2>1, <1>1 DEF NodeAt
<1> HIDE DEF at
<1>5. iter'[i] = it /\ \A j \in Iter \ {i} : iter'[j] = iter[j]
  BY <1>1 DEF IInv, Rest
<1>6. Todo'[i] = {NodeAt(p) : p \in Ahead(it)}
  <2>1. Todo'[i] = {NodeAt(p)' : p \in Ahead(iter[i])'}
    BY <1>3, <1>5 DEF Todo
  <2>2. Ahead(iter[i])' = Ahead(it)
    <3>1. Places' = Places
      BY <1>1 DEF Places
    <3> QED  BY <3>1, <1>5 DEF Ahead
  <2> QED  BY <2>1, <2>2, <1>1 DEF NodeAt
<1>7. \A j \in Iter \ {i} : Todo'[j] = Todo[j]
  BY <1>1, <1>5, Unmoved
<1>8. Todo[i] = {NodeAt(p) : p \in Ahead(iter[i])} /\ Todo[i] # NULL
  BY <1>1, TodoIs
<1>9. \A p, q \in Ahead(iter[i]) : NodeAt(p) = NodeAt(q) => p = q
  BY <1>2, PairsAre, Ahead0
<1>10. Todo'[i] = Todo[i] \ {ret'}
  BY <1>3, <1>4, <1>6, <1>8, <1>9
<1>11. Todo = [j \in Iter |-> Todo[j]] /\ Todo' = [j \in Iter |-> Todo'[j]] /\ DOMAIN Todo = Iter
  BY DEF Todo
<1>12. ret' \in Todo[i]
  BY <1>3, <1>4, <1>8
<1> HIDE DEF Todo
<1> QED  BY <1>7, <1>8, <1>10, <1>11, <1>12

(* IterEnd is Finish, and IterBreak Abandon.                               *)
LEMMA EndKeeps ==
  ASSUME IInv, NEW i \in Iter, IterEnd(i) \/ IterBreak(i)
  PROVE  /\ Todo[i] # NULL /\ (IterEnd(i) => Todo[i] = {})
         /\ Todo' = [Todo EXCEPT ![i] = NULL]
<1>1. iter' = [iter EXCEPT ![i] = Unused] /\ buckets' = buckets /\ iter[i].used
  BY DEF IterEnd, IterBreak
<1>2. iter'[i] = Unused /\ \A j \in Iter \ {i} : iter'[j] = iter[j]
  BY <1>1 DEF IInv, Rest
<1>3. Todo'[i] = NULL
  BY <1>2 DEF Todo, Unused
<1>4. \A j \in Iter \ {i} : Todo'[j] = Todo[j]
  BY <1>1, <1>2, Unmoved
<1>5. Todo[i] = {NodeAt(p) : p \in Ahead(iter[i])} /\ Todo[i] # NULL
  BY <1>1, TodoIs
<1>6. ASSUME IterEnd(i)
      PROVE  Todo[i] = {}
  <2>1. iter[i].count < 1 /\ iter[i] \in IterState /\ Placed(iter[i]) /\ Lists
    BY <1>1, <1>6 DEF IterEnd, IInv, Rest
  <2>2. Cardinality(Ahead(iter[i])) = 0
    BY <2>1 DEF Placed, IterState
  <2>3. Ahead(iter[i]) = {}
    BY <2>1, <2>2, Ahead0
  <2> QED  BY <2>3, <1>5
<1>7. Todo = [j \in Iter |-> Todo[j]] /\ Todo' = [j \in Iter |-> Todo'[j]] /\ DOMAIN Todo = Iter
  BY DEF Todo
<1> HIDE DEF Todo
<1> QED  BY <1>3, <1>4, <1>5, <1>6, <1>7

(* Every step of the lists is a step of the promise, or none.              *)
LEMMA StepKeeps == IInv /\ [Next]_vars => [Promise!SpecNext]_(Promise!specVars)
<1> SUFFICES ASSUME IInv, [Next]_vars
             PROVE  [Promise!SpecNext]_(Promise!specVars)
  OBVIOUS
<1> USE DEF Promise!SpecNext, Promise!specVars
<1>1. /\ (\A i \in Iter : ~iter[i].used) => \A i \in Iter : Todo[i] = NULL
      /\ iter' = iter /\ buckets' = buckets => Todo' = Todo /\ Mapped' = Mapped
      /\ iter' = iter /\ (\A i \in Iter : ~iter[i].used) => Todo' = Todo
      /\ buckets' = buckets => Mapped' = Mapped
  <2>1. iter' = iter /\ buckets' = buckets => Todo' = Todo
    BY DEF Todo, Ahead, Places, NodeAt
  <2>2. buckets' = buckets => Mapped' = Mapped
    BY DEF Mapped, Lookup
  <2> QED  BY <2>1, <2>2, AllIdle, TodoIs
<1>2. CASE UNCHANGED vars
  BY <1>1, <1>2 DEF vars
<1>3. ASSUME NEW k \in Key, Gets(k)
      PROVE  Promise!Get(k)
  <2>1. ret' = Mapped[k] /\ ~doomed /\ UNCHANGED <<buckets, iter, doomed>>
    BY <1>3 DEF Gets, Mapped, Lookup
  <2> QED  BY <1>1, <2>1 DEF Promise!Get
<1>4. ASSUME NEW k \in Key, NEW v \in Val, Sets(k, v)
      PROVE  Promise!Set(k, v)
  <2>1. /\ ~doomed /\ \A i \in Iter : ~iter[i].used
        /\ iter' = iter /\ doomed' = doomed
    BY <1>4 DEF Sets, Overwrite, Insert, Idle
  <2>2. Mapped' = [Mapped EXCEPT ![k] = v] /\ ret' = Mapped[k]
    BY <1>4, SetsKeeps
  <2> QED  BY <1>1, <2>1, <2>2 DEF Promise!Set, Promise!Idle
<1>5. ASSUME NEW k \in Key, Removes(k)
      PROVE  Promise!Remove(k)
  <2>1. /\ ~doomed /\ \A i \in Iter : ~iter[i].used
        /\ iter' = iter /\ doomed' = doomed
    BY <1>5 DEF Removes, Idle
  <2>2. Mapped' = [Mapped EXCEPT ![k] = NULL] /\ ret' = Mapped[k]
    BY <1>5, RemovesKeeps
  <2> QED  BY <1>1, <2>1, <2>2 DEF Promise!Remove, Promise!Idle
<1>6. CASE Destroy
  <2>1. /\ ~doomed /\ \A i \in Iter : ~iter[i].used
        /\ doomed' = TRUE /\ UNCHANGED <<buckets, iter, ret>>
    BY <1>6 DEF Destroy, Idle
  <2> QED  BY <1>1, <2>1 DEF Promise!Destroy, Promise!Idle
<1>7. CASE Walk
  <2>1. doomed /\ doomed' = doomed /\ iter' = iter /\ \A i \in Iter : ~iter[i].used
    BY <1>7 DEF Walk, IInv, Calm
  <2>2. ret' \in Promise!Pairs(Mapped) /\ Mapped' = [Mapped EXCEPT ![ret'.key] = NULL]
    BY <1>7, WalkKeeps
  <2> QED  BY <1>1, <2>1, <2>2 DEF Promise!Callback
<1>8. CASE Destroyed
  <2>1. doomed /\ doomed' = FALSE /\ NonEmpty = {} /\ UNCHANGED <<buckets, iter, ret>>
    BY <1>8 DEF Destroyed
  <2>2. Promise!Pairs(Mapped) = {}
    <3>1. Places = {}
      BY <2>1, EmptyMap DEF NonEmpty
    <3> QED  BY <3>1, PairsAre
  <2> QED  BY <1>1, <2>1, <2>2 DEF Promise!Destroyed
<1>9. ASSUME NEW i \in Iter, IterNew(i)
      PROVE  Promise!Start(i)
  <2>1. ~doomed /\ UNCHANGED <<buckets, ret, doomed>>
    BY <1>9 DEF IterNew
  <2>2. Todo[i] = NULL /\ Todo' = [Todo EXCEPT ![i] = Promise!Pairs(Mapped)]
    BY <1>9, NewKeeps
  <2> QED  BY <1>1, <2>1, <2>2 DEF Promise!Start
<1>10. ASSUME NEW i \in Iter, IterNext(i)
       PROVE  Promise!Yield(i)
  <2>1. UNCHANGED <<buckets, doomed>>
    BY <1>10 DEF IterNext
  <2>2. /\ Todo[i] # NULL /\ ret' \in Todo[i]
        /\ Todo' = [Todo EXCEPT ![i] = Todo[i] \ {ret'}]
    BY <1>10, NextKeeps
  <2> QED  BY <1>1, <2>1, <2>2 DEF Promise!Yield
<1>11. ASSUME NEW i \in Iter, IterEnd(i)
       PROVE  Promise!Finish(i)
  <2>1. ret' = Done /\ UNCHANGED <<buckets, doomed>>
    BY <1>11 DEF IterEnd
  <2>2. Todo[i] = {} /\ Todo' = [Todo EXCEPT ![i] = NULL]
    BY <1>11, EndKeeps
  <2> QED  BY <1>1, <2>1, <2>2 DEF Promise!Finish
<1>12. ASSUME NEW i \in Iter, IterBreak(i)
       PROVE  Promise!Abandon(i)
  <2>1. UNCHANGED <<buckets, doomed, ret>>
    BY <1>12 DEF IterBreak
  <2>2. Todo[i] # NULL /\ Todo' = [Todo EXCEPT ![i] = NULL]
    BY <1>12, EndKeeps
  <2> QED  BY <1>1, <2>1, <2>2 DEF Promise!Abandon
<1>13. CASE Free
  <2>1. /\ ~doomed /\ \A i \in Iter : ~iter[i].used
        /\ UNCHANGED <<iter, ret, doomed>> /\ buckets' = [b \in Bucket |-> << >>]
    BY <1>13 DEF Free, Idle
  <2>2. Mapped' = [k \in Key |-> NULL]
    <3>1. \A k \in Key : buckets'[Pos[k]] = << >>
      BY <2>1, HmapAssumption DEF Bucket
    <3> QED  BY <3>1 DEF Mapped, Lookup, Match
  <2> QED  BY <1>1, <2>1, <2>2 DEF Promise!Free, Promise!Idle
<1> QED
  BY <1>2, <1>3, <1>4, <1>5, <1>6, <1>7, <1>8, <1>9, <1>10, <1>11, <1>12, <1>13 DEF Next

(* The map of lists and its iterators implement the map and the sets of    *)
(* pairs still to yield of HmapSpec, what include/hmap.h promises.         *)
THEOREM PromiseIsKept == Spec => KeepsPromise
<1>1. Init => Promise!SpecInit
  <2> SUFFICES ASSUME Init
               PROVE  Promise!SpecInit
    OBVIOUS
  <2>1. \A k \in Key : Lookup(k) = NULL
    <3>1. \A k \in Key : buckets[Pos[k]] = << >>
      BY HmapAssumption DEF Init, Bucket
    <3> QED  BY <3>1 DEF Lookup, Match
  <2>2. Mapped = [k \in Key |-> NULL]
    BY <2>1 DEF Mapped
  <2>3. Todo = [i \in Iter |-> NULL]
    BY DEF Init, Todo, Unused
  <2> QED  BY <2>2, <2>3 DEF Init, Promise!SpecInit
<1>2. IInv /\ [Next]_vars => [Promise!SpecNext]_(Promise!specVars)
  BY StepKeeps
<1> QED
  BY <1>1, <1>2, IInvHolds, PTL DEF Spec, KeepsPromise, Promise!HmapPromise
=============================================================================
