---------------------------- MODULE NodesProofs ----------------------------
(***************************************************************************)
(* Proofs about module Nodes, for any number of elements, any triggers and *)
(* any number of swaps: what is settled works, and nothing is set up       *)
(* twice.                                                                  *)
(***************************************************************************)
EXTENDS Nodes, SequenceTheorems, TLAPS

-----------------------------------------------------------------------------
(* Types.                                                                  *)
Marks == {"added", "settling"}

Data == [hash : SUBSET (Marks \cup No), listeners : Nat, onHandlers : Nat, once : BOOLEAN,
         delayed : BOOLEAN, timeout : BOOLEAN, cancelled : BOOLEAN, loaded : BOOLEAN,
         completed : BOOLEAN]

Element == [above : SUBSET (Nodes \cup {Root}), trigger : AllKinds, class : SUBSET Marks,
            data : Data, polls : Int, loads : Int, orphans : Int, inits : Nat]

Elements == [Nodes -> Element]
SwapSet  == [kids : SUBSET Nodes, elts : SUBSET Nodes]

TypeOK ==
    /\ elt \in Elements /\ used \subseteq Nodes /\ settles \in Seq(SwapSet)
    /\ swaps \in Nat /\ clicks \in Nat /\ handled \in [Nodes -> Nat]
    /\ early \subseteq Nodes /\ lost \subseteq Nodes

-----------------------------------------------------------------------------
(* Trees.  What is above an element is what is above its parent and the    *)
(* element, of two elements above a third one is above the other, and an   *)
(* element is attached with all that is above it.                          *)
Forest(E) ==
    /\ \A n \in Nodes : n \in E[n].above
    /\ \A n \in Nodes : \/ E[n].above = {n}
                        \/ \E p \in (Nodes \cup {Root}) \ {n} :
                              p \in E[n].above /\ Above(E, p) = E[n].above \ {n}
    /\ \A n, m \in Nodes : m \in E[n].above =>
          /\ E[m].above \subseteq E[n].above
          /\ n \in E[m].above => n = m
          /\ Root \in E[n].above => Root \in E[m].above
    /\ \A n, m, k \in Nodes :
          m \in E[n].above /\ k \in E[n].above => m \in E[k].above \/ k \in E[m].above

(* A new element is above nobody.                                          *)
Leaf(E, n) == \A m \in Nodes : n \in E[m].above => m = n

-----------------------------------------------------------------------------
(* One element e, whose handler has been called h times.                   *)

(* However it has come about, nothing is there twice.                      *)
Standing(e, h) ==
    /\ e.data.listeners \in 0..1 /\ e.data.onHandlers \in 0..1
    /\ e.polls = IF e.data.timeout THEN 1 ELSE 0
    /\ e.orphans >= 0
    /\ e.loads \in 0..1
    /\ e.loads = 1 => e.trigger = "load" /\ ~e.data.loaded /\ e.inits > 0
    /\ e.trigger = "load" => e.loads + h <= 1 /\ (e.inits = 0 => h = 0)
    /\ e.data.completed <=> e.inits > 0
    /\ e.inits = 0 => e.data.hash = No

(* What works, once it has been initialised.                               *)
SetUp(e, h) ==
    /\ e.trigger \in {"click", "once", "delay"} => e.data.listeners = 1
    /\ e.trigger = "poll" => e.polls = 1 \/ e.data.cancelled
    /\ e.trigger = "load" => e.loads = 1 \/ h = 1
    /\ e.data.onHandlers = 1

(* What holds of one that is initialised once at most.                     *)
Steady(e, h) ==
    /\ e.inits <= 1
    /\ e.inits = 0 => e.data.listeners = 0 /\ ~e.data.delayed /\ e.orphans = 0 /\ h = 0
    /\ e.trigger = "once" => h <= 1
    /\ Root \in e.above => e.orphans = 0 /\ (e.trigger = "once" /\ h = 1 => e.data.once)

ElementOK(n, e, h) ==
    /\ Standing(e, h)
    /\ Root \in e.above /\ e.inits > 0 => SetUp(e, h)
    /\ n \notin early => Steady(e, h)

-----------------------------------------------------------------------------
(* The page.                                                               *)
New(E, n) == E[n] = NewElement(n, E[n].trigger) /\ Leaf(E, n)

NewOK == \A n \in Nodes \ used : New(elt, n) /\ handled[n] = 0 /\ n \notin early \cup lost

SettlesOK == \A i \in DOMAIN settles : settles[i].kids \subseteq used /\ settles[i].elts \subseteq used

(* A swap that has still to settle will process n.                         *)
Covers(i, n) == elt[n].above \cap settles[i].kids # {}

(* Only an element that came into unsettled content is processed by two    *)
(* swaps, or after it has been initialised.                                *)
CoverOK ==
    \A n \in used \ early :
        /\ \A i, j \in DOMAIN settles : Covers(i, n) /\ Covers(j, n) => i = j
        /\ elt[n].inits > 0 => \A i \in DOMAIN settles : ~Covers(i, n)

(* Who has been brought in, and not by a swap that threw, has been         *)
(* processed by its swap, or will be; the marks are those of swaps to come.*)
OwnOK ==
    /\ \A n \in used \ lost : \/ \E i \in DOMAIN settles : n \in settles[i].kids
                              \/ elt[n].inits > 0 /\ "added" \notin elt[n].class
    /\ \A n \in Nodes : "settling" \in elt[n].class => \E i \in DOMAIN settles : n \in settles[i].elts

Inv ==
    /\ TypeOK /\ Forest(elt) /\ NewOK /\ SettlesOK /\ CoverOK /\ OwnOK
    /\ \A n \in Nodes : ElementOK(n, elt[n], handled[n])

-----------------------------------------------------------------------------
(* Lemmas on sequences and trees.                                          *)
LEMMA RemoveAtProperties ==
    ASSUME NEW S, NEW s \in Seq(S), NEW i \in 1..Len(s)
    PROVE  /\ RemoveAt(s, i) \in Seq(S) /\ Len(RemoveAt(s, i)) = Len(s) - 1
           /\ \A j \in 1..(Len(s) - 1) : RemoveAt(s, i)[j] = IF j < i THEN s[j] ELSE s[j + 1]
<1> DEFINE a == SubSeq(s, 1, i - 1)
           b == SubSeq(s, i + 1, Len(s))
<1>1. /\ Len(s) \in Nat /\ i \in Int /\ 1 <= i /\ i <= Len(s)
      /\ \A j \in 1..Len(s) : s[j] \in S
  BY LenProperties
<1>2. a \in Seq(S) /\ Len(a) = i - 1 /\ \A j \in 1..(i - 1) : a[j] = s[j]
  <2>1. \A j \in 1..(i - 1) : s[j] \in S
    BY <1>1
  <2>2. /\ a \in Seq(S) /\ Len(a) = IF 1 <= i - 1 THEN (i - 1) - 1 + 1 ELSE 0
        /\ \A j \in 1..((i - 1) - 1 + 1) : a[j] = s[1 + j - 1]
    BY <1>1, <2>1, SubSeqProperties
  <2> HIDE DEF a
  <2> QED
    BY <1>1, <2>2
<1>3. b \in Seq(S) /\ Len(b) = Len(s) - i /\ \A j \in 1..(Len(s) - i) : b[j] = s[i + j]
  <2>1. \A j \in (i + 1)..Len(s) : s[j] \in S
    BY <1>1
  <2>2. /\ b \in Seq(S) /\ Len(b) = IF i + 1 <= Len(s) THEN Len(s) - (i + 1) + 1 ELSE 0
        /\ \A j \in 1..(Len(s) - (i + 1) + 1) : b[j] = s[i + 1 + j - 1]
    BY <1>1, <2>1, SubSeqProperties
  <2> HIDE DEF b
  <2> QED
    BY <1>1, <2>2
<1>4. RemoveAt(s, i) = a \o b
  BY DEF RemoveAt
<1> HIDE DEF a, b
<1>5. a \in Seq(S) /\ b \in Seq(S) /\ Len(a) = i - 1 /\ Len(b) = Len(s) - i
  BY <1>2, <1>3
<1>6. a \o b \in Seq(S) /\ Len(a \o b) = Len(s) - 1
  <2>1. a \o b \in Seq(S) /\ Len(a \o b) = Len(a) + Len(b)
    BY <1>5, ConcatProperties
  <2> QED
    BY <1>1, <1>5, <2>1
<1>7. ASSUME NEW j \in 1..(Len(s) - 1)
      PROVE  (a \o b)[j] = IF j < i THEN s[j] ELSE s[j + 1]
  <2>1. j \in 1..(Len(a) + Len(b))
    BY <1>1, <1>5
  <2>2. (a \o b)[j] = IF j <= Len(a) THEN a[j] ELSE b[j - Len(a)]
    BY <1>5, <2>1, ConcatProperties
  <2>3. CASE j < i
    <3>1. j <= Len(a) /\ a[j] = s[j]
      BY <1>1, <1>2, <1>5, <2>3
    <3> QED
      BY <2>2, <2>3, <3>1
  <2>4. CASE ~(j < i)
    <3>1. PICK l \in 1..(Len(s) - i) : l = j - Len(a) /\ i + l = j + 1
      BY <1>1, <1>5, <2>4
    <3>2. b[l] = s[i + l]
      BY <1>3
    <3>3. ~(j <= Len(a))
      BY <1>1, <1>5, <2>4
    <3> QED
      BY <2>2, <2>4, <3>1, <3>2, <3>3
  <2> QED
    BY <2>3, <2>4
<1> QED
  BY <1>4, <1>6, <1>7

LEMMA ParentIs ==
    ASSUME NEW E \in Elements, Forest(E), NEW n \in Nodes
    PROVE  LET p == Parent(E, n)
           IN \/ p = Nowhere /\ E[n].above = {n}
              \/ /\ p \in (Nodes \cup {Root}) \ {n} /\ p \in E[n].above
                 /\ Above(E, p) = E[n].above \ {n}
<1> DEFINE up == E[n].above \ {n}
<1>1. n # Root /\ Above(E, n) = E[n].above
  BY PlacesAssumption DEF Above
<1>2. CASE up = {}
  BY <1>1, <1>2 DEF Parent, Forest
<1>3. CASE up # {}
  <2>1. \E p \in up : Above(E, p) = up
    BY <1>3 DEF Forest
  <2>2. Parent(E, n) = CHOOSE p \in up : Above(E, p) = up
    BY <1>1, <1>3 DEF Parent
  <2>3. Parent(E, n) \in up /\ Above(E, Parent(E, n)) = up
    BY <2>1, <2>2
  <2>4. up \subseteq (Nodes \cup {Root}) \ {n}
    BY DEF Elements, Element
  <2> QED
    BY <2>3, <2>4
<1> QED
  BY <1>2, <1>3

(* Children have the same elements above them. *)
LEMMA ChildrenShare ==
    ASSUME NEW E \in Elements, Forest(E), NEW p \in Nodes \cup {Root}, NEW d \in Children(E, p)
    PROVE  d \in Nodes /\ p # d /\ p \in E[d].above /\ E[d].above \ {d} = Above(E, p)
<1>1. d \in Nodes /\ Parent(E, d) = p
  BY DEF Children
<1>2. p # Nowhere
  BY PlacesAssumption
<1> QED
  BY <1>1, <1>2, ParentIs

(* What is put below p, where it is above nobody, keeps a forest a forest. *)
LEMMA InsertForest ==
    ASSUME NEW E \in Elements, Forest(E), NEW F \in Elements, NEW D \in SUBSET Nodes,
           NEW p \in (Nodes \cup {Root}) \ D,
           \A d \in D : Leaf(E, d),
           \A n \in Nodes : F[n].above = IF n \in D THEN {n} \cup Above(E, p) ELSE E[n].above
    PROVE  Forest(F)
<1>1. \A n \in Nodes \ D : F[n].above = E[n].above /\ E[n].above \cap D = {}
  BY DEF Leaf
<1>2. \A n \in D : F[n].above = {n} \cup Above(E, p)
  OBVIOUS
<1>3. Above(F, p) = Above(E, p) /\ p \in Above(E, p) /\ Above(E, p) \cap D = {}
  <2>1. CASE p = Root
    BY <2>1, PlacesAssumption DEF Above
  <2>2. CASE p \in Nodes \ D
    <3>1. p # Root
      BY <2>2, PlacesAssumption
    <3> QED
      BY <2>2, <3>1, <1>1 DEF Above, Forest
  <2> QED
    BY <2>1, <2>2
<1>4. \A m \in Nodes : m \in Above(E, p) =>
          m \notin D /\ E[m].above \subseteq Above(E, p) /\ (Root \in Above(E, p) => Root \in E[m].above)
  <2> SUFFICES ASSUME NEW m \in Nodes, m \in Above(E, p)
               PROVE  m \notin D /\ E[m].above \subseteq Above(E, p)
                      /\ (Root \in Above(E, p) => Root \in E[m].above)
    OBVIOUS
  <2>1. p \in Nodes /\ Above(E, p) = E[p].above
    BY PlacesAssumption DEF Above
  <2> QED
    BY <1>3, <2>1 DEF Forest
<1>5. \A m, k \in Nodes : m \in Above(E, p) /\ k \in Above(E, p) => m \in E[k].above \/ k \in E[m].above
  BY PlacesAssumption DEF Above, Forest
<1>6. \A n \in Nodes : n \in F[n].above
  BY <1>1, <1>2 DEF Forest
<1>7. ASSUME NEW n \in Nodes
      PROVE  \/ F[n].above = {n}
             \/ \E q \in (Nodes \cup {Root}) \ {n} : q \in F[n].above /\ Above(F, q) = F[n].above \ {n}
  <2>1. CASE n \in D
    <3>1. n # p /\ n \notin Above(E, p)
      BY <1>3, <2>1
    <3> QED
      BY <1>2, <1>3, <2>1, <3>1
  <2>2. CASE n \notin D
    <3>1. CASE E[n].above = {n}
      BY <1>1, <2>2, <3>1
    <3>2. ASSUME NEW q \in (Nodes \cup {Root}) \ {n}, q \in E[n].above, Above(E, q) = E[n].above \ {n}
          PROVE  q \in F[n].above /\ Above(F, q) = F[n].above \ {n}
      <4>1. q \notin D
        BY <1>1, <2>2, <3>2
      <4>2. Above(F, q) = Above(E, q)
        BY <1>1, <4>1 DEF Above
      <4> QED
        BY <1>1, <2>2, <3>2, <4>2
    <3> QED
      BY <3>1, <3>2 DEF Forest
  <2> QED
    BY <2>1, <2>2
<1>8. ASSUME NEW n \in Nodes, NEW m \in Nodes, m \in F[n].above
      PROVE  /\ F[m].above \subseteq F[n].above
             /\ n \in F[m].above => n = m
             /\ Root \in F[n].above => Root \in F[m].above
  <2>1. CASE n \notin D
    BY <1>1, <1>8, <2>1 DEF Forest
  <2>2. CASE n \in D /\ m = n
    BY <2>2
  <2>3. CASE n \in D /\ m # n
    <3>1. m \in Above(E, p) /\ m \notin D
      BY <1>2, <1>4, <1>8, <2>3
    <3>2. F[m].above = E[m].above /\ E[m].above \subseteq Above(E, p) /\ n \notin E[m].above
      BY <1>1, <1>4, <2>3, <3>1
    <3>3. F[n].above = {n} \cup Above(E, p) /\ n # Root
      BY <1>2, <2>3, PlacesAssumption
    <3> QED
      BY <1>4, <3>1, <3>2, <3>3
  <2> QED
    BY <2>1, <2>2, <2>3
<1>9. ASSUME NEW n \in Nodes, NEW m \in Nodes, NEW k \in Nodes, m \in F[n].above, k \in F[n].above
      PROVE  m \in F[k].above \/ k \in F[m].above
  <2>1. CASE n \notin D
    BY <1>1, <1>9, <2>1 DEF Forest
  <2>2. CASE n \in D /\ (m = n \/ k = n)
    BY <1>9, <2>2
  <2>3. CASE n \in D /\ m # n /\ k # n
    <3>1. m \in Above(E, p) /\ k \in Above(E, p) /\ m \notin D /\ k \notin D
      BY <1>2, <1>4, <1>9, <2>3
    <3> QED
      BY <1>1, <1>5, <3>1
  <2> QED
    BY <2>1, <2>2, <2>3
<1> QED
  BY <1>6, <1>7, <1>8, <1>9 DEF Forest

(* What is taken out, with everything below it, does too, and is not       *)
(* attached any more.  A is what was above it.                             *)
LEMMA RemoveForest ==
    ASSUME NEW E \in Elements, Forest(E), NEW F \in Elements, NEW D \in SUBSET Nodes, NEW A,
           \A d \in D : E[d].above \ {d} = A,
           \A n \in Nodes : F[n].above = IF n \in Under(E, D) THEN E[n].above \ A ELSE E[n].above
    PROVE  Forest(F) /\ \A n \in Under(E, D) : Root \notin F[n].above
<1>1. \A n \in Nodes : n \in Under(E, D) <=> \E d \in D : d \in E[n].above
  BY DEF Under
<1>2. \A n \in Nodes : F[n].above \subseteq E[n].above
  OBVIOUS
<1>3. ASSUME NEW d \in D, NEW n \in Nodes, d \in E[n].above
      PROVE  /\ E[d].above = A \cup {d} /\ d \notin A /\ n \notin A
             /\ F[n].above = E[n].above \ A /\ Root \notin F[n].above
             /\ A \subseteq E[n].above
  <2>1. E[d].above = A \cup {d} /\ d \notin A
    BY DEF Forest
  <2>2. n \in Under(E, D)
    BY <1>1, <1>3
  <2>3. n \notin A
    <3> SUFFICES ASSUME n \in A PROVE FALSE
      OBVIOUS
    <3>1. n \in E[d].above
      BY <2>1
    <3>2. n = d
      BY <1>3, <3>1 DEF Forest
    <3> QED
      BY <2>1, <3>2
  <2>4. Root \in E[n].above => Root \in A
    <3>1. d # Root
      BY PlacesAssumption
    <3> QED
      BY <1>3, <2>1, <3>1 DEF Forest
  <2>5. A \subseteq E[n].above
    BY <1>3, <2>1 DEF Forest
  <2> QED
    BY <2>1, <2>2, <2>3, <2>4, <2>5
<1>4. \A n \in Under(E, D) : Root \notin F[n].above
  BY <1>1, <1>3 DEF Under
<1>5. \A n, m \in Nodes : m \in E[n].above /\ m \in Under(E, D) => n \in Under(E, D)
  BY <1>1 DEF Forest
<1>6. ASSUME NEW n \in Nodes, NEW m \in Nodes, m \in F[n].above, m \notin Under(E, D)
      PROVE  n \notin Under(E, D)
  <2> SUFFICES ASSUME n \in Under(E, D) PROVE FALSE
    OBVIOUS
  <2>1. PICK d \in D : d \in E[n].above
    BY <1>1
  <2>2. m \in E[n].above /\ m \notin A
    BY <1>2, <1>3, <1>6, <2>1
  <2>3. d \in E[m].above \/ m \in E[d].above
    BY <2>1, <2>2 DEF Forest
  <2>4. d \notin E[m].above
    BY <1>1, <1>6
  <2>5. m \in A \cup {d}
    BY <1>3, <2>1, <2>3, <2>4
  <2>6. d \in E[d].above
    BY DEF Forest
  <2> QED
    BY <2>2, <2>4, <2>5, <2>6
<1>7. ASSUME NEW n \in Nodes PROVE n \in F[n].above
  <2>1. n \in E[n].above
    BY DEF Forest
  <2>2. CASE n \in Under(E, D)
    <3>1. PICK d \in D : d \in E[n].above
      BY <1>1, <2>2
    <3> QED
      BY <1>3, <2>1, <3>1
  <2> QED
    BY <2>1, <2>2
<1>8. ASSUME NEW n \in Nodes
      PROVE  \/ F[n].above = {n}
             \/ \E q \in (Nodes \cup {Root}) \ {n} : q \in F[n].above /\ Above(F, q) = F[n].above \ {n}
  <2>1. CASE E[n].above = {n}
    BY <1>2, <1>7, <2>1
  <2>2. ASSUME NEW q \in (Nodes \cup {Root}) \ {n}, q \in E[n].above, Above(E, q) = E[n].above \ {n},
               n \notin Under(E, D)
        PROVE  q \in F[n].above /\ Above(F, q) = F[n].above \ {n}
    <3>1. F[n].above = E[n].above
      BY <2>2
    <3>2. Above(F, q) = Above(E, q)
      BY <1>5, <2>2 DEF Above
    <3> QED
      BY <2>2, <3>1, <3>2
  <2>3. ASSUME NEW q \in (Nodes \cup {Root}) \ {n}, q \in E[n].above, Above(E, q) = E[n].above \ {n},
               NEW d \in D, d \in E[n].above, d # n
        PROVE  q \in F[n].above /\ Above(F, q) = F[n].above \ {n}
    <3>1. d \in Above(E, q)
      BY <2>3
    <3>2. d # Root
      BY PlacesAssumption
    <3>3. q \in Nodes /\ q # Root /\ Above(E, q) = E[q].above /\ Above(F, q) = F[q].above
      BY <3>1, <3>2, PlacesAssumption DEF Above
    <3>4. q \notin A /\ F[q].above = E[q].above \ A /\ F[n].above = E[n].above \ A
      BY <1>3, <2>3, <3>1, <3>3
    <3> QED
      BY <2>3, <3>3, <3>4
  <2>4. ASSUME n \in D
        PROVE  F[n].above = {n}
    <3>1. n \in E[n].above
      BY DEF Forest
    <3> QED
      BY <1>3, <2>4, <3>1
  <2> QED
    BY <1>1, <2>1, <2>2, <2>3, <2>4 DEF Forest
<1>9. ASSUME NEW n \in Nodes, NEW m \in Nodes, m \in F[n].above
      PROVE  /\ F[m].above \subseteq F[n].above
             /\ n \in F[m].above => n = m
             /\ Root \in F[n].above => Root \in F[m].above
  <2>1. m \in E[n].above
    BY <1>2, <1>9
  <2>2. n \in F[m].above => n = m
    BY <1>2, <2>1 DEF Forest
  <2>3. CASE m \in Under(E, D)
    <3>1. n \in Under(E, D)
      BY <1>5, <2>1, <2>3
    <3>2. F[m].above = E[m].above \ A /\ F[n].above = E[n].above \ A
      BY <2>3, <3>1 DEF Under
    <3>3. E[m].above \subseteq E[n].above /\ Root \notin F[n].above
      BY <1>4, <2>1, <3>1 DEF Forest
    <3> QED
      BY <2>2, <3>2, <3>3
  <2>4. CASE m \notin Under(E, D)
    <3>1. n \notin Under(E, D)
      BY <1>6, <1>9, <2>4
    <3> QED
      BY <2>1, <2>2, <2>4, <3>1 DEF Forest
  <2> QED
    BY <2>3, <2>4
<1>10. ASSUME NEW n \in Nodes, NEW m \in Nodes, NEW k \in Nodes, m \in F[n].above, k \in F[n].above
       PROVE  m \in F[k].above \/ k \in F[m].above
  <2>1. m \in E[k].above \/ k \in E[m].above
    BY <1>2, <1>10 DEF Forest
  <2>2. CASE n \notin Under(E, D)
    BY <1>5, <1>10, <2>1, <2>2
  <2>3. CASE n \in Under(E, D)
    <3>1. m \notin A /\ k \notin A
      BY <1>1, <1>3, <1>10, <2>3
    <3> QED
      BY <2>1, <3>1
  <2> QED
    BY <2>2, <2>3
<1> QED
  BY <1>4, <1>7, <1>8, <1>9, <1>10 DEF Forest

-----------------------------------------------------------------------------
(* Lemmas on one element.                                                  *)
LEMMA NewIsOK ==
    ASSUME NEW n \in Nodes, NEW k \in AllKinds
    PROVE  /\ NewElement(n, k) \in Element /\ Standing(NewElement(n, k), 0)
           /\ Steady(NewElement(n, k), 0)
BY DEF NewElement, Element, Data, Blank, No, Marks, Standing, Steady

LEMMA DeInitTyped == \A e \in Element : DeInitNode(e) \in Element
<1> SUFFICES ASSUME NEW e \in Element PROVE DeInitNode(e) \in Element
  OBVIOUS
<1> DEFINE p == IF e.data.timeout THEN e.polls - 1 ELSE e.polls
           o == IF e.data.delayed THEN e.orphans + 1 ELSE e.orphans
           d == [Blank EXCEPT !.completed = e.data.completed]
<1>1. e.data \in Data /\ e.polls \in Int /\ e.orphans \in Int
  BY DEF Element
<1>2. e.data.completed \in BOOLEAN
  BY <1>1 DEF Data
<1>3. p \in Int /\ o \in Int
  BY <1>1
<1>4. d \in Data
  BY <1>2 DEF Blank, Data, No
<1>5. DeInitNode(e) = [e EXCEPT !.polls = p, !.orphans = o, !.data = d]
  BY DEF DeInitNode
<1> HIDE DEF p, o, d
<1> QED
  BY <1>3, <1>4, <1>5 DEF Element

CleanedUp(e, A) == [DeInitNode(e) EXCEPT !.above = A]

(* Taken out with clean-up: nothing is left but the timers. *)
LEMMA DeInitOK ==
    ASSUME NEW e \in Element, NEW h \in Nat, Standing(e, h), NEW A \in SUBSET (Nodes \cup {Root}),
           NEW f, f = CleanedUp(e, A)
    PROVE  /\ f \in Element /\ Standing(f, h)
           /\ f.above = A /\ f.trigger = e.trigger /\ f.class = e.class /\ f.inits = e.inits
           /\ Steady(e, h) /\ Root \notin A => Steady(f, h)
<1> DEFINE d == [Blank EXCEPT !.completed = e.data.completed]
<1>1. /\ e.above \in SUBSET (Nodes \cup {Root}) /\ e.trigger \in AllKinds /\ e.class \in SUBSET Marks
      /\ e.data \in Data /\ e.polls \in Int /\ e.loads \in Int /\ e.orphans \in Int /\ e.inits \in Nat
  BY DEF Element
<1>2. /\ e.data.completed \in BOOLEAN /\ e.data.timeout \in BOOLEAN /\ e.data.delayed \in BOOLEAN
  BY <1>1 DEF Data
<1>3. /\ d \in Data /\ d.listeners = 0 /\ d.onHandlers = 0 /\ d.completed = e.data.completed
      /\ d.timeout = FALSE /\ d.loaded = FALSE /\ d.hash = No /\ d.delayed = FALSE /\ d.once = FALSE
      /\ d.cancelled = FALSE
  BY <1>2 DEF Blank, Data, No
<1> HIDE DEF d
<1>4. DeInitNode(e).above = e.above /\ DeInitNode(e).data = d
  BY DEF DeInitNode, d, Element
<1>5. f \in Element
  BY DeInitTyped DEF Element, CleanedUp
<1>6. /\ f.above = A /\ f.trigger = e.trigger /\ f.class = e.class /\ f.inits = e.inits /\ f.data = d
      /\ f.loads = e.loads /\ f.polls = IF e.data.timeout THEN e.polls - 1 ELSE e.polls
      /\ f.orphans = IF e.data.delayed THEN e.orphans + 1 ELSE e.orphans
  BY <1>4 DEF DeInitNode, d, Element, CleanedUp
<1>7. Standing(f, h)
  BY <1>1, <1>2, <1>3, <1>6 DEF Standing
<1>8. Steady(e, h) /\ Root \notin A => Steady(f, h)
  BY <1>1, <1>2, <1>3, <1>6 DEF Steady
<1> QED
  BY <1>5, <1>6, <1>7, <1>8

LEMMA CompletedIsTyped ==
    ASSUME NEW a \in Element, NEW f, f = [a EXCEPT !.inits = @ + 1, !.data.completed = TRUE]
    PROVE  f \in Element
<1> DEFINE c == [a.data EXCEPT !.completed = TRUE]
           i == a.inits + 1
<1>1. a.data \in Data /\ i \in Nat
  BY DEF Element
<1>2. c \in Data
  BY <1>1 DEF Data
<1>3. f = [a EXCEPT !.inits = i, !.data = c]
  BY DEF Element
<1> HIDE DEF c, i
<1> QED
  BY <1>1, <1>2, <1>3 DEF Element

(* What processNode does to each element it reaches. *)
Processed(e) ==
    LET new   == MaybeDeInitAndHash(e)
        ready == ProcessHxOnWildcard(new)
    IN IF new.data.hash # e.data.hash THEN InitNode(ready) ELSE ready

(* It is set up then, and if it was not before, for the first time. *)
LEMMA ProcessedOK ==
    ASSUME NEW e \in Element, NEW h \in Nat, Standing(e, h)
    PROVE  LET f == Processed(e)
           IN /\ f \in Element /\ Standing(f, h) /\ f.inits > 0
              /\ f.above = e.above /\ f.trigger = e.trigger /\ f.class = e.class
              /\ e.inits = 0 \/ SetUp(e, h) => SetUp(f, h)
              /\ e.inits = 0 /\ Steady(e, h) => Steady(f, h)
<1> DEFINE f == Processed(e)
           B == [Blank EXCEPT !.completed = e.data.completed]
<1>1. /\ e.above \in SUBSET (Nodes \cup {Root}) /\ e.trigger \in AllKinds /\ e.class \in SUBSET Marks
      /\ e.data \in Data /\ e.polls \in Int /\ e.loads \in Int /\ e.orphans \in Int /\ e.inits \in Nat
  BY DEF Element
<1>2. /\ e.data.completed \in BOOLEAN /\ e.data.timeout \in BOOLEAN /\ e.data.delayed \in BOOLEAN
      /\ e.data.once \in BOOLEAN /\ e.data.loaded \in BOOLEAN /\ e.data.cancelled \in BOOLEAN
  BY <1>1 DEF Data
<1>3. e.inits = 0 => e.data.hash # e.class
  BY <1>1 DEF Standing, No, Marks
<1>4. CASE e.data.hash = e.class
  <2>1. f = [e EXCEPT !.data.onHandlers = 1]
    BY <1>4 DEF Processed, MaybeDeInitAndHash, AttributeHash, ProcessHxOnWildcard
  <2> HIDE DEF f
  <2>2. /\ f.above = e.above /\ f.trigger = e.trigger /\ f.class = e.class /\ f.inits = e.inits
        /\ f.loads = e.loads /\ f.polls = e.polls /\ f.orphans = e.orphans
        /\ f.data = [e.data EXCEPT !.onHandlers = 1]
    BY <2>1 DEF Element
  <2>3. f \in Element
    BY <1>1, <2>1 DEF Element, Data
  <2>4. /\ f.data.listeners = e.data.listeners /\ f.data.onHandlers = 1
        /\ f.data.completed = e.data.completed /\ f.data.timeout = e.data.timeout
        /\ f.data.loaded = e.data.loaded /\ f.data.hash = e.data.hash
        /\ f.data.cancelled = e.data.cancelled
    BY <1>1, <2>2 DEF Data
  <2>5. e.inits > 0
    BY <1>1, <1>3, <1>4
  <2> QED
    BY <1>1, <1>2, <2>2, <2>3, <2>4, <2>5 DEF Standing, SetUp, f
<1>5. CASE e.data.hash # e.class
  <2> DEFINE p == IF e.data.timeout THEN e.polls - 1 ELSE e.polls
             o == IF e.data.delayed THEN e.orphans + 1 ELSE e.orphans
             m == [DeInitNode(e) EXCEPT !.data.hash = e.class]
             d == [B EXCEPT !.hash = e.class, !.onHandlers = 1]
             r == ProcessHxOnWildcard(m)
  <2>1. /\ d \in Data /\ d.listeners = 0 /\ d.onHandlers = 1 /\ d.completed = e.data.completed
        /\ d.timeout = FALSE /\ d.loaded = FALSE /\ d.hash = e.class /\ d.delayed = FALSE
        /\ d.once = FALSE /\ d.cancelled = FALSE
    BY <1>1, <1>2 DEF Blank, Data, No
  <2>2. f = InitNode(r)
    <3>1. MaybeDeInitAndHash(e) = m
      BY <1>5 DEF MaybeDeInitAndHash, AttributeHash
    <3>2. m.data.hash = e.class
      BY DEF DeInitNode, Element, Blank
    <3> HIDE DEF m
    <3> QED
      BY <1>5, <3>1, <3>2 DEF Processed
  <2>3. /\ m.above = e.above /\ m.trigger = e.trigger /\ m.class = e.class /\ m.inits = e.inits
        /\ m.loads = e.loads /\ m.polls = p /\ m.orphans = o
        /\ m.data = [B EXCEPT !.hash = e.class]
    BY DEF DeInitNode, Element
  <2>4. m \in Element
    <3> DEFINE i == DeInitNode(e)
               c == [i.data EXCEPT !.hash = e.class]
    <3>1. i \in Element
      BY DeInitTyped
    <3> HIDE DEF i
    <3>2. i.data \in Data
      BY <3>1 DEF Element
    <3>3. c \in Data
      BY <1>1, <3>2 DEF Data
    <3>4. m = [i EXCEPT !.data = c]
      BY DEF i
    <3> HIDE DEF c, m
    <3> QED
      BY <3>1, <3>3, <3>4 DEF Element
  <2> HIDE DEF m
  <2>5. /\ r.above = e.above /\ r.trigger = e.trigger /\ r.class = e.class /\ r.inits = e.inits
        /\ r.data = d /\ r.loads = e.loads /\ r.polls = p /\ r.orphans = o
    BY <2>3, <2>4 DEF ProcessHxOnWildcard, Element
  <2>6. r \in Element /\ p \in Int /\ o \in Int
    BY <1>1, <2>1, <2>4, <2>5 DEF ProcessHxOnWildcard, Element, Data
  <2> HIDE DEF r, d, f, B
  <2> DEFINE a == AddTriggerHandler(r)
  <2>7. f = [a EXCEPT !.inits = @ + 1, !.data.completed = TRUE]
    BY <2>2 DEF InitNode
  <2>8. CASE e.trigger = "load" /\ ~e.data.completed
    <3>1. a = [r EXCEPT !.loads = @ + 1]
      BY <2>1, <2>5, <2>8 DEF AddTriggerHandler
    <3>2. /\ f.above = e.above /\ f.trigger = e.trigger /\ f.class = e.class /\ f.inits = e.inits + 1
          /\ f.loads = e.loads + 1 /\ f.polls = p /\ f.orphans = o
          /\ f.data = [d EXCEPT !.completed = TRUE]
      BY <2>6, <2>5, <2>7, <3>1 DEF Element
    <3>3. f \in Element
      <4>1. a \in Element
        BY <2>6, <3>1 DEF Element
      <4> QED
        BY <2>7, <4>1, CompletedIsTyped
    <3>4. /\ f.data.listeners = 0 /\ f.data.onHandlers = 1 /\ f.data.completed = TRUE
          /\ f.data.timeout = FALSE /\ f.data.loaded = FALSE
      BY <2>1, <3>2 DEF Data
    <3>5. e.inits = 0 /\ e.loads = 0 /\ h = 0
      BY <1>1, <1>2, <2>8 DEF Standing
    <3>6. Standing(f, h)
      BY <1>1, <1>2, <2>8, <3>2, <3>4, <3>5 DEF Standing
    <3>7. SetUp(f, h)
      BY <2>8, <3>2, <3>4, <3>5 DEF SetUp
    <3>8. Steady(e, h) => Steady(f, h)
      BY <1>1, <1>2, <2>8, <3>2, <3>5 DEF Steady
    <3> QED
      BY <1>1, <3>2, <3>3, <3>6, <3>7, <3>8 DEF f
  <2>9. CASE e.trigger = "poll"
    <3>1. a = [r EXCEPT !.polls = @ + 1, !.data.timeout = TRUE]
      BY <2>5, <2>9 DEF AddTriggerHandler
    <3>2. /\ f.above = e.above /\ f.trigger = e.trigger /\ f.class = e.class /\ f.inits = e.inits + 1
          /\ f.loads = e.loads /\ f.polls = p + 1 /\ f.orphans = o
          /\ f.data = [d EXCEPT !.timeout = TRUE, !.completed = TRUE]
      BY <2>6, <2>5, <2>7, <3>1 DEF Element
    <3>3. f \in Element
      <4>1. a \in Element
        <5> DEFINE g == [r.data EXCEPT !.timeout = TRUE]
                   i == p + 1
        <5>1. g \in Data
          BY <2>1, <2>5 DEF Data
        <5>2. a = [r EXCEPT !.polls = i, !.data = g]
          BY <2>5, <2>6, <3>1 DEF Element
        <5>3. i \in Int
          BY <2>6
        <5> HIDE DEF g, i, a
        <5> QED
          BY <2>6, <5>1, <5>2, <5>3 DEF Element
      <4> QED
        BY <2>7, <4>1, CompletedIsTyped
    <3>4. /\ f.data.listeners = 0 /\ f.data.onHandlers = 1 /\ f.data.completed = TRUE
          /\ f.data.timeout = TRUE /\ f.data.loaded = FALSE
      BY <2>1, <3>2 DEF Data
    <3>5. p = 0 /\ e.loads = 0
      BY <1>1, <1>2, <2>9 DEF Standing
    <3>6. Standing(f, h)
      BY <1>1, <1>2, <2>9, <3>2, <3>4, <3>5 DEF Standing
    <3>7. SetUp(f, h)
      BY <2>9, <3>2, <3>4, <3>5 DEF SetUp
    <3>8. e.inits = 0 /\ Steady(e, h) => Steady(f, h)
      BY <1>1, <1>2, <2>9, <3>2, <3>5 DEF Steady
    <3> QED
      BY <1>1, <3>2, <3>3, <3>6, <3>7, <3>8 DEF f
  <2>10. CASE ~(e.trigger = "load" /\ ~e.data.completed) /\ e.trigger # "poll"
    <3>1. a = [r EXCEPT !.data.listeners = @ + 1]
      BY <2>1, <2>5, <2>10 DEF AddTriggerHandler
    <3>2. /\ f.above = e.above /\ f.trigger = e.trigger /\ f.class = e.class /\ f.inits = e.inits + 1
          /\ f.loads = e.loads /\ f.polls = p /\ f.orphans = o
          /\ f.data = [d EXCEPT !.listeners = @ + 1, !.completed = TRUE]
      BY <2>6, <2>5, <2>7, <3>1 DEF Element
    <3>3. f \in Element
      <4>1. a \in Element
        BY <2>1, <2>5, <2>6, <3>1 DEF Element, Data
      <4> QED
        BY <2>7, <4>1, CompletedIsTyped
    <3>4. /\ f.data.listeners = 1 /\ f.data.onHandlers = 1 /\ f.data.completed = TRUE
          /\ f.data.timeout = FALSE /\ f.data.loaded = FALSE
      BY <2>1, <3>2 DEF Data
    <3>5. p = 0 /\ (e.trigger = "load" => e.inits > 0)
      BY <1>1, <1>2, <2>10 DEF Standing
    <3>6. Standing(f, h)
      BY <1>1, <1>2, <2>10, <3>2, <3>4, <3>5 DEF Standing
    <3>7. e.inits = 0 \/ SetUp(e, h) => SetUp(f, h)
      BY <1>1, <2>10, <3>2, <3>4, <3>5 DEF SetUp
    <3>8. e.inits = 0 /\ Steady(e, h) => Steady(f, h)
      BY <1>1, <1>2, <2>10, <3>2, <3>5 DEF Steady
    <3> QED
      BY <1>1, <3>2, <3>3, <3>6, <3>7, <3>8 DEF f
  <2> QED
    BY <2>8, <2>9, <2>10
<1> QED
  BY <1>4, <1>5

LEMMA SameForest ==
    ASSUME NEW E \in Elements, Forest(E), NEW F \in Elements,
           \A n \in Nodes : F[n].above = E[n].above
    PROVE  Forest(F)
<1>1. \A p \in Nodes \cup {Root} : Above(F, p) = Above(E, p)
  BY DEF Above
<1>2. \A n \in Nodes : \/ F[n].above = {n}
                       \/ \E p \in (Nodes \cup {Root}) \ {n} :
                             p \in F[n].above /\ Above(F, p) = F[n].above \ {n}
  BY <1>1 DEF Forest
<1> QED
  BY <1>2 DEF Forest

-----------------------------------------------------------------------------
(* A swap in progress.                                                     *)
SwapType == [elt : Elements, kids : SUBSET Nodes, elts : SUBSET Nodes]

(* New content is set up in no way. *)
KidOK(e) == e.class = {"added"} /\ e.inits = 0 /\ Standing(e, 0) /\ Steady(e, 0)

(* What it leaves of an element that was there before. *)
Left(n, e) ==
    /\ e.above \subseteq elt[n].above /\ e.class = elt[n].class /\ e.inits = elt[n].inits
    /\ Root \in e.above => e = elt[n]
    /\ Standing(e, handled[n]) /\ (n \notin early => Steady(e, handled[n]))

SwapOK(W) ==
    /\ W \in SwapType /\ Forest(W.elt)
    /\ W.kids \subseteq Nodes \ used /\ W.elts \subseteq used \cup W.kids
    /\ \A n \in Nodes \ used : Leaf(W.elt, n)
    /\ \A n \in Nodes \ (used \cup W.kids) : W.elt[n] = elt[n]
    /\ \A n \in W.kids : KidOK(W.elt[n])
    /\ \A n \in used : Left(n, W.elt[n])

LEMMA StartOK ==
    ASSUME Inv, NEW t \in used \cup {Root}
    PROVE  SwapOK([elt |-> elt, kids |-> {}, elts |-> {t} \ {Root}])
<1> DEFINE W == [elt |-> elt, kids |-> {}, elts |-> {t} \ {Root}]
<1>1. W \in SwapType
  BY DEF Inv, TypeOK, SwapType
<1>2. W.elt = elt /\ W.kids = {} /\ W.elts \subseteq used
  OBVIOUS
<1> HIDE DEF W
<1>3. \A n \in used : Left(n, elt[n])
  BY DEF Inv, TypeOK, Left, ElementOK
<1> QED
  BY <1>1, <1>2, <1>3 DEF SwapOK, Inv, NewOK, New, W

(* A swap T in progress, after new content D has been put into W. *)
Inserted(T, W, D) ==
    /\ SwapOK(T) /\ T.kids = W.kids \cup D /\ T.elts = W.elts
    /\ \A n \in Nodes \ D : T.elt[n] = W.elt[n]

LEMMA InsertOK ==
    ASSUME Inv, NEW W, SwapOK(W), NEW D \in SUBSET (Nodes \ (used \cup W.kids)),
           NEW p \in used \cup {Root}
    PROVE  Inserted(InsertNodes(W, p, D), W, D)
<1> DEFINE T == InsertNodes(W, p, D)
           A == Above(W.elt, p)
<1>1. /\ W.elt \in Elements /\ W.kids \in SUBSET Nodes /\ W.elts \in SUBSET Nodes /\ Forest(W.elt)
      /\ used \subseteq Nodes /\ p \in Nodes \cup {Root} /\ p \notin D
  BY PlacesAssumption DEF SwapOK, SwapType, Inv, TypeOK
<1>2. A \in SUBSET (Nodes \cup {Root}) /\ A \cap (Nodes \ used) = {}
  <2>1. CASE p = Root
    BY <2>1, PlacesAssumption DEF Above
  <2>2. CASE p \in used
    <3>1. A = W.elt[p].above /\ p \in Nodes
      BY <1>1, <2>2, PlacesAssumption DEF Above
    <3> QED
      BY <1>1, <2>2, <3>1 DEF SwapOK, Leaf, Elements, Element
  <2> QED
    BY <2>1, <2>2
<1>3. /\ T.kids = W.kids \cup D /\ T.elts = W.elts
      /\ T.elt = [n \in Nodes |->
                    IF n \in D THEN [W.elt[n] EXCEPT !.above = {n} \cup A, !.class = {"added"}]
                    ELSE W.elt[n]]
  BY <1>1 DEF InsertNodes, SwapOK, SwapType
<1> HIDE DEF A
<1>4. ASSUME NEW n \in D
      PROVE  T.elt[n] \in Element /\ T.elt[n].above = {n} \cup A /\ KidOK(T.elt[n])
  <2>1. /\ n \in Nodes /\ W.elt[n] = elt[n] /\ elt[n].trigger \in AllKinds
        /\ elt[n] = NewElement(n, elt[n].trigger)
    BY DEF SwapOK, Inv, NewOK, New, TypeOK, Elements, Element
  <2> DEFINE e == W.elt[n]
             f == [e EXCEPT !.above = {n} \cup A, !.class = {"added"}]
  <2>2. e \in Element /\ Standing(e, 0) /\ Steady(e, 0) /\ e.inits = 0
    BY <2>1, NewIsOK DEF NewElement
  <2>3. {n} \cup A \in SUBSET (Nodes \cup {Root})
    BY <1>2, <2>1
  <2>4. T.elt[n] = f
    BY <1>3, <2>1
  <2> HIDE DEF e
  <2>5. /\ f \in Element /\ f.above = {n} \cup A /\ f.class = {"added"} /\ f.inits = 0
        /\ f.trigger = e.trigger /\ f.data = e.data /\ f.polls = e.polls
        /\ f.loads = e.loads /\ f.orphans = e.orphans
    BY <2>2, <2>3 DEF Element, Marks
  <2> HIDE DEF f
  <2>6. Standing(f, 0) /\ Steady(f, 0)
    BY <2>2, <2>5 DEF Standing, Steady
  <2> QED
    BY <2>4, <2>5, <2>6 DEF KidOK
<1>5. \A n \in Nodes \ D : T.elt[n] = W.elt[n]
  BY <1>3
<1>6. T.elt \in Elements
  BY <1>1, <1>3, <1>4 DEF Elements
<1>7. T \in SwapType
  <2> HIDE DEF A
  <2>1. PICK E, K : E = T.elt /\ K = W.kids \cup D
    OBVIOUS
  <2>2. T = [W EXCEPT !.elt = E, !.kids = K]
    BY <1>1, <1>3, <2>1 DEF InsertNodes, SwapOK, SwapType
  <2>3. E \in Elements /\ K \in SUBSET Nodes /\ W \in SwapType
    BY <1>1, <1>6, <2>1 DEF SwapOK
  <2> QED
    BY <2>2, <2>3 DEF SwapType
<1> HIDE DEF T
<1>8. Forest(T.elt)
  <2>1. \A d \in D : Leaf(W.elt, d)
    BY DEF SwapOK
  <2>2. \A n \in Nodes : T.elt[n].above = IF n \in D THEN {n} \cup Above(W.elt, p) ELSE W.elt[n].above
    BY <1>4, <1>5 DEF A
  <2>3. p \in (Nodes \cup {Root}) \ D
    BY <1>1
  <2> QED
    BY <1>1, <1>6, <2>1, <2>2, <2>3, InsertForest
<1>9. \A n \in Nodes \ used : Leaf(T.elt, n)
  <2> SUFFICES ASSUME NEW n \in Nodes \ used, NEW m \in Nodes, n \in T.elt[m].above PROVE m = n
    BY DEF Leaf
  <2>1. CASE m \in D
    BY <1>2, <1>4, <2>1
  <2>2. CASE m \notin D
    BY <1>5, <2>2 DEF SwapOK, Leaf
  <2> QED
    BY <2>1, <2>2
<1>10. /\ T.kids \subseteq Nodes \ used /\ T.elts \subseteq used \cup T.kids
       /\ \A n \in Nodes \ (used \cup T.kids) : T.elt[n] = elt[n]
  BY <1>3, <1>5 DEF SwapOK
<1>11. \A n \in T.kids : KidOK(T.elt[n])
  <2>1. \A n \in W.kids \ D : T.elt[n] = W.elt[n] /\ KidOK(W.elt[n])
    BY <1>1, <1>5 DEF SwapOK
  <2> QED
    BY <1>3, <1>4, <2>1
<1>12. \A n \in used : Left(n, T.elt[n])
  BY <1>1, <1>5 DEF SwapOK
<1> QED
  BY <1>3, <1>5, <1>7, <1>8, <1>9, <1>10, <1>11, <1>12 DEF SwapOK, Inserted, T

(* Taking out changes where elements are and nothing else of them.        *)
Moved(F, E, D) ==
    \A m \in Nodes :
        /\ F[m].above \subseteq E[m].above
        /\ F[m].class = E[m].class /\ F[m].inits = E[m].inits
        /\ F[m].trigger = E[m].trigger /\ F[m].data = E[m].data
        /\ F[m].polls = E[m].polls /\ F[m].loads = E[m].loads
        /\ F[m].orphans = E[m].orphans
        /\ m \notin Under(E, D) => F[m] = E[m]
        /\ m \in Under(E, D) => Root \notin F[m].above

LEMMA TakeOutIs ==
    ASSUME NEW E \in Elements, Forest(E), NEW D \in SUBSET Nodes, NEW A,
           \A d \in D : E[d].above \ {d} = A
    PROVE  LET F == TakeOut(E, D)
           IN F \in Elements /\ Forest(F) /\ Moved(F, E, D)
<1> DEFINE F == TakeOut(E, D)
           U == Under(E, D)
           gone == UNION {E[d].above \ {d} : d \in D}
<1>1. F = [m \in Nodes |-> IF m \in U THEN [E[m] EXCEPT !.above = @ \ gone] ELSE E[m]]
  BY DEF TakeOut
<1>2. D # {} => gone = A
  OBVIOUS
<1>3. \A m \in U : D # {}
  BY DEF Under
<1> HIDE DEF gone, F, U
<1>4. ASSUME NEW m \in Nodes
      PROVE  /\ F[m] \in Element
             /\ F[m].above = IF m \in U THEN E[m].above \ A ELSE E[m].above
             /\ F[m].class = E[m].class /\ F[m].inits = E[m].inits
             /\ F[m].trigger = E[m].trigger /\ F[m].data = E[m].data
             /\ F[m].polls = E[m].polls /\ F[m].loads = E[m].loads
             /\ F[m].orphans = E[m].orphans
             /\ m \notin U => F[m] = E[m]
  <2>1. E[m] \in Element
    BY DEF Elements
  <2>2. F[m] = IF m \in U THEN [E[m] EXCEPT !.above = E[m].above \ A] ELSE E[m]
    BY <1>1, <1>2, <1>3, <2>1 DEF Element
  <2> QED
    BY <2>1, <2>2 DEF Element
<1>5. F \in Elements
  BY <1>1, <1>4 DEF Elements
<1>6. Forest(F) /\ \A m \in U : Root \notin F[m].above
  <2>1. \A m \in Nodes : F[m].above = IF m \in U THEN E[m].above \ A ELSE E[m].above
    BY <1>4
  <2> QED
    BY <1>5, <2>1, RemoveForest DEF U
<1> QED
  BY <1>4, <1>5, <1>6 DEF Moved, F, U

LEMMA TakeOutOK ==
    ASSUME Inv, NEW W, SwapOK(W), NEW D \in SUBSET (used \cup W.kids), NEW A,
           \A d \in D : W.elt[d].above \ {d} = A,
           NEW T, T = [W EXCEPT !.elt = TakeOut(@, D)]
    PROVE  SwapOK(T) /\ T.kids = W.kids
<1>1. PICK F : F = TakeOut(W.elt, D)
  OBVIOUS
<1>2. /\ W.elt \in Elements /\ W.kids \in SUBSET Nodes /\ W.elts \in SUBSET Nodes /\ Forest(W.elt)
      /\ used \subseteq Nodes /\ D \in SUBSET Nodes /\ W \in SwapType
  BY DEF SwapOK, SwapType, Inv, TypeOK
<1>3. F \in Elements /\ Forest(F) /\ Moved(F, W.elt, D)
  BY <1>1, <1>2, TakeOutIs
<1>4. T \in SwapType /\ T.elt = F /\ T.kids = W.kids /\ T.elts = W.elts
  <2>1. T = [W EXCEPT !.elt = F]
    BY <1>1, <1>2 DEF SwapType
  <2> QED
    BY <1>2, <1>3, <2>1 DEF SwapType
<1>5. \A n \in Nodes : Root \in F[n].above => F[n] = W.elt[n]
  BY <1>3 DEF Moved
<1>6. ASSUME NEW n \in Nodes
      PROVE  \A h : /\ Standing(W.elt[n], h) => Standing(F[n], h)
                    /\ Steady(W.elt[n], h) => Steady(F[n], h)
  BY <1>3, <1>6 DEF Standing, Steady, Moved
<1>7. \A n \in Nodes \ used : Leaf(F, n)
  BY <1>3 DEF SwapOK, Leaf, Moved
<1>8. ASSUME NEW n \in Nodes \ (used \cup W.kids) PROVE F[n] = elt[n]
  <2>1. W.elt[n] = NewElement(n, elt[n].trigger) /\ W.elt[n] = elt[n]
    BY <1>8 DEF SwapOK, Inv, NewOK, New
  <2>2. W.elt[n].above = {n}
    BY <2>1 DEF NewElement
  <2>3. n \notin Under(W.elt, D)
    BY <1>8, <2>2 DEF Under
  <2> QED
    BY <1>3, <1>8, <2>1, <2>3 DEF Moved
<1>9. ASSUME NEW n \in W.kids PROVE KidOK(F[n])
  <2>1. KidOK(W.elt[n]) /\ n \in Nodes
    BY <1>2 DEF SwapOK
  <2> QED
    BY <1>3, <1>6, <2>1 DEF KidOK, Moved
<1>10. ASSUME NEW n \in used PROVE Left(n, F[n])
  <2>1. Left(n, W.elt[n]) /\ n \in Nodes
    BY <1>2 DEF SwapOK
  <2> QED
    BY <1>3, <1>5, <1>6, <2>1 DEF Left, Moved
<1> QED
  BY <1>3, <1>4, <1>7, <1>8, <1>9, <1>10 DEF SwapOK

LEMMA RemoveOK ==
    ASSUME Inv, NEW W, SwapOK(W), NEW D \in SUBSET (used \cup W.kids), NEW A,
           \A d \in D : W.elt[d].above \ {d} = A
    PROVE  LET T == RemoveElements(W, D)
           IN SwapOK(T) /\ T.kids = W.kids /\ T.elts = W.elts
<1> DEFINE T == RemoveElements(W, D)
           U == Under(W.elt, D)
           gone == UNION {W.elt[d].above \ {d} : d \in D}
<1>1. /\ W.elt \in Elements /\ W.kids \in SUBSET Nodes /\ W.elts \in SUBSET Nodes /\ Forest(W.elt)
      /\ used \subseteq Nodes /\ D \in SUBSET Nodes
  BY DEF SwapOK, SwapType, Inv, TypeOK
<1>2. /\ T.kids = W.kids /\ T.elts = W.elts
      /\ T.elt = [n \in Nodes |->
                    IF n \in U THEN [DeInitNode(W.elt[n]) EXCEPT !.above = @ \ gone] ELSE W.elt[n]]
      /\ T = [W EXCEPT !.elt = T.elt]
  BY <1>1 DEF RemoveElements, SwapOK, SwapType
<1>3. D # {} => gone = A
  OBVIOUS
<1>4. \A n \in U : n \in Nodes /\ D # {} /\ n \in used \cup W.kids
  <2> SUFFICES ASSUME NEW n \in U PROVE n \in Nodes /\ D # {} /\ n \in used \cup W.kids
    OBVIOUS
  <2>1. n \in Nodes
    BY DEF Under
  <2>2. PICK d \in D : d \in W.elt[n].above
    BY DEF Under
  <2>3. ASSUME n \notin used \cup W.kids PROVE FALSE
    <3>1. W.elt[n] = NewElement(n, elt[n].trigger)
      BY <2>1, <2>3 DEF SwapOK, Inv, NewOK, New
    <3>2. W.elt[n].above = {n}
      BY <3>1 DEF NewElement
    <3> QED
      BY <2>2, <2>3, <3>2
  <2> QED
    BY <2>1, <2>2, <2>3
<1> HIDE DEF gone, U
<1>5. ASSUME NEW n \in U
      PROVE  LET e == W.elt[n]
                 B == e.above \ A
             IN /\ T.elt[n] = CleanedUp(e, B)
                /\ e \in Element /\ B \in SUBSET (Nodes \cup {Root})
  <2>1. W.elt[n] \in Element /\ n \in Nodes
    BY <1>1, <1>4 DEF Elements
  <2>2. DeInitNode(W.elt[n]).above = W.elt[n].above
    BY <2>1 DEF DeInitNode, Element
  <2>3. T.elt[n] = [DeInitNode(W.elt[n]) EXCEPT !.above = W.elt[n].above \ A]
    BY <1>2, <1>3, <1>4, <2>1, <2>2
  <2>4. W.elt[n].above \ A \in SUBSET (Nodes \cup {Root})
    BY <2>1 DEF Element
  <2> QED
    BY <2>1, <2>3, <2>4 DEF CleanedUp
<1>6. \A n \in Nodes \ U : T.elt[n] = W.elt[n]
  BY <1>2
<1>7. T.elt \in Elements /\ \A n \in U : T.elt[n].above = W.elt[n].above \ A
  <2>1. ASSUME NEW n \in U PROVE T.elt[n] \in Element /\ T.elt[n].above = W.elt[n].above \ A
    <3>1. DeInitNode(W.elt[n]) \in Element
      BY <1>5, DeInitTyped
    <3> QED
      BY <1>5, <3>1 DEF Element, CleanedUp
  <2>2. \A n \in Nodes : T.elt[n] \in Element
    BY <1>1, <1>6, <2>1 DEF Elements
  <2>3. T.elt = [n \in Nodes |-> T.elt[n]]
    BY <1>2
  <2> QED
    BY <2>1, <2>2, <2>3 DEF Elements
<1> HIDE DEF T
<1>8. Forest(T.elt) /\ \A n \in U : Root \notin T.elt[n].above
  <2>1. \A n \in Nodes : T.elt[n].above = IF n \in U THEN W.elt[n].above \ A ELSE W.elt[n].above
    BY <1>6, <1>7
  <2> QED
    BY <1>1, <1>7, <2>1, RemoveForest DEF U
<1>9. T \in SwapType
  <2>1. PICK E \in Elements : E = T.elt
    BY <1>7
  <2>2. T = [W EXCEPT !.elt = E] /\ W \in SwapType
    BY <1>2, <2>1 DEF SwapOK
  <2> QED
    BY <2>2 DEF SwapType
<1>10. \A n \in Nodes : T.elt[n].above \subseteq W.elt[n].above
  BY <1>6, <1>7
<1>11. \A n \in Nodes \ used : Leaf(T.elt, n)
  BY <1>10 DEF SwapOK, Leaf
<1>12. \A n \in Nodes \ (used \cup T.kids) : T.elt[n] = elt[n]
  BY <1>2, <1>4, <1>6 DEF SwapOK
<1>13. ASSUME NEW n \in W.kids PROVE KidOK(T.elt[n])
  <2>1. KidOK(W.elt[n]) /\ n \in Nodes
    BY <1>1 DEF SwapOK
  <2>2. CASE n \notin U
    BY <1>6, <2>1, <2>2
  <2>3. CASE n \in U
    <3> DEFINE e == W.elt[n]
               B == e.above \ A
    <3>1. T.elt[n] = CleanedUp(e, B) /\ e \in Element
          /\ B \in SUBSET (Nodes \cup {Root})
      BY <1>5, <2>3
    <3>2. KidOK(e) /\ T.elt[n].above = B /\ Root \notin B
      BY <1>7, <1>8, <2>1, <2>3
    <3> HIDE DEF e, B
    <3>3. Standing(e, 0) /\ Steady(e, 0) /\ e.class = {"added"} /\ e.inits = 0
      BY <3>2 DEF KidOK
    <3>4. /\ Standing(T.elt[n], 0) /\ T.elt[n].class = e.class /\ T.elt[n].inits = e.inits
          /\ Steady(T.elt[n], 0)
      BY <3>1, <3>2, <3>3, DeInitOK
    <3> QED
      BY <3>3, <3>4 DEF KidOK
  <2> QED
    BY <2>2, <2>3
<1>14. ASSUME NEW n \in used PROVE Left(n, T.elt[n])
  <2>1. Left(n, W.elt[n]) /\ n \in Nodes /\ handled[n] \in Nat
    BY <1>1 DEF SwapOK, Inv, TypeOK
  <2>2. CASE n \notin U
    BY <1>6, <2>1, <2>2
  <2>3. CASE n \in U
    <3> DEFINE e == W.elt[n]
               B == e.above \ A
               f == CleanedUp(e, B)
    <3>1. T.elt[n] = f /\ e \in Element /\ B \in SUBSET (Nodes \cup {Root})
      BY <1>5, <2>3
    <3>2. Standing(e, handled[n]) /\ (n \notin early => Steady(e, handled[n]))
      BY <2>1 DEF Left
    <3> HIDE DEF e, B
    <3>3. /\ Standing(f, handled[n]) /\ f.above = B /\ f.class = e.class /\ f.inits = e.inits
          /\ Steady(e, handled[n]) /\ Root \notin B => Steady(f, handled[n])
      BY <2>1, <3>1, <3>2, DeInitOK
    <3> HIDE DEF f
    <3>4. Root \notin B
      BY <1>8, <2>3, <3>1, <3>3
    <3>5. B \subseteq elt[n].above /\ e.class = elt[n].class /\ e.inits = elt[n].inits
      BY <2>1 DEF Left, e, B
    <3> QED
      BY <3>1, <3>2, <3>3, <3>4, <3>5 DEF Left
  <2> QED
    BY <2>2, <2>3
<1> QED
  BY <1>2, <1>8, <1>9, <1>11, <1>12, <1>13, <1>14 DEF SwapOK, T

(* Where an element of a swap in progress is put: below a place of the     *)
(* page that is there.                                                     *)
LEMMA ParentIsUsed ==
    ASSUME Inv, NEW W, SwapOK(W), NEW n \in used \cup W.kids, NEW p, p = Parent(W.elt, n), p # Nowhere
    PROVE  p \in used \cup {Root} /\ Above(W.elt, p) = W.elt[n].above \ {n} /\ n # p
<1>1. W.elt \in Elements /\ Forest(W.elt) /\ n \in Nodes
  BY DEF SwapOK, SwapType, Inv, TypeOK
<1>2. /\ p \in (Nodes \cup {Root}) \ {n} /\ p \in W.elt[n].above
      /\ Above(W.elt, p) = W.elt[n].above \ {n}
  BY <1>1, ParentIs
<1>3. p \in Nodes => p \in used
  BY <1>1, <1>2 DEF SwapOK, Leaf
<1> QED
  BY <1>2, <1>3

(* What an element of a swap in progress contains was there before, or is  *)
(* new content of this swap.                                               *)
LEMMA ChildrenAre ==
    ASSUME Inv, NEW W, SwapOK(W), NEW t \in used \cup {Root}, NEW C, C = Children(W.elt, t)
    PROVE  C \in SUBSET (used \cup W.kids) /\ \A d \in C : W.elt[d].above \ {d} = Above(W.elt, t)
<1>1. W.elt \in Elements /\ Forest(W.elt) /\ t \in Nodes \cup {Root}
  BY DEF SwapOK, SwapType, Inv, TypeOK
<1>2. \A d \in C : d \in Nodes /\ t # d /\ t \in W.elt[d].above /\ W.elt[d].above \ {d} = Above(W.elt, t)
  BY <1>1, ChildrenShare
<1>3. \A d \in C : d \in used \cup W.kids
  <2> SUFFICES ASSUME NEW d \in C, d \notin used \cup W.kids PROVE FALSE
    OBVIOUS
  <2>1. W.elt[d] = NewElement(d, elt[d].trigger)
    BY <1>2 DEF SwapOK, Inv, NewOK, New
  <2>2. W.elt[d].above = {d}
    BY <2>1 DEF NewElement
  <2> QED
    BY <1>2, <2>2
<1> QED
  BY <1>2, <1>3

LEMMA SetTextContentOK ==
    ASSUME Inv, NEW W, SwapOK(W), NEW t \in used \cup {Root}
    PROVE  SwapOK(SetTextContent(W, t))
<1>1. PICK C : C = Children(W.elt, t)
  OBVIOUS
<1>2. C \in SUBSET (used \cup W.kids) /\ \A d \in C : W.elt[d].above \ {d} = Above(W.elt, t)
  BY <1>1, ChildrenAre
<1>3. SetTextContent(W, t) = [W EXCEPT !.elt = TakeOut(@, C)]
  BY <1>1 DEF SetTextContent, SwapOK, SwapType
<1> QED
  BY <1>2, <1>3, TakeOutOK

LEMMA SwapWithStyleOK ==
    ASSUME Inv, NEW W, SwapOK(W), NEW style \in Styles \ {"textContent"}, NEW t \in used \cup {Root},
           t = Root => style \in {"innerHTML", "beforeend", "none"},
           NEW D \in SUBSET (Nodes \ (used \cup W.kids)),
           ~Throws(style, t, D, W)
    PROVE  SwapOK(SwapWithStyle(style, t, D, W)) /\ SwapWithStyle(style, t, D, W).kids \subseteq W.kids \cup D
<1> DEFINE parent == Parent(W.elt, t)
<1>1. /\ W.elt \in Elements /\ Forest(W.elt) /\ used \subseteq Nodes /\ W \in SwapType
      /\ t \in Nodes \cup {Root}
  BY DEF SwapOK, SwapType, Inv, TypeOK
<1>2. CASE style = "innerHTML"
  <2>1. PICK T : T = InsertNodes(W, t, D)
    OBVIOUS
  <2>2. SwapOK(T) /\ T.kids = W.kids \cup D /\ \A n \in Nodes \ D : T.elt[n] = W.elt[n]
    <3>1. Inserted(T, W, D)
      BY <2>1, InsertOK
    <3> QED
      BY <3>1 DEF Inserted
  <2>3. PICK C : C = Children(W.elt, t)
    OBVIOUS
  <2>4. C \in SUBSET (used \cup W.kids) /\ \A d \in C : W.elt[d].above \ {d} = Above(W.elt, t)
    BY <2>3, ChildrenAre
  <2>5. \A d \in C : d \in Nodes /\ d \notin D
    BY <1>1, <2>4 DEF SwapOK, SwapType
  <2>6. C \in SUBSET (used \cup T.kids) /\ \A d \in C : T.elt[d].above \ {d} = Above(W.elt, t)
    BY <2>2, <2>4, <2>5
  <2>7. SwapOK(RemoveElements(T, C)) /\ RemoveElements(T, C).kids = T.kids
    BY <2>2, <2>6, RemoveOK
  <2> QED
    BY <1>2, <2>1, <2>2, <2>3, <2>7 DEF SwapWithStyle
<1>3. CASE style = "outerHTML"
  <2>1. t \in used /\ t # Root
    BY <1>3
  <2>2. CASE parent = Nowhere
    BY <1>3, <2>2 DEF SwapWithStyle
  <2>3. CASE parent # Nowhere
    <3>1. parent \in used \cup {Root}
      BY <2>1, <2>3, ParentIsUsed
    <3>2. PICK T : T = InsertNodes(W, parent, D)
      OBVIOUS
    <3>3. /\ SwapOK(T) /\ T.kids = W.kids \cup D /\ T.elts = W.elts
          /\ \A n \in Nodes \ D : T.elt[n] = W.elt[n]
      <4>1. Inserted(T, W, D)
        BY <3>1, <3>2, InsertOK
      <4> QED
        BY <4>1 DEF Inserted
    <3>4. PICK M : M = (T.elts \ {t}) \cup D
      OBVIOUS
    <3>5. PICK V : V = [T EXCEPT !.elts = M]
      OBVIOUS
    <3>6. M \in SUBSET Nodes /\ M \subseteq used \cup T.kids /\ T \in SwapType
      BY <1>1, <3>3, <3>4 DEF SwapOK, SwapType
    <3>7. V \in SwapType /\ V.elt = T.elt /\ V.kids = T.kids /\ V.elts = M
      BY <3>5, <3>6 DEF SwapType
    <3>8. SwapOK(V)
      BY <3>3, <3>6, <3>7 DEF SwapOK
    <3>9. PICK A : A = V.elt[t].above \ {t}
      OBVIOUS
    <3>10. {t} \in SUBSET (used \cup V.kids) /\ \A d \in {t} : V.elt[d].above \ {d} = A
      BY <2>1, <3>9
    <3>11. SwapOK(RemoveElements(V, {t})) /\ RemoveElements(V, {t}).kids = V.kids
      BY <3>8, <3>10, RemoveOK
    <3>12. V = [T EXCEPT !.elts = (@ \ {t}) \cup D]
      BY <3>4, <3>5
    <3> QED
      BY <1>3, <2>3, <3>2, <3>3, <3>7, <3>11, <3>12 DEF SwapWithStyle
  <2> QED
    BY <2>2, <2>3
<1>4. CASE style = "beforeend"
  <2>1. Inserted(InsertNodes(W, t, D), W, D)
    BY InsertOK
  <2>2. SwapWithStyle(style, t, D, W) = InsertNodes(W, t, D)
    BY <1>4 DEF SwapWithStyle
  <2> QED
    BY <2>1, <2>2 DEF Inserted
<1>5. CASE style = "beforebegin"
  <2>1. t \in used /\ (D = {} \/ parent # Nowhere)
    BY <1>5 DEF Throws
  <2>2. SwapWithStyle(style, t, D, W) = InsertNodes(W, parent, D)
    BY <1>5 DEF SwapWithStyle
  <2>3. CASE parent # Nowhere
    <3>1. parent \in used \cup {Root}
      BY <2>1, <2>3, ParentIsUsed
    <3>2. Inserted(InsertNodes(W, parent, D), W, D)
      BY <3>1, InsertOK
    <3> QED
      BY <2>2, <3>2 DEF Inserted
  <2>4. CASE D = {}
    <3>1. W.elt = [n \in Nodes |-> W.elt[n]]
      BY <1>1 DEF Elements
    <3>2. InsertNodes(W, parent, D) = [W EXCEPT !.kids = W.kids, !.elt = W.elt]
      BY <1>1, <2>4, <3>1 DEF InsertNodes, SwapType
    <3>3. InsertNodes(W, parent, D) = W
      BY <1>1, <3>2 DEF SwapType
    <3> QED
      BY <2>2, <3>3
  <2> QED
    BY <2>1, <2>3, <2>4
<1>6. CASE style = "delete"
  <2>1. PICK A : A = W.elt[t].above \ {t}
    OBVIOUS
  <2>2. {t} \in SUBSET (used \cup W.kids) /\ \A d \in {t} : W.elt[d].above \ {d} = A
    BY <1>6, <2>1
  <2>3. SwapOK(RemoveElements(W, {t})) /\ RemoveElements(W, {t}).kids = W.kids
    BY <2>2, RemoveOK
  <2> QED
    BY <1>6, <2>3 DEF SwapWithStyle
<1>7. CASE style = "none"
  BY <1>7 DEF SwapWithStyle
<1> QED
  BY <1>2, <1>3, <1>4, <1>5, <1>6, <1>7 DEF Styles

-----------------------------------------------------------------------------
(* Changing the class of an element changes nothing else.                  *)
Reclassed(e, C) == [e EXCEPT !.class = C]

LEMMA ClassKeeps ==
    ASSUME NEW e \in Element, NEW C \in SUBSET Marks, NEW f, f = Reclassed(e, C)
    PROVE  /\ f \in Element /\ f.above = e.above /\ f.inits = e.inits /\ f.class = C
           /\ f.trigger = e.trigger
           /\ \A h : /\ Standing(e, h) => Standing(f, h)
                     /\ SetUp(e, h) => SetUp(f, h)
                     /\ Steady(e, h) => Steady(f, h)
<1>1. /\ f \in Element /\ f.above = e.above /\ f.inits = e.inits /\ f.class = C
      /\ f.trigger = e.trigger /\ f.data = e.data /\ f.polls = e.polls /\ f.loads = e.loads
      /\ f.orphans = e.orphans
  BY DEF Element, Reclassed
<1> QED
  BY <1>1 DEF Standing, SetUp, Steady

(* F is E but for the classes of the elements D, which are those of C. *)
Alike(F, E, C, D) ==
    /\ F \in Elements
    /\ \A n \in Nodes :
          /\ F[n].above = E[n].above /\ F[n].inits = E[n].inits /\ F[n].class = C[n]
          /\ n \notin D => F[n] = E[n]
          /\ \A h : /\ Standing(E[n], h) => Standing(F[n], h)
                    /\ SetUp(E[n], h) => SetUp(F[n], h)
                    /\ Steady(E[n], h) => Steady(F[n], h)

LEMMA ReclassedAlike ==
    ASSUME NEW E \in Elements, NEW D \in SUBSET Nodes, NEW C \in [Nodes -> SUBSET Marks], NEW F,
           F = [n \in Nodes |-> IF n \in D THEN Reclassed(E[n], C[n]) ELSE E[n]],
           \A n \in Nodes \ D : C[n] = E[n].class
    PROVE  Alike(F, E, C, D)
<1>1. \A n \in Nodes : E[n] \in Element /\ C[n] \in SUBSET Marks
  BY DEF Elements
<1>2. \A n \in Nodes : F[n] = IF n \in D THEN Reclassed(E[n], C[n]) ELSE E[n]
  OBVIOUS
<1>3. F = [n \in Nodes |-> F[n]]
  OBVIOUS
<1>4. ASSUME NEW n \in Nodes
      PROVE  /\ F[n] \in Element
             /\ F[n].above = E[n].above /\ F[n].inits = E[n].inits /\ F[n].class = C[n]
             /\ \A h : /\ Standing(E[n], h) => Standing(F[n], h)
                       /\ SetUp(E[n], h) => SetUp(F[n], h)
                       /\ Steady(E[n], h) => Steady(F[n], h)
  BY <1>1, <1>2, ClassKeeps
<1> QED
  BY <1>2, <1>3, <1>4 DEF Elements, Alike

(* The classes C of E, with the marks added to those of D, or taken away. *)
Plus(C, E, D, mark)  == \A n \in Nodes : C[n] = IF n \in D THEN E[n].class \cup mark ELSE E[n].class
Minus(C, E, D, mark) == \A n \in Nodes : C[n] = IF n \in D THEN E[n].class \ mark ELSE E[n].class

LEMMA MarkedIs ==
    ASSUME NEW E \in Elements, NEW D \in SUBSET Nodes, NEW mark \in SUBSET Marks
    PROVE  \E C \in [Nodes -> SUBSET Marks] :
              Alike(Marked(E, D, mark), E, C, D) /\ Plus(C, E, D, mark)
<1>1. \A n \in Nodes : E[n].class \in SUBSET Marks
  BY DEF Elements, Element
<1>2. PICK C \in [Nodes -> SUBSET Marks] :
         \A n \in Nodes : C[n] = IF n \in D THEN E[n].class \cup mark ELSE E[n].class
  <2> DEFINE A == [n \in Nodes |-> IF n \in D THEN E[n].class \cup mark ELSE E[n].class]
  <2>1. A \in [Nodes -> SUBSET Marks]
    BY <1>1
  <2> QED
    BY <2>1
<1>3. Marked(E, D, mark) = [n \in Nodes |-> IF n \in D THEN Reclassed(E[n], C[n]) ELSE E[n]]
  BY <1>2 DEF Marked, Reclassed
<1> QED
  BY <1>2, <1>3, ReclassedAlike DEF Plus

LEMMA UnmarkedIs ==
    ASSUME NEW E \in Elements, NEW D \in SUBSET Nodes, NEW mark \in SUBSET Marks
    PROVE  \E C \in [Nodes -> SUBSET Marks] :
              Alike(Unmarked(E, D, mark), E, C, D) /\ Minus(C, E, D, mark)
<1>1. \A n \in Nodes : E[n].class \in SUBSET Marks
  BY DEF Elements, Element
<1>2. PICK C \in [Nodes -> SUBSET Marks] :
         \A n \in Nodes : C[n] = IF n \in D THEN E[n].class \ mark ELSE E[n].class
  <2> DEFINE A == [n \in Nodes |-> IF n \in D THEN E[n].class \ mark ELSE E[n].class]
  <2>1. A \in [Nodes -> SUBSET Marks]
    BY <1>1
  <2> QED
    BY <2>1
<1>3. Unmarked(E, D, mark) = [n \in Nodes |-> IF n \in D THEN Reclassed(E[n], C[n]) ELSE E[n]]
  BY <1>2 DEF Unmarked, Reclassed
<1> QED
  BY <1>2, <1>3, ReclassedAlike DEF Minus

-----------------------------------------------------------------------------
(* The actions.                                                            *)

(* A swap W is finished, or it throws and its content is lost. *)
LEMMA SwapKeeps ==
    ASSUME Inv, NEW W, SwapOK(W), NEW M \in SUBSET (used \cup W.kids),
           elt' = Marked(W.elt, M, {"settling"}), used' = used \cup W.kids,
           early' = early \cup {n \in W.kids : Unsettled(Parent(W.elt, n))},
           swaps' = swaps + 1, UNCHANGED <<clicks, handled>>,
           \/ settles' = Append(settles, [kids |-> W.kids, elts |-> M]) /\ lost' = lost
           \/ settles' = settles /\ lost' = lost \cup W.kids /\ M = {}
    PROVE  Inv'
<1>1. /\ W.elt \in Elements /\ Forest(W.elt) /\ W.kids \in SUBSET Nodes /\ M \in SUBSET Nodes
      /\ TypeOK /\ used \subseteq Nodes
  BY DEF SwapOK, SwapType, Inv, TypeOK
<1>2. PICK C \in [Nodes -> SUBSET Marks] :
         /\ Alike(elt', W.elt, C, M)
         /\ \A n \in Nodes : C[n] = IF n \in M THEN W.elt[n].class \cup {"settling"} ELSE W.elt[n].class
  <2>1. PICK mark \in SUBSET Marks : mark = {"settling"}
    BY DEF Marks
  <2>2. PICK E \in Elements : E = W.elt
    BY <1>1
  <2>3. M \in SUBSET Nodes
    BY <1>1
  <2>4. PICK C \in [Nodes -> SUBSET Marks] : Alike(Marked(E, M, mark), E, C, M) /\ Plus(C, E, M, mark)
    BY <2>3, MarkedIs
  <2>5. elt' = Marked(E, M, mark)
    BY <2>1, <2>2
  <2> QED
    BY <2>1, <2>2, <2>4, <2>5 DEF Plus
<1>3. \A n \in Nodes \ M : elt'[n] = W.elt[n]
  BY <1>2 DEF Alike
<1>4. /\ elt' \in Elements
      /\ \A n \in Nodes : /\ elt'[n].above = W.elt[n].above /\ elt'[n].inits = W.elt[n].inits
                          /\ elt'[n].class = C[n]
                          /\ \A h : /\ Standing(W.elt[n], h) => Standing(elt'[n], h)
                                    /\ SetUp(W.elt[n], h) => SetUp(elt'[n], h)
                                    /\ Steady(W.elt[n], h) => Steady(elt'[n], h)
  BY <1>2 DEF Alike
<1>5. [kids |-> W.kids, elts |-> M] \in SwapSet
  BY <1>1 DEF SwapSet
<1> DEFINE I == DOMAIN settles' \ DOMAIN settles
<1>6. /\ settles' \in Seq(SwapSet)
      /\ \A i \in DOMAIN settles : i \in DOMAIN settles' /\ settles'[i] = settles[i]
      /\ \A i \in I : settles'[i].kids = W.kids /\ settles'[i].elts = M
      /\ \A i, j \in I : i = j
      /\ I # {} \/ (W.kids \subseteq lost' /\ M = {})
      /\ lost \subseteq lost' /\ lost' \subseteq lost \cup W.kids
  <2>1. CASE settles' = Append(settles, [kids |-> W.kids, elts |-> M]) /\ lost' = lost
    <3>1. /\ settles' \in Seq(SwapSet) /\ DOMAIN settles = 1..Len(settles) /\ Len(settles) \in Nat
          /\ DOMAIN settles' = 1..(Len(settles) + 1)
          /\ \A i \in 1..Len(settles) : settles'[i] = settles[i]
          /\ settles'[Len(settles) + 1] = [kids |-> W.kids, elts |-> M]
      BY <1>1, <1>5, <2>1, AppendProperties, LenProperties DEF TypeOK
    <3>2. I = {Len(settles) + 1}
      BY <3>1
    <3> QED
      BY <2>1, <3>1, <3>2
  <2>2. CASE settles' = settles /\ lost' = lost \cup W.kids /\ M = {}
    BY <1>1, <2>2 DEF TypeOK
  <2> QED
    BY <2>1, <2>2
<1> HIDE DEF I
<1>7. TypeOK'
  BY <1>1, <1>4, <1>6 DEF TypeOK
<1>8. Forest(elt)'
  BY <1>1, <1>4, SameForest
<1>9. \A n \in Nodes \ used : Leaf(elt', n)
  BY <1>1, <1>4 DEF SwapOK, Leaf
<1>10. \A n \in Nodes \ used' : /\ elt'[n] = elt[n] /\ n \in Nodes \ used /\ n \notin W.kids
                                /\ n \notin early' \cup lost'
  <2> SUFFICES ASSUME NEW n \in Nodes \ used'
               PROVE  elt'[n] = elt[n] /\ n \in Nodes \ used /\ n \notin W.kids /\ n \notin early' \cup lost'
    OBVIOUS
  <2>1. n \in Nodes \ used /\ n \notin W.kids /\ n \notin M
    OBVIOUS
  <2>2. W.elt[n] = elt[n] /\ n \notin early \cup lost
    BY <2>1 DEF SwapOK, Inv, NewOK
  <2> QED
    BY <1>3, <1>6, <2>1, <2>2
<1>11. NewOK'
  <2> SUFFICES ASSUME NEW n \in Nodes \ used'
               PROVE  /\ elt'[n] = NewElement(n, elt'[n].trigger) /\ Leaf(elt', n)
                      /\ handled'[n] = 0 /\ n \notin early' \cup lost'
    BY DEF NewOK, New, Leaf, NewElement, Blank
  <2>1. elt[n] = NewElement(n, elt[n].trigger) /\ handled[n] = 0
    BY <1>10 DEF Inv, NewOK, New
  <2> QED
    BY <1>9, <1>10, <2>1
<1>12. SettlesOK'
  <2> SUFFICES ASSUME NEW i \in DOMAIN settles'
               PROVE  settles'[i].kids \subseteq used' /\ settles'[i].elts \subseteq used'
    BY DEF SettlesOK
  <2>1. CASE i \in DOMAIN settles
    BY <1>6, <2>1 DEF Inv, SettlesOK
  <2>2. CASE i \in I
    BY <1>6, <2>2
  <2> QED
    BY <2>1, <2>2 DEF I
<1>13. CoverOK'
  <2> SUFFICES ASSUME NEW n \in used' \ early'
               PROVE  /\ \A i, j \in DOMAIN settles' :
                            Covers(i, n)' /\ Covers(j, n)' => i = j
                      /\ elt'[n].inits > 0 => \A i \in DOMAIN settles' : ~Covers(i, n)'
    BY DEF CoverOK, Covers
  <2>1. CASE n \in used
    <3>1. Left(n, W.elt[n]) /\ n \notin early /\ n \in Nodes
      BY <1>1, <2>1 DEF SwapOK
    <3>2. elt'[n].above \subseteq elt[n].above /\ elt'[n].inits = elt[n].inits
      BY <1>4, <3>1 DEF Left
    <3>3. \A i \in DOMAIN settles : Covers(i, n)' => Covers(i, n)
      BY <1>6, <3>2 DEF Covers
    <3>4. \A i \in I : ~Covers(i, n)'
      <4>1. elt'[n].above \cap W.kids = {}
        BY <1>1, <1>9, <2>1, <3>1 DEF SwapOK, Leaf
      <4> QED
        BY <1>6, <4>1 DEF Covers
    <3>5. /\ \A i, j \in DOMAIN settles : Covers(i, n) /\ Covers(j, n) => i = j
          /\ elt[n].inits > 0 => \A i \in DOMAIN settles : ~Covers(i, n)
      BY <2>1, <3>1 DEF Inv, CoverOK
    <3> QED
      BY <3>2, <3>3, <3>4, <3>5 DEF I
  <2>2. CASE n \in W.kids
    <3>1. elt'[n].inits = 0
      BY <1>1, <1>4, <2>2 DEF SwapOK, KidOK
    <3>2. ~Unsettled(Parent(W.elt, n))
      BY <2>2
    <3>3. ASSUME NEW i \in DOMAIN settles, Covers(i, n)' PROVE FALSE
      <4>1. PICK k \in W.elt[n].above : k \in settles[i].kids
        BY <1>1, <1>4, <1>6, <2>2, <3>3 DEF Covers
      <4>2. k \in used /\ k # n /\ k \in Nodes
        BY <1>1, <2>2, <4>1 DEF Inv, SettlesOK, SwapOK
      <4>3. PICK p : p = Parent(W.elt, n)
        OBVIOUS
      <4>4. p # Nowhere
        <5>1. W.elt[n].above # {n}
          BY <4>1, <4>2
        <5> QED
          BY <1>1, <2>2, <4>3, <5>1, PlacesAssumption, ParentIs
      <4>5. p \in used \cup {Root} /\ k \in Above(W.elt, p)
        BY <2>2, <4>1, <4>2, <4>3, <4>4, ParentIsUsed
      <4>6. p \in Nodes /\ p \in used /\ k \in W.elt[p].above
        BY <1>1, <4>2, <4>5, PlacesAssumption DEF Above
      <4>7. k \in elt[p].above
        BY <4>6 DEF SwapOK, Left
      <4>8. Unsettled(p)
        BY <4>1, <4>6, <4>7 DEF Unsettled, Under
      <4> QED
        BY <3>2, <4>3, <4>8
    <3> QED
      BY <1>6, <3>1, <3>3 DEF I
  <2> QED
    BY <2>1, <2>2
<1>14. ASSUME NEW n \in used', n \notin lost'
       PROVE  \/ \E i \in DOMAIN settles' : n \in settles'[i].kids
              \/ elt'[n].inits > 0 /\ "added" \notin elt'[n].class
  <2>1. CASE n \in used
    <3>1. \/ \E i \in DOMAIN settles : n \in settles[i].kids
          \/ elt[n].inits > 0 /\ "added" \notin elt[n].class
      BY <1>6, <1>14, <2>1 DEF Inv, OwnOK
    <3>2. elt'[n].inits = elt[n].inits /\ ("added" \in elt'[n].class => "added" \in elt[n].class)
      BY <1>1, <1>2, <1>4, <2>1 DEF SwapOK, Left
    <3> QED
      BY <1>6, <3>1, <3>2
  <2>2. CASE n \in W.kids
    BY <1>6, <1>14, <2>2 DEF I
  <2> QED
    BY <2>1, <2>2
<1>15. ASSUME NEW n \in Nodes, "settling" \in elt'[n].class
       PROVE  \E i \in DOMAIN settles' : n \in settles'[i].elts
  <2>1. CASE n \in M
    BY <1>6, <2>1 DEF I
  <2>2. CASE n \notin M
    <3>1. "settling" \in W.elt[n].class
      BY <1>2, <1>4, <1>15, <2>2
    <3>2. W.elt[n].class = elt[n].class
      <4>1. CASE n \in W.kids
        BY <3>1, <4>1 DEF SwapOK, KidOK
      <4>2. CASE n \notin W.kids
        BY <4>2 DEF SwapOK, Left
      <4> QED
        BY <4>1, <4>2
    <3>3. \E i \in DOMAIN settles : n \in settles[i].elts
      BY <3>1, <3>2 DEF Inv, OwnOK
    <3> QED
      BY <1>6, <3>3
  <2> QED
    BY <2>1, <2>2
<1>16. ASSUME NEW n \in Nodes
       PROVE  /\ Standing(elt'[n], handled'[n])
              /\ Root \in elt'[n].above /\ elt'[n].inits > 0 => SetUp(elt'[n], handled'[n])
              /\ n \notin early' => Steady(elt'[n], handled'[n])
  <2>1. /\ Standing(elt[n], handled[n]) /\ (n \notin early => Steady(elt[n], handled[n]))
        /\ Root \in elt[n].above /\ elt[n].inits > 0 => SetUp(elt[n], handled[n])
    BY DEF Inv, ElementOK
  <2>2. CASE n \in used
    <3>1. Left(n, W.elt[n])
      BY <2>2 DEF SwapOK
    <3> QED
      BY <1>4, <2>1, <3>1 DEF Left
  <2>3. CASE n \in W.kids
    <3>1. KidOK(W.elt[n]) /\ handled[n] = 0
      BY <2>3 DEF SwapOK, Inv, NewOK
    <3>2. handled'[n] = 0
      BY <3>1
    <3>3. elt'[n].inits = 0 /\ Standing(elt'[n], 0) /\ Steady(elt'[n], 0)
      BY <1>4, <3>1 DEF KidOK
    <3> QED
      BY <3>2, <3>3
  <2>4. CASE n \notin used \cup W.kids
    <3>1. elt'[n] = elt[n]
      BY <1>10, <2>4
    <3> QED
      BY <2>1, <3>1
  <2> QED
    BY <2>2, <2>3, <2>4
<1>17. OwnOK' /\ \A n \in Nodes : ElementOK(n, elt[n], handled[n])'
  BY <1>14, <1>15, <1>16 DEF OwnOK, ElementOK, Standing, SetUp, Steady
<1> QED
  BY <1>7, <1>8, <1>11, <1>12, <1>13, <1>17 DEF Inv

LEMMA SwapInv ==
    ASSUME Inv, NEW style \in Styles, NEW t \in used \cup {Root},
           t = Root => style \in {"innerHTML", "beforeend", "textContent", "none"},
           NEW D \in SUBSET (Nodes \ used),
           NEW oobStyle \in Styles \ {"beforebegin", "textContent"}, NEW u \in used \cup {Root},
           NEW O \in SUBSET ((Nodes \ used) \ D), O # {} => u # Root,
           Swap(style, t, D, oobStyle, u, O)
    PROVE  Inv'
<1> DEFINE start == [elt |-> elt, kids |-> {}, elts |-> {t} \ {Root}]
           oob   == OobSwap(oobStyle, u, O, start)
           done  == IF style = "textContent" THEN SetTextContent(oob, t)
                                             ELSE SwapWithStyle(style, t, D, oob)
<1>1. SwapOK(start) /\ start.kids = {}
  BY StartOK
<1> HIDE DEF start
<1>2. SwapOK(oob) /\ oob.kids \subseteq O
  <2>1. CASE O = {}
    BY <1>1, <2>1 DEF OobSwap
  <2>2. CASE O # {}
    <3>1. O \in SUBSET (Nodes \ (used \cup start.kids))
      BY <1>1
    <3>2. SwapOK(SwapWithStyle(oobStyle, u, O, start))
          /\ SwapWithStyle(oobStyle, u, O, start).kids \subseteq start.kids \cup O
      BY <1>1, <2>2, <3>1, SwapWithStyleOK DEF Throws
    <3> QED
      BY <1>1, <2>2, <3>2 DEF OobSwap
  <2> QED
    BY <2>1, <2>2
<1>3. /\ swaps' = swaps + 1
      /\ UNCHANGED <<clicks, handled>>
      /\ IF Throws(style, t, D, oob)
           THEN /\ elt' = oob.elt /\ used' = used \cup oob.kids /\ lost' = lost \cup oob.kids
                /\ early' = early \cup {n \in oob.kids : Unsettled(Parent(oob.elt, n))}
                /\ UNCHANGED settles
           ELSE /\ elt' = Marked(done.elt, done.elts, {"settling"}) /\ used' = used \cup done.kids
                /\ settles' = Append(settles, [kids |-> done.kids, elts |-> done.elts])
                /\ early' = early \cup {n \in done.kids : Unsettled(Parent(done.elt, n))}
                /\ UNCHANGED lost
  BY DEF Swap, start
<1> HIDE DEF oob
<1>4. CASE Throws(style, t, D, oob)
  <2>1. PICK M \in SUBSET (used \cup oob.kids) : M = {}
    OBVIOUS
  <2>2. Marked(oob.elt, M, {"settling"}) = oob.elt
    BY <1>2, <2>1 DEF Marked, SwapOK, SwapType, Elements
  <2>3. elt' = Marked(oob.elt, M, {"settling"})
    BY <1>3, <1>4, <2>2
  <2> QED
    BY <1>2, <1>3, <1>4, <2>1, <2>3, SwapKeeps
<1>5. CASE ~Throws(style, t, D, oob)
  <2>1. D \in SUBSET (Nodes \ (used \cup oob.kids))
    BY <1>2
  <2>2. style # "textContent" => SwapOK(SwapWithStyle(style, t, D, oob))
    BY <1>2, <1>5, <2>1, SwapWithStyleOK
  <2>3. SwapOK(done)
    BY <1>2, <2>2, SetTextContentOK
  <2> HIDE DEF done
  <2>4. done.elts \in SUBSET (used \cup done.kids)
    BY <2>3 DEF SwapOK
  <2> QED
    BY <1>3, <1>5, <2>3, <2>4, SwapKeeps
<1> QED
  BY <1>4, <1>5

LEMMA SwapSomethingInv == Inv /\ SwapSomething => Inv'
<1> SUFFICES ASSUME Inv, SwapSomething PROVE Inv'
  OBVIOUS
<1>1. \A X : Fresh(X) \subseteq X
  BY DEF Fresh
<1>2. PICK style \in Styles, t \in used \cup {Root}, D \in {{}, Fresh(Nodes \ used)} :
         /\ t = Root => style \in {"innerHTML", "beforeend", "textContent", "none"}
         /\ style \in {"delete", "textContent", "none"} => D = {}
         /\ \/ Swap(style, t, D, "none", t, {})
            \/ \E oobStyle \in {"innerHTML", "outerHTML", "beforeend"}, u \in used :
                  LET O == Fresh((Nodes \ used) \ D)
                  IN /\ style # "textContent" /\ elt[u].above # {u} /\ O # {}
                     /\ Swap(style, t, D, oobStyle, u, O)
  BY DEF SwapSomething
<1>3. D \in SUBSET (Nodes \ used)
  BY <1>1
<1>4. CASE Swap(style, t, D, "none", t, {})
  <2>1. PICK O \in SUBSET ((Nodes \ used) \ D), oobStyle \in Styles \ {"beforebegin", "textContent"} :
           O = {} /\ oobStyle = "none"
    BY DEF Styles
  <2> QED
    BY <1>2, <1>3, <1>4, <2>1, SwapInv
<1>5. ASSUME NEW oobStyle \in {"innerHTML", "outerHTML", "beforeend"}, NEW u \in used,
             Swap(style, t, D, oobStyle, u, Fresh((Nodes \ used) \ D))
      PROVE  Inv'
  <2>1. PICK O \in SUBSET ((Nodes \ used) \ D) : O = Fresh((Nodes \ used) \ D)
    BY <1>1
  <2>2. oobStyle \in Styles \ {"beforebegin", "textContent"} /\ u \in used \cup {Root} /\ u # Root
    BY PlacesAssumption DEF Styles, Inv, TypeOK
  <2> QED
    BY <1>2, <1>3, <1>5, <2>1, <2>2, SwapInv
<1> QED
  BY <1>2, <1>4, <1>5

LEMMA SettleInv ==
    ASSUME Inv, NEW i \in DOMAIN settles, Settle(i)
    PROVE  Inv'
<1> DEFINE K == settles[i].kids
           M == settles[i].elts
           E == Unmarked(elt, K, {"added"})
           F == ProcessNodes(E, K)
<1>1. /\ TypeOK /\ elt \in Elements /\ used \subseteq Nodes /\ K \subseteq used /\ M \subseteq used
      /\ settles \in Seq(SwapSet) /\ DOMAIN settles = 1..Len(settles) /\ Len(settles) \in Nat
  BY LenProperties DEF Inv, TypeOK, SettlesOK
<1>2. /\ settles' = RemoveAt(settles, i) /\ elt' = Unmarked(F, M, {"settling"})
      /\ UNCHANGED <<used, swaps, clicks, handled, early, lost>>
  BY DEF Settle
<1> HIDE DEF K, M
<1>3. PICK C \in [Nodes -> SUBSET Marks] : Alike(E, elt, C, K) /\ Minus(C, elt, K, {"added"})
  <2>1. PICK mark \in SUBSET Marks : mark = {"added"}
    BY DEF Marks
  <2>2. K \in SUBSET Nodes
    BY <1>1
  <2>3. PICK C \in [Nodes -> SUBSET Marks] : Alike(Unmarked(elt, K, mark), elt, C, K) /\ Minus(C, elt, K, mark)
    BY <1>1, <2>2, UnmarkedIs
  <2> QED
    BY <2>1, <2>3
<1> HIDE DEF E
<1>4. E \in Elements /\ \A n \in Nodes : E[n].above = elt[n].above
  BY <1>3 DEF Alike
<1>5. Under(E, K) = {n \in Nodes : elt[n].above \cap K # {}}
  BY <1>4 DEF Under
<1>6. \A n \in Nodes : F[n] = IF elt[n].above \cap K # {} THEN Processed(E[n]) ELSE E[n]
  BY <1>5 DEF ProcessNodes, Processed
<1>7. F = [n \in Nodes |-> F[n]]
  BY DEF ProcessNodes
<1> HIDE DEF F
(* Who is below the new content has been used, and if it came in after what *)
(* it is below had settled, was not initialised before.                     *)
<1>8. ASSUME NEW n \in Nodes, elt[n].above \cap K # {}
      PROVE  n \in used /\ (n \notin early => elt[n].inits = 0)
  <2>1. n \in used
    <3> SUFFICES ASSUME n \notin used PROVE FALSE
      OBVIOUS
    <3>1. elt[n] = NewElement(n, elt[n].trigger)
      BY DEF Inv, NewOK, New
    <3>2. elt[n].above = {n}
      BY <3>1 DEF NewElement
    <3> QED
      BY <1>1, <1>8, <3>2
  <2>2. Covers(i, n)
    BY <1>8 DEF Covers, K
  <2>3. elt[n].inits \in Nat
    BY <1>1 DEF Elements, Element
  <2> QED
    BY <2>1, <2>2, <2>3 DEF Inv, CoverOK
<1>9. ASSUME NEW n \in Nodes
      PROVE  /\ F[n] \in Element /\ F[n].above = elt[n].above /\ F[n].class = C[n]
             /\ elt[n].above \cap K # {} => F[n].inits > 0
             /\ elt[n].above \cap K = {} => F[n].inits = elt[n].inits
             /\ Standing(F[n], handled[n])
             /\ Root \in F[n].above /\ F[n].inits > 0 => SetUp(F[n], handled[n])
             /\ n \notin early => Steady(F[n], handled[n])
  <2>1. /\ Standing(elt[n], handled[n]) /\ (n \notin early => Steady(elt[n], handled[n]))
        /\ Root \in elt[n].above /\ elt[n].inits > 0 => SetUp(elt[n], handled[n])
        /\ handled[n] \in Nat
    BY <1>1 DEF Inv, ElementOK, TypeOK
  <2>2. /\ E[n] \in Element /\ E[n].above = elt[n].above /\ E[n].inits = elt[n].inits /\ E[n].class = C[n]
        /\ Standing(E[n], handled[n])
        /\ Root \in elt[n].above /\ elt[n].inits > 0 => SetUp(E[n], handled[n])
        /\ n \notin early => Steady(E[n], handled[n])
    BY <1>3, <1>4, <2>1 DEF Alike, Elements
  <2>3. E[n].inits \in Nat
    BY <2>2 DEF Element
  <2>4. CASE elt[n].above \cap K = {}
    BY <1>6, <2>2, <2>4
  <2>5. CASE elt[n].above \cap K # {}
    <3>1. F[n] = Processed(E[n]) /\ (n \notin early => elt[n].inits = 0)
      BY <1>6, <1>8, <2>5
    <3>2. /\ F[n] \in Element /\ Standing(F[n], handled[n]) /\ F[n].inits > 0
          /\ F[n].above = E[n].above /\ F[n].class = E[n].class
          /\ E[n].inits = 0 \/ SetUp(E[n], handled[n]) => SetUp(F[n], handled[n])
          /\ E[n].inits = 0 /\ Steady(E[n], handled[n]) => Steady(F[n], handled[n])
      BY <2>1, <2>2, <3>1, ProcessedOK
    <3> QED
      BY <2>2, <2>3, <2>5, <3>1, <3>2
  <2> QED
    BY <2>4, <2>5
<1>10. F \in Elements
  BY <1>7, <1>9 DEF Elements
<1>11. PICK B \in [Nodes -> SUBSET Marks] : Alike(elt', F, B, M) /\ Minus(B, F, M, {"settling"})
  <2>1. PICK mark \in SUBSET Marks : mark = {"settling"}
    BY DEF Marks
  <2>2. M \in SUBSET Nodes
    BY <1>1
  <2>3. PICK B \in [Nodes -> SUBSET Marks] : Alike(Unmarked(F, M, mark), F, B, M) /\ Minus(B, F, M, mark)
    BY <1>10, <2>2, UnmarkedIs
  <2> QED
    BY <1>2, <2>1, <2>3
<1>12. /\ elt' \in Elements
       /\ \A n \in Nodes :
             /\ elt'[n].above = elt[n].above /\ elt'[n].inits = F[n].inits
             /\ elt'[n].class = IF n \in M THEN F[n].class \ {"settling"} ELSE F[n].class
             /\ n \notin M => elt'[n] = F[n]
             /\ Standing(F[n], handled[n]) => Standing(elt'[n], handled[n])
             /\ SetUp(F[n], handled[n]) => SetUp(elt'[n], handled[n])
             /\ Steady(F[n], handled[n]) => Steady(elt'[n], handled[n])
  BY <1>9, <1>11 DEF Alike, Minus
<1>13. \A n \in Nodes : C[n] = IF n \in K THEN elt[n].class \ {"added"} ELSE elt[n].class
  BY <1>3 DEF Minus
<1>14. /\ settles' \in Seq(SwapSet) /\ DOMAIN settles' = 1..(Len(settles) - 1)
       /\ \A j \in 1..(Len(settles) - 1) : settles'[j] = IF j < i THEN settles[j] ELSE settles[j + 1]
  BY <1>1, <1>2, RemoveAtProperties, LenProperties
(* What is left of the pending swaps, and where it was. *)
<1>15. /\ \A j \in DOMAIN settles' : \E k \in DOMAIN settles : k # i /\ settles'[j] = settles[k]
       /\ \A k \in DOMAIN settles : k # i => \E j \in DOMAIN settles' : settles'[j] = settles[k]
       /\ \A j, l \in DOMAIN settles' : j # l =>
             \E k, m \in DOMAIN settles : k # m /\ settles'[j] = settles[k] /\ settles'[l] = settles[m]
  <2> DEFINE At(j) == IF j < i THEN j ELSE j + 1
  <2>1. \A j \in DOMAIN settles' : At(j) \in DOMAIN settles /\ At(j) # i /\ settles'[j] = settles[At(j)]
    BY <1>1, <1>14
  <2>2. \A j, l \in DOMAIN settles' : j # l => At(j) # At(l)
    BY <1>1, <1>14
  <2>3. ASSUME NEW k \in DOMAIN settles, k # i
        PROVE  \E j \in DOMAIN settles' : settles'[j] = settles[k]
    <3>1. CASE k < i
      BY <1>1, <1>14, <3>1
    <3>2. CASE k > i
      <4>1. k - 1 \in DOMAIN settles' /\ ~(k - 1 < i) /\ (k - 1) + 1 = k
        BY <1>1, <1>14, <3>2
      <4>2. settles'[k - 1] = settles[k]
        BY <1>14, <4>1
      <4> QED
        BY <4>1, <4>2
    <3> QED
      BY <1>1, <2>3, <3>1, <3>2
  <2> HIDE DEF At
  <2> QED
    BY <2>1, <2>2, <2>3
<1>16. TypeOK'
  BY <1>1, <1>2, <1>12, <1>14 DEF TypeOK
<1>17. Forest(elt)'
  BY <1>1, <1>12, SameForest DEF Inv
<1>18. \A n \in Nodes \ used : elt'[n] = elt[n]
  <2> SUFFICES ASSUME NEW n \in Nodes \ used PROVE elt'[n] = elt[n]
    OBVIOUS
  <2>1. n \notin K /\ n \notin M /\ elt[n].above \cap K = {}
    BY <1>1, <1>8
  <2> QED
    BY <1>3, <1>6, <1>12, <2>1 DEF Alike
<1>19. NewOK'
  <2> SUFFICES ASSUME NEW n \in Nodes \ used
               PROVE  /\ elt'[n] = NewElement(n, elt'[n].trigger) /\ Leaf(elt', n)
                      /\ handled[n] = 0 /\ n \notin early \cup lost
    BY <1>2 DEF NewOK, New, Leaf, NewElement, Blank
  <2>1. elt[n] = NewElement(n, elt[n].trigger) /\ Leaf(elt, n) /\ handled[n] = 0 /\ n \notin early \cup lost
    BY DEF Inv, NewOK, New
  <2> QED
    BY <1>12, <1>18, <2>1 DEF Leaf
<1>20. SettlesOK'
  BY <1>2, <1>15 DEF Inv, SettlesOK
<1>21. CoverOK'
  <2> SUFFICES ASSUME NEW n \in used \ early
               PROVE  /\ \A j, l \in DOMAIN settles' :
                            Covers(j, n)' /\ Covers(l, n)' => j = l
                      /\ elt'[n].inits > 0 => \A j \in DOMAIN settles' : ~Covers(j, n)'
    BY <1>2 DEF CoverOK, Covers
  <2>1. /\ \A k, m \in DOMAIN settles : Covers(k, n) /\ Covers(m, n) => k = m
        /\ elt[n].inits > 0 => \A k \in DOMAIN settles : ~Covers(k, n)
        /\ n \in Nodes
    BY <1>1 DEF Inv, CoverOK
  <2>2. elt'[n].above = elt[n].above
    BY <1>12, <2>1
  <2>3. \A j \in DOMAIN settles', k \in DOMAIN settles :
           settles'[j] = settles[k] => (Covers(j, n)' <=> Covers(k, n))
    BY <2>2 DEF Covers
  <2>4. \A j, l \in DOMAIN settles' : Covers(j, n)' /\ Covers(l, n)' => j = l
    BY <1>15, <2>1, <2>3
  <2>5. ASSUME elt'[n].inits > 0, NEW j \in DOMAIN settles', Covers(j, n)' PROVE FALSE
    <3>1. PICK k \in DOMAIN settles : k # i /\ Covers(k, n)
      BY <1>15, <2>3, <2>5
    <3>2. elt[n].above \cap K = {}
      BY <2>1, <3>1 DEF Covers, K
    <3>3. elt[n].inits > 0
      BY <1>9, <1>12, <2>1, <2>5, <3>2
    <3> QED
      BY <2>1, <3>1, <3>3
  <2> QED
    BY <2>4, <2>5
<1>22. ASSUME NEW n \in used, n \notin lost
       PROVE  \/ \E j \in DOMAIN settles' : n \in settles'[j].kids
              \/ elt'[n].inits > 0 /\ "added" \notin elt'[n].class
  <2>1. n \in Nodes /\ n \in elt[n].above
    BY <1>1 DEF Inv, Forest
  <2>2. CASE n \in K
    <3>1. elt[n].above \cap K # {}
      BY <2>1, <2>2
    <3>2. F[n].inits > 0 /\ F[n].class = C[n]
      BY <1>9, <2>1, <3>1
    <3>3. elt'[n].inits > 0
      BY <1>12, <2>1, <3>2
    <3>4. "added" \notin C[n]
      BY <1>13, <2>1, <2>2
    <3>5. "added" \notin elt'[n].class
      BY <1>12, <2>1, <3>2, <3>4
    <3> QED
      BY <3>3, <3>5
  <2>3. CASE n \notin K
    <3>1. CASE \E k \in DOMAIN settles : n \in settles[k].kids
      BY <1>15, <2>3, <3>1 DEF K
    <3>2. CASE elt[n].inits > 0 /\ "added" \notin elt[n].class
      BY <1>9, <1>12, <1>13, <2>1, <3>2
    <3> QED
      BY <1>22, <3>1, <3>2 DEF Inv, OwnOK
  <2> QED
    BY <2>2, <2>3
<1>23. ASSUME NEW n \in Nodes, "settling" \in elt'[n].class
       PROVE  \E j \in DOMAIN settles' : n \in settles'[j].elts
  <2>1. n \notin M /\ "settling" \in elt[n].class
    BY <1>9, <1>12, <1>13, <1>23
  <2>2. PICK k \in DOMAIN settles : n \in settles[k].elts
    BY <2>1 DEF Inv, OwnOK
  <2>3. k # i
    BY <2>1, <2>2 DEF M
  <2> QED
    BY <1>15, <2>2, <2>3
<1>24. ASSUME NEW n \in Nodes PROVE ElementOK(n, elt[n], handled[n])'
  <2>1. /\ Standing(elt'[n], handled[n])
        /\ Root \in elt'[n].above /\ elt'[n].inits > 0 => SetUp(elt'[n], handled[n])
        /\ n \notin early => Steady(elt'[n], handled[n])
    BY <1>9, <1>12
  <2> QED
    BY <1>2, <2>1 DEF ElementOK, Standing, SetUp, Steady
<1>25. OwnOK'
  BY <1>2, <1>22, <1>23 DEF OwnOK
<1> QED
  BY <1>16, <1>17, <1>19, <1>20, <1>21, <1>24, <1>25 DEF Inv

LEMMA InitInv == Init => Inv
<1> SUFFICES ASSUME Init PROVE Inv
  OBVIOUS
<1>1. PICK kind \in Mixes : elt = [n \in Nodes |-> NewElement(n, kind[n])]
  BY DEF Init
<1>2. /\ used = {} /\ settles = <<>> /\ swaps = 0 /\ clicks = 0
      /\ handled = [n \in Nodes |-> 0] /\ early = {} /\ lost = {}
  BY DEF Init
<1>3. \A n \in Nodes : kind[n] \in AllKinds /\ elt[n] = NewElement(n, kind[n])
  BY <1>1, MixesAssumption
<1>4. \A n \in Nodes : /\ elt[n] \in Element /\ Standing(elt[n], 0) /\ Steady(elt[n], 0)
  BY <1>3, NewIsOK
<1>5. \A n \in Nodes : /\ elt[n].above = {n} /\ elt[n].class = {} /\ elt[n].inits = 0
                       /\ elt[n].trigger = kind[n]
  <2>1. \A n, k : /\ NewElement(n, k).above = {n} /\ NewElement(n, k).class = {}
                 /\ NewElement(n, k).inits = 0 /\ NewElement(n, k).trigger = k
    BY DEF NewElement
  <2> QED
    BY <1>3, <2>1
<1>6. TypeOK
  <2>1. elt \in Elements
    BY <1>1, <1>4 DEF Elements
  <2> QED
    BY <1>2, <2>1 DEF TypeOK
<1>7. Forest(elt)
  BY <1>5 DEF Forest
<1>8. NewOK
  <2>1. \A n \in Nodes : Leaf(elt, n)
    BY <1>5 DEF Leaf
  <2>2. \A n \in Nodes : elt[n] = NewElement(n, elt[n].trigger)
    BY <1>3, <1>5
  <2> QED
    BY <1>2, <2>1, <2>2 DEF NewOK, New
<1>9. SettlesOK /\ CoverOK
  BY <1>2 DEF SettlesOK, CoverOK
<1>10. OwnOK
  BY <1>2, <1>5 DEF OwnOK
<1>11. \A n \in Nodes : ElementOK(n, elt[n], handled[n])
  BY <1>2, <1>4, <1>5 DEF ElementOK
<1> QED
  BY <1>6, <1>7, <1>8, <1>9, <1>10, <1>11 DEF Inv

(* A new element has nothing that could run. *)
LEMMA NewIsIdle ==
    ASSUME Inv, NEW n \in Nodes, n \notin used
    PROVE  /\ elt[n].data.listeners = 0 /\ ~elt[n].data.delayed
           /\ elt[n].orphans = 0 /\ elt[n].loads = 0 /\ elt[n].polls = 0 /\ elt[n].inits = 0
<1>1. elt[n] = NewElement(n, elt[n].trigger)
  BY DEF Inv, NewOK, New
<1>2. \A k : /\ NewElement(n, k).data.listeners = 0 /\ ~NewElement(n, k).data.delayed
             /\ NewElement(n, k).orphans = 0 /\ NewElement(n, k).loads = 0
             /\ NewElement(n, k).polls = 0 /\ NewElement(n, k).inits = 0
  BY DEF NewElement, Blank
<1> QED
  BY <1>1, <1>2

(* What runs in one element that has been brought in stays where it is,    *)
(* and what it is to be processed for.                                     *)
LEMMA StepOK ==
    ASSUME Inv, NEW n \in Nodes, n \in used, NEW e \in Element, NEW h \in Nat,
           elt' = [elt EXCEPT ![n] = e], handled' = [handled EXCEPT ![n] = h],
           e.above = elt[n].above, e.class = elt[n].class, e.inits = elt[n].inits,
           ElementOK(n, e, h), UNCHANGED <<used, settles, swaps, early, lost>>, clicks' \in Nat
    PROVE  Inv'
<1>1. /\ TypeOK /\ elt \in Elements /\ used \subseteq Nodes /\ handled \in [Nodes -> Nat]
  BY DEF Inv, TypeOK
<1>2. /\ elt' \in Elements /\ handled' \in [Nodes -> Nat]
      /\ elt'[n] = e /\ handled'[n] = h
      /\ \A m \in Nodes : m # n => elt'[m] = elt[m] /\ handled'[m] = handled[m]
  BY <1>1 DEF Elements
<1>3. \A m \in Nodes : /\ elt'[m].above = elt[m].above /\ elt'[m].class = elt[m].class
                       /\ elt'[m].inits = elt[m].inits
  BY <1>2
<1>4. TypeOK'
  BY <1>1, <1>2 DEF TypeOK
<1>5. Forest(elt)'
  BY <1>1, <1>2, <1>3, SameForest DEF Inv
<1>6. NewOK'
  <2> SUFFICES ASSUME NEW m \in Nodes \ used
               PROVE  /\ elt'[m] = NewElement(m, elt'[m].trigger) /\ Leaf(elt', m)
                      /\ handled'[m] = 0 /\ m \notin early \cup lost
    BY DEF NewOK, New, Leaf, NewElement, Blank
  <2>1. /\ elt[m] = NewElement(m, elt[m].trigger) /\ Leaf(elt, m)
        /\ handled[m] = 0 /\ m \notin early \cup lost
    BY DEF Inv, NewOK, New
  <2>2. m # n
    OBVIOUS
  <2> QED
    BY <1>2, <1>3, <2>1, <2>2 DEF Leaf
<1>7. SettlesOK'
  BY DEF Inv, SettlesOK
<1>8. CoverOK'
  <2>1. \A m \in Nodes, i \in DOMAIN settles : Covers(i, m)' <=> Covers(i, m)
    BY <1>3 DEF Covers
  <2>2. CoverOK /\ \A m \in used \ early : m \in Nodes
    BY <1>1 DEF Inv
  <2> QED
    BY <1>3, <2>1, <2>2 DEF CoverOK
<1>9. OwnOK'
  BY <1>1, <1>3 DEF Inv, OwnOK
<1>10. ASSUME NEW m \in Nodes PROVE ElementOK(m, elt[m], handled[m])'
  <2>1. /\ Standing(elt'[m], handled'[m])
        /\ Root \in elt'[m].above /\ elt'[m].inits > 0 => SetUp(elt'[m], handled'[m])
        /\ m \notin early => Steady(elt'[m], handled'[m])
    BY <1>2 DEF Inv, ElementOK
  <2> QED
    BY <2>1 DEF ElementOK, Standing, SetUp, Steady
<1> QED
  BY <1>4, <1>5, <1>6, <1>7, <1>8, <1>9, <1>10 DEF Inv

(* An element can do something of its own only when it has been brought in. *)
LEMMA RunsInUsed ==
    ASSUME Inv, NEW n \in Nodes,
           \/ elt[n].data.listeners > 0 \/ elt[n].data.delayed \/ elt[n].orphans > 0
           \/ elt[n].loads > 0 \/ elt[n].polls > 0 \/ elt[n].inits > 0
    PROVE  n \in used
BY NewIsIdle

LEMMA IsOK ==
    ASSUME Inv, NEW n \in Nodes
    PROVE  /\ elt \in Elements /\ elt[n] \in Element /\ handled \in [Nodes -> Nat]
           /\ handled[n] \in Nat /\ clicks \in Nat
           /\ ElementOK(n, elt[n], handled[n])
BY DEF Inv, TypeOK, Elements

Clicked(e) == [e EXCEPT !.data.once    = @ \/ e.trigger = "once",
                        !.data.delayed = @ \/ e.trigger = "delay"]

LEMMA ClickInv ==
    ASSUME Inv, NEW n \in Nodes, Click(n)
    PROVE  Inv'
<1>1. PICK e \in Element : e = elt[n]
  BY IsOK
<1>2. PICK h \in Nat : h = handled[n]
  BY IsOK
<1>3. PICK g \in Nat : g = IF e.trigger = "once" /\ ~e.data.once THEN h + 1 ELSE h
  OBVIOUS
<1>4. /\ Root \in e.above /\ e.data.listeners > 0 /\ e.trigger # "load"
      /\ clicks' = clicks + 1 /\ UNCHANGED <<used, settles, swaps, early, lost>>
  BY <1>1 DEF Click, Attached
<1>5. handled' = [handled EXCEPT ![n] = g]
  BY <1>1, <1>2, <1>3, IsOK DEF Click
<1>6. elt' = [elt EXCEPT ![n] = Clicked(e)]
  BY <1>1, IsOK DEF Click, Clicked, Elements, Element, Data
<1>7. ElementOK(n, e, h) /\ clicks \in Nat
  BY <1>1, <1>2, IsOK
<1>8. PICK f : f = Clicked(e)
  OBVIOUS
<1>9. /\ f \in Element /\ f.above = e.above /\ f.class = e.class /\ f.inits = e.inits
      /\ f.trigger = e.trigger /\ f.polls = e.polls /\ f.loads = e.loads /\ f.orphans = e.orphans
      /\ f.data.listeners = e.data.listeners /\ f.data.onHandlers = e.data.onHandlers
      /\ f.data.timeout = e.data.timeout /\ f.data.loaded = e.data.loaded
      /\ f.data.cancelled = e.data.cancelled
      /\ f.data.completed = e.data.completed /\ f.data.hash = e.data.hash
      /\ (e.data.once \/ e.trigger = "once" => f.data.once)
  BY <1>8 DEF Clicked, Element, Data
<1>10. /\ Standing(e, h) /\ (e.inits > 0 => SetUp(e, h)) /\ (n \notin early => Steady(e, h))
       /\ e.inits \in Nat
  BY <1>4, <1>7 DEF ElementOK, Element
<1>11. ElementOK(n, f, g)
  <2>1. Standing(f, g)
    BY <1>4, <1>9, <1>10 DEF Standing
  <2>2. f.inits > 0 => SetUp(f, g)
    BY <1>4, <1>9, <1>10 DEF SetUp
  <2>3. ASSUME Steady(e, h) PROVE Steady(f, g)
    <3>1. /\ e.inits = 1 /\ f.inits = 1 /\ e.orphans = 0 /\ f.orphans = 0
          /\ e.trigger = "once" => h <= 1 /\ (h = 1 => e.data.once)
      BY <1>4, <1>9, <1>10, <2>3 DEF Steady
    <3>2. e.trigger = "once" => g <= 1 /\ f.data.once
      BY <1>3, <1>9, <3>1
    <3> QED
      BY <1>9, <3>1, <3>2 DEF Steady
  <2> QED
    BY <1>10, <2>1, <2>2, <2>3 DEF ElementOK
<1>12. n \in used
  BY <1>1, <1>4, RunsInUsed
<1> QED
  <2>1. clicks' \in Nat
    BY <1>4, <1>7
  <2>2. elt' = [elt EXCEPT ![n] = f]
    BY <1>6, <1>8
  <2> QED
    BY <1>1, <1>4, <1>5, <1>9, <1>11, <1>12, <2>1, <2>2, StepOK

LEMMA DelayFiresInv ==
    ASSUME Inv, NEW n \in Nodes, DelayFires(n)
    PROVE  Inv'
<1>1. PICK e \in Element : e = elt[n]
  BY IsOK
<1>2. PICK h \in Nat : h = handled[n]
  BY IsOK
<1>3. UNCHANGED <<used, settles, swaps, clicks, handled, early, lost>>
  BY DEF DelayFires
<1>4. handled' = [handled EXCEPT ![n] = h] /\ clicks' \in Nat
  BY <1>2, <1>3, IsOK
<1>5. ElementOK(n, e, h)
  BY <1>1, <1>2, IsOK
<1>6. /\ Standing(e, h) /\ (Root \in e.above /\ e.inits > 0 => SetUp(e, h))
      /\ n \notin early => Steady(e, h)
  BY <1>5 DEF ElementOK
<1>7. CASE e.data.delayed /\ elt' = [elt EXCEPT ![n].data.delayed = FALSE]
  <2>1. PICK f : f = [e EXCEPT !.data.delayed = FALSE]
    OBVIOUS
  <2>2. elt' = [elt EXCEPT ![n] = f]
    BY <1>1, <1>7, <2>1, IsOK DEF Elements
  <2>3. /\ f \in Element /\ f.above = e.above /\ f.class = e.class /\ f.inits = e.inits
        /\ f.trigger = e.trigger /\ f.polls = e.polls /\ f.loads = e.loads /\ f.orphans = e.orphans
        /\ f.data.listeners = e.data.listeners /\ f.data.onHandlers = e.data.onHandlers
        /\ f.data.timeout = e.data.timeout /\ f.data.loaded = e.data.loaded
        /\ f.data.cancelled = e.data.cancelled /\ f.data.once = e.data.once
        /\ f.data.completed = e.data.completed /\ f.data.hash = e.data.hash /\ f.data.delayed = FALSE
    BY <2>1 DEF Element, Data
  <2>4. /\ Standing(f, h) /\ (SetUp(e, h) => SetUp(f, h)) /\ (Steady(e, h) => Steady(f, h))
    BY <1>6, <2>3 DEF Standing, SetUp, Steady
  <2>5. ElementOK(n, f, h)
    BY <1>6, <2>3, <2>4 DEF ElementOK
  <2>6. n \in used
    BY <1>1, <1>7, RunsInUsed
  <2> QED
    BY <1>1, <1>3, <1>4, <2>2, <2>3, <2>5, <2>6, StepOK
<1>8. CASE e.orphans > 0 /\ elt' = [elt EXCEPT ![n].orphans = @ - 1]
  <2>1. PICK f : f = [e EXCEPT !.orphans = @ - 1]
    OBVIOUS
  <2>2. elt' = [elt EXCEPT ![n] = f]
    BY <1>1, <1>8, <2>1, IsOK DEF Elements
  <2>3. /\ f \in Element /\ f.above = e.above /\ f.class = e.class /\ f.inits = e.inits
        /\ f.trigger = e.trigger /\ f.polls = e.polls /\ f.loads = e.loads
        /\ f.data = e.data /\ f.orphans = e.orphans - 1 /\ e.orphans \in Int
    BY <2>1 DEF Element
  <2>4. /\ Standing(f, h) /\ (SetUp(e, h) => SetUp(f, h)) /\ (Steady(e, h) => Steady(f, h))
    BY <1>6, <1>8, <2>3 DEF Standing, SetUp, Steady
  <2>5. ElementOK(n, f, h)
    BY <1>6, <2>3, <2>4 DEF ElementOK
  <2>6. n \in used
    BY <1>1, <1>8, RunsInUsed
  <2> QED
    BY <1>1, <1>3, <1>4, <2>2, <2>3, <2>5, <2>6, StepOK
<1> QED
  BY <1>1, <1>7, <1>8 DEF DelayFires

LoadsWith(e, x, d) == [e EXCEPT !.loads = x, !.data = d]

LEMMA LoadsSet ==
    ASSUME NEW e \in Element, NEW x \in Int, NEW d \in Data, NEW f,
           f = LoadsWith(e, x, d)
    PROVE  /\ f \in Element /\ f.above = e.above /\ f.class = e.class /\ f.inits = e.inits
           /\ f.trigger = e.trigger /\ f.loads = x /\ f.polls = e.polls
           /\ f.orphans = e.orphans /\ f.data = d
BY DEF Element, LoadsWith

LEMMA LoadFiresInv ==
    ASSUME Inv, NEW n \in Nodes, LoadFires(n)
    PROVE  Inv'
<1>1. PICK e \in Element : e = elt[n]
  BY IsOK
<1>2. PICK h \in Nat : h = handled[n]
  BY IsOK
<1>3. PICK g \in Nat : g = IF Root \in e.above /\ ~e.data.loaded THEN h + 1 ELSE h
  OBVIOUS
<1>4. e.loads > 0 /\ UNCHANGED <<used, settles, swaps, clicks, early, lost>>
  BY <1>1 DEF LoadFires
<1>5. handled' = [handled EXCEPT ![n] = g] /\ clicks' \in Nat
  BY <1>1, <1>2, <1>3, IsOK DEF LoadFires, Attached
<1>6. PICK f : f = [e EXCEPT !.loads = @ - 1, !.data.loaded = TRUE]
  OBVIOUS
<1> DEFINE d == [e.data EXCEPT !.loaded = TRUE]
<1>7. elt' = [elt EXCEPT ![n] = f]
  BY <1>1, <1>6, IsOK DEF LoadFires, Elements
<1>8. /\ f \in Element /\ f.above = e.above /\ f.class = e.class /\ f.inits = e.inits
      /\ f.trigger = e.trigger /\ f.polls = e.polls /\ f.loads = e.loads - 1 /\ f.orphans = e.orphans
      /\ f.data.listeners = e.data.listeners /\ f.data.onHandlers = e.data.onHandlers
      /\ f.data.timeout = e.data.timeout /\ f.data.delayed = e.data.delayed
      /\ f.data.cancelled = e.data.cancelled /\ f.data.once = e.data.once
      /\ f.data.completed = e.data.completed /\ f.data.hash = e.data.hash
  <2>1. e.data \in Data /\ e.loads \in Int
    BY DEF Element
  <2>2. /\ d \in Data /\ d.listeners = e.data.listeners /\ d.onHandlers = e.data.onHandlers
        /\ d.timeout = e.data.timeout /\ d.delayed = e.data.delayed
        /\ d.cancelled = e.data.cancelled /\ d.once = e.data.once
        /\ d.completed = e.data.completed /\ d.hash = e.data.hash
    BY <2>1 DEF Data
  <2>3. PICK x \in Int : x = e.loads - 1
    BY <2>1
  <2>4. PICK c \in Data : c = d
    BY <2>2
  <2>5. f = LoadsWith(e, x, c)
    BY <1>6, <2>3, <2>4 DEF Element, LoadsWith
  <2> HIDE DEF d
  <2>6. /\ f \in Element /\ f.above = e.above /\ f.class = e.class /\ f.inits = e.inits
        /\ f.trigger = e.trigger /\ f.polls = e.polls /\ f.loads = e.loads - 1
        /\ f.orphans = e.orphans /\ f.data = d
    BY <2>5, <2>3, <2>4, LoadsSet
  <2> QED
    BY <2>2, <2>6
<1>9. ElementOK(n, e, h)
  BY <1>1, <1>2, IsOK
<1>10. /\ Standing(e, h) /\ (Root \in e.above /\ e.inits > 0 => SetUp(e, h))
       /\ n \notin early => Steady(e, h)
  BY <1>9 DEF ElementOK
(* It is the one timer of its trigger, and has not run before. *)
<1>11. /\ e.loads = 1 /\ e.trigger = "load" /\ ~e.data.loaded /\ h = 0 /\ e.inits > 0
       /\ f.loads = 0 /\ (g = IF Root \in e.above THEN 1 ELSE 0)
  BY <1>3, <1>4, <1>8, <1>10 DEF Standing
<1>12. Standing(f, g)
  BY <1>8, <1>10, <1>11 DEF Standing
<1>13. Root \in f.above => SetUp(f, g)
  BY <1>8, <1>10, <1>11 DEF SetUp
<1>14. n \notin early => Steady(f, g)
  BY <1>8, <1>10, <1>11 DEF Steady
<1>15. ElementOK(n, f, g)
  BY <1>12, <1>13, <1>14 DEF ElementOK
<1>16. n \in used
  BY <1>1, <1>4, RunsInUsed
<1> QED
  BY <1>1, <1>4, <1>5, <1>7, <1>8, <1>15, <1>16, StepOK

PollsWith(e, x, d) == [e EXCEPT !.polls = x, !.data = d]

LEMMA PollsSet ==
    ASSUME NEW e \in Element, NEW x \in Int, NEW d \in Data, NEW f,
           f = PollsWith(e, x, d)
    PROVE  /\ f \in Element /\ f.above = e.above /\ f.class = e.class /\ f.inits = e.inits
           /\ f.trigger = e.trigger /\ f.polls = x /\ f.loads = e.loads
           /\ f.orphans = e.orphans /\ f.data = d
BY DEF Element, PollsWith

LEMMA PollFiresInv ==
    ASSUME Inv, NEW n \in Nodes, PollFires(n)
    PROVE  Inv'
<1>1. PICK e \in Element : e = elt[n]
  BY IsOK
<1>2. PICK h \in Nat : h = handled[n]
  BY IsOK
<1>3. /\ e.polls > 0 /\ (Root \notin e.above \/ e.data.cancelled)
      /\ UNCHANGED <<used, settles, swaps, clicks, handled, early, lost>>
  BY <1>1 DEF PollFires, Attached
<1>4. handled' = [handled EXCEPT ![n] = h] /\ clicks' \in Nat
  BY <1>2, <1>3, IsOK
<1>5. PICK f : f = [e EXCEPT !.polls = @ - 1, !.data.timeout = FALSE]
  OBVIOUS
<1> DEFINE d == [e.data EXCEPT !.timeout = FALSE]
<1>6. elt' = [elt EXCEPT ![n] = f]
  BY <1>1, <1>5, IsOK DEF PollFires, Elements
<1>7. /\ f \in Element /\ f.above = e.above /\ f.class = e.class /\ f.inits = e.inits
      /\ f.trigger = e.trigger /\ f.polls = e.polls - 1 /\ f.loads = e.loads /\ f.orphans = e.orphans
      /\ f.data.listeners = e.data.listeners /\ f.data.onHandlers = e.data.onHandlers
      /\ f.data.timeout = FALSE /\ f.data.delayed = e.data.delayed
      /\ f.data.cancelled = e.data.cancelled /\ f.data.once = e.data.once
      /\ f.data.loaded = e.data.loaded
      /\ f.data.completed = e.data.completed /\ f.data.hash = e.data.hash
  <2>1. e.data \in Data /\ e.polls \in Int
    BY DEF Element
  <2>2. /\ d \in Data /\ d.listeners = e.data.listeners /\ d.onHandlers = e.data.onHandlers
        /\ d.timeout = FALSE /\ d.delayed = e.data.delayed
        /\ d.cancelled = e.data.cancelled /\ d.once = e.data.once /\ d.loaded = e.data.loaded
        /\ d.completed = e.data.completed /\ d.hash = e.data.hash
    BY <2>1 DEF Data
  <2>3. PICK x \in Int : x = e.polls - 1
    BY <2>1
  <2>4. PICK c \in Data : c = d
    BY <2>2
  <2>5. f = PollsWith(e, x, c)
    BY <1>5, <2>3, <2>4 DEF Element, PollsWith
  <2> HIDE DEF d
  <2>6. /\ f \in Element /\ f.above = e.above /\ f.class = e.class /\ f.inits = e.inits
        /\ f.trigger = e.trigger /\ f.polls = e.polls - 1 /\ f.loads = e.loads
        /\ f.orphans = e.orphans /\ f.data = d
    BY <2>5, <2>3, <2>4, PollsSet
  <2> QED
    BY <2>2, <2>6
<1>8. ElementOK(n, e, h)
  BY <1>1, <1>2, IsOK
<1>9. /\ Standing(e, h) /\ (Root \in e.above /\ e.inits > 0 => SetUp(e, h))
      /\ n \notin early => Steady(e, h)
  BY <1>8 DEF ElementOK
<1>10. Standing(f, h)
  BY <1>3, <1>7, <1>9 DEF Standing
<1>11. Root \in f.above /\ f.inits > 0 => SetUp(f, h)
  BY <1>3, <1>7, <1>9 DEF SetUp
<1>12. n \notin early => Steady(f, h)
  BY <1>7, <1>9 DEF Steady
<1>13. ElementOK(n, f, h)
  BY <1>10, <1>11, <1>12 DEF ElementOK
<1>14. n \in used
  BY <1>1, <1>3, RunsInUsed
<1> QED
  BY <1>1, <1>3, <1>4, <1>6, <1>7, <1>13, <1>14, StepOK

LEMMA CancelPollingInv ==
    ASSUME Inv, NEW n \in Nodes, CancelPolling(n)
    PROVE  Inv'
<1>1. PICK e \in Element : e = elt[n]
  BY IsOK
<1>2. PICK h \in Nat : h = handled[n]
  BY IsOK
<1>3. /\ e.inits > 0 /\ UNCHANGED <<used, settles, swaps, clicks, handled, early, lost>>
  BY <1>1 DEF CancelPolling
<1>4. handled' = [handled EXCEPT ![n] = h] /\ clicks' \in Nat
  BY <1>2, <1>3, IsOK
<1>5. PICK f : f = [e EXCEPT !.data.cancelled = TRUE]
  OBVIOUS
<1>6. elt' = [elt EXCEPT ![n] = f]
  BY <1>1, <1>5, IsOK DEF CancelPolling, Elements
<1>7. /\ f \in Element /\ f.above = e.above /\ f.class = e.class /\ f.inits = e.inits
      /\ f.trigger = e.trigger /\ f.polls = e.polls /\ f.loads = e.loads /\ f.orphans = e.orphans
      /\ f.data.listeners = e.data.listeners /\ f.data.onHandlers = e.data.onHandlers
      /\ f.data.timeout = e.data.timeout /\ f.data.delayed = e.data.delayed
      /\ f.data.cancelled /\ f.data.once = e.data.once /\ f.data.loaded = e.data.loaded
      /\ f.data.completed = e.data.completed /\ f.data.hash = e.data.hash
  BY <1>5 DEF Element, Data
<1>8. ElementOK(n, e, h)
  BY <1>1, <1>2, IsOK
<1>9. ElementOK(n, f, h)
  BY <1>7, <1>8 DEF ElementOK, Standing, SetUp, Steady
<1>10. n \in used
  BY <1>1, <1>3, RunsInUsed
<1> QED
  BY <1>1, <1>3, <1>4, <1>6, <1>7, <1>9, <1>10, StepOK

(* Removed by a script: as by a swap, but nothing is cleaned up. *)
LEMMA DetachInv ==
    ASSUME Inv, NEW n \in Nodes, Detach(n)
    PROVE  Inv'
<1> DEFINE A == elt[n].above \ {n}
           U == Under(elt, {n})
<1>1. /\ TypeOK /\ elt \in Elements /\ used \subseteq Nodes /\ Forest(elt) /\ NewOK /\ CoverOK /\ OwnOK
  BY DEF Inv, TypeOK
<1>2. /\ elt[n].above # {n} /\ UNCHANGED <<used, settles, swaps, clicks, handled, early, lost>>
      /\ elt' = TakeOut(elt, {n})
  BY DEF Detach
<1>3. elt' \in Elements /\ Forest(elt') /\ Moved(elt', elt, {n})
  <2>1. PICK F : F = elt'
    OBVIOUS
  <2>2. {n} \in SUBSET Nodes /\ \A d \in {n} : elt[d].above \ {d} = A
    BY DEF A
  <2>3. F = TakeOut(elt, {n})
    BY <1>2, <2>1
  <2>4. F \in Elements /\ Forest(F) /\ Moved(F, elt, {n})
    BY <1>1, <2>2, <2>3, TakeOutIs
  <2> QED
    BY <2>1, <2>4
<1> HIDE DEF A, U
<1>4. elt' \in Elements
  BY <1>3
<1>5. \A m \in Nodes : elt'[m].above \subseteq elt[m].above
  BY <1>3 DEF Moved
<1>6. Forest(elt')
  BY <1>3
<1>7. TypeOK'
  BY <1>1, <1>2, <1>4 DEF TypeOK
<1>8. NewOK'
  <2> SUFFICES ASSUME NEW m \in Nodes \ used
               PROVE  /\ elt'[m] = NewElement(m, elt'[m].trigger) /\ Leaf(elt', m)
                      /\ handled[m] = 0 /\ m \notin early \cup lost
    BY <1>2 DEF NewOK, New, Leaf, NewElement, Blank
  <2>1. elt[m] = NewElement(m, elt[m].trigger) /\ Leaf(elt, m) /\ handled[m] = 0 /\ m \notin early \cup lost
    BY DEF Inv, NewOK, New
  <2>2. elt[m].above = {m}
    BY <2>1 DEF NewElement
  <2>3. n \in used
    <3> SUFFICES ASSUME n \notin used PROVE FALSE
      OBVIOUS
    <3>1. elt[n] = NewElement(n, elt[n].trigger)
      BY DEF Inv, NewOK, New
    <3> QED
      BY <1>2, <3>1 DEF NewElement
  <2>4. m \notin U
    BY <2>2, <2>3 DEF Under, U
  <2> QED
    BY <1>3, <1>5, <2>1, <2>4 DEF Leaf, Moved, U
<1>9. SettlesOK'
  BY <1>2 DEF Inv, SettlesOK
<1>10. CoverOK'
  <2>1. \A m \in Nodes, i \in DOMAIN settles : Covers(i, m)' => Covers(i, m)
    BY <1>2, <1>5 DEF Covers
  <2> QED
    BY <1>1, <1>2, <1>3, <2>1 DEF CoverOK, Moved
<1>11. OwnOK'
  <2>1. \A m \in Nodes : elt'[m].class = elt[m].class /\ elt'[m].inits = elt[m].inits
    BY <1>3 DEF Moved
  <2> QED
    BY <1>1, <1>2, <2>1 DEF OwnOK
<1>12. ASSUME NEW m \in Nodes PROVE ElementOK(m, elt[m], handled[m])'
  <2>1. /\ Standing(elt[m], handled[m])
        /\ Root \in elt[m].above /\ elt[m].inits > 0 => SetUp(elt[m], handled[m])
        /\ m \notin early => Steady(elt[m], handled[m])
    BY DEF Inv, ElementOK
  <2>2. /\ Standing(elt'[m], handled[m])
        /\ SetUp(elt[m], handled[m]) => SetUp(elt'[m], handled[m])
        /\ Steady(elt[m], handled[m]) => Steady(elt'[m], handled[m])
    BY <1>3, <1>5, <2>1 DEF Standing, SetUp, Steady, Moved
  <2>3. /\ Standing(elt'[m], handled[m])
        /\ Root \in elt'[m].above /\ elt'[m].inits > 0 => SetUp(elt'[m], handled[m])
        /\ m \notin early => Steady(elt'[m], handled[m])
    BY <1>3, <1>5, <2>1, <2>2 DEF Moved
  <2> QED
    BY <1>2, <2>3 DEF ElementOK, Standing, SetUp, Steady
<1> QED
  BY <1>6, <1>7, <1>8, <1>9, <1>10, <1>11, <1>12 DEF Inv

LEMMA NextInv == Inv /\ [Next]_vars => Inv'
<1> SUFFICES ASSUME Inv, [Next]_vars PROVE Inv'
  OBVIOUS
<1>1. CASE SwapSomething
  BY <1>1, SwapSomethingInv
<1>2. ASSUME NEW i \in DOMAIN settles, Settle(i) PROVE Inv'
  BY <1>2, SettleInv
<1>3. ASSUME NEW n \in Nodes, Detach(n) PROVE Inv'
  BY <1>3, DetachInv
<1>4. ASSUME NEW n \in Nodes, Click(n) PROVE Inv'
  BY <1>4, ClickInv
<1>5. ASSUME NEW n \in Nodes, CancelPolling(n) PROVE Inv'
  BY <1>5, CancelPollingInv
<1>6. ASSUME NEW n \in Nodes, DelayFires(n) PROVE Inv'
  BY <1>6, DelayFiresInv
<1>7. ASSUME NEW n \in Nodes, LoadFires(n) PROVE Inv'
  BY <1>7, LoadFiresInv
<1>8. ASSUME NEW n \in Nodes, PollFires(n) PROVE Inv'
  BY <1>8, PollFiresInv
<1>9. CASE UNCHANGED vars
  <2>1. UNCHANGED <<elt, used, settles, swaps, clicks, handled, early, lost>>
    BY <1>9 DEF vars
  <2> QED
    BY <2>1 DEF Inv, TypeOK, Forest, Above, NewOK, New, NewElement, Blank, Leaf, SettlesOK, CoverOK,
                Covers, OwnOK, ElementOK, Standing, SetUp, Steady
<1> QED
  BY <1>1, <1>2, <1>3, <1>4, <1>5, <1>6, <1>7, <1>8, <1>9 DEF Next

LEMMA SpecInv == Spec => []Inv
<1> QED
  BY InitInv, NextInv, PTL DEF Spec

-----------------------------------------------------------------------------
(* What is promised.                                                       *)

LEMMA InvWorks == Inv => SettledContentWorks
<1> SUFFICES ASSUME Inv, NEW n \in used, Attached(n), ~Unsettled(n), n \notin lost
             PROVE  Works(n)
  BY DEF SettledContentWorks
<1>1. n \in Nodes /\ n \in elt[n].above /\ Root \in elt[n].above
  BY DEF Inv, TypeOK, Forest, Attached
<1>2. \A i \in DOMAIN settles : n \notin settles[i].kids
  BY <1>1 DEF Unsettled, Under
<1>3. elt[n].inits > 0 /\ "added" \notin elt[n].class
  BY <1>2 DEF Inv, OwnOK
<1>4. SetUp(elt[n], handled[n])
  BY <1>1, <1>3 DEF Inv, ElementOK
<1>5. "settling" \in elt[n].class => \E i \in DOMAIN settles : n \in settles[i].elts
  BY <1>1 DEF Inv, OwnOK
<1> QED
  BY <1>3, <1>4, <1>5 DEF Works, SetUp

LEMMA InvTwice == Inv => NothingTwice
<1> SUFFICES ASSUME Inv, NEW n \in Nodes
             PROVE  /\ elt[n].data.listeners <= 1 /\ elt[n].data.onHandlers <= 1 /\ elt[n].polls <= 1
                    /\ elt[n].trigger = "load" => elt[n].loads + handled[n] <= 1
                    /\ n \notin early =>
                          /\ elt[n].inits <= 1
                          /\ elt[n].trigger = "once" => handled[n] <= 1
                          /\ Attached(n) => elt[n].orphans = 0
  BY DEF NothingTwice
<1>1. Standing(elt[n], handled[n]) /\ (n \notin early => Steady(elt[n], handled[n]))
  BY DEF Inv, ElementOK
<1> QED
  BY <1>1 DEF Standing, Steady, Attached

(* Whatever answers and stream messages change in the page, in whatever    *)
(* order their swaps settle: what is in the page and belongs to no swap    *)
(* that has still to settle has its trigger and its hx-on attribute set up *)
(* (swap, doSettle, processNode, maybeDeInitAndHash, cleanUpElement).      *)
THEOREM SettledWorks == Spec => []SettledContentWorks
<1> QED
  BY SpecInv, InvWorks, PTL

(* No element has two listeners, two hx-on handlers or two polling timers, *)
(* a load trigger is handled once, and only what came into content not     *)
(* settled yet is ever initialised again (maybeDeInitAndHash, initNode,    *)
(* addTriggerHandler, deInitNode).                                         *)
THEOREM NeverTwice == Spec => []NothingTwice
<1> QED
  BY SpecInv, InvTwice, PTL

(* The variables keep their types. *)
THEOREM TypeCorrect == Spec => []TypeOK
<1>1. Inv => TypeOK
  BY DEF Inv
<1> QED
  BY <1>1, SpecInv, PTL
=============================================================================
