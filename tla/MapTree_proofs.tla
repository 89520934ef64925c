--------------------------- MODULE MapTree_proofs ---------------------------
(***************************************************************************)
(* What is proved about the maps: they are search trees, a walk gets ahead *)
(* and does not lose its key, and they implement a function that can be    *)
(* listed in the order of its keys.                                        *)
(*                                                                         *)
(* The proofs reason with the sets of nodes below each node and not with   *)
(* the sequence InOrder, whose recursion needs a tree to be defined at all.*)
(***************************************************************************)
EXTENDS MapTree, FiniteSetTheorems, SequenceTheorems, WellFoundedInduction,
        NaturalsInduction, TLAPS

\* A finite family of finite sets has a minimal one.
LEMMA MinimalSet ==
  ASSUME NEW S, IsFiniteSet(S), NEW F \in SUBSET (SUBSET S), F # {}
  PROVE  \E x \in F : \A y \in F : y \subseteq x => y = x
<1>1. IsWellFoundedOn(StrictSubsetOrdering(S), SUBSET S)
  BY FS_StrictSubsetOrderingWellFounded, FS_FiniteSubsetsOfFinite
<1>2. PICK x \in F : \A y \in F : ~(<<y, x>> \in StrictSubsetOrdering(S))
  BY <1>1, WFMin
<1>. QED
  BY <1>2 DEF StrictSubsetOrdering

-----------------------------------------------------------------------------
(* Trees.                                                                  *)

All == Nodes \cup {Root}

\* The pointers make a tree with the set below[n] of nodes below n, n included; a node
\* that is not linked leads nowhere.
Tree(ch, below) ==
  /\ ch \in [All -> [Sides -> Nodes \cup {Nil}]]
  /\ ch[Root]["left"] = Nil
  /\ below \in [All \cup {Nil} -> SUBSET All]
  /\ below[Nil] = {}
  /\ \A n, x \in All : x \in below[n] <=> x = n \/ \E t \in Sides : x \in below[ch[n][t]]
  /\ \A n \in All, t \in Sides : n \notin below[ch[n][t]]
  /\ \A n, x \in All, t, u \in Sides : x \in below[ch[n][t]] /\ x \in below[ch[n][u]] => t = u
  /\ \A n \in Nodes : Root \notin below[n]
  /\ \A n \in Nodes, t \in Sides : n \notin below[Root] => ch[n][t] = Nil

LEMMA NodesFinite == IsFiniteSet(All)
  BY NodesAssumption, FS_AddElement DEF All

LEMMA SidesTwo ==
  /\ "left" \in Sides /\ "right" \in Sides /\ "left" # "right"
  /\ \A t \in Sides : /\ Other(t) \in Sides /\ Other(t) # t
                      /\ \A u \in Sides : u = t \/ u = Other(t)
  BY DEF Sides, Other

\* What is below a child is below its parent, which is not there.
LEMMA ChildBelow ==
  ASSUME NEW ch, NEW below, Tree(ch, below), NEW n \in All, NEW t \in Sides
  PROVE  /\ ch[n][t] \in Nodes \cup {Nil}
         /\ below[ch[n][t]] \subseteq below[n]
         /\ n \in below[n] /\ n \notin below[ch[n][t]]
         /\ ch[n][t] # Nil => ch[n][t] \in below[n] /\ ch[n][t] \in All
<1>1. ch[n][t] \in Nodes \cup {Nil}
  BY DEF Tree
<1>2. below[ch[n][t]] \subseteq All
  BY <1>1 DEF Tree, All
<1>3. below[ch[n][t]] \subseteq below[n]
  BY <1>2 DEF Tree
<1>4. n \in below[n] /\ n \notin below[ch[n][t]]
  BY DEF Tree
<1>5. ASSUME ch[n][t] # Nil PROVE ch[n][t] \in below[n] /\ ch[n][t] \in All
  <2>1. ch[n][t] \in All
    BY <1>1, <1>5 DEF All
  <2>2. ch[n][t] \in below[ch[n][t]]
    BY <2>1 DEF Tree
  <2>. QED
    BY <2>1, <2>2, <1>3
<1>. QED
  BY <1>1, <1>3, <1>4, <1>5

\* What is below a node, other than itself, is below one of its children.
LEMMA BelowChild ==
  ASSUME NEW ch, NEW below, Tree(ch, below), NEW n \in All,
         NEW x \in below[n], x # n
  PROVE  /\ x \in All
         /\ \E t \in Sides : x \in below[ch[n][t]] /\ ch[n][t] # Nil /\ ch[n][t] \in Nodes
<1>1. x \in All
  BY NodesAssumption DEF Tree, All
<1>2. PICK t \in Sides : x \in below[ch[n][t]]
  BY <1>1 DEF Tree
<1>3. ch[n][t] # Nil
  BY <1>2 DEF Tree
<1>. QED
  BY <1>1, <1>2, <1>3, ChildBelow

\* Below is transitive.
LEMMA BelowTransitive ==
  ASSUME NEW ch, NEW below, Tree(ch, below), NEW z \in All, NEW p \in below[z]
  PROVE  below[p] \subseteq below[z]
<1>. DEFINE Bad == {n \in All : p \in below[n] /\ ~(below[p] \subseteq below[n])}
            F == {below[n] : n \in Bad}
<1>1. SUFFICES ASSUME z \in Bad PROVE FALSE
  OBVIOUS
<1>2. F \in SUBSET (SUBSET All) /\ F # {}
  <2>1. \A n \in All : below[n] \in SUBSET All
    BY DEF Tree
  <2>. QED
    BY <1>1, <2>1
<1>3. PICK X \in F : \A Y \in F : Y \subseteq X => Y = X
  <2>. HIDE DEF F
  <2>. QED
    BY <1>2, NodesFinite, MinimalSet
<1>4. PICK n \in Bad : X = below[n]
  OBVIOUS
<1>5. p # n
  BY <1>4
<1>6. PICK t \in Sides : p \in below[ch[n][t]] /\ ch[n][t] # Nil /\ ch[n][t] \in Nodes
  BY <1>4, <1>5, BelowChild
<1>7. below[ch[n][t]] \subseteq below[n] /\ n \in below[n] /\ n \notin below[ch[n][t]]
  BY <1>4, ChildBelow
<1>8. ch[n][t] \in Bad
  BY <1>4, <1>6, <1>7 DEF All
<1>. QED
  BY <1>3, <1>4, <1>7, <1>8

\* Whatever has a child is linked.
LEMMA ParentLinked ==
  ASSUME NEW ch, NEW below, Tree(ch, below), NEW n \in All, NEW t \in Sides, ch[n][t] # Nil
  PROVE  n \in below[Root]
  BY DEF Tree, All

\* No two pointers lead to the same node.
LEMMA ParentUnique ==
  ASSUME NEW ch, NEW below, Tree(ch, below),
         NEW p \in All, NEW s \in Sides, NEW q \in All, NEW t \in Sides,
         ch[p][s] # Nil, ch[p][s] = ch[q][t]
  PROVE  p = q /\ s = t
<1>. DEFINE Bad == {n \in All : p \in below[n] /\ q \in below[n]}
            F == {below[n] : n \in Bad}
<1>1. Root \in Bad
  BY ParentLinked DEF All
<1>2. F \in SUBSET (SUBSET All) /\ F # {}
  <2>1. \A n \in All : below[n] \in SUBSET All
    BY DEF Tree
  <2>. QED
    BY <1>1, <2>1
<1>3. PICK X \in F : \A Y \in F : Y \subseteq X => Y = X
  <2>. HIDE DEF F
  <2>. QED
    BY <1>2, NodesFinite, MinimalSet
<1>4. PICK n \in Bad : X = below[n]
  OBVIOUS
<1>. DEFINE x == ch[p][s]
<1>5. x \in below[p] /\ x \in below[q] /\ x \in All /\ x \in Nodes
  BY ChildBelow
<1>6. \A u \in Sides : ~(p \in below[ch[n][u]] /\ q \in below[ch[n][u]])
  <2>. SUFFICES ASSUME NEW u \in Sides, p \in below[ch[n][u]], q \in below[ch[n][u]]
                PROVE  FALSE
    OBVIOUS
  <2>1. ch[n][u] # Nil
    BY DEF Tree
  <2>2. /\ ch[n][u] \in All /\ below[ch[n][u]] \subseteq below[n]
        /\ n \in below[n] /\ n \notin below[ch[n][u]]
    BY <2>1, <1>4, ChildBelow
  <2>3. ch[n][u] \in Bad
    BY <2>2
  <2>. QED
    BY <2>2, <2>3, <1>3, <1>4
<1>7. ASSUME NEW a \in All, NEW e \in Sides, NEW b \in All, NEW f \in Sides,
             ch[a][e] = x, ch[b][f] = x, a = n, b # n, b \in below[n]
      PROVE  FALSE
  <2>1. PICK u \in Sides : b \in below[ch[n][u]] /\ ch[n][u] # Nil /\ ch[n][u] \in Nodes
    BY <1>7, <1>4, BelowChild
  <2>2. ch[n][u] \in All
    BY <2>1 DEF All
  <2>3. x \in below[b] /\ below[b] \subseteq below[ch[n][u]]
    BY <1>7, <2>1, <2>2, ChildBelow, BelowTransitive
  <2>4. x \in below[x]
    BY <1>5 DEF Tree
  <2>5. u = e
    BY <1>7, <2>3, <2>4, <1>5, <1>4 DEF Tree
  <2>6. b \in below[x]
    BY <2>1, <2>5, <1>7
  <2>. QED
    BY <2>6, <1>7, ChildBelow
<1>8. CASE p = n
  <2>1. q = n
    BY <1>7, <1>8, <1>4
  <2>. QED
    BY <2>1, <1>8, <1>5 DEF Tree
<1>9. CASE p # n
  <2>1. q # n
    BY <1>7, <1>9, <1>4
  <2>2. PICK u \in Sides : p \in below[ch[n][u]] /\ ch[n][u] # Nil /\ ch[n][u] \in Nodes
    BY <1>9, <1>4, BelowChild
  <2>3. PICK w \in Sides : q \in below[ch[n][w]] /\ ch[n][w] # Nil /\ ch[n][w] \in Nodes
    BY <2>1, <1>4, BelowChild
  <2>4. x \in below[ch[n][u]] /\ x \in below[ch[n][w]]
    BY <2>2, <2>3, <1>5, BelowTransitive DEF All
  <2>5. u = w
    BY <2>4, <1>5, <1>4 DEF Tree
  <2>. QED
    BY <2>2, <2>3, <2>5, <1>6
<1>. QED
  BY <1>8, <1>9

\* What is below a node, other than itself, has its parent below it too.
LEMMA ParentExists ==
  ASSUME NEW ch, NEW below, Tree(ch, below), NEW z \in All, NEW x \in below[z], x # z
  PROVE  \E p \in below[z], t \in Sides : ch[p][t] = x
<1>. DEFINE Above == {n \in below[z] : x \in below[n] /\ x # n}
            F == {below[n] : n \in Above}
<1>1. z \in Above /\ below[z] \subseteq All
  BY DEF Tree
<1>2. F \in SUBSET (SUBSET All) /\ F # {}
  <2>1. \A n \in All : below[n] \in SUBSET All
    BY DEF Tree
  <2>. QED
    BY <1>1, <2>1
<1>3. PICK X \in F : \A Y \in F : Y \subseteq X => Y = X
  <2>. HIDE DEF F
  <2>. QED
    BY <1>2, NodesFinite, MinimalSet
<1>4. PICK n \in Above : X = below[n]
  OBVIOUS
<1>5. n \in All /\ n \in below[z]
  BY <1>1
<1>6. PICK t \in Sides : x \in below[ch[n][t]] /\ ch[n][t] # Nil /\ ch[n][t] \in Nodes
  BY <1>4, <1>5, BelowChild
<1>7. /\ ch[n][t] \in below[n] /\ below[n] \subseteq below[z]
      /\ below[ch[n][t]] \subseteq below[n] /\ n \in below[n] /\ n \notin below[ch[n][t]]
  BY <1>5, <1>6, ChildBelow, BelowTransitive
<1>8. ch[n][t] = x
  <2>1. ch[n][t] \notin Above
    BY <1>7, <1>3, <1>4
  <2>. QED
    BY <2>1, <1>6, <1>7
<1>. QED
  BY <1>5, <1>8

\* The only way down to a node is through its parent.
LEMMA ThroughParent ==
  ASSUME NEW ch, NEW below, Tree(ch, below), NEW p \in All, NEW s \in Sides,
         ch[p][s] # Nil, NEW m \in All, NEW t \in Sides, ch[p][s] \in below[ch[m][t]]
  PROVE  \/ m = p /\ t = s
         \/ p \in below[ch[m][t]]
<1>1. ch[m][t] # Nil
  BY DEF Tree
<1>2. CASE ch[m][t] = ch[p][s]
  BY <1>2, <1>1, ParentUnique
<1>3. CASE ch[m][t] # ch[p][s]
  <2>1. ch[m][t] \in All /\ below[ch[m][t]] \subseteq All
    BY <1>1, ChildBelow, ZenonT(40) DEF Tree
  <2>2. PICK q \in below[ch[m][t]], u \in Sides : ch[q][u] = ch[p][s]
    BY <1>3, <2>1, ParentExists
  <2>3. q = p
    BY <2>1, <2>2, ParentUnique
  <2>. QED
    BY <2>2, <2>3
<1>. QED
  BY <1>2, <1>3

\* A node splits what is below it between its sides.
LEMMA BelowSplit ==
  ASSUME NEW ch, NEW below, Tree(ch, below), NEW n \in All, NEW d \in Sides
  PROVE  /\ below[n] \subseteq All
         /\ below[n] = {n} \cup below[ch[n][d]] \cup below[ch[n][Other(d)]]
         /\ below[ch[n][d]] \cap below[ch[n][Other(d)]] = {}
         /\ n \notin below[ch[n][d]] /\ n \notin below[ch[n][Other(d)]]
<1>1. below[n] \subseteq All
  BY DEF Tree
<1>2. Other(d) \in Sides /\ Other(d) # d /\ \A t \in Sides : t = d \/ t = Other(d)
  BY SidesTwo
<1>3. /\ below[ch[n][d]] \subseteq below[n] /\ below[ch[n][Other(d)]] \subseteq below[n]
      /\ n \notin below[ch[n][d]] /\ n \notin below[ch[n][Other(d)]] /\ n \in below[n]
  BY <1>2, ChildBelow
<1>4. \A x \in All : x \in below[n] <=> x = n \/ \E t \in Sides : x \in below[ch[n][t]]
  BY DEF Tree
<1>5. below[ch[n][d]] \cap below[ch[n][Other(d)]] = {}
  BY <1>1, <1>2, <1>3 DEF Tree
<1>. QED
  BY <1>1, <1>2, <1>3, <1>4, <1>5

\* Conversely, a node that splits what is below it so is as in a tree.
Split(ch, below, n) ==
  \E d \in Sides :
    /\ below[n] = {n} \cup below[ch[n][d]] \cup below[ch[n][Other(d)]]
    /\ below[ch[n][d]] \cap below[ch[n][Other(d)]] = {}
    /\ n \notin below[ch[n][d]] /\ n \notin below[ch[n][Other(d)]]

LEMMA TreeOfSplits ==
  ASSUME NEW ch \in [All -> [Sides -> Nodes \cup {Nil}]], ch[Root]["left"] = Nil,
         NEW below \in [All \cup {Nil} -> SUBSET All], below[Nil] = {},
         \A n \in All : Split(ch, below, n),
         \A n \in Nodes : Root \notin below[n],
         \A n \in Nodes, t \in Sides : n \notin below[Root] => ch[n][t] = Nil
  PROVE  Tree(ch, below)
<1>1. ASSUME NEW n \in All
      PROVE  /\ \A x \in All : x \in below[n] <=> x = n \/ \E t \in Sides : x \in below[ch[n][t]]
             /\ \A t \in Sides : n \notin below[ch[n][t]]
             /\ \A x \in All, t, u \in Sides :
                  x \in below[ch[n][t]] /\ x \in below[ch[n][u]] => t = u
  <2>1. PICK d \in Sides :
          /\ below[n] = {n} \cup below[ch[n][d]] \cup below[ch[n][Other(d)]]
          /\ below[ch[n][d]] \cap below[ch[n][Other(d)]] = {}
          /\ n \notin below[ch[n][d]] /\ n \notin below[ch[n][Other(d)]]
    BY DEF Split
  <2>2. Other(d) \in Sides /\ Other(d) # d /\ \A t \in Sides : t = d \/ t = Other(d)
    BY SidesTwo
  <2>. QED
    BY <2>1, <2>2
<1>. QED
  BY <1>1 DEF Tree

-----------------------------------------------------------------------------
(* What the operations do to a tree.                                       *)

\* A rotation: the child c of node a on side d takes its place at the link (f, s), and
\* a becomes its child on the other side.  Only below a and c anything changes.
Rotated(ch, ch2, f, s, d) ==
  LET a == ch[f][s]
      c == ch[a][d]
  IN  \A m \in All, t \in Sides :
        ch2[m][t] = IF m = f /\ t = s THEN c
                    ELSE IF m = a /\ t = d THEN ch[c][Other(d)]
                    ELSE IF m = c /\ t = Other(d) THEN a
                    ELSE ch[m][t]

RotatedBelow(ch, below, ch2, below2, f, s, d) ==
  LET a == ch[f][s]
      c == ch[a][d]
      o == Other(d)
  IN  /\ below2[Root] = below[Root]
      /\ below2[c] = below[a]
      /\ \A m \in All \ {a, c}, t \in Sides : below2[ch2[m][t]] = below[ch[m][t]]
      /\ below2[ch2[a][d]] = below[ch[c][o]]
      /\ below2[ch2[a][o]] = below[ch[a][o]]
      /\ below2[ch2[c][d]] = below[ch[c][d]]
      /\ below2[ch2[c][o]] = {a} \cup below[ch[a][o]] \cup below[ch[c][o]]

LEMMA RotatedTree ==
  ASSUME NEW ch, NEW below, Tree(ch, below),
         NEW f \in All, NEW s \in Sides, ch[f][s] # Nil,
         NEW d \in Sides, ch[ch[f][s]][d] # Nil,
         NEW ch2 \in [All -> [Sides -> Nodes \cup {Nil}]], Rotated(ch, ch2, f, s, d)
  PROVE  \E below2 : Tree(ch2, below2) /\ RotatedBelow(ch, below, ch2, below2, f, s, d)
<1>. DEFINE a == ch[f][s]
            c == ch[a][d]
            o == Other(d)
            y == ch[c][o]
            z == ch[a][o]
            w == ch[c][d]
            new == [m \in All \cup {Nil} |->
                      IF m = c THEN below[a]
                      ELSE IF m = a THEN {a} \cup below[z] \cup below[y]
                      ELSE below[m]]
<1>0. /\ ch[f][s] = a /\ ch[a][d] = c /\ o = Other(d)
      /\ ch[c][o] = y /\ ch[a][o] = z /\ ch[c][d] = w
      /\ a # Nil /\ c # Nil
  OBVIOUS
<1>00. \A m \in All, t \in Sides :
        ch2[m][t] = IF m = f /\ t = s THEN c
                    ELSE IF m = a /\ t = d THEN y
                    ELSE IF m = c /\ t = o THEN a
                    ELSE ch[m][t]
  BY DEF Rotated
<1>. HIDE DEF a, c, o, y, z, w
<1>1. /\ o \in Sides /\ o # d /\ d # o
      /\ \A t \in Sides : t = d \/ t = o
  BY <1>0, SidesTwo
<1>2. /\ a \in Nodes /\ a \in All /\ c \in Nodes /\ c \in All
      /\ a # Nil /\ c # Nil /\ Nil \notin All /\ Root # a /\ Root # c /\ Root \in All
  <2>1. a \in Nodes /\ a \in All
    BY <1>0, ChildBelow DEF All
  <2>2. c \in Nodes /\ c \in All
    BY <1>0, <2>1, ChildBelow DEF All
  <2>. QED
    BY <1>0, <2>1, <2>2, NodesAssumption DEF All
<1>3. /\ below[a] \subseteq below[f] /\ f \notin below[a]
      /\ y \in Nodes \cup {Nil} /\ w \in Nodes \cup {Nil} /\ z \in Nodes \cup {Nil}
  <2>1. below[a] \subseteq below[f] /\ f \notin below[a]
    BY <1>0, ChildBelow
  <2>2. y \in Nodes \cup {Nil} /\ w \in Nodes \cup {Nil} /\ z \in Nodes \cup {Nil}
    BY <1>0, <1>1, <1>2, ChildBelow
  <2>. QED
    BY <2>1, <2>2
<1>4. /\ below[a] \subseteq All
      /\ below[c] \cap below[z] = {} /\ below[y] \cap below[w] = {}
      /\ below[a] = {a} \cup below[c] \cup below[z]
      /\ below[c] = {c} \cup below[y] \cup below[w]
      /\ a \notin below[c] /\ a \notin below[z] /\ c \notin below[y] /\ c \notin below[w]
  <2>1. /\ below[a] \subseteq All
        /\ below[a] = {a} \cup below[c] \cup below[z]
        /\ below[c] \cap below[z] = {} /\ a \notin below[c] /\ a \notin below[z]
    <3>1. /\ below[a] \subseteq All
          /\ below[a] = {a} \cup below[ch[a][d]] \cup below[ch[a][Other(d)]]
          /\ below[ch[a][d]] \cap below[ch[a][Other(d)]] = {}
          /\ a \notin below[ch[a][d]] /\ a \notin below[ch[a][Other(d)]]
      BY <1>2, BelowSplit
    <3>2. ch[a][d] = c /\ ch[a][Other(d)] = z
      BY <1>0
    <3>. QED
      BY <3>1, <3>2
  <2>2. /\ below[c] = {c} \cup below[w] \cup below[y]
        /\ below[w] \cap below[y] = {} /\ c \notin below[w] /\ c \notin below[y]
    <3>1. /\ below[c] \subseteq All
          /\ below[c] = {c} \cup below[ch[c][d]] \cup below[ch[c][Other(d)]]
          /\ below[ch[c][d]] \cap below[ch[c][Other(d)]] = {}
          /\ c \notin below[ch[c][d]] /\ c \notin below[ch[c][Other(d)]]
      BY <1>2, BelowSplit
    <3>2. ch[c][d] = w /\ ch[c][Other(d)] = y
      BY <1>0
    <3>. QED
      BY <3>1, <3>2
  <2>. QED
    BY <2>1, <2>2
<1>5. \A m \in All, t \in Sides : /\ ch[m][t] = a => m = f /\ t = s
                                  /\ ch[m][t] = c => m = a /\ t = d
  <2>1. \A m \in All, t \in Sides : ch[m][t] = a => m = f /\ t = s
    BY <1>0, <1>2, ParentUnique
  <2>2. \A m \in All, t \in Sides : ch[m][t] = c => m = a /\ t = d
    BY <1>0, <1>2, ParentUnique
  <2>. QED
    BY <2>1, <2>2
<1>6. a # c /\ f # a /\ f # c
  BY <1>3, <1>4
<1>7. y \notin {a, c} /\ z \notin {a, c} /\ w \notin {a, c}
  BY <1>0, <1>5, <1>6, <1>1, <1>2
<1>8. /\ ch2[f][s] = c
      /\ ch2[a][d] = y /\ ch2[a][o] = z /\ ch2[c][o] = a /\ ch2[c][d] = w
      /\ \A m \in All \ {a, c}, t \in Sides : m # f \/ t # s => ch2[m][t] = ch[m][t]
  BY <1>0, <1>00, <1>1, <1>2, <1>6
<1>9. /\ new[Nil] = {} /\ new[Root] = below[Root]
      /\ new[c] = below[a] /\ new[a] = {a} \cup below[z] \cup below[y]
      /\ new[y] = below[y] /\ new[z] = below[z] /\ new[w] = below[w]
      /\ \A m \in All \ {a, c} : new[m] = below[m]
  BY <1>2, <1>3, <1>6, <1>7 DEF Tree, All
<1>10. \A m \in All \ {a, c}, t \in Sides : new[ch2[m][t]] = below[ch[m][t]]
  <2>. SUFFICES ASSUME NEW m \in All \ {a, c}, NEW t \in Sides
                PROVE  new[ch2[m][t]] = below[ch[m][t]]
    OBVIOUS
  <2>1. CASE m = f /\ t = s
    <3>1. ch2[m][t] = c /\ ch[m][t] = a
      BY <2>1, <1>0, <1>8
    <3>. QED
      BY <3>1, <1>9
  <2>2. CASE m # f \/ t # s
    <3>1. ch2[m][t] = ch[m][t] /\ ch[m][t] \in Nodes \cup {Nil}
      BY <2>2, <1>8, ChildBelow
    <3>2. ch[m][t] \notin {a, c}
      BY <2>2, <1>5
    <3>3. below[Nil] = {}
      BY DEF Tree
    <3>. QED
      BY <3>1, <3>2, <3>3, <1>9 DEF All
  <2>. QED
    BY <2>1, <2>2
<1>11. RotatedBelow(ch, below, ch2, new, f, s, d)
  <2>1. /\ ch[f][s] = a /\ ch[a][d] = c /\ Other(d) = o
        /\ ch[c][o] = y /\ ch[a][o] = z /\ ch[c][d] = w
    BY <1>0
  <2>2. /\ new[ch2[a][d]] = below[y] /\ new[ch2[a][o]] = below[z] /\ new[ch2[c][d]] = below[w]
        /\ new[ch2[c][o]] = {a} \cup below[z] \cup below[y]
    BY <1>8, <1>9
  <2>. HIDE DEF new
  <2>. QED
    BY <2>1, <2>2, <1>9, <1>10 DEF RotatedBelow
<1>12. new \in [All \cup {Nil} -> SUBSET All]
  <2>1. \A m \in All \cup {Nil} : below[m] \subseteq All
    BY DEF Tree
  <2>. QED
    BY <2>1, <1>2, <1>4
<1>. HIDE DEF new
<1>13. \A n \in All : Split(ch2, new, n)
  <2>1. ASSUME NEW n \in All \ {a, c} PROVE Split(ch2, new, n)
    <3>1. /\ below[n] = {n} \cup below[ch[n][d]] \cup below[ch[n][o]]
          /\ below[ch[n][d]] \cap below[ch[n][o]] = {}
          /\ n \notin below[ch[n][d]] /\ n \notin below[ch[n][o]]
      <4>1. /\ below[n] \subseteq All
            /\ below[n] = {n} \cup below[ch[n][d]] \cup below[ch[n][Other(d)]]
            /\ below[ch[n][d]] \cap below[ch[n][Other(d)]] = {}
            /\ n \notin below[ch[n][d]] /\ n \notin below[ch[n][Other(d)]]
        BY BelowSplit
      <4>. QED
        BY <1>0, <4>1
    <3>2. /\ new[ch2[n][d]] = below[ch[n][d]] /\ new[ch2[n][o]] = below[ch[n][o]]
          /\ new[n] = below[n]
      BY <1>1, <1>9, <1>10
    <3>. QED
      BY <1>0, <3>1, <3>2 DEF Split
  <2>2. Split(ch2, new, a)
    <3>1. /\ new[a] = {a} \cup new[ch2[a][d]] \cup new[ch2[a][o]]
          /\ a \notin new[ch2[a][d]] /\ a \notin new[ch2[a][o]]
          /\ new[ch2[a][d]] \cap new[ch2[a][o]] = {}
      BY <1>8, <1>9, <1>4
    <3>. QED
      BY <1>0, <3>1 DEF Split
  <2>3. Split(ch2, new, c)
    <3>1. /\ new[c] = {c} \cup new[ch2[c][d]] \cup new[ch2[c][o]]
          /\ c \notin new[ch2[c][d]] /\ c \notin new[ch2[c][o]]
          /\ new[ch2[c][d]] \cap new[ch2[c][o]] = {}
      BY <1>8, <1>9, <1>4, <1>6
    <3>. QED
      BY <1>0, <3>1 DEF Split
  <2>. QED
    BY <2>1, <2>2, <2>3
<1>14. \A n \in Nodes : Root \notin new[n]
  <2>1. \A n \in Nodes : Root \notin below[n]
    BY DEF Tree
  <2>2. Root \notin below[y] /\ Root \notin below[z] /\ Root \notin below[a]
    BY <2>1, <1>2, <1>4
  <2>. QED
    BY <2>1, <2>2, <1>2, <1>9 DEF All
<1>15. \A n \in Nodes, t \in Sides : n \notin new[Root] => ch2[n][t] = Nil
  <2>. SUFFICES ASSUME NEW n \in Nodes, NEW t \in Sides, n \notin below[Root]
                PROVE  ch2[n][t] = Nil
    BY <1>9
  <2>1. f \in below[Root] /\ a \in below[Root] /\ c \in below[Root]
    <3>1. f \in below[Root]
      BY <1>0, ParentLinked
    <3>2. a \in below[Root]
      BY <1>0, <1>2, ParentLinked
    <3>3. below[a] \subseteq below[Root]
      BY <1>2, <3>2, BelowTransitive
    <3>. QED
      BY <3>1, <3>2, <3>3, <1>4
  <2>2. n \in All \ {a, c} /\ n # f
    BY <2>1 DEF All
  <2>. QED
    BY <2>2, <1>8 DEF Tree
<1>16. ch2[Root]["left"] = Nil
  <2>1. ch[Root]["left"] = Nil /\ "left" \in Sides
    BY SidesTwo DEF Tree
  <2>2. ~(Root = f /\ "left" = s)
    BY <2>1
  <2>. QED
    BY <2>1, <2>2, <1>2, <1>8
<1>17. Tree(ch2, new)
  BY <1>9, <1>12, <1>13, <1>14, <1>15, <1>16, TreeOfSplits
<1>. QED
  BY <1>11, <1>17

\* A node that is not linked is alone.
LEMMA UnlinkedAlone ==
  ASSUME NEW ch, NEW below, Tree(ch, below), NEW n \in Nodes, n \notin below[Root]
  PROVE  /\ n \in All /\ below[n] = {n}
         /\ \A m \in All \ {n} : n \notin below[m]
         /\ \A m \in All, t \in Sides : ch[m][t] # n /\ n \notin below[ch[m][t]]
<1>1. n \in All /\ n # Nil
  BY NodesAssumption DEF All
<1>2. \A t \in Sides : ch[n][t] = Nil
  BY DEF Tree
<1>3. below[n] = {n}
  BY <1>1, <1>2 DEF Tree
<1>4. ASSUME NEW m \in All \ {n} PROVE n \notin below[m]
  <2>1. CASE m \in below[Root]
    BY <2>1, BelowTransitive DEF All
  <2>2. CASE m \notin below[Root]
    <3>1. m \in Nodes
      BY <2>2 DEF Tree, All
    <3>2. \A t \in Sides : ch[m][t] = Nil
      BY <2>2, <3>1 DEF Tree
    <3>. QED
      BY <1>1, <3>2 DEF Tree
  <2>. QED
    BY <2>1, <2>2
<1>5. ASSUME NEW m \in All, NEW t \in Sides PROVE ch[m][t] # n /\ n \notin below[ch[m][t]]
  <2>1. ch[m][t] # n
    <3>1. SUFFICES ASSUME ch[m][t] = n PROVE FALSE
      OBVIOUS
    <3>2. n \in below[m] /\ m \in below[Root]
      BY <1>1, <3>1, ChildBelow, ParentLinked
    <3>. QED
      BY <3>2, BelowTransitive DEF All
  <2>2. ch[m][t] = Nil => n \notin below[ch[m][t]]
    BY DEF Tree
  <2>3. ch[m][t] # Nil => ch[m][t] \in All
    BY ChildBelow
  <2>. QED
    BY <2>1, <2>2, <2>3, <1>4
<1>. QED
  BY <1>1, <1>3, <1>4, <1>5

\* The link (f, s) is below node m on side t.
Under(ch, below, f, s, m, t) ==
  \/ m = f /\ t = s
  \/ f \in below[ch[m][t]]

\* A node n is linked where the link (f, s) leads nowhere.
Inserted(ch, ch2, f, s, n) ==
  \A m \in All, t \in Sides : ch2[m][t] = IF m = f /\ t = s THEN n ELSE ch[m][t]

InsertedBelow(ch, below, ch2, below2, f, s, n) ==
  /\ below2[Root] = below[Root] \cup {n}
  /\ \A m \in All, t \in Sides :
       below2[ch2[m][t]] = IF Under(ch, below, f, s, m, t)
                           THEN below[ch[m][t]] \cup {n} ELSE below[ch[m][t]]

LEMMA InsertedTree ==
  ASSUME NEW ch, NEW below, Tree(ch, below),
         NEW f \in below[Root], NEW s \in Sides, ch[f][s] = Nil, f = Root => s # "left",
         NEW n \in Nodes, n \notin below[Root],
         NEW ch2 \in [All -> [Sides -> Nodes \cup {Nil}]], Inserted(ch, ch2, f, s, n)
  PROVE  \E below2 : Tree(ch2, below2) /\ InsertedBelow(ch, below, ch2, below2, f, s, n)
<1>. DEFINE new == [m \in All \cup {Nil} |->
                      IF f \in below[m] THEN below[m] \cup {n} ELSE below[m]]
<1>1. /\ n \in All /\ below[n] = {n}
      /\ \A m \in All \ {n} : n \notin below[m]
      /\ \A m \in All, t \in Sides : ch[m][t] # n /\ n \notin below[ch[m][t]]
  BY UnlinkedAlone
<1>2. /\ f \in All /\ f # n /\ Root \in All /\ Root # n /\ n # Nil /\ Nil \notin All
      /\ below[Nil] = {} /\ \A m \in All : below[m] \subseteq All
  BY NodesAssumption DEF Tree, All
<1>3. /\ new[Nil] = {} /\ new[n] = {n} /\ new[Root] = below[Root] \cup {n}
      /\ \A m \in All \cup {Nil} : new[m] = IF f \in below[m] THEN below[m] \cup {n} ELSE below[m]
  BY <1>1, <1>2
<1>4. new \in [All \cup {Nil} -> SUBSET All]
  BY <1>1, <1>2
<1>. HIDE DEF new
<1>5. ASSUME NEW m \in All, NEW t \in Sides
      PROVE  new[ch2[m][t]] = IF Under(ch, below, f, s, m, t)
                              THEN below[ch[m][t]] \cup {n} ELSE below[ch[m][t]]
  <2>1. CASE m = f /\ t = s
    <3>1. ch2[m][t] = n /\ ch[m][t] = Nil
      BY <2>1 DEF Inserted
    <3>. QED
      BY <2>1, <3>1, <1>2, <1>3 DEF Under
  <2>2. CASE ~(m = f /\ t = s)
    <3>1. ch2[m][t] = ch[m][t] /\ ch[m][t] \in All \cup {Nil}
      BY <2>2, ChildBelow DEF Inserted, All
    <3>. QED
      BY <2>2, <3>1, <1>3 DEF Under
  <2>. QED
    BY <2>1, <2>2
<1>6. InsertedBelow(ch, below, ch2, new, f, s, n)
  BY <1>3, <1>5 DEF InsertedBelow
<1>7. ASSUME NEW m \in All PROVE Split(ch2, new, m)
  <2>0. s \in Sides /\ Other(s) \in Sides /\ Other(s) # s
    BY SidesTwo
  <2>1. /\ below[m] \subseteq All
        /\ below[m] = {m} \cup below[ch[m][s]] \cup below[ch[m][Other(s)]]
        /\ below[ch[m][s]] \cap below[ch[m][Other(s)]] = {}
        /\ m \notin below[ch[m][s]] /\ m \notin below[ch[m][Other(s)]]
    BY BelowSplit
  <2>2. /\ n \notin below[ch[m][s]] /\ n \notin below[ch[m][Other(s)]]
        /\ new[m] = IF f \in below[m] THEN below[m] \cup {n} ELSE below[m]
    BY <2>0, <1>1, <1>3
  <2>3. CASE m = n
    <3>1. /\ ch2[n][s] = Nil /\ ch2[n][Other(s)] = Nil
      <4>1. \A t \in Sides : ch[n][t] = Nil
        BY DEF Tree
      <4>. QED
        BY <4>1, <2>0, <1>1, <1>2 DEF Inserted
    <3>. QED
      BY <2>0, <2>3, <3>1, <1>3 DEF Split
  <2>4. CASE m = f
    <3>1. /\ new[ch2[m][s]] = below[ch[m][s]] \cup {n}
          /\ new[ch2[m][Other(s)]] = below[ch[m][Other(s)]]
      BY <2>0, <2>1, <2>4, <1>5 DEF Under
    <3>2. f \in below[m]
      BY <2>1, <2>4
    <3>. QED
      BY <2>0, <2>1, <2>2, <2>4, <3>1, <3>2, <1>2 DEF Split
  <2>5. CASE m # n /\ m # f
    <3>1. /\ new[ch2[m][s]] = IF f \in below[ch[m][s]]
                              THEN below[ch[m][s]] \cup {n} ELSE below[ch[m][s]]
          /\ new[ch2[m][Other(s)]] = IF f \in below[ch[m][Other(s)]]
                              THEN below[ch[m][Other(s)]] \cup {n} ELSE below[ch[m][Other(s)]]
      BY <2>0, <2>5, <1>5 DEF Under
    <3>2. f \in below[m] <=> f \in below[ch[m][s]] \/ f \in below[ch[m][Other(s)]]
      BY <2>1, <2>5
    <3>3. /\ new[m] = {m} \cup new[ch2[m][s]] \cup new[ch2[m][Other(s)]]
          /\ new[ch2[m][s]] \cap new[ch2[m][Other(s)]] = {}
          /\ m \notin new[ch2[m][s]] /\ m \notin new[ch2[m][Other(s)]]
      BY <2>1, <2>2, <2>5, <3>1, <3>2
    <3>. QED
      BY <2>0, <3>3 DEF Split
  <2>. QED
    BY <2>3, <2>4, <2>5
<1>8. ASSUME NEW m \in Nodes PROVE Root \notin new[m]
  <2>1. Root \notin below[m] /\ m \in All
    BY DEF Tree, All
  <2>. QED
    BY <2>1, <1>2, <1>3
<1>9. \A m \in Nodes, t \in Sides : m \notin new[Root] => ch2[m][t] = Nil
  BY <1>3 DEF Inserted, Tree, All
<1>10. ch2[Root]["left"] = Nil
  BY <1>2, SidesTwo DEF Inserted, Tree
<1>11. Tree(ch2, new)
  BY <1>3, <1>4, <1>7, <1>8, <1>9, <1>10, TreeOfSplits
<1>. QED
  BY <1>6, <1>11

\* A node n with no child on the side other than d is taken out: its child on side d
\* takes its place at the link (f, s).
Spliced(ch, ch2, f, s, d) ==
  \A m \in All, t \in Sides :
    ch2[m][t] = IF m = f /\ t = s THEN ch[ch[f][s]][d]
                ELSE IF m = ch[f][s] THEN Nil
                ELSE ch[m][t]

SplicedBelow(ch, below, ch2, below2, n) ==
  /\ below2[Root] = below[Root] \ {n}
  /\ \A m \in All \ {n} : below2[m] = below[m] \ {n}
  /\ \A m \in All \ {n}, t \in Sides : below2[ch2[m][t]] = below[ch[m][t]] \ {n}

LEMMA SplicedTree ==
  ASSUME NEW ch, NEW below, Tree(ch, below),
         NEW f \in All, NEW s \in Sides, NEW n, ch[f][s] = n, n # Nil,
         NEW d \in Sides, ch[n][Other(d)] = Nil,
         NEW ch2 \in [All -> [Sides -> Nodes \cup {Nil}]], Spliced(ch, ch2, f, s, d)
  PROVE  \E below2 : Tree(ch2, below2) /\ SplicedBelow(ch, below, ch2, below2, n)
<1>. DEFINE new == [m \in All \cup {Nil} |-> IF m = n THEN {n} ELSE below[m] \ {n}]
<1>1. /\ n \in Nodes /\ n \in All /\ Root \in All /\ Root # n /\ Nil \notin All
      /\ below[Nil] = {} /\ \A m \in All : below[m] \subseteq All
  BY ChildBelow, NodesAssumption DEF Tree, All
<1>2. Other(d) \in Sides /\ Other(d) # d /\ \A t \in Sides : t = d \/ t = Other(d)
  BY SidesTwo
<1>3. /\ below[n] \subseteq All
      /\ below[n] = {n} \cup below[ch[n][d]] \cup below[ch[n][Other(d)]]
      /\ below[ch[n][d]] \cap below[ch[n][Other(d)]] = {}
      /\ n \notin below[ch[n][d]] /\ n \notin below[ch[n][Other(d)]]
  BY <1>1, BelowSplit
<1>4. /\ below[n] = {n} \cup below[ch[n][d]] /\ ch[n][d] # n /\ ch[n][d] \in All \cup {Nil}
      /\ n \notin below[ch[n][d]]
  <2>1. ch[n][d] \in Nodes \cup {Nil} /\ n \in below[n] /\ n \notin below[ch[n][d]]
    BY <1>1, ChildBelow
  <2>. QED
    BY <2>1, <1>1, <1>3 DEF All
<1>5. n \notin below[ch[n][d]] /\ f # n
  BY <1>1, <1>3, <1>4, ChildBelow
<1>6. \A m \in All, t \in Sides : ch[m][t] = n => m = f /\ t = s
  BY ParentUnique
<1>7. /\ new[Nil] = {} /\ new[n] = {n} /\ new[Root] = below[Root] \ {n}
      /\ \A m \in (All \cup {Nil}) \ {n} : new[m] = below[m] \ {n}
  BY <1>1
<1>8. new \in [All \cup {Nil} -> SUBSET All]
  BY <1>1
<1>. HIDE DEF new
<1>9. ASSUME NEW m \in All \ {n}, NEW t \in Sides
      PROVE  new[ch2[m][t]] = below[ch[m][t]] \ {n}
  <2>1. CASE m = f /\ t = s
    <3>1. ch2[m][t] = ch[n][d] /\ ch[m][t] = n
      BY <2>1 DEF Spliced
    <3>. QED
      BY <3>1, <1>4, <1>7
  <2>2. CASE ~(m = f /\ t = s)
    <3>1. ch2[m][t] = ch[m][t] /\ ch[m][t] \in All \cup {Nil} /\ ch[m][t] # n
      BY <2>2, <1>6, ChildBelow DEF Spliced, All
    <3>. QED
      BY <3>1, <1>7
  <2>. QED
    BY <2>1, <2>2
<1>10. SplicedBelow(ch, below, ch2, new, n)
  BY <1>7, <1>9 DEF SplicedBelow
<1>11. \A t \in Sides : ch2[n][t] = Nil
  BY <1>1, <1>5 DEF Spliced
<1>12. ASSUME NEW m \in All PROVE Split(ch2, new, m)
  <2>1. CASE m = n
    BY <2>1, <1>2, <1>7, <1>11 DEF Split
  <2>2. CASE m # n
    <3>1. /\ below[m] \subseteq All
          /\ below[m] = {m} \cup below[ch[m][d]] \cup below[ch[m][Other(d)]]
          /\ below[ch[m][d]] \cap below[ch[m][Other(d)]] = {}
          /\ m \notin below[ch[m][d]] /\ m \notin below[ch[m][Other(d)]]
      BY BelowSplit
    <3>2. /\ new[m] = below[m] \ {n}
          /\ new[ch2[m][d]] = below[ch[m][d]] \ {n}
          /\ new[ch2[m][Other(d)]] = below[ch[m][Other(d)]] \ {n}
      BY <2>2, <1>2, <1>7, <1>9
    <3>3. /\ new[m] = {m} \cup new[ch2[m][d]] \cup new[ch2[m][Other(d)]]
          /\ new[ch2[m][d]] \cap new[ch2[m][Other(d)]] = {}
          /\ m \notin new[ch2[m][d]] /\ m \notin new[ch2[m][Other(d)]]
      BY <2>2, <3>1, <3>2
    <3>. QED
      BY <3>3 DEF Split
  <2>. QED
    BY <2>1, <2>2
<1>13. \A m \in Nodes : Root \notin new[m]
  <2>1. \A m \in Nodes : Root \notin below[m]
    BY DEF Tree
  <2>. QED
    BY <2>1, <1>1, <1>7 DEF All
<1>14. \A m \in Nodes, t \in Sides : m \notin new[Root] => ch2[m][t] = Nil
  <2>. SUFFICES ASSUME NEW m \in Nodes, NEW t \in Sides, m \notin below[Root], m # n
                PROVE  ch2[m][t] = Nil
    BY <1>7, <1>11
  <2>1. m # f
    BY ParentLinked
  <2>. QED
    BY <2>1 DEF Spliced, Tree, All
<1>15. ch2[Root]["left"] = Nil
  <2>1. ch[Root]["left"] = Nil /\ "left" \in Sides
    BY SidesTwo DEF Tree
  <2>2. ~(Root = f /\ "left" = s)
    BY <2>1
  <2>. QED
    BY <2>1, <2>2, <1>1 DEF Spliced
<1>16. Tree(ch2, new)
  BY <1>7, <1>8, <1>12, <1>13, <1>14, <1>15, TreeOfSplits
<1>. QED
  BY <1>10, <1>16

\* A node m, which is not linked, takes the place of node n at the link (f, s) and its
\* children.
Replaced(ch, ch2, f, s, m) ==
  \A p \in All, t \in Sides :
    ch2[p][t] = IF p = f /\ t = s THEN m
                ELSE IF p = m THEN ch[ch[f][s]][t]
                ELSE IF p = ch[f][s] THEN Nil
                ELSE ch[p][t]

Swap(S, n, m) == IF n \in S THEN (S \ {n}) \cup {m} ELSE S

ReplacedBelow(ch, below, ch2, below2, n, m) ==
  /\ below2[Root] = Swap(below[Root], n, m)
  /\ \A t \in Sides : below2[ch2[m][t]] = below[ch[n][t]]
  /\ \A p \in All \ {n, m}, t \in Sides : below2[ch2[p][t]] = Swap(below[ch[p][t]], n, m)

LEMMA ReplacedTree ==
  ASSUME NEW ch, NEW below, Tree(ch, below),
         NEW f \in All, NEW s \in Sides, NEW n, ch[f][s] = n, n # Nil,
         NEW m \in Nodes, m \notin below[Root],
         NEW ch2 \in [All -> [Sides -> Nodes \cup {Nil}]], Replaced(ch, ch2, f, s, m)
  PROVE  \E below2 : Tree(ch2, below2) /\ ReplacedBelow(ch, below, ch2, below2, n, m)
<1>. DEFINE new == [p \in All \cup {Nil} |-> IF p = n THEN {n}
                                             ELSE IF p = m THEN Swap(below[n], n, m)
                                             ELSE Swap(below[p], n, m)]
<1>1. /\ n \in Nodes /\ n \in All /\ Root \in All /\ Root # n /\ Nil \notin All /\ Root # m
      /\ below[Nil] = {} /\ \A p \in All : below[p] \subseteq All
  BY ChildBelow, NodesAssumption DEF Tree, All
<1>2. /\ m \in All /\ below[m] = {m}
      /\ \A p \in All \ {m} : m \notin below[p]
      /\ \A p \in All, t \in Sides : ch[p][t] # m /\ m \notin below[ch[p][t]]
  BY UnlinkedAlone
<1>3. f \in below[Root] /\ f # n /\ m # n /\ m # f /\ n \in below[n]
  BY <1>1, <1>2, ParentLinked, ChildBelow
<1>4. \A p \in All, t \in Sides : ch[p][t] = n => p = f /\ t = s
  BY ParentUnique
<1>5. \A t \in Sides : /\ ch[n][t] \in (All \cup {Nil}) \ {n, m} /\ n \notin below[ch[n][t]]
                       /\ ch[n][t] \in Nodes \cup {Nil}
  BY <1>1, <1>2, <1>3, <1>4, ChildBelow DEF All
<1>6. /\ new[Nil] = {} /\ new[n] = {n} /\ new[m] = Swap(below[n], n, m)
      /\ new[Root] = Swap(below[Root], n, m)
      /\ \A p \in (All \cup {Nil}) \ {n, m} : new[p] = Swap(below[p], n, m)
  BY <1>1, <1>2, <1>3 DEF Swap
<1>7. new \in [All \cup {Nil} -> SUBSET All]
  BY <1>1, <1>2 DEF Swap
<1>. HIDE DEF new
<1>8. ASSUME NEW t \in Sides PROVE new[ch2[m][t]] = below[ch[n][t]]
  <2>1. ch2[m][t] = ch[n][t]
    BY <1>2, <1>3 DEF Replaced
  <2>. QED
    BY <2>1, <1>5, <1>6 DEF Swap
<1>9. ASSUME NEW p \in All \ {n, m}, NEW t \in Sides
      PROVE  new[ch2[p][t]] = Swap(below[ch[p][t]], n, m)
  <2>1. CASE p = f /\ t = s
    <3>1. ch2[p][t] = m /\ ch[p][t] = n
      BY <2>1 DEF Replaced
    <3>. QED
      BY <3>1, <1>6
  <2>2. CASE ~(p = f /\ t = s)
    <3>1. ch2[p][t] = ch[p][t]
      BY <2>2 DEF Replaced
    <3>2. ch[p][t] \in All \cup {Nil} /\ ch[p][t] # n /\ ch[p][t] # m
      BY <2>2, <1>2, <1>4, ChildBelow DEF All
    <3>. QED
      BY <3>1, <3>2, <1>6
  <2>. QED
    BY <2>1, <2>2
<1>10. ReplacedBelow(ch, below, ch2, new, n, m)
  BY <1>6, <1>8, <1>9 DEF ReplacedBelow
<1>11. \A t \in Sides : ch2[n][t] = Nil
  BY <1>1, <1>3 DEF Replaced
<1>12. ASSUME NEW p \in All PROVE Split(ch2, new, p)
  <2>0. s \in Sides /\ Other(s) \in Sides /\ Other(s) # s
    BY SidesTwo
  <2>1. CASE p = n
    BY <2>0, <2>1, <1>6, <1>11 DEF Split
  <2>2. CASE p = m
    <3>1. /\ below[n] \subseteq All
          /\ below[n] = {n} \cup below[ch[n][s]] \cup below[ch[n][Other(s)]]
          /\ below[ch[n][s]] \cap below[ch[n][Other(s)]] = {}
          /\ n \notin below[ch[n][s]] /\ n \notin below[ch[n][Other(s)]]
      <4>1. n \in All
        BY <1>1
      <4>. QED
        BY ONLY <4>1, s \in Sides, Tree(ch, below), BelowSplit
    <3>2. /\ new[ch2[m][s]] = below[ch[n][s]]
          /\ new[ch2[m][Other(s)]] = below[ch[n][Other(s)]]
          /\ m \notin below[ch[n][s]] /\ m \notin below[ch[n][Other(s)]]
      BY <2>0, <1>1, <1>2, <1>8
    <3>3. new[m] = (below[n] \ {n}) \cup {m}
      BY <1>3, <1>6 DEF Swap
    <3>4. /\ new[m] = {m} \cup new[ch2[m][s]] \cup new[ch2[m][Other(s)]]
          /\ new[ch2[m][s]] \cap new[ch2[m][Other(s)]] = {}
          /\ m \notin new[ch2[m][s]] /\ m \notin new[ch2[m][Other(s)]]
      BY <3>1, <3>2, <3>3
    <3>. QED
      BY <2>0, <2>2, <3>4 DEF Split
  <2>3. CASE p # n /\ p # m
    <3>1. /\ below[p] \subseteq All
          /\ below[p] = {p} \cup below[ch[p][s]] \cup below[ch[p][Other(s)]]
          /\ below[ch[p][s]] \cap below[ch[p][Other(s)]] = {}
          /\ p \notin below[ch[p][s]] /\ p \notin below[ch[p][Other(s)]]
      BY BelowSplit
    <3>2. /\ new[ch2[p][s]] = Swap(below[ch[p][s]], n, m)
          /\ new[ch2[p][Other(s)]] = Swap(below[ch[p][Other(s)]], n, m)
          /\ m \notin below[ch[p][s]] /\ m \notin below[ch[p][Other(s)]]
      BY <2>0, <2>3, <1>2, <1>9
    <3>3. new[p] = Swap(below[p], n, m) /\ m \notin below[p]
      BY <2>3, <1>2, <1>6
    <3>4. /\ new[p] = {p} \cup new[ch2[p][s]] \cup new[ch2[p][Other(s)]]
          /\ new[ch2[p][s]] \cap new[ch2[p][Other(s)]] = {}
          /\ p \notin new[ch2[p][s]] /\ p \notin new[ch2[p][Other(s)]]
      BY <2>3, <3>1, <3>2, <3>3 DEF Swap
    <3>. QED
      BY <2>0, <3>4 DEF Split
  <2>. QED
    BY <2>1, <2>2, <2>3
<1>13. ASSUME NEW p \in Nodes PROVE Root \notin new[p]
  <2>1. Root \notin below[p] /\ Root \notin below[n] /\ p \in All
    BY <1>1 DEF Tree, All
  <2>. QED
    <3>1. CASE p = n
      BY <3>1, <1>1, <1>6
    <3>2. CASE p = m
      BY <3>2, <2>1, <1>1, <1>6 DEF Swap
    <3>3. CASE p # n /\ p # m
      <4>1. new[p] = Swap(below[p], n, m)
        BY <3>3, <2>1, <1>6
      <4>. QED
        BY <4>1, <2>1, <1>1 DEF Swap
    <3>. QED
      BY <3>1, <3>2, <3>3
<1>14. \A p \in Nodes, t \in Sides : p \notin new[Root] => ch2[p][t] = Nil
  <2>. SUFFICES ASSUME NEW p \in Nodes, NEW t \in Sides, p \notin new[Root], p # n
                PROVE  ch2[p][t] = Nil
    BY <1>11
  <2>0. n \in below[Root]
    <3>1. n \in below[f] /\ below[f] \subseteq below[Root]
      BY <1>1, <1>3, ChildBelow, BelowTransitive
    <3>. QED
      BY <3>1
  <2>1. p \notin below[Root] /\ p # m
    BY <2>0, <1>6 DEF Swap
  <2>2. p # f
    BY <2>1, <1>3
  <2>. QED
    BY <2>1, <2>2 DEF Replaced, Tree, All
<1>15. ch2[Root]["left"] = Nil
  <2>1. ch[Root]["left"] = Nil /\ "left" \in Sides
    BY SidesTwo DEF Tree
  <2>2. ~(Root = f /\ "left" = s)
    BY <2>1
  <2>. QED
    BY <2>1, <2>2, <1>1 DEF Replaced
<1>16. Tree(ch2, new)
  BY <1>6, <1>7, <1>12, <1>13, <1>14, <1>15, TreeOfSplits
<1>. QED
  BY <1>10, <1>16

-----------------------------------------------------------------------------
(* The nodes in the order of the tree.                                     *)

\* Induction up a tree: a set of nodes has one whose children are not in it.
LEMMA LowestNode ==
  ASSUME NEW ch, NEW below, Tree(ch, below), NEW Bad \in SUBSET Nodes, Bad # {}
  PROVE  \E n \in Bad : \A t \in Sides : ch[n][t] \notin Bad
<1>. DEFINE F == {below[n] : n \in Bad}
<1>1. F \in SUBSET (SUBSET All) /\ F # {}
  <2>1. \A n \in Bad : below[n] \in SUBSET All
    BY DEF Tree, All
  <2>. QED
    BY <2>1
<1>2. PICK X \in F : \A Y \in F : Y \subseteq X => Y = X
  <2>. HIDE DEF F
  <2>. QED
    BY <1>1, NodesFinite, MinimalSet
<1>3. PICK n \in Bad : X = below[n]
  OBVIOUS
<1>4. ASSUME NEW t \in Sides, ch[n][t] \in Bad PROVE FALSE
  <2>1. below[ch[n][t]] \subseteq below[n] /\ n \in below[n] /\ n \notin below[ch[n][t]]
    BY ChildBelow DEF All
  <2>. QED
    BY <2>1, <1>2, <1>3, <1>4
<1>. QED
  BY <1>4

OrderOf(ch) ==
  CHOOSE f : f = [n \in Nodes \cup {Nil} |->
                    IF n = Nil THEN <<>> ELSE f[ch[n]["left"]] \o <<n>> \o f[ch[n]["right"]]]

LEMMA InOrderOf == InOrder = OrderOf(child)
  BY DEF InOrder, OrderOf

Between(s1, n, s2) == s1 \o <<n>> \o s2

Distinct(s) == \A i, j \in DOMAIN s : s[i] = s[j] => i = j

Ascending(k, s) == \A i, j \in DOMAIN s : i < j => k[s[i]] < k[s[j]]

\* What the sequences at the two sides of a node make with it.
LEMMA BetweenProperties ==
  ASSUME NEW s1 \in Seq(Nodes), NEW n \in Nodes, NEW s2 \in Seq(Nodes)
  PROVE  LET s == Between(s1, n, s2)
         IN  /\ s \in Seq(Nodes) /\ s # <<>>
             /\ Len(s1) \in Nat /\ Len(s2) \in Nat
             /\ DOMAIN s1 = 1 .. Len(s1) /\ DOMAIN s2 = 1 .. Len(s2)
             /\ DOMAIN s = 1 .. Len(s1) + 1 + Len(s2)
             /\ \A i \in 1 .. Len(s1) + 1 + Len(s2) :
                  s[i] = IF i <= Len(s1) THEN s1[i]
                         ELSE IF i = Len(s1) + 1 THEN n ELSE s2[i - (Len(s1) + 1)]
<1>. DEFINE t == s1 \o <<n>>
            s == t \o s2
<1>1. <<n>> \in Seq(Nodes) /\ Len(<<n>>) = 1 /\ <<n>>[1] = n
  OBVIOUS
<1>2. /\ t \in Seq(Nodes) /\ Len(t) = Len(s1) + 1
      /\ \A i \in 1 .. Len(s1) + 1 : t[i] = IF i <= Len(s1) THEN s1[i] ELSE <<n>>[i - Len(s1)]
  BY <1>1, ConcatProperties
<1>3. /\ Len(s1) \in Nat /\ Len(s2) \in Nat
      /\ DOMAIN s1 = 1 .. Len(s1) /\ DOMAIN s2 = 1 .. Len(s2)
  BY LenProperties
<1>4. t[Len(s1) + 1] = n /\ \A i \in 1 .. Len(s1) : t[i] = s1[i]
  BY <1>1, <1>2, <1>3
<1>. HIDE DEF t
<1>5. /\ s \in Seq(Nodes) /\ Len(s) = Len(t) + Len(s2)
      /\ \A i \in 1 .. Len(t) + Len(s2) : s[i] = IF i <= Len(t) THEN t[i] ELSE s2[i - Len(t)]
  <2>1. t \in Seq(Nodes)
    BY <1>2
  <2>. QED
    BY <2>1, ConcatProperties
<1>6. Between(s1, n, s2) = s
  BY DEF Between, t
<1>. HIDE DEF s
<1>7. DOMAIN s = 1 .. Len(s1) + 1 + Len(s2) /\ s # <<>>
  <2>1. Len(s) = Len(s1) + 1 + Len(s2) /\ Len(s) # 0
    BY <1>2, <1>3, <1>5
  <2>. QED
    BY <2>1, <1>5, LenProperties, EmptySeq
<1>8. ASSUME NEW i \in 1 .. Len(s1) + 1 + Len(s2)
      PROVE  s[i] = IF i <= Len(s1) THEN s1[i]
                    ELSE IF i = Len(s1) + 1 THEN n ELSE s2[i - (Len(s1) + 1)]
  BY <1>2, <1>3, <1>4, <1>5
<1>. QED
  BY <1>3, <1>5, <1>6, <1>7, <1>8

LEMMA BetweenSet ==
  ASSUME NEW s1 \in Seq(Nodes), NEW n \in Nodes, NEW s2 \in Seq(Nodes)
  PROVE  LET s == Between(s1, n, s2)
         IN  /\ ToSet(s) = {n} \cup ToSet(s1) \cup ToSet(s2)
             /\ /\ Distinct(s1) /\ Distinct(s2)
                /\ n \notin ToSet(s1) /\ n \notin ToSet(s2) /\ ToSet(s1) \cap ToSet(s2) = {}
                => Distinct(s)
             /\ \A k \in [Nodes -> Int] :
                  /\ Ascending(k, s1) /\ Ascending(k, s2)
                  /\ \A x \in ToSet(s1) : k[x] < k[n]
                  /\ \A x \in ToSet(s2) : k[n] < k[x]
                  => Ascending(k, s)
<1>. DEFINE s == Between(s1, n, s2)
            L == Len(s1)
            M == Len(s2)
<1>1. /\ L \in Nat /\ M \in Nat
      /\ DOMAIN s1 = 1 .. L /\ DOMAIN s2 = 1 .. M /\ DOMAIN s = 1 .. L + 1 + M
      /\ \A i \in 1 .. L + 1 + M :
           s[i] = IF i <= L THEN s1[i] ELSE IF i = L + 1 THEN n ELSE s2[i - (L + 1)]
  BY BetweenProperties
<1>. HIDE DEF s, L, M
<1>2. \A i \in 1 .. L + 1 + M :
        \/ i \in 1 .. L /\ s[i] = s1[i]
        \/ i = L + 1 /\ s[i] = n
        \/ i - (L + 1) \in 1 .. M /\ s[i] = s2[i - (L + 1)]
  BY <1>1
<1>3. /\ \A i \in 1 .. L : i \in 1 .. L + 1 + M /\ s[i] = s1[i]
      /\ L + 1 \in 1 .. L + 1 + M /\ s[L + 1] = n
      /\ \A i \in 1 .. M : i + (L + 1) \in 1 .. L + 1 + M /\ s[i + (L + 1)] = s2[i]
  BY <1>1
<1>4. /\ \A x : x \in ToSet(s) <=> \E i \in 1 .. L + 1 + M : x = s[i]
      /\ \A x : x \in ToSet(s1) <=> \E i \in 1 .. L : x = s1[i]
      /\ \A x : x \in ToSet(s2) <=> \E i \in 1 .. M : x = s2[i]
  BY <1>1 DEF ToSet
<1>5. ToSet(s) = {n} \cup ToSet(s1) \cup ToSet(s2)
  <2>1. ASSUME NEW x \in ToSet(s) PROVE x \in {n} \cup ToSet(s1) \cup ToSet(s2)
    BY <2>1, <1>2, <1>4
  <2>2. n \in ToSet(s)
    BY <1>3, <1>4
  <2>3. ASSUME NEW x \in ToSet(s1) PROVE x \in ToSet(s)
    BY <2>3, <1>3, <1>4
  <2>4. ASSUME NEW x \in ToSet(s2) PROVE x \in ToSet(s)
    BY <2>4, <1>3, <1>4
  <2>. QED
    BY <2>1, <2>2, <2>3, <2>4
<1>6. ASSUME Distinct(s1), Distinct(s2), n \notin ToSet(s1), n \notin ToSet(s2),
             ToSet(s1) \cap ToSet(s2) = {}
      PROVE  Distinct(s)
  <2>. SUFFICES ASSUME NEW i \in 1 .. L + 1 + M, NEW j \in 1 .. L + 1 + M, s[i] = s[j]
                PROVE  i = j
    BY <1>1 DEF Distinct
  <2>1. CASE i \in 1 .. L /\ s[i] = s1[i]
    <3>1. s[i] \in ToSet(s1)
      BY <2>1, <1>4
    <3>2. j \in 1 .. L /\ s[j] = s1[j]
      BY <3>1, <1>2, <1>4, <1>6
    <3>. QED
      BY <2>1, <3>2, <1>1, <1>6 DEF Distinct
  <2>2. CASE i = L + 1 /\ s[i] = n
    BY <2>2, <1>2, <1>4, <1>6
  <2>3. CASE i - (L + 1) \in 1 .. M /\ s[i] = s2[i - (L + 1)]
    <3>1. s[i] \in ToSet(s2)
      BY <2>3, <1>4
    <3>2. j - (L + 1) \in 1 .. M /\ s[j] = s2[j - (L + 1)]
      BY <3>1, <1>2, <1>4, <1>6
    <3>3. i - (L + 1) = j - (L + 1)
      BY <2>3, <3>2, <1>1, <1>6 DEF Distinct
    <3>. QED
      BY <3>3, <1>1
  <2>. QED
    BY <2>1, <2>2, <2>3, <1>2
<1>7. ASSUME NEW k \in [Nodes -> Int], Ascending(k, s1), Ascending(k, s2),
             \A x \in ToSet(s1) : k[x] < k[n], \A x \in ToSet(s2) : k[n] < k[x]
      PROVE  Ascending(k, s)
  <2>. SUFFICES ASSUME NEW i \in 1 .. L + 1 + M, NEW j \in 1 .. L + 1 + M, i < j
                PROVE  k[s[i]] < k[s[j]]
    BY <1>1 DEF Ascending
  <2>0. /\ \A x \in ToSet(s1) : x \in Nodes
        /\ \A x \in ToSet(s2) : x \in Nodes
    <3>1. \A m \in 1 .. L : s1[m] \in Nodes
      BY ElementOfSeq DEF L
    <3>2. \A m \in 1 .. M : s2[m] \in Nodes
      BY ElementOfSeq DEF M
    <3>3. \A x \in ToSet(s1) : \E m \in 1 .. L : x = s1[m]
      BY <1>4
    <3>4. \A x \in ToSet(s2) : \E m \in 1 .. M : x = s2[m]
      BY <1>4
    <3>5. \A x \in ToSet(s1) : x \in Nodes
      BY <3>1, <3>3
    <3>6. \A x \in ToSet(s2) : x \in Nodes
      BY <3>2, <3>4
    <3>. QED
      BY <3>5, <3>6
  <2>1. /\ \A x \in ToSet(s1), y \in ToSet(s2) : k[x] < k[y]
    <3>. SUFFICES ASSUME NEW x \in ToSet(s1), NEW y \in ToSet(s2) PROVE k[x] < k[y]
      OBVIOUS
    <3>1. k[x] < k[n] /\ k[n] < k[y] /\ k[x] \in Int /\ k[y] \in Int /\ k[n] \in Int
      BY <2>0, <1>7
    <3>. QED
      BY <3>1
  <2>2. CASE i \in 1 .. L /\ s[i] = s1[i]
    <3>1. s[i] \in ToSet(s1)
      BY <2>2, <1>4
    <3>2. CASE j \in 1 .. L /\ s[j] = s1[j]
      BY <2>2, <3>2, <1>1, <1>7 DEF Ascending
    <3>3. CASE j = L + 1 /\ s[j] = n
      BY <3>1, <3>3, <1>7
    <3>4. CASE j - (L + 1) \in 1 .. M /\ s[j] = s2[j - (L + 1)]
      <4>1. s[j] \in ToSet(s2)
        BY <3>4, <1>4
      <4>. QED
        BY <3>1, <4>1, <2>1
    <3>. QED
      BY <3>2, <3>3, <3>4, <1>2
  <2>3. CASE i = L + 1 /\ s[i] = n
    <3>1. j - (L + 1) \in 1 .. M /\ s[j] = s2[j - (L + 1)]
      BY <2>3, <1>1, <1>2
    <3>2. s[j] \in ToSet(s2)
      BY <3>1, <1>4
    <3>. QED
      BY <2>3, <3>2, <1>7
  <2>4. CASE i - (L + 1) \in 1 .. M /\ s[i] = s2[i - (L + 1)]
    <3>1. /\ j - (L + 1) \in 1 .. M /\ s[j] = s2[j - (L + 1)]
          /\ i - (L + 1) < j - (L + 1)
      BY <2>4, <1>1, <1>2
    <3>. QED
      BY <2>4, <3>1, <1>1, <1>7 DEF Ascending
  <2>. QED
    BY <2>2, <2>3, <2>4, <1>2
<1>. QED
  BY <1>5, <1>6, <1>7 DEF s

\* The recursion of InOrder defines a function on every node.
LEMMA OrderEquation ==
  ASSUME NEW ch, NEW below, Tree(ch, below)
  PROVE  /\ OrderOf(ch) \in [Nodes \cup {Nil} -> Seq(Nodes)]
         /\ OrderOf(ch)[Nil] = <<>>
         /\ \A n \in Nodes :
              /\ ch[n]["left"] \in Nodes \cup {Nil} /\ ch[n]["right"] \in Nodes \cup {Nil}
              /\ OrderOf(ch)[n] =
                   Between(OrderOf(ch)[ch[n]["left"]], n, OrderOf(ch)[ch[n]["right"]])
<1>. DEFINE Eq(f, D) == f = [n \in D |->
                    IF n = Nil THEN <<>> ELSE f[ch[n]["left"]] \o <<n>> \o f[ch[n]["right"]]]
            Closed(D) == /\ Nil \in D
                         /\ \A n \in D \cap Nodes : ch[n]["left"] \in D /\ ch[n]["right"] \in D
            F == {X \in SUBSET Nodes :
                    LET D == (Nodes \ X) \cup {Nil} IN Closed(D) /\ \E f : Eq(f, D)}
<1>0. /\ Nil \notin Nodes /\ IsFiniteSet(Nodes)
      /\ \A n \in Nodes : ch[n]["left"] \in Nodes \cup {Nil} /\ ch[n]["right"] \in Nodes \cup {Nil}
  BY NodesAssumption, ChildBelow, SidesTwo DEF All
<1>1. Nodes \in F
  <2>1. (Nodes \ Nodes) \cup {Nil} = {Nil}
    OBVIOUS
  <2>2. Closed({Nil})
    BY <1>0
  <2>3. Eq([n \in {Nil} |-> <<>>], {Nil})
    OBVIOUS
  <2>. HIDE DEF Closed, Eq
  <2>. QED
    BY <2>1, <2>2, <2>3
<1>2. PICK X \in F : \A Y \in F : Y \subseteq X => Y = X
  <2>1. F \in SUBSET (SUBSET Nodes) /\ F # {}
    BY <1>1
  <2>. HIDE DEF F
  <2>. QED
    BY <2>1, <1>0, MinimalSet
<1>. DEFINE D == (Nodes \ X) \cup {Nil}
<1>3. Closed(D) /\ X \subseteq Nodes /\ \E f : Eq(f, D)
  OBVIOUS
<1>4. X = {}
  <2>. SUFFICES ASSUME X # {} PROVE FALSE
    OBVIOUS
  <2>1. PICK n \in X : \A t \in Sides : ch[n][t] \notin X
    BY <1>3, LowestNode
  <2>. DEFINE DN == (Nodes \ (X \ {n})) \cup {Nil}
              l == ch[n]["left"]
              r == ch[n]["right"]
  <2>2. n \in Nodes /\ n \notin D /\ DN = D \cup {n} /\ n # Nil /\ Nil \in D
    BY <1>0, <1>3
  <2>3. l \in D /\ r \in D
    BY <1>0, <2>1, <2>2, SidesTwo
  <2>4. Closed(DN)
    BY <1>3, <2>2, <2>3
  <2>5. PICK f : Eq(f, D)
    BY <1>3
  <2>. DEFINE g == [m \in DN |-> IF m = n THEN f[l] \o <<n>> \o f[r] ELSE f[m]]
  <2>6. /\ g[n] = g[l] \o <<n>> \o g[r]
        /\ \A m \in D : g[m] = f[m]
    BY <2>2, <2>3
  <2>7. \A m \in DN : g[m] = IF m = Nil THEN <<>>
                             ELSE g[ch[m]["left"]] \o <<m>> \o g[ch[m]["right"]]
    <3>. SUFFICES ASSUME NEW m \in DN
                  PROVE  g[m] = IF m = Nil THEN <<>>
                                ELSE g[ch[m]["left"]] \o <<m>> \o g[ch[m]["right"]]
      OBVIOUS
    <3>1. CASE m = n
      BY <3>1, <2>2, <2>6
    <3>2. CASE m # n
      <4>1. m \in D
        BY <3>2, <2>2
      <4>2. f[m] = IF m = Nil THEN <<>> ELSE f[ch[m]["left"]] \o <<m>> \o f[ch[m]["right"]]
        BY <2>5, <4>1
      <4>3. m # Nil => ch[m]["left"] \in D /\ ch[m]["right"] \in D
        BY <1>3, <4>1
      <4>. HIDE DEF g
      <4>. QED
        BY <2>6, <4>1, <4>2, <4>3
    <3>. QED
      BY <3>1, <3>2
  <2>8. Eq(g, DN)
    <3>1. g = [m \in DN |-> g[m]]
      OBVIOUS
    <3>. HIDE DEF g, DN
    <3>. QED
      BY <2>7, <3>1
  <2>. HIDE DEF Eq, Closed, DN, D, g
  <2>9. X \ {n} \in F
    BY <1>3, <2>4, <2>8 DEF DN
  <2>. QED
    BY <2>9, <1>2
<1>5. D = Nodes \cup {Nil}
  BY <1>4
<1>. DEFINE g == OrderOf(ch)
<1>6. Eq(g, Nodes \cup {Nil})
  BY <1>3, <1>5 DEF OrderOf
<1>. HIDE DEF g
<1>7. /\ DOMAIN g = Nodes \cup {Nil} /\ g = [n \in Nodes \cup {Nil} |-> g[n]]
      /\ g[Nil] = <<>>
      /\ \A n \in Nodes : g[n] = Between(g[ch[n]["left"]], n, g[ch[n]["right"]])
  BY <1>0, <1>6 DEF Between
<1>. HIDE DEF Eq
<1>8. ASSUME NEW n \in Nodes PROVE g[n] \in Seq(Nodes)
  <2>. DEFINE Bad == {m \in Nodes : g[m] \notin Seq(Nodes)}
  <2>. SUFFICES ASSUME Bad # {} PROVE FALSE
    OBVIOUS
  <2>1. PICK m \in Bad : \A t \in Sides : ch[m][t] \notin Bad
    BY LowestNode
  <2>2. g[Nil] \in Seq(Nodes)
    BY <1>7
  <2>3. g[ch[m]["left"]] \in Seq(Nodes) /\ g[ch[m]["right"]] \in Seq(Nodes)
    BY <1>0, <2>1, <2>2, SidesTwo
  <2>4. Between(g[ch[m]["left"]], m, g[ch[m]["right"]]) \in Seq(Nodes)
    BY <2>3, BetweenProperties
  <2>. QED
    BY <2>1, <2>4, <1>7
<1>9. g \in [Nodes \cup {Nil} -> Seq(Nodes)]
  <2>1. g[Nil] \in Seq(Nodes)
    BY <1>7
  <2>2. \A n \in Nodes \cup {Nil} : g[n] \in Seq(Nodes)
    BY <2>1, <1>8
  <2>. QED
    BY <1>7, <2>2
<1>. QED
  BY <1>0, <1>7, <1>9 DEF g

\* The order lists what is below a node, each node once.
LEMMA OrderBelow ==
  ASSUME NEW ch, NEW below, Tree(ch, below), NEW n \in Nodes \cup {Nil}
  PROVE  /\ OrderOf(ch)[n] \in Seq(Nodes)
         /\ ToSet(OrderOf(ch)[n]) = below[n]
         /\ Distinct(OrderOf(ch)[n])
<1>. DEFINE g == OrderOf(ch)
            Good(m) == ToSet(g[m]) = below[m] /\ Distinct(g[m])
            Bad == {m \in Nodes : ~Good(m)}
<1>0. Nil \notin Nodes
  BY NodesAssumption
<1>1. /\ g \in [Nodes \cup {Nil} -> Seq(Nodes)] /\ g[Nil] = <<>>
      /\ \A m \in Nodes :
           /\ ch[m]["left"] \in Nodes \cup {Nil} /\ ch[m]["right"] \in Nodes \cup {Nil}
           /\ g[m] = Between(g[ch[m]["left"]], m, g[ch[m]["right"]])
  BY OrderEquation
<1>. HIDE DEF g
<1>2. Good(Nil)
  BY <1>1 DEF ToSet, Distinct, Tree
<1>3. Bad = {}
  <2>. SUFFICES ASSUME Bad # {} PROVE FALSE
    OBVIOUS
  <2>1. PICK m \in Bad : \A t \in Sides : ch[m][t] \notin Bad
    BY LowestNode
  <2>. DEFINE l == ch[m]["left"]
              r == ch[m]["right"]
  <2>2. /\ l \in Nodes \cup {Nil} /\ r \in Nodes \cup {Nil}
        /\ g[m] = Between(g[l], m, g[r]) /\ g[l] \in Seq(Nodes) /\ g[r] \in Seq(Nodes)
    BY <1>1
  <2>3. Good(l) /\ Good(r)
    BY <1>2, <2>1, <2>2, SidesTwo
  <2>4. /\ below[m] = {m} \cup below[l] \cup below[r] /\ below[l] \cap below[r] = {}
        /\ m \notin below[l] /\ m \notin below[r]
    <3>1. m \in All /\ "left" \in Sides /\ Other("left") = "right"
      BY DEF All, Sides, Other
    <3>2. /\ below[m] \subseteq All
          /\ below[m] = {m} \cup below[ch[m]["left"]] \cup below[ch[m][Other("left")]]
          /\ below[ch[m]["left"]] \cap below[ch[m][Other("left")]] = {}
          /\ m \notin below[ch[m]["left"]] /\ m \notin below[ch[m][Other("left")]]
      BY <3>1, BelowSplit
    <3>. QED
      BY <3>1, <3>2
  <2>. HIDE DEF l, r
  <2>5. /\ ToSet(g[m]) = {m} \cup ToSet(g[l]) \cup ToSet(g[r])
        /\ /\ Distinct(g[l]) /\ Distinct(g[r])
           /\ m \notin ToSet(g[l]) /\ m \notin ToSet(g[r]) /\ ToSet(g[l]) \cap ToSet(g[r]) = {}
           => Distinct(g[m])
    BY <2>2, BetweenSet
  <2>6. Good(m)
    BY <2>3, <2>4, <2>5
  <2>. QED
    BY <2>6
<1>4. Good(n)
  BY <1>2, <1>3
<1>. QED
  BY <1>1, <1>4 DEF g

\* The second key is on this side of the first.
Beyond(side, i, j) == IF side = "left" THEN j < i ELSE i < j

LEMMA BeyondProperties ==
  ASSUME NEW t \in Sides, NEW i \in Int, NEW j \in Int, NEW l \in Int
  PROVE  /\ Beyond(t, i, j) <=> Beyond(Other(t), j, i)
         /\ Beyond(t, i, j) /\ Beyond(t, j, l) => Beyond(t, i, l)
         /\ Beyond(t, i, j) => i # j /\ ~Beyond(Other(t), i, j)
  BY DEF Sides, Other, Beyond

\* The keys are in the order of the tree.
Sorted(ch, below, k) ==
  \A n \in Nodes, t \in Sides : \A x \in below[ch[n][t]] : Beyond(t, k[n], k[x])

LEMMA OrderSorted ==
  ASSUME NEW ch, NEW below, Tree(ch, below), NEW k \in [Nodes -> Int], Sorted(ch, below, k),
         NEW n \in Nodes \cup {Nil}
  PROVE  Ascending(k, OrderOf(ch)[n])
<1>. DEFINE g == OrderOf(ch)
            Bad == {m \in Nodes : ~Ascending(k, g[m])}
<1>0. Nil \notin Nodes
  BY NodesAssumption
<1>1. /\ g \in [Nodes \cup {Nil} -> Seq(Nodes)] /\ g[Nil] = <<>>
      /\ \A m \in Nodes :
           /\ ch[m]["left"] \in Nodes \cup {Nil} /\ ch[m]["right"] \in Nodes \cup {Nil}
           /\ g[m] = Between(g[ch[m]["left"]], m, g[ch[m]["right"]])
  BY OrderEquation
<1>2. \A m \in Nodes \cup {Nil} : ToSet(g[m]) = below[m]
  BY OrderBelow
<1>. HIDE DEF g
<1>3. Ascending(k, g[Nil])
  BY <1>1 DEF Ascending
<1>4. Bad = {}
  <2>. SUFFICES ASSUME Bad # {} PROVE FALSE
    OBVIOUS
  <2>1. PICK m \in Bad : \A t \in Sides : ch[m][t] \notin Bad
    BY LowestNode
  <2>. DEFINE l == ch[m]["left"]
              r == ch[m]["right"]
  <2>2. /\ l \in Nodes \cup {Nil} /\ r \in Nodes \cup {Nil}
        /\ g[m] = Between(g[l], m, g[r]) /\ g[l] \in Seq(Nodes) /\ g[r] \in Seq(Nodes)
    BY <1>1
  <2>3. Ascending(k, g[l]) /\ Ascending(k, g[r])
    BY <1>3, <2>1, <2>2, SidesTwo
  <2>4. /\ \A x \in ToSet(g[l]) : k[x] < k[m]
        /\ \A x \in ToSet(g[r]) : k[m] < k[x]
    <3>1. \A t \in Sides : \A x \in below[ch[m][t]] : Beyond(t, k[m], k[x])
      BY DEF Sorted
    <3>2. \A x \in below[l] : Beyond("left", k[m], k[x])
      BY <3>1, SidesTwo
    <3>3. \A x \in below[r] : Beyond("right", k[m], k[x])
      BY <3>1, SidesTwo
    <3>. QED
      BY <3>2, <3>3, <1>2, <2>2 DEF Beyond
  <2>. HIDE DEF l, r
  <2>5. \A kk \in [Nodes -> Int] :
          /\ Ascending(kk, g[l]) /\ Ascending(kk, g[r])
          /\ \A x \in ToSet(g[l]) : kk[x] < kk[m]
          /\ \A x \in ToSet(g[r]) : kk[m] < kk[x]
          => Ascending(kk, g[m])
    BY <2>2, BetweenSet
  <2>6. Ascending(k, g[m])
    BY <2>3, <2>4, <2>5
  <2>. QED
    BY <2>6
<1>. QED
  BY <1>3, <1>4 DEF g

LEMMA BetweenHead ==
  ASSUME NEW s1 \in Seq(Nodes), NEW n \in Nodes, NEW s2 \in Seq(Nodes)
  PROVE  LET s == Between(s1, n, s2)
         IN  /\ s \in Seq(Nodes) /\ s # <<>> /\ 1 \in DOMAIN s /\ Head(s) = s[1]
             /\ Head(s) = IF s1 = <<>> THEN n ELSE Head(s1)
<1>. DEFINE s == Between(s1, n, s2)
            L == Len(s1)
            M == Len(s2)
<1>1. /\ s \in Seq(Nodes) /\ s # <<>>
      /\ L \in Nat /\ M \in Nat /\ DOMAIN s = 1 .. L + 1 + M
      /\ \A i \in 1 .. L + 1 + M :
           s[i] = IF i <= L THEN s1[i] ELSE IF i = L + 1 THEN n ELSE s2[i - (L + 1)]
  BY BetweenProperties, ZenonT(40)
<1>2. s1 # <<>> <=> L # 0
  BY EmptySeq DEF L
<1>3. /\ Head(s) = s[1]
      /\ s1 # <<>> => Head(s1) = s1[1]
  BY <1>1
<1>. HIDE DEF s, L, M
<1>4. 1 \in 1 .. L + 1 + M /\ (1 <= L <=> L # 0) /\ (1 = L + 1 <=> L = 0)
  BY <1>1
<1>5. s[1] = IF L # 0 THEN s1[1] ELSE n
  BY <1>1, <1>4
<1>. QED
  BY <1>1, <1>2, <1>3, <1>4, <1>5 DEF s

\* The first node below n in the order of the tree has nothing on its left.
LEMMA LeftmostChild ==
  ASSUME NEW ch, NEW below, Tree(ch, below), NEW n \in Nodes
  PROVE  LET m == Head(OrderOf(ch)[n])
         IN  m \in Nodes /\ m \in below[n] /\ ch[m]["left"] = Nil
<1>. DEFINE g == OrderOf(ch)
            Good(m) == ch[Head(g[m])]["left"] = Nil
            Bad == {m \in Nodes : ~Good(m)}
<1>0. Nil \notin Nodes
  BY NodesAssumption
<1>1. /\ g \in [Nodes \cup {Nil} -> Seq(Nodes)] /\ g[Nil] = <<>>
      /\ \A m \in Nodes :
           /\ ch[m]["left"] \in Nodes \cup {Nil} /\ ch[m]["right"] \in Nodes \cup {Nil}
           /\ g[m] = Between(g[ch[m]["left"]], m, g[ch[m]["right"]])
  BY OrderEquation
<1>2. \A m \in Nodes \cup {Nil} : ToSet(g[m]) = below[m]
  BY OrderBelow
<1>. HIDE DEF g
<1>3. ASSUME NEW m \in Nodes
      PROVE  /\ g[m] \in Seq(Nodes) /\ g[m] # <<>> /\ Head(g[m]) = g[m][1] /\ 1 \in DOMAIN g[m]
             /\ Head(g[m]) = IF ch[m]["left"] = Nil THEN m ELSE Head(g[ch[m]["left"]])
  <2>. DEFINE l == ch[m]["left"]
              r == ch[m]["right"]
  <2>1. /\ l \in Nodes \cup {Nil} /\ r \in Nodes \cup {Nil}
        /\ g[m] = Between(g[l], m, g[r]) /\ g[l] \in Seq(Nodes) /\ g[r] \in Seq(Nodes)
    BY <1>1
  <2>. HIDE DEF l, r
  <2>2. /\ g[m] \in Seq(Nodes) /\ g[m] # <<>> /\ 1 \in DOMAIN g[m] /\ Head(g[m]) = g[m][1]
        /\ Head(g[m]) = IF g[l] = <<>> THEN m ELSE Head(g[l])
    BY <2>1, BetweenHead
  <2>5. CASE l = Nil
    BY <1>1, <2>2, <2>5 DEF l
  <2>6. CASE l # Nil
    <3>1. l \in Nodes /\ l \in below[l]
      BY <2>1, <2>6 DEF Tree, All
    <3>2. g[l] # <<>>
      BY <1>2, <3>1 DEF ToSet
    <3>. QED
      BY <2>2, <2>6, <3>2 DEF l
  <2>. QED
    BY <2>5, <2>6
<1>4. Bad = {}
  <2>. SUFFICES ASSUME Bad # {} PROVE FALSE
    OBVIOUS
  <2>1. PICK m \in Bad : \A t \in Sides : ch[m][t] \notin Bad
    BY LowestNode
  <2>2. CASE ch[m]["left"] = Nil
    BY <2>1, <2>2, <1>3
  <2>3. CASE ch[m]["left"] # Nil
    <3>1. Good(ch[m]["left"])
      BY <1>1, <2>1, <2>3, SidesTwo
    <3>. QED
      BY <2>1, <2>3, <3>1, <1>3
  <2>. QED
    BY <2>2, <2>3
<1>5. Head(g[n]) \in ToSet(g[n]) /\ Head(g[n]) \in Nodes
  <2>1. Head(g[n]) = g[n][1] /\ 1 \in DOMAIN g[n] /\ g[n] \in Seq(Nodes)
    BY <1>3
  <2>. QED
    BY <2>1 DEF ToSet
<1>. QED
  BY <1>2, <1>4, <1>5 DEF g

\* In a sorted tree its key is the least.
LEMMA LeftmostLeast ==
  ASSUME NEW ch, NEW below, Tree(ch, below), NEW k \in [Nodes -> Int], Sorted(ch, below, k),
         NEW n \in Nodes
  PROVE  \A x \in below[n] : x # Head(OrderOf(ch)[n]) => k[Head(OrderOf(ch)[n])] < k[x]
<1>. DEFINE s == OrderOf(ch)[n]
<1>1. s \in Seq(Nodes) /\ ToSet(s) = below[n] /\ Ascending(k, s)
  BY OrderBelow, OrderSorted
<1>. HIDE DEF s
<1>2. ASSUME NEW x \in below[n], x # Head(s) PROVE k[Head(s)] < k[x]
  <2>1. PICK i \in DOMAIN s : x = s[i]
    BY <1>1 DEF ToSet
  <2>2. i \in Nat /\ 1 <= i /\ 1 \in DOMAIN s /\ Head(s) = s[1]
    BY <1>1, <2>1
  <2>3. i # 1
    BY <1>2, <2>1, <2>2
  <2>. QED
    BY <1>1, <2>1, <2>2, <2>3 DEF Ascending
<1>. QED
  BY <1>2 DEF s

-----------------------------------------------------------------------------
(* What the operations do to the order.                                    *)

\* Rotations keep it.
LEMMA RotatedSorted ==
  ASSUME NEW ch, NEW below, Tree(ch, below),
         NEW f \in All, NEW s \in Sides, ch[f][s] # Nil,
         NEW d \in Sides, ch[ch[f][s]][d] # Nil,
         NEW ch2, NEW below2, RotatedBelow(ch, below, ch2, below2, f, s, d),
         NEW k \in [Nodes -> Int], Sorted(ch, below, k)
  PROVE  Sorted(ch2, below2, k)
<1>1. PICK a, c, o : a = ch[f][s] /\ c = ch[a][d] /\ o = Other(d)
  OBVIOUS
<1>2. /\ a \in Nodes /\ a \in All /\ c \in Nodes /\ c \in All /\ c \in below[c]
      /\ o \in Sides /\ \A t \in Sides : t = d \/ t = o
  <2>1. a \in Nodes /\ a \in All
    BY <1>1, ChildBelow DEF All
  <2>2. c \in Nodes /\ c \in All
    BY <1>1, <2>1, ChildBelow DEF All
  <2>3. c \in below[c]
    BY <2>2 DEF Tree
  <2>. QED
    BY <1>1, <2>1, <2>2, <2>3, SidesTwo
<1>3. /\ \A p \in All \ {a, c}, t \in Sides : below2[ch2[p][t]] = below[ch[p][t]]
      /\ below2[ch2[a][d]] = below[ch[c][o]]
      /\ below2[ch2[a][o]] = below[ch[a][o]]
      /\ below2[ch2[c][d]] = below[ch[c][d]]
      /\ below2[ch2[c][o]] = {a} \cup below[ch[a][o]] \cup below[ch[c][o]]
  BY <1>1 DEF RotatedBelow
<1>4. \A p \in Nodes, t \in Sides : \A x \in below[ch[p][t]] : Beyond(t, k[p], k[x])
  BY DEF Sorted
<1>5. below[ch[c][o]] \subseteq below[ch[a][d]]
  <2>1. below[ch[c][o]] \subseteq below[c]
    BY <1>2, ChildBelow
  <2>. QED
    BY <1>1, <2>1
<1>6. k[a] \in Int /\ k[c] \in Int /\ Beyond(o, k[c], k[a])
  <2>1. k[a] \in Int /\ k[c] \in Int /\ Beyond(d, k[a], k[c])
    BY <1>1, <1>2, <1>4
  <2>. QED
    BY <1>1, <2>1, BeyondProperties
<1>7. \A x \in below[ch[a][o]] : Beyond(o, k[c], k[x])
  <2>. SUFFICES ASSUME NEW x \in below[ch[a][o]] PROVE Beyond(o, k[c], k[x])
    OBVIOUS
  <2>1. Beyond(o, k[a], k[x])
    BY <1>2, <1>4
  <2>2. x \in Nodes
    <3>1. below[ch[a][o]] \subseteq below[a] /\ below[a] \subseteq All /\ Root \notin below[a]
      BY <1>2, ChildBelow DEF Tree
    <3>. QED
      BY <3>1 DEF All
  <2>3. k[x] \in Int
    BY <2>2
  <2>. QED
    BY <1>2, <1>6, <2>1, <2>3, BeyondProperties
<1>8. ASSUME NEW p \in Nodes, NEW t \in Sides, NEW x \in below2[ch2[p][t]]
      PROVE  Beyond(t, k[p], k[x])
  <2>1. CASE p \notin {a, c}
    BY <2>1, <1>3, <1>4, <1>8 DEF All
  <2>2. CASE p = a
    BY <2>2, <1>2, <1>3, <1>4, <1>5, <1>8
  <2>3. CASE p = c
    BY <2>3, <1>2, <1>3, <1>4, <1>6, <1>7, <1>8
  <2>. QED
    BY <2>1, <2>2, <2>3
<1>. QED
  BY <1>8 DEF Sorted

\* The new node belongs where its key has been looked for.
LEMMA InsertedSorted ==
  ASSUME NEW ch, NEW below, Tree(ch, below),
         NEW f, NEW s, NEW n \in Nodes, n \notin below[Root],
         NEW ch2, NEW below2, InsertedBelow(ch, below, ch2, below2, f, s, n),
         NEW k, Sorted(ch, below, k),
         NEW k2, \A x \in Nodes \ {n} : k2[x] = k[x],
         \A p \in Nodes, t \in Sides : Under(ch, below, f, s, p, t) => Beyond(t, k[p], k2[n]),
         \A t \in Sides : ~Under(ch, below, f, s, n, t)
  PROVE  Sorted(ch2, below2, k2)
<1>. SUFFICES ASSUME NEW p \in Nodes, NEW t \in Sides, NEW x \in below2[ch2[p][t]]
              PROVE  Beyond(t, k2[p], k2[x])
  BY DEF Sorted
<1>1. below2[ch2[p][t]] = IF Under(ch, below, f, s, p, t)
                          THEN below[ch[p][t]] \cup {n} ELSE below[ch[p][t]]
  BY DEF InsertedBelow, All
<1>2. /\ n \in All /\ below[n] = {n}
      /\ \A q \in All \ {n} : n \notin below[q]
      /\ \A q \in All, u \in Sides : ch[q][u] # n /\ n \notin below[ch[q][u]]
  BY UnlinkedAlone
<1>3. \A y \in below[ch[p][t]] : y \in Nodes /\ y # n
  <2>1. below[ch[p][t]] \subseteq below[p] /\ below[p] \subseteq All /\ Root \notin below[p]
    BY ChildBelow, ZenonT(40) DEF Tree, All
  <2>2. n \notin below[ch[p][t]]
    BY <1>2 DEF All
  <2>. QED
    BY <2>1, <2>2 DEF All
<1>4. p = n => below[ch[p][t]] = {}
  BY DEF Tree
<1>5. CASE x \in below[ch[p][t]]
  <2>1. p # n /\ x # n /\ x \in Nodes
    BY <1>3, <1>4, <1>5
  <2>2. Beyond(t, k[p], k[x])
    BY <1>5 DEF Sorted
  <2>. QED
    BY <2>1, <2>2
<1>6. CASE x \notin below[ch[p][t]]
  <2>1. x = n /\ Under(ch, below, f, s, p, t)
    BY <1>1, <1>6
  <2>2. p # n
    BY <2>1
  <2>. QED
    BY <2>1, <2>2
<1>. QED
  BY <1>5, <1>6

\* What is left of a tree without node n.
Without(ch, below, ch2, below2, n) ==
  /\ below2[Root] = below[Root] \ {n}
  /\ below2[ch2[Root]["right"]] = below[ch[Root]["right"]] \ {n}

LEMMA WithoutSorted ==
  ASSUME NEW ch2, NEW below2, Tree(ch2, below2), NEW n \in Nodes, n \notin below2[Root],
         NEW k, NEW k2, \A x \in Nodes \ {n} : k2[x] = k[x],
         \A p \in Nodes \ {n}, t \in Sides :
           \A x \in below2[ch2[p][t]] : Beyond(t, k[p], k[x])
  PROVE  Sorted(ch2, below2, k2)
<1>. SUFFICES ASSUME NEW p \in Nodes, NEW t \in Sides, NEW x \in below2[ch2[p][t]]
              PROVE  Beyond(t, k2[p], k2[x])
  BY DEF Sorted
<1>1. p # n
  BY DEF Tree
<1>2. x \in Nodes
  <2>1. below2[ch2[p][t]] \subseteq below2[p] /\ below2[p] \subseteq All /\ Root \notin below2[p]
    BY ChildBelow DEF Tree, All
  <2>. QED
    BY <2>1 DEF All
<1>3. x # n
  <2>1. /\ n \in All /\ below2[n] = {n}
        /\ \A q \in All \ {n} : n \notin below2[q]
        /\ \A q \in All, u \in Sides : ch2[q][u] # n /\ n \notin below2[ch2[q][u]]
    BY UnlinkedAlone
  <2>. QED
    BY <2>1 DEF All
<1>. QED
  BY <1>1, <1>2, <1>3

\* A node with one child, or none, is taken out.
LEMMA SplicedWithout ==
  ASSUME NEW ch, NEW below, Tree(ch, below), NEW n \in Nodes,
         NEW ch2, NEW below2, Tree(ch2, below2), SplicedBelow(ch, below, ch2, below2, n)
  PROVE  /\ Without(ch, below, ch2, below2, n)
         /\ \A k \in [Nodes -> Int], k2 \in [Nodes -> Int] :
              Sorted(ch, below, k) /\ (\A x \in Nodes \ {n} : k2[x] = k[x])
              => Sorted(ch2, below2, k2)
<1>1. Root \in All \ {n} /\ "right" \in Sides
  BY NodesAssumption, SidesTwo DEF All
<1>2. Without(ch, below, ch2, below2, n)
  BY <1>1 DEF Without, SplicedBelow
<1>3. ASSUME NEW k \in [Nodes -> Int], NEW k2 \in [Nodes -> Int], Sorted(ch, below, k),
             \A x \in Nodes \ {n} : k2[x] = k[x]
      PROVE  Sorted(ch2, below2, k2)
  <2>1. n \notin below2[Root]
    BY DEF SplicedBelow
  <2>2. \A p \in Nodes \ {n}, t \in Sides :
          \A x \in below2[ch2[p][t]] : Beyond(t, k[p], k[x])
    BY <1>3 DEF SplicedBelow, Sorted, All
  <2>. QED
    BY <1>3, <2>1, <2>2, WithoutSorted
<1>. QED
  BY <1>2, <1>3

\* A node n with two children is taken out: m, from below its right child and with nothing
\* on its left, leaves its own right child at its link (g, u) and takes the place of n.
Succeeded(ch, ch2, f, s, m, g, u) ==
  LET n == ch[f][s]
  IN  \A p \in All, t \in Sides :
        ch2[p][t] = IF p = f /\ t = s THEN m
                    ELSE IF p = m THEN IF n = g /\ t = u THEN ch[m]["right"] ELSE ch[n][t]
                    ELSE IF p = n THEN Nil
                    ELSE IF p = g /\ t = u THEN ch[m]["right"]
                    ELSE ch[p][t]

\* It is in the order of the keys if m is the successor of n.
SucceededSorted(ch, below, ch2, below2, n, m) ==
  \A k \in [Nodes -> Int], k2 \in [Nodes -> Int] :
    /\ Sorted(ch, below, k)
    /\ \A x \in Nodes \ {n} : k2[x] = k[x]
    /\ \A x \in below[ch[n]["right"]] : x # m => k[m] < k[x]
    => Sorted(ch2, below2, k2)

LEMMA SucceededTree ==
  ASSUME NEW ch, NEW below, Tree(ch, below),
         NEW f \in All, NEW s \in Sides, NEW n, ch[f][s] = n, n # Nil,
         NEW m \in Nodes, m \in below[ch[n]["right"]], ch[m]["left"] = Nil,
         NEW g \in All, NEW u \in Sides, ch[g][u] = m,
         NEW ch2 \in [All -> [Sides -> Nodes \cup {Nil}]], Succeeded(ch, ch2, f, s, m, g, u)
  PROVE  \E below2 :
           /\ Tree(ch2, below2)
           /\ Without(ch, below, ch2, below2, n)
           /\ SucceededSorted(ch, below, ch2, below2, n, m)
<1>1. /\ "left" \in Sides /\ "right" \in Sides /\ Other("right") = "left"
      /\ Root \in All /\ m # Nil /\ m \in All /\ m # Root /\ Nil \notin All
  BY NodesAssumption DEF Sides, Other, All
<1>2. /\ n \in Nodes /\ n \in All /\ n # Root /\ f # n /\ n \in below[n]
      /\ n \in below[Root] /\ f \notin below[n] /\ below[n] \subseteq below[Root]
  <2>1. n \in Nodes /\ n \in All
    BY ChildBelow DEF All
  <2>2. n \in below[f] /\ f \in below[Root] /\ f \notin below[n]
    BY ChildBelow, ParentLinked
  <2>3. below[f] \subseteq below[Root] /\ n \in below[n]
    BY <1>1, <2>1, <2>2, BelowTransitive, ChildBelow
  <2>4. below[n] \subseteq below[Root]
    BY <1>1, <2>2, <2>3, BelowTransitive
  <2>. QED
    BY <2>1, <2>2, <2>3, <2>4, NodesAssumption DEF All
<1>3. /\ below[ch[n]["right"]] \subseteq below[n] /\ n \notin below[ch[n]["right"]]
      /\ ch[n]["right"] \in Nodes \cup {Nil} /\ ch[n]["left"] \in Nodes \cup {Nil}
      /\ m # n /\ m \in below[n] /\ m # f
  BY <1>1, <1>2, ChildBelow
<1>4. below[ch[n]["left"]] \cap below[ch[n]["right"]] = {}
  <2>1. /\ below[n] \subseteq All
        /\ below[n] = {n} \cup below[ch[n]["right"]] \cup below[ch[n][Other("right")]]
        /\ below[ch[n]["right"]] \cap below[ch[n][Other("right")]] = {}
        /\ n \notin below[ch[n]["right"]] /\ n \notin below[ch[n][Other("right")]]
    BY <1>1, <1>2, BelowSplit
  <2>. QED
    BY <1>1, <2>1
<1>. DEFINE cut == [p \in All |-> [t \in Sides |->
                      IF p = g /\ t = u THEN ch[m]["right"]
                      ELSE IF p = m THEN Nil ELSE ch[p][t]]]
<1>5. \A p \in All, t \in Sides : cut[p][t] = IF p = g /\ t = u THEN ch[m]["right"]
                                              ELSE IF p = m THEN Nil ELSE ch[p][t]
  OBVIOUS
<1>6. cut \in [All -> [Sides -> Nodes \cup {Nil}]]
  BY <1>1 DEF Tree
<1>. HIDE DEF cut
<1>7. Spliced(ch, cut, g, u, "right")
  BY <1>5 DEF Spliced
<1>8. PICK b :
        Tree(cut, b) /\ SplicedBelow(ch, below, cut, b, m)
  BY <1>1, <1>6, <1>7, SplicedTree
<1>9. m \notin b[Root] /\ cut[f][s] = n
  <2>1. m \notin b[Root]
    BY <1>8 DEF SplicedBelow
  <2>2. ~(f = g /\ s = u)
    BY <1>3
  <2>. QED
    BY <2>1, <2>2, <1>3, <1>5
<1>10. Replaced(cut, ch2, f, s, m)
  <2>. SUFFICES ASSUME NEW p \in All, NEW t \in Sides
                PROVE  ch2[p][t] = IF p = f /\ t = s THEN m
                                   ELSE IF p = m THEN cut[n][t]
                                   ELSE IF p = n THEN Nil
                                   ELSE cut[p][t]
    BY <1>9 DEF Replaced
  <2>. QED
    BY <1>2, <1>3, <1>5 DEF Succeeded
<1>11. PICK b2 : Tree(ch2, b2) /\ ReplacedBelow(cut, b, ch2, b2, n, m)
  BY <1>8, <1>9, <1>10, ReplacedTree
<1>12. /\ b[Root] = below[Root] \ {m}
       /\ \A p \in All \ {m}, t \in Sides : b[cut[p][t]] = below[ch[p][t]] \ {m}
  BY <1>8 DEF SplicedBelow
<1>13. /\ b2[Root] = Swap(b[Root], n, m)
       /\ \A t \in Sides : b2[ch2[m][t]] = b[cut[n][t]]
       /\ \A p \in All \ {n, m}, t \in Sides : b2[ch2[p][t]] = Swap(b[cut[p][t]], n, m)
  BY <1>11 DEF ReplacedBelow
<1>14. ASSUME NEW p \in All \ {n, m}, NEW t \in Sides
       PROVE  /\ n \in below[ch[p][t]] => m \in below[ch[p][t]]
              /\ b2[ch2[p][t]] = IF n \in below[ch[p][t]] THEN below[ch[p][t]] \ {n}
                                 ELSE below[ch[p][t]] \ {m}
  <2>1. n \in below[ch[p][t]] => below[n] \subseteq below[ch[p][t]]
    <3>1. ch[p][t] = Nil => n \notin below[ch[p][t]]
      BY DEF Tree
    <3>2. ch[p][t] # Nil => ch[p][t] \in All
      BY ChildBelow
    <3>. QED
      BY <3>1, <3>2, BelowTransitive
  <2>2. b2[ch2[p][t]] = Swap(below[ch[p][t]] \ {m}, n, m)
    <3>1. b[cut[p][t]] = below[ch[p][t]] \ {m}
      BY <1>12
    <3>2. b2[ch2[p][t]] = Swap(b[cut[p][t]], n, m)
      BY <1>13
    <3>. QED
      BY <3>1, <3>2
  <2>. QED
    BY <1>3, <2>1, <2>2, ZenonT(60) DEF Swap
<1>15. Without(ch, below, ch2, b2, n)
  <2>1. b2[Root] = below[Root] \ {n}
    BY <1>2, <1>3, <1>12, <1>13 DEF Swap
  <2>2. n \in below[ch[Root]["right"]]
    <3>1. PICK t \in Sides : n \in below[ch[Root][t]]
      BY <1>1, <1>2, BelowChild
    <3>2. t # "left"
      BY <3>1 DEF Tree
    <3>. QED
      BY <3>1, <3>2 DEF Sides
  <2>3. b2[ch2[Root]["right"]] = below[ch[Root]["right"]] \ {n}
    BY <1>1, <1>2, <1>14, <2>2
  <2>. QED
    BY <2>1, <2>3 DEF Without
<1>16. ASSUME NEW k \in [Nodes -> Int], NEW k2 \in [Nodes -> Int], Sorted(ch, below, k),
              \A x \in Nodes \ {n} : k2[x] = k[x],
              \A x \in below[ch[n]["right"]] : x # m => k[m] < k[x]
       PROVE  Sorted(ch2, b2, k2)
  <2>0. \A p \in Nodes, t \in Sides : \A x \in below[ch[p][t]] : Beyond(t, k[p], k[x])
    BY <1>16 DEF Sorted
  <2>1. ASSUME NEW p \in Nodes \ {n}, p # m, NEW t \in Sides, NEW x \in b2[ch2[p][t]]
        PROVE  Beyond(t, k[p], k[x])
    <3>1. x \in below[ch[p][t]]
      <4>1. p \in All \ {n, m}
        BY <2>1 DEF All
      <4>2. b2[ch2[p][t]] = IF n \in below[ch[p][t]] THEN below[ch[p][t]] \ {n}
                            ELSE below[ch[p][t]] \ {m}
        BY <4>1, <1>14
      <4>. QED
        BY <4>2
    <3>. QED
      BY <3>1, <2>0, <2>1
  <2>2. ASSUME NEW t \in Sides, NEW x \in b2[ch2[m][t]]
        PROVE  Beyond(t, k[m], k[x])
    <3>1. x \in below[ch[n][t]] /\ x # m
      <4>1. b[cut[n][t]] = below[ch[n][t]] \ {m}
        BY <1>2, <1>3, <1>12
      <4>2. b2[ch2[m][t]] = b[cut[n][t]]
        BY <1>13
      <4>. QED
        BY <4>1, <4>2
    <3>2. CASE t = "right"
      BY <3>1, <3>2, <1>16 DEF Beyond
    <3>3. CASE t = "left"
      <4>1. Beyond("left", k[n], k[x]) /\ Beyond("right", k[n], k[m])
        BY <3>1, <3>3, <2>0, <1>1, <1>2
      <4>2. x \in Nodes
        <5>1. below[ch[n]["left"]] \subseteq below[n]
          BY <1>1, <1>2, ChildBelow
        <5>2. below[n] \subseteq All /\ Root \notin below[n]
          BY <1>2 DEF Tree
        <5>. QED
          BY <5>1, <5>2, <3>1, <3>3 DEF All
      <4>3. k[x] \in Int /\ k[m] \in Int /\ k[n] \in Int
        BY <4>2, <1>2
      <4>. QED
        BY <4>1, <4>3, <3>3 DEF Beyond
    <3>. QED
      BY <3>2, <3>3 DEF Sides
  <2>3. n \notin b2[Root]
    BY <1>15 DEF Without
  <2>. QED
    BY <2>1, <2>2, <2>3, <1>2, <1>11, <1>16, WithoutSorted
<1>. QED
  BY <1>11, <1>15, <1>16 DEF SucceededSorted

-----------------------------------------------------------------------------
(* The state.                                                              *)

LEMMA KeysAreIntegers == Keys \subseteq Int /\ NoOp.key \in Keys /\ NoOp.name = "none"
<1>1. Keys \subseteq Int
  BY DataAssumption
<1>2. NoOp.key \in Keys
  BY DataAssumption DEF NoOp
<1>. QED
  BY <1>1, <1>2 DEF NoOp

\* The difference of numbers in a range that it does not leave.
LEMMA DifferenceFits ==
  ASSUME NEW x \in Int, NEW h \in Nat \ {0}, x < h, -x < h
  PROVE  ((x + h) % (2 * h)) - h = x
  OBVIOUS

\* Keys that are close together are compared as they should be.
LEMMA ComparisonRight ==
  ASSUME KeysClose, NEW k \in Keys, NEW j \in Keys
  PROVE  KeyDiff(k, j) = k - j
<1>1. k \in Int /\ j \in Int
  BY KeysAreIntegers
<1>2. k - j < 2^(Width - 1) /\ j - k < 2^(Width - 1)
  BY DEF KeysClose
<1>3. PICK h \in Nat \ {0} : h = 2^(Width - 1) /\ 2 * h = 2^Width
  BY PowersAssumption
<1>4. k - j < h /\ -(k - j) < h /\ k - j \in Int
  BY <1>1, <1>2, <1>3
<1>5. (((k - j) + h) % (2 * h)) - h = k - j
  BY <1>4, DifferenceFits
<1>. QED
  BY <1>3, <1>5 DEF KeyDiff

\* The tree of the map, how its nodes are counted, and where a walk can be.
Shape(below) ==
  /\ Tree(child, below)
  /\ len = Cardinality(below[child[Root]["right"]])
  /\ link.of \in below[Root]
  /\ link.of = Root => link.side = "right"
  /\ ~Searching => link = Top

\* The order of the keys, the place at which the key of a walk belongs, and that it is
\* nowhere else.
Order(below) ==
  /\ Sorted(child, below, key)
  /\ Searching =>
       /\ \A m \in Nodes, t \in Sides :
            Under(child, below, link.of, link.side, m, t) => Beyond(t, key[m], op.key)
       /\ \A n \in below[child[Root]["right"]] : key[n] = op.key => n \in below[At]

IInv == TypeOK /\ \E below : Shape(below) /\ (KeysClose => Order(below))

\* What the link and the node at it are.
LEMMA LinkFacts ==
  ASSUME TypeOK, NEW below, Shape(below)
  PROVE  /\ link.of \in All /\ link.side \in Sides /\ At = child[link.of][link.side]
         /\ At \in Nodes \cup {Nil}
         /\ child[Root]["right"] \in Nodes \cup {Nil}
         /\ At # Nil => At \in All /\ At \in Nodes /\ At # Nil
         /\ child \in [All -> [Sides -> Nodes \cup {Nil}]]
         /\ Nil \notin All /\ Root \notin Nodes /\ Root \in All
  BY NodesAssumption, SidesTwo DEF TypeOK, Shape, Tree, At, All

\* Linked is what is below the root.
LEMMA LinkedBelow ==
  ASSUME TypeOK, NEW below, Shape(below)
  PROVE  /\ Linked = below[child[Root]["right"]]
         /\ InOrder = OrderOf(child)
         /\ \A n \in Nodes \cup {Nil} : ToSet(InOrder[n]) = below[n]
         /\ Linked \subseteq Nodes /\ Linked = below[Root] \ {Root} /\ IsFiniteSet(Linked)
<1>1. Tree(child, below) /\ child[Root]["right"] \in Nodes \cup {Nil} /\ Root \in All
  BY LinkFacts DEF Shape
<1>2. PICK c1 : c1 = child
  OBVIOUS
<1>3. Tree(c1, below)
  BY <1>1, <1>2
<1>4. \A n \in Nodes \cup {Nil} : ToSet(OrderOf(c1)[n]) = below[n]
  BY <1>3, OrderBelow
<1>5. OrderOf(child) = OrderOf(c1)
  BY <1>2 DEF OrderOf
<1>6. \A n \in Nodes \cup {Nil} : ToSet(InOrder[n]) = below[n]
  BY <1>4, <1>5, InOrderOf
<1>7. Linked = below[c1[Root]["right"]]
  BY <1>1, <1>2, <1>6 DEF Linked
<1>8. /\ below[Root] \subseteq All
      /\ below[Root] = {Root} \cup below[c1[Root]["right"]] \cup below[c1[Root]["left"]]
      /\ Root \notin below[c1[Root]["right"]] /\ below[c1[Root]["left"]] = {}
  <2>1. /\ below[Root] \subseteq All
        /\ below[Root] = {Root} \cup below[c1[Root]["right"]] \cup below[c1[Root][Other("right")]]
        /\ below[c1[Root]["right"]] \cap below[c1[Root][Other("right")]] = {}
        /\ Root \notin below[c1[Root]["right"]] /\ Root \notin below[c1[Root][Other("right")]]
    BY <1>1, <1>3, SidesTwo, BelowSplit
  <2>2. Other("right") = "left" /\ below[c1[Root]["left"]] = {}
    BY <1>3 DEF Other, Tree
  <2>. QED
    BY <2>1, <2>2
<1>9. /\ below[c1[Root]["right"]] \subseteq Nodes
      /\ below[c1[Root]["right"]] = below[Root] \ {Root}
  BY <1>8 DEF All
<1>10. IsFiniteSet(Linked)
  BY <1>7, <1>9, NodesAssumption, FS_Subset
<1>. QED
  BY <1>2, <1>6, <1>7, <1>9, <1>10, InOrderOf

-----------------------------------------------------------------------------
(* The initial states.                                                     *)

LEMMA InitInvariant == Init => IInv
<1>. SUFFICES ASSUME Init PROVE IInv
  OBVIOUS
<1>. DEFINE alone == [n \in All \cup {Nil} |-> IF n = Nil THEN {} ELSE {n}]
<1>1. TypeOK
  BY KeysAreIntegers, DataAssumption DEF Init, TypeOK, Op, NoOp, Top, Sides
<1>2. /\ child \in [All -> [Sides -> Nodes \cup {Nil}]]
      /\ \A n \in All, t \in Sides : child[n][t] = Nil
  BY DEF Init, All
<1>3. /\ alone[Nil] = {} /\ \A n \in All : alone[n] = {n}
      /\ alone \in [All \cup {Nil} -> SUBSET All]
  BY NodesAssumption DEF All
<1>. HIDE DEF alone
<1>4. PICK c1 : c1 = child
  OBVIOUS
<1>5. \A n \in All : Split(c1, alone, n)
  BY <1>2, <1>3, <1>4, SidesTwo DEF Split
<1>6. Tree(c1, alone)
  <2>1. \A n \in Nodes : Root \notin alone[n]
    BY <1>3, NodesAssumption DEF All
  <2>2. \A n \in Nodes, t \in Sides : n \notin alone[Root] => c1[n][t] = Nil
    BY <1>2, <1>4 DEF All
  <2>3. c1[Root]["left"] = Nil /\ c1 \in [All -> [Sides -> Nodes \cup {Nil}]]
    BY <1>2, <1>4, SidesTwo DEF All
  <2>. QED
    BY <2>1, <2>2, <2>3, <1>3, <1>5, TreeOfSplits
<1>7. Shape(alone)
  <2>1. Cardinality({}) = 0
    BY FS_EmptySet
  <2>2. child[Root]["right"] = Nil /\ len = 0 /\ link = Top /\ Root \in alone[Root]
    BY <1>2, <1>3, SidesTwo DEF Init, All
  <2>. QED
    BY <2>1, <2>2, <1>3, <1>4, <1>6 DEF Shape, Top
<1>8. Order(alone)
  <2>1. Sorted(child, alone, key)
    BY <1>2, <1>3 DEF Sorted, All
  <2>2. ~Searching
    BY DEF Init, Searching, NoOp
  <2>. QED
    BY <2>1, <2>2 DEF Order
<1>. QED
  BY <1>1, <1>7, <1>8 DEF IInv

-----------------------------------------------------------------------------
(* The steps.                                                              *)

\* Starting, and what leaves the tree alone, keeps it.
LEMMA SameTree ==
  ASSUME TypeOK, NEW below, Shape(below), KeysClose => Order(below),
         child' = child, len' = len, key' = key, link' = Top, TypeOK'
  PROVE  IInv'
<1>1. /\ child \in [All -> [Sides -> Nodes \cup {Nil}]] /\ Nil \notin All /\ Root \notin Nodes
      /\ Root \in All /\ Tree(child, below)
  BY LinkFacts DEF Shape
<1>2. PICK c1 : c1 = child
  OBVIOUS
<1>3. Tree(c1, below)
  BY <1>1, <1>2
<1>4. Root \in below[Root]
  BY <1>1, <1>3 DEF Tree
<1>5. Shape(below)'
  BY <1>1, <1>4 DEF Shape, Top
<1>6. ASSUME KeysClose PROVE Order(below)'
  <2>1. Sorted(child', below, key')
    BY <1>6 DEF Order
  <2>2. \A m \in Nodes, t \in Sides : ~Under(child', below, link'.of, link'.side, m, t)
    <3>1. \A m \in Nodes, t \in Sides : Root \notin below[c1[m][t]]
      BY <1>3, ChildBelow DEF Tree, All
    <3>. QED
      BY <1>1, <1>2, <3>1 DEF Under, Top
  <2>3. At' = child'[Root]["right"]
    BY DEF At, Top
  <2>. QED
    BY <2>1, <2>2, <2>3 DEF Order
<1>. QED
  BY <1>5, <1>6 DEF IInv

LEMMA StartStep ==
  ASSUME TypeOK, NEW below, Shape(below), KeysClose => Order(below),
         NEW name \in {"index", "set", "delete", "validkey"}, NEW k \in Keys, NEW x \in Items,
         Start(name, k, x)
  PROVE  IInv'
<1>1. TypeOK'
  BY DEF TypeOK, Start, nodes, Op, Top, Sides
<1>2. child' = child /\ len' = len /\ key' = key /\ link' = Top
  BY DEF Start, nodes
<1>. QED
  BY <1>1, <1>2, SameTree

LEMMA IndexExistingStep ==
  ASSUME TypeOK, NEW below, Shape(below), KeysClose => Order(below), IndexExisting
  PROVE  IInv'
<1>1. At \in Nodes /\ op \in Op
  BY LinkFacts DEF IndexExisting, TypeOK
<1>2. NewItem(data[At]) \in Items
  BY <1>1 DEF TypeOK, NewItem, Op
<1>3. data' \in [Nodes -> Items] /\ data'[At] \in Items
  BY <1>1, <1>2 DEF IndexExisting, TypeOK
<1>4. TypeOK'
  <2>1. op' \in Op /\ link' \in [of : Nodes \cup {Root}, side : Sides]
    BY KeysAreIntegers, DataAssumption DEF IndexExisting, Finish, NoOp, Op, Top, Sides
  <2>2. result' \in Seq(Items \cup Keys)
    BY <1>3 DEF IndexExisting
  <2>. QED
    BY <1>3, <2>1, <2>2 DEF TypeOK, IndexExisting
<1>5. child' = child /\ len' = len /\ key' = key /\ link' = Top
  BY DEF IndexExisting, Finish
<1>. QED
  BY <1>4, <1>5, SameTree

LEMMA ValidKeyStep ==
  ASSUME TypeOK, NEW below, Shape(below), KeysClose => Order(below), ValidKey
  PROVE  IInv'
<1>1. TypeOK'
  <2>1. op' \in Op /\ link' \in [of : Nodes \cup {Root}, side : Sides]
    BY KeysAreIntegers, DataAssumption DEF ValidKey, Finish, NoOp, Op, Top, Sides
  <2>2. At # Nil => key[At] \in Keys
    BY LinkFacts DEF TypeOK
  <2>3. result' \in Seq(Items \cup Keys)
    <3>1. CASE At = Nil
      BY <3>1 DEF ValidKey
    <3>2. CASE At # Nil
      BY <3>2, <2>2 DEF ValidKey
    <3>. QED
      BY <3>1, <3>2
  <2>. QED
    BY <2>1, <2>3 DEF TypeOK, ValidKey, nodes
<1>2. child' = child /\ len' = len /\ key' = key /\ link' = Top
  BY DEF ValidKey, Finish, nodes
<1>. QED
  BY <1>1, <1>2, SameTree

LEMMA ListKeysStep ==
  ASSUME TypeOK, NEW below, Shape(below), KeysClose => Order(below), ListKeys
  PROVE  IInv'
<1>. DEFINE order == InOrder[child[Root]["right"]]
<1>1. order \in Seq(Nodes)
  <2>1. PICK c1 : c1 = child
    OBVIOUS
  <2>2. Tree(c1, below) /\ c1[Root]["right"] \in Nodes \cup {Nil}
    BY <2>1, LinkFacts DEF Shape
  <2>3. OrderOf(c1)[c1[Root]["right"]] \in Seq(Nodes)
    BY <2>2, OrderBelow
  <2>. QED
    BY <2>1, <2>3, InOrderOf DEF OrderOf
<1>2. result' \in Seq(Items \cup Keys)
  <2>1. result' = [i \in DOMAIN order |-> key[order[i]]]
    BY DEF ListKeys
  <2>. HIDE DEF order
  <2>2. DOMAIN order = 1 .. Len(order) /\ Len(order) \in Nat
        /\ \A i \in 1 .. Len(order) : order[i] \in Nodes
    BY <1>1, LenProperties, ElementOfSeq
  <2>3. \A i \in 1 .. Len(order) : key[order[i]] \in Keys
    BY <2>2 DEF TypeOK
  <2>. QED
    BY <2>1, <2>2, <2>3
<1>3. TypeOK'
  BY <1>2 DEF ListKeys, nodes, TypeOK
<1>4. child' = child /\ len' = len /\ key' = key /\ link' = Top
  BY DEF ListKeys, nodes, Shape
<1>. QED
  BY <1>3, <1>4, SameTree

\* A step of a walk: the child in the direction of the key is rotated up or visited.
LEMMA WalkFacts ==
  ASSUME TypeOK, NEW below, Shape(below), Walk
  PROVE  /\ At \in Nodes /\ Direction \in Sides
         /\ nodes' = nodes /\ op' = op /\ result' = result
         /\ \/ /\ child' = child /\ link' = [of |-> At, side |-> Direction]
            \/ /\ link' = link /\ child[At][Direction] # Nil
               /\ priority[child[At][Direction]] > priority[At]
               /\ child' \in [All -> [Sides -> Nodes \cup {Nil}]]
               /\ Rotated(child, child', link.of, link.side, Direction)
<1>1. At # Nil /\ At \in Nodes /\ Direction \in Sides
  BY LinkFacts DEF Walk, Reached, Direction, Sides
<1>2. nodes' = nodes /\ op' = op /\ result' = result
  BY DEF Walk
<1>3. CASE ~OutOfOrder(At, child[At][Direction])
  BY <1>1, <1>2, <1>3 DEF Walk
<1>4. CASE OutOfOrder(At, child[At][Direction])
  <2>1. PICK f, s, d, a, c : f = link.of /\ s = link.side /\ d = Direction /\ a = At
                             /\ c = child[At][Direction]
    OBVIOUS
  <2>2. /\ f \in All /\ s \in Sides /\ d \in Sides /\ Other(d) \in Sides /\ a = child[f][s]
        /\ a \in All /\ c = child[a][d] /\ c # Nil /\ c \in Nodes
        /\ child \in [All -> [Sides -> Nodes \cup {Nil}]] /\ a \in Nodes
        /\ priority[c] > priority[a]
    <3>1. f \in All /\ s \in Sides /\ a = child[f][s] /\ child \in [All -> [Sides -> Nodes \cup {Nil}]]
      BY <2>1, LinkFacts
    <3>2. d \in Sides /\ Other(d) \in Sides /\ a \in Nodes /\ a \in All
      BY <1>1, <2>1, SidesTwo DEF All
    <3>3. c = child[a][d] /\ c # Nil /\ priority[c] > priority[a]
      BY <1>4, <2>1 DEF OutOfOrder
    <3>4. c \in Nodes
      BY <3>1, <3>2, <3>3
    <3>. QED
      BY <3>1, <3>2, <3>3, <3>4
  <2>3. child' = [child EXCEPT ![a][d] = child[c][Other(d)], ![c][Other(d)] = a, ![f][s] = c]
    BY <1>4, <2>1 DEF Walk, Rebalance
  <2>4. a # c /\ f # a /\ f # c
    <3>1. PICK c1 : c1 = child /\ Tree(c1, below)
      BY DEF Shape
    <3>2. /\ below[a] \subseteq below[f] /\ f \notin below[a] /\ a \in below[a]
          /\ below[c] \subseteq below[a] /\ a \notin below[c] /\ c \in below[c]
      BY <2>2, <3>1, ChildBelow DEF All
    <3>. QED
      BY <3>2
  <2>5. child' \in [All -> [Sides -> Nodes \cup {Nil}]]
    <3>. DEFINE e1 == [child EXCEPT ![a][d] = child[c][Other(d)]]
                e2 == [e1 EXCEPT ![c][Other(d)] = a]
                e3 == [e2 EXCEPT ![f][s] = c]
    <3>1. e1 \in [All -> [Sides -> Nodes \cup {Nil}]]
      BY <2>2 DEF All
    <3>. HIDE DEF e1
    <3>2. e2 \in [All -> [Sides -> Nodes \cup {Nil}]]
      BY <2>2, <3>1 DEF All
    <3>. HIDE DEF e2
    <3>3. e3 \in [All -> [Sides -> Nodes \cup {Nil}]]
      BY <2>2, <3>2 DEF All
    <3>4. child' = e3
      BY <2>3 DEF e1, e2
    <3>. QED
      BY <3>3, <3>4
  <2>6. \A m \in All, t \in Sides :
          child'[m][t] = IF m = f /\ t = s THEN c
                         ELSE IF m = a /\ t = d THEN child[c][Other(d)]
                         ELSE IF m = c /\ t = Other(d) THEN a
                         ELSE child[m][t]
    <3>. SUFFICES ASSUME NEW m \in All, NEW t \in Sides
                  PROVE  child'[m][t] = IF m = f /\ t = s THEN c
                         ELSE IF m = a /\ t = d THEN child[c][Other(d)]
                         ELSE IF m = c /\ t = Other(d) THEN a
                         ELSE child[m][t]
      OBVIOUS
    <3>1. CASE m = f
      BY <3>1, <2>2, <2>3, <2>4
    <3>2. CASE m = a
      BY <3>2, <2>2, <2>3, <2>4
    <3>3. CASE m = c
      BY <3>3, <2>2, <2>3, <2>4 DEF All
    <3>4. CASE m \notin {f, a, c}
      BY <3>4, <2>2, <2>3, <2>4
    <3>. QED
      BY <3>1, <3>2, <3>3, <3>4
  <2>7. Rotated(child, child', f, s, d)
    BY <2>2, <2>6 DEF Rotated
  <2>8. link' = link
    BY <1>4 DEF Walk
  <2>. QED
    <3>1. Rotated(child, child', link.of, link.side, Direction)
      BY <2>1, <2>7, SMTT(30) DEF Rotated
    <3>2. child[At][Direction] # Nil /\ priority[child[At][Direction]] > priority[At]
      BY <2>1, <2>2
    <3>. QED
      BY <1>1, <1>2, <2>5, <2>8, <3>1, <3>2
<1>. QED
  BY <1>3, <1>4

\* What a walk compares.
LEMMA DirectionRight ==
  ASSUME TypeOK, NEW below, Shape(below), Walk, KeysClose
  PROVE  /\ key \in [Nodes -> Int] /\ op.key \in Int /\ key[At] # op.key
         /\ Beyond(Direction, key[At], op.key)
<1>1. op.key \in Keys /\ At \in Nodes /\ At # Nil /\ key[At] \in Keys
  BY WalkFacts, LinkFacts DEF TypeOK, Op
<1>2. KeyDiff(op.key, key[At]) = op.key - key[At]
  <2>1. PICK k, j : k = op.key /\ j = key[At]
    OBVIOUS
  <2>2. KeyDiff(k, j) = k - j
    BY <1>1, <2>1, ComparisonRight
  <2>. QED
    BY <2>1, <2>2
<1>3. op.key \in Int /\ key[At] \in Int
  BY <1>1, KeysAreIntegers
<1>4. key \in [Nodes -> Int]
  BY KeysAreIntegers DEF TypeOK
<1>5. KeyDiff(op.key, key[At]) # 0
  BY <1>1 DEF Walk, Reached
<1>. QED
  BY <1>2, <1>3, <1>4, <1>5 DEF Direction, Beyond

\* The walk goes down.
LEMMA VisitStep ==
  ASSUME TypeOK, NEW below, Shape(below), KeysClose => Order(below), Walk,
         child' = child, link' = [of |-> At, side |-> Direction]
  PROVE  /\ TypeOK' /\ Shape(below)' /\ (KeysClose => Order(below)')
         /\ below[At'] \subseteq below[At] /\ At \in below[At] /\ At \notin below[At']
<1>1. PICK c1, f, s, a, d : c1 = child /\ f = link.of /\ s = link.side /\ a = At /\ d = Direction
  OBVIOUS
<1>2. /\ Tree(c1, below) /\ f \in All /\ s \in Sides /\ a = c1[f][s] /\ a \in All /\ a \in Nodes
      /\ d \in Sides /\ a # Nil /\ Nil \notin All /\ a # Root /\ Root \in All
      /\ c1[Root]["right"] \in Nodes \cup {Nil} /\ f \in below[Root]
  <2>1. Tree(child, below) /\ link.of \in below[Root]
    BY DEF Shape
  <2>2. /\ link.of \in All /\ link.side \in Sides /\ At = child[link.of][link.side]
        /\ child[Root]["right"] \in Nodes \cup {Nil} /\ Nil \notin All /\ Root \in All
    BY LinkFacts
  <2>3. At \in Nodes /\ Direction \in Sides
    BY WalkFacts
  <2>4. a \in All /\ a # Nil /\ a # Root
    BY <1>1, <2>3, NodesAssumption DEF All
  <2>5. Tree(c1, below)
    BY <1>1, <2>1
  <2>. QED
    BY <1>1, <2>1, <2>2, <2>3, <2>4, <2>5
<1>3. /\ nodes' = nodes /\ op' = op /\ result' = result
      /\ link'.of = a /\ link'.side = d /\ child' = c1 /\ At' = c1[a][d]
      /\ link' \in [of : Nodes \cup {Root}, side : Sides]
  <2>1. nodes' = nodes /\ op' = op /\ result' = result
    BY WalkFacts
  <2>. QED
    BY <1>1, <1>2, <2>1 DEF At
<1>4. TypeOK'
  BY <1>3 DEF TypeOK, nodes
<1>5. a \in below[Root]
  <2>1. a \in below[f] /\ below[f] \subseteq below[Root]
    BY <1>2, ChildBelow, BelowTransitive
  <2>. QED
    BY <2>1
<1>6. Shape(below)'
  <2>1. Searching' /\ len' = len
    BY <1>3 DEF Walk, Searching, nodes
  <2>. QED
    BY <1>1, <1>2, <1>3, <1>5, <2>1 DEF Shape
<1>7. below[c1[a][d]] \subseteq below[a] /\ a \in below[a] /\ a \notin below[c1[a][d]]
  BY <1>2, ChildBelow
<1>8. ASSUME KeysClose PROVE Order(below)'
  <2>1. /\ key \in [Nodes -> Int] /\ op.key \in Int /\ key[a] # op.key
        /\ Beyond(d, key[a], op.key)
    BY <1>1, <1>8, DirectionRight
  <2>2. /\ Sorted(c1, below, key)
        /\ \A m \in Nodes, t \in Sides : Under(c1, below, f, s, m, t) => Beyond(t, key[m], op.key)
        /\ \A n \in below[c1[Root]["right"]] : key[n] = op.key => n \in below[a]
    BY <1>1, <1>8 DEF Order, Walk
  <2>3. ASSUME NEW m \in Nodes, NEW t \in Sides, Under(c1, below, a, d, m, t)
        PROVE  Beyond(t, key[m], op.key)
    <3>1. CASE m = a /\ t = d
      BY <3>1, <2>1
    <3>2. CASE a \in below[c1[m][t]]
      <4>1. \/ m = f /\ t = s
            \/ f \in below[c1[m][t]]
        BY <3>2, <1>2, ThroughParent DEF All
      <4>. QED
        BY <4>1, <2>2 DEF Under
    <3>. QED
      BY <3>1, <3>2, <2>3 DEF Under
  <2>4. ASSUME NEW n \in below[c1[Root]["right"]], key[n] = op.key
        PROVE  n \in below[c1[a][d]]
    <3>1. n \in below[a] /\ n # a
      BY <2>1, <2>2, <2>4
    <3>2. PICK t \in Sides : n \in below[c1[a][t]] /\ n \in Nodes
      <4>1. n \in All /\ \E t \in Sides : n \in below[c1[a][t]] /\ c1[a][t] # Nil /\ c1[a][t] \in Nodes
        BY <1>2, <3>1, BelowChild
      <4>2. Root \notin below[a]
        BY <1>2 DEF Tree
      <4>. QED
        BY <3>1, <4>1, <4>2 DEF All
    <3>3. Beyond(t, key[a], op.key) /\ key[a] \in Int
      BY <1>2, <2>1, <2>2, <2>4, <3>2 DEF Sorted
    <3>4. t = d
      BY <1>2, <2>1, <3>3, SidesTwo, BeyondProperties
    <3>. QED
      BY <3>2, <3>4
  <2>5. /\ child' = c1 /\ key' = key /\ op' = op /\ link'.of = a /\ link'.side = d
        /\ At' = c1[a][d]
    BY <1>3 DEF nodes
  <2>6. \A m \in Nodes, t \in Sides :
          Under(child', below, link'.of, link'.side, m, t) => Beyond(t, key'[m], op'.key)
    BY <2>3, <2>5 DEF Under
  <2>7. \A n \in below[child'[Root]["right"]] : key'[n] = op'.key => n \in below[At']
    BY <2>4, <2>5
  <2>. QED
    BY <2>2, <2>5, <2>6, <2>7 DEF Order, Sorted
<1>. QED
  BY <1>1, <1>3, <1>4, <1>6, <1>7, <1>8

\* The walk rotates.
LEMMA RotateStep ==
  ASSUME TypeOK, NEW below, Shape(below), KeysClose => Order(below), Walk,
         link' = link, child[At][Direction] # Nil,
         child' \in [All -> [Sides -> Nodes \cup {Nil}]],
         Rotated(child, child', link.of, link.side, Direction)
  PROVE  /\ At' = child[At][Direction]
         /\ \E b2 : /\ TypeOK' /\ Shape(b2)' /\ (KeysClose => Order(b2)')
                    /\ b2[At'] = below[At] /\ b2[child'[Root]["right"]] = below[child[Root]["right"]]
<1>1. PICK c1, c2, f, s, a, d, c :
        /\ c1 = child /\ c2 = child' /\ f = link.of /\ s = link.side
        /\ a = At /\ d = Direction /\ c = child[At][Direction]
  OBVIOUS
<1>2. /\ Tree(c1, below) /\ f \in All /\ s \in Sides /\ a = c1[f][s] /\ a \in All /\ a \in Nodes
      /\ d \in Sides /\ a # Nil /\ Nil \notin All /\ a # Root /\ Root \in All
      /\ c1[Root]["right"] \in Nodes \cup {Nil} /\ f \in below[Root]
      /\ c = c1[a][d] /\ c # Nil /\ c \in Nodes /\ c # Root
      /\ c2 \in [All -> [Sides -> Nodes \cup {Nil}]]
  <2>1. /\ Tree(c1, below) /\ f \in All /\ s \in Sides /\ a = c1[f][s] /\ a \in All /\ a \in Nodes
        /\ d \in Sides /\ a # Nil /\ Nil \notin All /\ a # Root /\ Root \in All
        /\ c1[Root]["right"] \in Nodes \cup {Nil} /\ f \in below[Root]
    <3>1. Tree(child, below) /\ link.of \in below[Root]
      BY DEF Shape
    <3>2. /\ link.of \in All /\ link.side \in Sides /\ At = child[link.of][link.side]
          /\ child[Root]["right"] \in Nodes \cup {Nil} /\ Nil \notin All /\ Root \in All
      BY LinkFacts
    <3>3. At \in Nodes /\ Direction \in Sides
      BY WalkFacts
    <3>4. a \in All /\ a # Nil /\ a # Root
      BY <1>1, <3>3, NodesAssumption DEF All
    <3>5. Tree(c1, below)
      BY <1>1, <3>1
    <3>. QED
      BY <1>1, <3>1, <3>2, <3>3, <3>4, <3>5
  <2>2. c = c1[a][d] /\ c # Nil /\ c2 \in [All -> [Sides -> Nodes \cup {Nil}]]
    BY <1>1
  <2>3. c \in Nodes
    BY <2>1, <2>2, ChildBelow
  <2>. QED
    BY <2>1, <2>2, <2>3, NodesAssumption
<1>3. Rotated(c1, c2, f, s, d)
  BY <1>1, ZenonT(40) DEF Rotated
<1>4. PICK b2 : Tree(c2, b2) /\ RotatedBelow(c1, below, c2, b2, f, s, d)
  BY <1>2, <1>3, RotatedTree
<1>5. /\ nodes' = nodes /\ op' = op /\ result' = result
      /\ link'.of = f /\ link'.side = s /\ child' = c2
  BY <1>1, WalkFacts
<1>6. At' = c
  BY <1>1, <1>2, <1>3, <1>5, ZenonT(40) DEF At, Rotated
<1>7. /\ b2[Root] = below[Root] /\ b2[c] = below[a]
      /\ \A m \in All \ {a, c}, t \in Sides : b2[c2[m][t]] = below[c1[m][t]]
  BY <1>2, <1>4 DEF RotatedBelow
<1>8. b2[c2[Root]["right"]] = below[c1[Root]["right"]]
  BY <1>2, <1>7, SidesTwo
<1>9. TypeOK'
  <2>1. child'[Root]["left"] = Nil
    BY <1>1, <1>4 DEF Tree
  <2>. QED
    BY <1>1, <1>2, <1>5, <2>1 DEF TypeOK, nodes, All
<1>10. Shape(b2)'
  <2>1. Searching' /\ len' = len
    BY <1>5 DEF Walk, Searching, nodes
  <2>. QED
    BY <1>1, <1>2, <1>4, <1>5, <1>7, <1>8, <2>1 DEF Shape
<1>11. ASSUME KeysClose PROVE Order(b2)'
  <2>1. key \in [Nodes -> Int] /\ op.key \in Int
    BY <1>11, DirectionRight
  <2>2. /\ Sorted(c1, below, key)
        /\ \A m \in Nodes, t \in Sides : Under(c1, below, f, s, m, t) => Beyond(t, key[m], op.key)
        /\ \A n \in below[c1[Root]["right"]] : key[n] = op.key => n \in below[a]
    BY <1>1, <1>11 DEF Order, Walk
  <2>3. Sorted(c2, b2, key)
    BY <1>2, <1>4, <2>1, <2>2, RotatedSorted
  <2>4. f # a /\ f # c /\ f \notin below[a]
    <3>1. /\ f \notin below[a] /\ a \in below[a] /\ c \in below[a]
      BY <1>2, ChildBelow
    <3>. QED
      BY <3>1
  <2>5. ASSUME NEW m \in Nodes, NEW t \in Sides, Under(c2, b2, f, s, m, t)
        PROVE  Beyond(t, key[m], op.key)
    <3>1. CASE m \notin {a, c}
      <4>1. Under(c1, below, f, s, m, t)
        BY <3>1, <2>5, <1>7 DEF Under, All
      <4>. QED
        BY <4>1, <2>2
    <3>2. CASE m \in {a, c}
      <4>1. b2[c2[m][t]] \subseteq b2[m]
        BY <1>4, ChildBelow DEF All
      <4>2. b2[m] \subseteq below[a]
        <5>1. c2[c][Other(d)] = a /\ Other(d) \in Sides
          <6>1. Other(d) \in Sides /\ a # c /\ c # f
            BY <1>2, <2>4, SidesTwo, ChildBelow
          <6>. QED
            BY <6>1, <1>2, <1>3 DEF Rotated, All
        <5>2. b2[a] \subseteq b2[c]
          BY <1>2, <1>4, <5>1, ChildBelow DEF All
        <5>. QED
          BY <3>2, <5>2, <1>7
      <4>. QED
        BY <3>2, <4>1, <4>2, <2>4, <2>5 DEF Under
    <3>. QED
      BY <3>1, <3>2
  <2>6. /\ child' = c2 /\ key' = key /\ op' = op /\ link'.of = f /\ link'.side = s
        /\ At' = c
    BY <1>5, <1>6 DEF nodes
  <2>7. \A m \in Nodes, t \in Sides :
          Under(child', b2, link'.of, link'.side, m, t) => Beyond(t, key'[m], op'.key)
    BY <2>5, <2>6 DEF Under
  <2>8. \A n \in b2[child'[Root]["right"]] : key'[n] = op'.key => n \in b2[At']
    BY <2>2, <2>6, <1>7, <1>8
  <2>. QED
    BY <2>3, <2>6, <2>7, <2>8 DEF Order, Sorted
<1>. QED
  BY <1>1, <1>6, <1>7, <1>8, <1>9, <1>10, <1>11

\* A node is linked where the search has ended.
LEMMA IndexMissingStep ==
  ASSUME TypeOK, NEW below, Shape(below), KeysClose => Order(below), IndexMissing
  PROVE  \E n \in Nodes : \E b2 :
           /\ n \notin below[child[Root]["right"]]
           /\ TypeOK' /\ Shape(b2)' /\ (KeysClose => Order(b2)')
           /\ b2[child'[Root]["right"]] = below[child[Root]["right"]] \cup {n}
           /\ key' = [key EXCEPT ![n] = op.key]
           /\ data' = [data EXCEPT ![n] = NewItem(Zero)]
<1>1. PICK c1, c2, f, s : c1 = child /\ c2 = child' /\ f = link.of /\ s = link.side
  OBVIOUS
<1>2. /\ Tree(c1, below) /\ f \in All /\ s \in Sides /\ c1[f][s] = Nil
      /\ Nil \notin All /\ Root \in All /\ Root \notin Nodes
      /\ c1[Root]["right"] \in Nodes \cup {Nil} /\ f \in below[Root]
      /\ f = Root => s = "right"
      /\ c1 \in [All -> [Sides -> Nodes \cup {Nil}]]
  <2>1. Tree(child, below) /\ link.of \in below[Root] /\ (link.of = Root => link.side = "right")
    BY DEF Shape
  <2>2. /\ link.of \in All /\ link.side \in Sides /\ At = child[link.of][link.side]
        /\ child[Root]["right"] \in Nodes \cup {Nil} /\ Nil \notin All /\ Root \in All
        /\ Root \notin Nodes /\ child \in [All -> [Sides -> Nodes \cup {Nil}]]
    BY LinkFacts
  <2>3. At = Nil
    BY DEF IndexMissing
  <2>4. Tree(c1, below)
    BY <1>1, <2>1
  <2>. QED
    BY <1>1, <2>1, <2>2, <2>3, <2>4
<1>3. PICK n \in Nodes \ Linked, p \in Priorities :
        /\ child' = [child EXCEPT ![link.of][link.side] = n]
        /\ key' = [key EXCEPT ![n] = op.key]
        /\ priority' = [priority EXCEPT ![n] = p]
        /\ data' = [data EXCEPT ![n] = NewItem(Zero)]
  BY DEF IndexMissing
<1>4. /\ Linked = below[c1[Root]["right"]] /\ Linked = below[Root] \ {Root}
      /\ IsFiniteSet(Linked)
  BY <1>1, LinkedBelow
<1>5. n \notin below[Root] /\ n \in All /\ n # Root
  BY <1>2, <1>3, <1>4 DEF All
<1>6. c2 \in [All -> [Sides -> Nodes \cup {Nil}]] /\ Inserted(c1, c2, f, s, n)
  <2>1. c2 = [c1 EXCEPT ![f][s] = n]
    BY <1>1, <1>3
  <2>2. c2 \in [All -> [Sides -> Nodes \cup {Nil}]]
    BY <1>2, <1>3, <2>1
  <2>3. Inserted(c1, c2, f, s, n)
    BY <1>2, <2>1 DEF Inserted
  <2>. QED
    BY <2>2, <2>3
<1>7. PICK b2 : Tree(c2, b2) /\ InsertedBelow(c1, below, c2, b2, f, s, n)
  <2>1. f = Root => s # "left"
    BY <1>2
  <2>. QED
    BY <1>2, <1>5, <1>6, <2>1, InsertedTree
<1>8. b2[c2[Root]["right"]] = below[c1[Root]["right"]] \cup {n}
  <2>1. Under(c1, below, f, s, Root, "right")
    <3>1. CASE f = Root
      BY <3>1, <1>2 DEF Under
    <3>2. CASE f # Root
      <4>1. f \in below[c1[Root]["right"]]
        BY <3>2, <1>2, <1>4
      <4>. QED
        BY <4>1 DEF Under
    <3>. QED
      BY <3>1, <3>2
  <2>. QED
    BY <2>1, <1>2, <1>7, SidesTwo DEF InsertedBelow
<1>9. op' = NoOp /\ link' = Top /\ len' = len + 1 /\ result' = <<NewItem(Zero)>>
  BY DEF IndexMissing, Finish
<1>10. op.key \in Keys /\ NewItem(Zero) \in Items
  BY DataAssumption DEF TypeOK, Op, NewItem
<1>11. TypeOK'
  <2>1. c2[Root]["left"] = Nil
    BY <1>7 DEF Tree
  <2>2. op' \in Op /\ link' \in [of : Nodes \cup {Root}, side : Sides]
    BY <1>9, KeysAreIntegers, DataAssumption DEF NoOp, Op, Top, Sides
  <2>3. /\ key' \in [Nodes -> Keys] /\ priority' \in [Nodes -> Priorities \cup {0}]
        /\ data' \in [Nodes -> Items]
    BY <1>3, <1>10 DEF TypeOK
  <2>4. len' \in Nat /\ result' \in Seq(Items \cup Keys)
    BY <1>9, <1>10 DEF TypeOK
  <2>. QED
    BY <1>1, <1>6, <2>1, <2>2, <2>3, <2>4 DEF TypeOK, All
<1>12. Shape(b2)'
  <2>1. Cardinality(below[c1[Root]["right"]] \cup {n}) = Cardinality(below[c1[Root]["right"]]) + 1
    <3>1. n \notin Linked
      BY <1>3
    <3>. QED
      BY <3>1, <1>4, FS_AddElement
  <2>2. len = Cardinality(below[c1[Root]["right"]])
    BY <1>1 DEF Shape
  <2>3. len' = Cardinality(b2[c2[Root]["right"]])
    BY <1>8, <1>9, <2>1, <2>2
  <2>4. Root \in b2[Root]
    BY <1>2, <1>7 DEF Tree
  <2>5. link'.of = Root /\ link'.side = "right"
    BY <1>9 DEF Top
  <2>. QED
    BY <1>1, <1>7, <1>9, <2>3, <2>4, <2>5 DEF Shape
<1>13. ASSUME KeysClose PROVE Order(b2)'
  <2>1. Searching
    BY DEF IndexMissing, Searching
  <2>2. /\ Sorted(c1, below, key)
        /\ \A m \in Nodes, t \in Sides : Under(c1, below, f, s, m, t) => Beyond(t, key[m], op.key)
    BY <1>1, <1>13, <2>1 DEF Order
  <2>3. PICK k, k2, j : k = key /\ k2 = key' /\ j = op.key
    OBVIOUS
  <2>4. k2[n] = j /\ \A x \in Nodes \ {n} : k2[x] = k[x]
    BY <1>3, <2>3 DEF TypeOK
  <2>5. \A t \in Sides : ~Under(c1, below, f, s, n, t)
    <3>1. \A t \in Sides : c1[n][t] = Nil
      BY <1>2, <1>5 DEF Tree
    <3>2. f # n /\ below[Nil] = {}
      BY <1>2, <1>5 DEF Tree
    <3>. QED
      BY <3>1, <3>2 DEF Under
  <2>6. /\ Sorted(c1, below, k)
        /\ \A m \in Nodes, t \in Sides : Under(c1, below, f, s, m, t) => Beyond(t, k[m], k2[n])
    BY <2>2, <2>3, <2>4
  <2>7. Sorted(c2, b2, k2)
    BY <1>2, <1>5, <1>7, <2>4, <2>5, <2>6, InsertedSorted
  <2>8. ~Searching'
    BY <1>9, KeysAreIntegers DEF Searching
  <2>. QED
    BY <1>1, <2>3, <2>7, <2>8 DEF Order
<1>. QED
  BY <1>1, <1>3, <1>4, <1>8, <1>11, <1>12, <1>13

\* The node at the link is taken out, as doBuiltinDeleteMap does in each of its cases.
LEMMA UnlinkedTree ==
  ASSUME TypeOK, NEW below, Shape(below), Delete, At # Nil
  PROVE  /\ child' \in [All -> [Sides -> Nodes \cup {Nil}]]
         /\ \E b2 :
              /\ Tree(child', b2)
              /\ Without(child, below, child', b2, At)
              /\ Sorted(child, below, key) => Sorted(child', b2, key')
<1>1. PICK c1, f, s, n, l, r :
        /\ c1 = child /\ f = link.of /\ s = link.side /\ n = At
        /\ l = c1[n]["left"] /\ r = c1[n]["right"]
  OBVIOUS
<1>2. /\ Tree(c1, below) /\ f \in All /\ s \in Sides /\ n = c1[f][s] /\ c1[f][s] = n
      /\ n # Nil /\ n \in Nodes /\ n \in All /\ Nil \notin All /\ Root \in All /\ Root \notin Nodes
      /\ c1 \in [All -> [Sides -> Nodes \cup {Nil}]]
  <2>1. Tree(child, below) /\ link.of \in below[Root]
    BY DEF Shape
  <2>2. /\ link.of \in All /\ link.side \in Sides /\ At = child[link.of][link.side]
        /\ Nil \notin All /\ Root \in All /\ (At # Nil => At \in Nodes /\ At \in All)
        /\ Root \notin Nodes /\ child \in [All -> [Sides -> Nodes \cup {Nil}]]
    BY LinkFacts
  <2>3. Tree(c1, below)
    BY <1>1, <2>1
  <2>. QED
    BY <1>1, <2>1, <2>2, <2>3
<1>3. /\ l \in Nodes \cup {Nil} /\ r \in Nodes \cup {Nil} /\ f # n /\ f \notin below[n]
      /\ "left" \in Sides /\ "right" \in Sides /\ Other("left") = "right" /\ Other("right") = "left"
  <2>1. f \notin below[n] /\ n \in below[n]
    BY <1>2, ChildBelow
  <2>. QED
    BY <1>1, <1>2, <2>1 DEF Sides, Other
<1>4. child' = [Unlinked EXCEPT ![n] = [side \in Sides |-> Nil]]
  BY <1>1 DEF Delete
<1>5. PICK k, k2 : k = key /\ k2 = key'
  OBVIOUS
<1>6. k \in [Nodes -> Keys] /\ k2 = [k EXCEPT ![n] = NoOp.key]
  BY <1>1, <1>5 DEF Delete, TypeOK
<1>7. /\ k \in [Nodes -> Int] /\ k2 \in [Nodes -> Int]
      /\ \A x \in Nodes \ {n} : k2[x] = k[x]
  BY <1>2, <1>6, KeysAreIntegers
<1>8. ASSUME NEW d \in Sides, c1[n][Other(d)] = Nil,
             Unlinked = [c1 EXCEPT ![f][s] = c1[n][d]]
      PROVE  /\ child' \in [All -> [Sides -> Nodes \cup {Nil}]]
             /\ \E b2 : /\ Tree(child', b2)
                        /\ Without(c1, below, child', b2, n)
                        /\ Sorted(c1, below, k) => Sorted(child', b2, k2)
  <2>1. PICK c2 : c2 = [[c1 EXCEPT ![f][s] = c1[n][d]] EXCEPT ![n] = [side \in Sides |-> Nil]]
    OBVIOUS
  <2>2. child' = c2
    BY <1>4, <1>8, <2>1
  <2>3. c2 \in [All -> [Sides -> Nodes \cup {Nil}]]
    <3>1. PICK h : h = [c1 EXCEPT ![f][s] = c1[n][d]]
      OBVIOUS
    <3>2. c1[n][d] \in Nodes \cup {Nil}
      BY <1>2
    <3>3. h \in [All -> [Sides -> Nodes \cup {Nil}]]
      BY <1>2, <3>1, <3>2
    <3>4. c2 = [h EXCEPT ![n] = [side \in Sides |-> Nil]]
      BY <2>1, <3>1
    <3>. QED
      BY <3>3, <3>4
  <2>4. \A p \in All, t \in Sides : c2[p][t] = IF p = f /\ t = s THEN c1[n][d]
                                               ELSE IF p = n THEN Nil ELSE c1[p][t]
    BY <1>2, <1>3, <2>1
  <2>5. Spliced(c1, c2, f, s, d)
    BY <1>2, <2>4 DEF Spliced
  <2>6. PICK b2 : Tree(c2, b2) /\ SplicedBelow(c1, below, c2, b2, n)
    BY <1>2, <1>8, <2>3, <2>5, SplicedTree
  <2>7. /\ Without(c1, below, c2, b2, n)
        /\ \A kk \in [Nodes -> Int], kk2 \in [Nodes -> Int] :
             Sorted(c1, below, kk) /\ (\A x \in Nodes \ {n} : kk2[x] = kk[x])
             => Sorted(c2, b2, kk2)
    BY <1>2, <2>6, SplicedWithout
  <2>8. Sorted(c1, below, k) => Sorted(c2, b2, k2)
    BY <1>7, <2>7
  <2>. QED
    BY <2>2, <2>3, <2>6, <2>7, <2>8
<1>9. ASSUME l # Nil, r # Nil
      PROVE  /\ child' \in [All -> [Sides -> Nodes \cup {Nil}]]
             /\ \E b2 : /\ Tree(child', b2)
                        /\ Without(c1, below, child', b2, n)
                        /\ Sorted(c1, below, k) => Sorted(child', b2, k2)
  <2>1. PICK m : m = Head(OrderOf(c1)[r])
    OBVIOUS
  <2>2. /\ r \in Nodes /\ m \in Nodes /\ m \in below[r] /\ c1[m]["left"] = Nil
    BY <1>2, <1>3, <1>9, <2>1, LeftmostChild
  <2>3. m = Head(InOrder[r])
    BY <1>1, <2>1, InOrderOf DEF OrderOf
  <2>4. PICK e : e = LinkTo(m)
    OBVIOUS
  <2>5. e \in [of : All, side : Sides] /\ c1[e.of][e.side] = m
    <3>1. /\ below[r] \subseteq below[n] /\ n \notin below[r] /\ n \in below[n]
      BY <1>1, <1>2, <1>3, ChildBelow
    <3>2. PICK p \in below[n], t \in Sides : c1[p][t] = m
      BY <1>2, <2>2, <3>1, ParentExists
    <3>3. p \in All
      BY <1>2, <3>2 DEF Tree
    <3>4. e = CHOOSE q \in [of : All, side : Sides] : c1[q.of][q.side] = m
      BY <1>1, <2>4 DEF LinkTo, All
    <3>5. PICK q0 : q0 = [of |-> p, side |-> t]
      OBVIOUS
    <3>6. q0 \in [of : All, side : Sides] /\ c1[q0.of][q0.side] = m
      BY <3>2, <3>3, <3>5
    <3>. QED
      BY <3>4, <3>6
  <2>6. PICK g, u : g = e.of /\ u = e.side
    OBVIOUS
  <2>7. g \in All /\ u \in Sides /\ c1[g][u] = m
    BY <2>5, <2>6
  <2>8. PICK cut : cut = [c1 EXCEPT ![g][u] = c1[m]["right"]]
    OBVIOUS
  <2>9. Unlinked = [cut EXCEPT ![m] = cut[n], ![f][s] = m]
    BY <1>1, <1>9, <2>3, <2>4, <2>6, <2>8 DEF Unlinked
  <2>10. PICK c2 : c2 = [[cut EXCEPT ![m] = cut[n], ![f][s] = m] EXCEPT ![n] = [side \in Sides |-> Nil]]
    OBVIOUS
  <2>11. child' = c2
    BY <1>4, <2>9, <2>10
  <2>12. m # n /\ m # f /\ m \in All
    <3>1. /\ below[r] \subseteq below[n] /\ n \notin below[r]
      BY <1>1, <1>2, <1>3, ChildBelow
    <3>. QED
      BY <3>1, <2>2, <1>3 DEF All
  <2>13. /\ cut \in [All -> [Sides -> Nodes \cup {Nil}]]
         /\ \A p \in All, t \in Sides : cut[p][t] = IF p = g /\ t = u THEN c1[m]["right"] ELSE c1[p][t]
    BY <1>2, <1>3, <2>7, <2>8, <2>12
  <2>14. c2 \in [All -> [Sides -> Nodes \cup {Nil}]]
    <3>1. PICK h : h = [cut EXCEPT ![m] = cut[n]]
      OBVIOUS
    <3>2. h \in [All -> [Sides -> Nodes \cup {Nil}]]
      BY <3>1, <2>12, <2>13, <1>2
    <3>3. PICK h2 : h2 = [h EXCEPT ![f][s] = m]
      OBVIOUS
    <3>4. h2 \in [All -> [Sides -> Nodes \cup {Nil}]]
      BY <3>2, <3>3, <2>2, <1>2
    <3>5. c2 = [h2 EXCEPT ![n] = [side \in Sides |-> Nil]]
      BY <3>1, <3>3, <2>10
    <3>. QED
      BY <3>4, <3>5
  <2>15. \A p \in All, t \in Sides :
           c2[p][t] = IF p = f /\ t = s THEN m
                      ELSE IF p = m THEN cut[n][t]
                      ELSE IF p = n THEN Nil
                      ELSE cut[p][t]
    <3>. SUFFICES ASSUME NEW p \in All, NEW t \in Sides
                  PROVE  c2[p][t] = IF p = f /\ t = s THEN m
                                    ELSE IF p = m THEN cut[n][t]
                                    ELSE IF p = n THEN Nil
                                    ELSE cut[p][t]
      OBVIOUS
    <3>1. CASE p = n
      BY <3>1, <2>10, <2>12, <2>13, <1>2, <1>3
    <3>2. CASE p = m
      BY <3>2, <2>10, <2>12, <2>13, <1>2, <1>3
    <3>3. CASE p = f
      BY <3>3, <2>10, <2>12, <2>13, <1>2, <1>3
    <3>4. CASE p \notin {n, m, f}
      BY <3>4, <2>10, <2>12, <2>13, <1>2, <1>3
    <3>. QED
      BY <3>1, <3>2, <3>3, <3>4
  <2>16. Succeeded(c1, c2, f, s, m, g, u)
    BY <1>2, <2>12, <2>13, <2>15 DEF Succeeded
  <2>17. PICK b2 :
           /\ Tree(c2, b2)
           /\ Without(c1, below, c2, b2, n)
           /\ SucceededSorted(c1, below, c2, b2, n, m)
    <3>1. m \in below[c1[n]["right"]]
      BY <1>1, <2>2
    <3>2. /\ Tree(c1, below) /\ f \in All /\ s \in Sides /\ c1[f][s] = n /\ n # Nil
          /\ m \in Nodes /\ m \in below[c1[n]["right"]] /\ c1[m]["left"] = Nil
          /\ g \in All /\ u \in Sides /\ c1[g][u] = m
          /\ c2 \in [All -> [Sides -> Nodes \cup {Nil}]]
          /\ Succeeded(c1, c2, f, s, m, g, u)
      BY <1>2, <2>2, <2>7, <2>14, <2>16, <3>1
    <3>. QED
      BY ONLY <3>2, SucceededTree
  <2>18. ASSUME Sorted(c1, below, k) PROVE Sorted(c2, b2, k2)
    <3>1. \A x \in below[r] : x # m => k[m] < k[x]
      BY <1>2, <1>7, <2>1, <2>2, <2>18, LeftmostLeast
    <3>. QED
      BY <1>1, <1>7, <2>17, <2>18, <3>1 DEF SucceededSorted
  <2>. QED
    BY <2>11, <2>14, <2>17, <2>18
<1>10. /\ child' \in [All -> [Sides -> Nodes \cup {Nil}]]
       /\ \E b2 : /\ Tree(child', b2)
                  /\ Without(c1, below, child', b2, n)
                  /\ Sorted(c1, below, k) => Sorted(child', b2, k2)
  <2>1. CASE l = Nil
    <3>1. Unlinked = [c1 EXCEPT ![f][s] = c1[n]["right"]]
      BY <1>1, <2>1 DEF Unlinked
    <3>. QED
      BY <1>1, <1>3, <1>8, <2>1, <3>1
  <2>2. CASE l # Nil /\ r = Nil
    <3>1. Unlinked = [c1 EXCEPT ![f][s] = c1[n]["left"]]
      BY <1>1, <2>2 DEF Unlinked
    <3>. QED
      BY <1>1, <1>3, <1>8, <2>2, <3>1
  <2>. QED
    BY <2>1, <2>2, <1>9
<1>. QED
  BY <1>1, <1>5, <1>10 DEF Without

LEMMA DeleteStep ==
  ASSUME TypeOK, NEW below, Shape(below), KeysClose => Order(below), Delete, At # Nil
  PROVE  /\ At \in below[child[Root]["right"]]
         /\ \E b2 :
              /\ TypeOK' /\ Shape(b2)' /\ (KeysClose => Order(b2)')
              /\ b2[child'[Root]["right"]] = below[child[Root]["right"]] \ {At}
<1>1. PICK c1, c2, n, k, k2 : c1 = child /\ c2 = child' /\ n = At /\ k = key /\ k2 = key'
  OBVIOUS
<1>2. PICK b2 :
        /\ Tree(c2, b2)
        /\ Without(c1, below, c2, b2, n)
        /\ Sorted(c1, below, k) => Sorted(c2, b2, k2)
  BY <1>1, UnlinkedTree
<1>3. c2 \in [All -> [Sides -> Nodes \cup {Nil}]]
  BY <1>1, UnlinkedTree
<1>4. /\ n \in Nodes /\ n \in All /\ Root \in All /\ Root \notin Nodes
      /\ Tree(c1, below) /\ len = Cardinality(below[c1[Root]["right"]])
  BY <1>1, LinkFacts DEF Shape
<1>5. /\ Linked = below[c1[Root]["right"]] /\ Linked = below[Root] \ {Root}
      /\ IsFiniteSet(Linked)
  BY <1>1, LinkedBelow
<1>6. n \in Linked
  <2>1. /\ link.of \in All /\ link.side \in Sides /\ n = c1[link.of][link.side]
        /\ link.of \in below[Root] /\ n # Nil
    BY <1>1, LinkFacts DEF Shape
  <2>2. n \in below[link.of] /\ below[link.of] \subseteq below[Root]
    BY <1>4, <2>1, ChildBelow, BelowTransitive
  <2>. QED
    BY <1>4, <1>5, <2>2
<1>7. op' = NoOp /\ link' = Top /\ len' = len - 1 /\ result' = <<>>
  BY DEF Delete, Finish
<1>8. /\ key' = [key EXCEPT ![n] = NoOp.key] /\ priority' = [priority EXCEPT ![n] = 0]
      /\ data' = [data EXCEPT ![n] = Zero]
  BY <1>1 DEF Delete
<1>9. b2[c2[Root]["right"]] = Linked \ {n}
  BY <1>2, <1>5 DEF Without
<1>10. len' = Cardinality(b2[c2[Root]["right"]]) /\ len' \in Nat
  <2>1. /\ IsFiniteSet(Linked \ {n})
        /\ Cardinality(Linked \ {n}) = Cardinality(Linked) - 1
    BY <1>5, <1>6, FS_RemoveElement
  <2>2. Cardinality(Linked \ {n}) \in Nat
    BY <2>1, FS_CardinalityType
  <2>3. len = Cardinality(Linked)
    BY <1>4, <1>5
  <2>. QED
    BY <1>7, <1>9, <2>1, <2>2, <2>3
<1>11. TypeOK'
  <2>1. c2[Root]["left"] = Nil
    BY <1>2 DEF Tree
  <2>2. op' \in Op /\ link' \in [of : Nodes \cup {Root}, side : Sides]
    BY <1>7, KeysAreIntegers, DataAssumption DEF NoOp, Op, Top, Sides
  <2>3. /\ key' \in [Nodes -> Keys] /\ priority' \in [Nodes -> Priorities \cup {0}]
        /\ data' \in [Nodes -> Items]
    BY <1>8, KeysAreIntegers, DataAssumption DEF TypeOK
  <2>4. result' \in Seq(Items \cup Keys)
    BY <1>7
  <2>. QED
    BY <1>1, <1>3, <1>10, <2>1, <2>2, <2>3, <2>4 DEF TypeOK, All
<1>12. Shape(b2)'
  <2>1. Root \in b2[Root]
    BY <1>2, <1>4 DEF Tree
  <2>2. link'.of = Root /\ link'.side = "right"
    BY <1>7 DEF Top
  <2>. QED
    BY <1>1, <1>2, <1>7, <1>10, <2>1, <2>2 DEF Shape
<1>13. ASSUME KeysClose PROVE Order(b2)'
  <2>1. Sorted(c2, b2, k2)
    BY <1>1, <1>2, <1>13 DEF Order
  <2>2. ~Searching'
    BY <1>7, KeysAreIntegers DEF Searching
  <2>. QED
    BY <1>1, <2>1, <2>2 DEF Order
<1>. QED
  BY <1>1, <1>5, <1>6, <1>9, <1>11, <1>12, <1>13

LEMMA DeleteMissingStep ==
  ASSUME TypeOK, NEW below, Shape(below), KeysClose => Order(below), Delete, At = Nil
  PROVE  IInv'
<1>1. child' = child /\ nodes' = nodes /\ result' = <<>> /\ op' = NoOp /\ link' = Top
  BY DEF Delete, Finish
<1>2. TypeOK'
  <2>1. op' \in Op /\ link' \in [of : Nodes \cup {Root}, side : Sides]
    BY <1>1, KeysAreIntegers, DataAssumption DEF NoOp, Op, Top, Sides
  <2>2. result' \in Seq(Items \cup Keys)
    BY <1>1
  <2>. QED
    BY <1>1, <2>1, <2>2 DEF TypeOK, nodes
<1>3. child' = child /\ len' = len /\ key' = key /\ link' = Top
  BY <1>1 DEF nodes
<1>. QED
  BY <1>2, <1>3, SameTree

LEMMA NextInvariant ==
  ASSUME IInv, [Next]_vars
  PROVE  IInv'
<1>1. PICK below : Shape(below) /\ (KeysClose => Order(below))
  BY DEF IInv
<1>2. TypeOK
  BY DEF IInv
<1>3. ASSUME NEW k \in Keys, NEW x \in Items, Start("set", k, x) PROVE IInv'
  BY <1>1, <1>2, <1>3, StartStep
<1>4. ASSUME NEW name \in {"index", "delete", "validkey"}, NEW k \in Keys, Start(name, k, Zero)
      PROVE  IInv'
  BY <1>1, <1>2, <1>4, StartStep, DataAssumption
<1>5. ASSUME Walk PROVE IInv'
  BY <1>1, <1>2, <1>5, VisitStep, RotateStep, WalkFacts DEF IInv
<1>6. ASSUME IndexExisting PROVE IInv'
  BY <1>1, <1>2, <1>6, IndexExistingStep
<1>7. ASSUME IndexMissing PROVE IInv'
  <2>1. \E b2 : TypeOK' /\ Shape(b2)' /\ (KeysClose => Order(b2)')
    BY <1>1, <1>2, <1>7, IndexMissingStep
  <2>. QED
    BY <2>1 DEF IInv
<1>8. ASSUME ValidKey PROVE IInv'
  BY <1>1, <1>2, <1>8, ValidKeyStep
<1>9. ASSUME Delete PROVE IInv'
  <2>1. CASE At # Nil
    <3>1. \E b2 : TypeOK' /\ Shape(b2)' /\ (KeysClose => Order(b2)')
      BY <1>1, <1>2, <1>9, <2>1, DeleteStep
    <3>. QED
      BY <3>1 DEF IInv
  <2>2. CASE At = Nil
    BY <1>1, <1>2, <1>9, <2>2, DeleteMissingStep
  <2>. QED
    BY <2>1, <2>2
<1>10. ASSUME ListKeys PROVE IInv'
  BY <1>1, <1>2, <1>10, ListKeysStep
<1>11. ASSUME UNCHANGED vars PROVE IInv'
  <2>1. TypeOK'
    BY <1>2, <1>11 DEF vars, nodes, TypeOK
  <2>2. Shape(below)'
    BY <1>1, <1>11 DEF vars, nodes, Shape, Searching
  <2>3. KeysClose => Order(below)'
    BY <1>1, <1>11 DEF vars, nodes, Order, Searching, At, Under
  <2>. QED
    BY <2>1, <2>2, <2>3 DEF IInv
<1>. QED
  BY <1>3, <1>4, <1>5, <1>6, <1>7, <1>8, <1>9, <1>10, <1>11 DEF Next

\* The invariant holds always.
LEMMA Invariant == Spec => []IInv
<1>1. Init => IInv
  BY InitInvariant
<1>2. IInv /\ [Next]_vars => IInv'
  BY NextInvariant
<1>. QED
  BY <1>1, <1>2, PTL DEF Spec

-----------------------------------------------------------------------------
(* What the invariant says of the order in which the tree is listed.       *)

LEMMA OrderFacts ==
  ASSUME TypeOK, NEW below, Shape(below), NEW order, order = InOrder[child[Root]["right"]]
  PROVE  /\ order \in Seq(Nodes) /\ Distinct(order) /\ ToSet(order) = Linked
         /\ Len(order) = len /\ Len(order) \in Nat /\ DOMAIN order = 1 .. Len(order)
         /\ len = Cardinality(Linked)
         /\ Order(below) => Ascending(key, order)
<1>1. PICK c1, r, k : c1 = child /\ r = c1[Root]["right"] /\ k = key
  OBVIOUS
<1>2. Tree(c1, below) /\ r \in Nodes \cup {Nil} /\ len = Cardinality(below[r])
  BY <1>1, LinkFacts DEF Shape
<1>3. order = OrderOf(c1)[r] /\ Linked = below[r]
  <2>1. OrderOf(c1) = OrderOf(child)
    BY <1>1 DEF OrderOf
  <2>. QED
    BY <1>1, <2>1, LinkedBelow
<1>4. order \in Seq(Nodes) /\ Distinct(order) /\ ToSet(order) = below[r]
  BY <1>2, <1>3, OrderBelow
<1>5. DOMAIN order = 1 .. Len(order) /\ Len(order) \in Nat
  BY <1>4, LenProperties
<1>6. Cardinality(below[r]) = Len(order)
  <2>1. order \in [1 .. Len(order) -> below[r]]
    <3>1. order \in [1 .. Len(order) -> Nodes] /\ \A i \in 1 .. Len(order) : order[i] \in ToSet(order)
      BY <1>4, <1>5, LenProperties DEF ToSet
    <3>. QED
      BY <1>4, <3>1
  <2>2. \A x \in below[r] : \E i \in 1 .. Len(order) : order[i] = x
    BY <1>4, <1>5 DEF ToSet
  <2>3. \A i, j \in 1 .. Len(order) : order[i] = order[j] => i = j
    BY <1>4, <1>5 DEF Distinct
  <2>4. order \in Bijection(1 .. Len(order), below[r])
    BY <2>1, <2>2, <2>3 DEF Bijection, Injection, Surjection, IsInjective
  <2>. QED
    BY <1>5, <2>4, FS_CountingElements DEF ExistsBijection
<1>7. ASSUME Order(below) PROVE Ascending(key, order)
  <2>1. Sorted(c1, below, k) /\ k \in [Nodes -> Int]
    BY <1>1, <1>7, KeysAreIntegers DEF Order, TypeOK
  <2>. QED
    BY <1>1, <1>2, <1>3, <2>1, OrderSorted
<1>. QED
  BY <1>2, <1>3, <1>4, <1>5, <1>6, <1>7

LEMMA InvariantShape ==
  ASSUME IInv
  PROVE  TypeOK /\ TreeShaped
<1>1. PICK below : Shape(below)
  BY DEF IInv
<1>2. TypeOK
  BY DEF IInv
<1>3. PICK order : order = InOrder[child[Root]["right"]]
  OBVIOUS
<1>4. Distinct(order) /\ len = Len(order)
  BY <1>1, <1>2, <1>3, OrderFacts
<1>. QED
  BY <1>2, <1>3, <1>4 DEF TreeShaped, Distinct

LEMMA InvariantOrder ==
  ASSUME IInv, KeysClose
  PROVE  Ordered /\ SearchNarrows
<1>1. PICK below : Shape(below) /\ Order(below)
  BY DEF IInv
<1>2. TypeOK
  BY DEF IInv
<1>3. PICK order : order = InOrder[child[Root]["right"]]
  OBVIOUS
<1>4. Ascending(key, order)
  BY <1>1, <1>2, <1>3, OrderFacts
<1>5. Ordered
  BY <1>3, <1>4 DEF Ordered, Ascending
<1>6. SearchNarrows
  <2>1. /\ Linked = below[child[Root]["right"]]
        /\ \A n \in Nodes \cup {Nil} : ToSet(InOrder[n]) = below[n]
    BY <1>1, <1>2, LinkedBelow
  <2>2. At \in Nodes \cup {Nil}
    BY <1>1, <1>2, LinkFacts
  <2>. QED
    BY <1>1, <2>1, <2>2 DEF Order, SearchNarrows
<1>. QED
  BY <1>5, <1>6

-----------------------------------------------------------------------------
(* The theorems.                                                           *)

\* Whatever the keys are, no step of a walk, an insertion or a deletion makes two pointers
\* lead to the same node, and the length of a map is the number of nodes in its tree:
\* doGetMapNode, doRebalanceMapNodes and doBuiltinDeleteMap keep the tree a tree.
THEOREM TreeKept == Spec => [](TypeOK /\ TreeShaped)
<1>1. IInv => TypeOK /\ TreeShaped
  BY InvariantShape
<1>. QED
  BY <1>1, Invariant, PTL

\* If the differences of the keys can be expressed in their type, the tree is a search tree
\* in the middle of every walk too, and the key that is looked for, if it is in the map at
\* all, is below the link.
THEOREM SearchTreeKept ==
  ASSUME KeysClose
  PROVE  Spec => []SearchTree
<1>1. IInv => SearchTree
  BY InvariantShape, InvariantOrder DEF SearchTree
<1>. QED
  BY <1>1, Invariant, PTL

LEMMA InOrderNext == InOrder' = OrderOf(child')
  BY DEF InOrder, OrderOf

\* What is below the link after a step.
LEMMA BelowNext ==
  ASSUME NEW b2, TypeOK', Shape(b2)'
  PROVE  /\ At' \in Nodes \cup {Nil}
         /\ ToSet(InOrder[At])' = b2[At']
<1>1. PICK c2, a2 : c2 = child' /\ a2 = At'
  OBVIOUS
<1>2. Tree(c2, b2) /\ c2 \in [All -> [Sides -> Nodes \cup {Nil}]]
  BY <1>1 DEF Shape, TypeOK, All
<1>3. a2 \in Nodes \cup {Nil}
  <2>1. a2 = c2[link'.of][link'.side] /\ link' \in [of : All, side : Sides]
    BY <1>1 DEF At, TypeOK, All
  <2>. QED
    BY <1>2, <2>1
<1>4. ToSet(OrderOf(c2)[a2]) = b2[a2]
  BY <1>2, <1>3, OrderBelow
<1>5. InOrder' = OrderOf(c2)
  <2>1. OrderOf(child') = OrderOf(c2)
    BY <1>1 DEF OrderOf
  <2>. QED
    BY <2>1, InOrderNext
<1>6. ToSet(InOrder[At])' = ToSet(InOrder'[a2])
  BY <1>1 DEF ToSet
<1>. QED
  BY <1>1, <1>3, <1>4, <1>5, <1>6

LEMMA WalkAdvances ==
  ASSUME IInv, Walk,
         NEW b1, b1 = ToSet(InOrder[At]), NEW b2, b2 = ToSet(InOrder[At])'
  PROVE  \/ Cardinality(b2) < Cardinality(b1)
         \/ b2 = b1 /\ priority[At'] > priority[At]
<1>1. PICK below : Shape(below) /\ (KeysClose => Order(below))
  BY DEF IInv
<1>2. TypeOK
  BY DEF IInv
<1>3. b1 = below[At] /\ IsFiniteSet(b1)
  <2>1. At \in Nodes \cup {Nil} /\ Tree(child, below)
    BY <1>1, <1>2, LinkFacts DEF Shape
  <2>2. b1 = below[At]
    BY <1>1, <1>2, <2>1, LinkedBelow
  <2>3. b1 \subseteq All
    BY <2>1, <2>2 DEF Tree, All
  <2>. QED
    BY <2>2, <2>3, NodesFinite, FS_Subset
<1>4. CASE child' = child /\ link' = [of |-> At, side |-> Direction]
  <2>1. /\ TypeOK' /\ Shape(below)'
        /\ below[At'] \subseteq below[At] /\ At \in below[At] /\ At \notin below[At']
    BY <1>1, <1>2, <1>4, VisitStep
  <2>2. b2 = below[At']
    BY <2>1, BelowNext
  <2>3. b2 \subseteq b1 /\ b2 # b1
    BY <1>3, <2>1, <2>2
  <2>4. IsFiniteSet(b2) /\ Cardinality(b2) <= Cardinality(b1) /\ Cardinality(b1) # Cardinality(b2)
    BY <1>3, <2>3, FS_Subset
  <2>5. Cardinality(b1) \in Nat /\ Cardinality(b2) \in Nat
    BY <1>3, <2>4, FS_CardinalityType
  <2>. QED
    BY <2>4, <2>5
<1>5. CASE ~(child' = child /\ link' = [of |-> At, side |-> Direction])
  <2>1. /\ link' = link /\ child[At][Direction] # Nil
        /\ priority[child[At][Direction]] > priority[At]
        /\ child' \in [All -> [Sides -> Nodes \cup {Nil}]]
        /\ Rotated(child, child', link.of, link.side, Direction)
    BY <1>1, <1>2, <1>5, WalkFacts
  <2>2. /\ At' = child[At][Direction]
        /\ \E b : /\ TypeOK' /\ Shape(b)' /\ (KeysClose => Order(b)')
                  /\ b[At'] = below[At]
                  /\ b[child'[Root]["right"]] = below[child[Root]["right"]]
    BY <1>1, <1>2, <2>1, RotateStep
  <2>3. PICK b : TypeOK' /\ Shape(b)' /\ b[At'] = below[At]
    BY <2>2
  <2>4. b2 = b[At']
    BY <2>3, BelowNext
  <2>. QED
    BY <1>3, <2>1, <2>2, <2>3, <2>4
<1>. QED
  BY <1>4, <1>5

\* The loop of doGetMapNode gets ahead with every iteration, whatever the priorities and
\* the keys are: it leaves fewer nodes below the link, or rotates one of a higher priority
\* to it.
THEOREM WalksProgress == Spec => WalkProgresses
<1>1. IInv /\ [Next]_vars =>
        [Walk => LET below == ToSet(InOrder[At])
                 IN  \/ Cardinality(below') < Cardinality(below)
                     \/ below' = below /\ priority[At'] > priority[At]]_vars
  BY WalkAdvances
<1>. QED
  BY <1>1, Invariant, PTL DEF Spec, WalkProgresses

-----------------------------------------------------------------------------
(* The map that the tree implements.                                       *)

\* The function from the keys k of the nodes in S to their items d
ContentsOf(S, k, d) == [x \in {k[n] : n \in S} |-> d[CHOOSE n \in S : k[n] = x]]

\* Their keys tell the nodes in S apart.
TellsApart(k, S) == \A n, m \in S : k[n] = k[m] => n = m

\* f is the function from the keys k of the nodes in S to their items d.
IsContents(f, S, k, d) ==
  /\ f = [x \in DOMAIN f |-> f[x]]
  /\ DOMAIN f = {k[n] : n \in S}
  /\ \A n \in S : f[k[n]] = d[n]

LEMMA ContentsFacts ==
  ASSUME NEW S, NEW k, NEW d, TellsApart(k, S)
  PROVE  IsContents(ContentsOf(S, k, d), S, k, d)
<1>. DEFINE C == ContentsOf(S, k, d)
<1>1. C = [x \in {k[n] : n \in S} |-> d[CHOOSE n \in S : k[n] = x]]
  BY DEF ContentsOf
<1>. HIDE DEF C
<1>2. ASSUME NEW n \in S PROVE C[k[n]] = d[n]
  <2>1. (CHOOSE m \in S : k[m] = k[n]) = n
    BY DEF TellsApart
  <2>2. C[k[n]] = d[CHOOSE m \in S : k[m] = k[n]]
    BY <1>1
  <2>. QED
    BY <2>1, <2>2
<1>3. DOMAIN C = {k[n] : n \in S} /\ C = [x \in DOMAIN C |-> C[x]]
  BY <1>1
<1>4. IsContents(C, S, k, d)
  BY <1>2, <1>3 DEF IsContents
<1>. QED
  BY <1>4 DEF C

LEMMA ContentsAre ==
  ASSUME NEW S, NEW k, NEW d, TellsApart(k, S), NEW f, IsContents(f, S, k, d)
  PROVE  f = ContentsOf(S, k, d)
<1>1. PICK g : g = ContentsOf(S, k, d)
  OBVIOUS
<1>2. IsContents(g, S, k, d)
  BY <1>1, ContentsFacts
<1>3. ASSUME NEW x \in DOMAIN f PROVE f[x] = g[x]
  <2>1. PICK n \in S : k[n] = x
    BY DEF IsContents
  <2>. QED
    BY <1>2, <2>1 DEF IsContents
<1>4. f = [x \in DOMAIN f |-> g[x]]
  BY <1>3 DEF IsContents
<1>5. f = g
  BY <1>2, <1>4 DEF IsContents
<1>. QED
  BY <1>1, <1>5

LEMMA ContentsNow ==
  /\ Contents = ContentsOf(Linked, key, data)
  /\ Contents' = ContentsOf(Linked', key', data')
  BY DEF Contents, ContentsOf

LEMMA LinkedNext ==
  ASSUME NEW b2, TypeOK', Shape(b2)'
  PROVE  Linked' = b2[child'[Root]["right"]]
<1>1. PICK c2, r : c2 = child' /\ r = c2[Root]["right"]
  OBVIOUS
<1>2. Tree(c2, b2) /\ c2 \in [All -> [Sides -> Nodes \cup {Nil}]]
  BY <1>1 DEF Shape, TypeOK, All
<1>3. r \in Nodes \cup {Nil}
  BY <1>1, <1>2, SidesTwo DEF All
<1>4. ToSet(OrderOf(c2)[r]) = b2[r]
  BY <1>2, <1>3, OrderBelow
<1>5. InOrder' = OrderOf(c2)
  <2>1. OrderOf(child') = OrderOf(c2)
    BY <1>1 DEF OrderOf
  <2>. QED
    BY <2>1, InOrderNext
<1>6. Linked' = ToSet(InOrder'[r])
  BY <1>1 DEF Linked, ToSet
<1>. QED
  BY <1>1, <1>4, <1>5, <1>6

\* A key is there once, and where the search for one has ended tells if it is.
LEMMA KeyFacts ==
  ASSUME KeysClose, TypeOK, NEW below, Shape(below), Order(below)
  PROVE  /\ TellsApart(key, Linked)
         /\ Linked \subseteq Nodes /\ op.key \in Keys
         /\ Searching /\ At = Nil => \A n \in Linked : key[n] # op.key
         /\ Reached /\ At # Nil => At \in Linked /\ key[At] = op.key
<1>1. Linked \subseteq Nodes /\ Linked = below[child[Root]["right"]] /\ Linked = below[Root] \ {Root}
  BY LinkedBelow
<1>2. PICK order : order = InOrder[child[Root]["right"]]
  OBVIOUS
<1>3. /\ Ascending(key, order) /\ ToSet(order) = Linked
      /\ Len(order) \in Nat /\ DOMAIN order = 1 .. Len(order)
  BY <1>2, OrderFacts
<1>4. ASSUME NEW n \in Linked, NEW m \in Linked, key[n] = key[m] PROVE n = m
  <2>1. PICK i \in DOMAIN order, j \in DOMAIN order : order[i] = n /\ order[j] = m
    BY <1>3 DEF ToSet
  <2>2. key[n] \in Int /\ key[m] \in Int
    BY <1>1, KeysAreIntegers DEF TypeOK
  <2>3. ~(i < j) /\ ~(j < i)
    BY <1>3, <1>4, <2>1, <2>2 DEF Ascending
  <2>. QED
    BY <1>3, <2>1, <2>3
<1>5. op.key \in Keys
  BY DEF TypeOK, Op
<1>6. Searching /\ At = Nil => \A n \in Linked : key[n] # op.key
  <2>1. below[Nil] = {}
    BY DEF Shape, Tree
  <2>. QED
    BY <1>1, <2>1 DEF Order
<1>7. ASSUME Reached, At # Nil PROVE At \in Linked /\ key[At] = op.key
  <2>1. /\ link.of \in All /\ link.side \in Sides /\ At = child[link.of][link.side]
        /\ At \in Nodes /\ Root \in All /\ Root \notin Nodes
    BY <1>7, LinkFacts
  <2>2. At \in Linked
    <3>1. PICK c1, f, s, a : c1 = child /\ f = link.of /\ s = link.side /\ a = At
      OBVIOUS
    <3>2. Tree(c1, below) /\ f \in below[Root]
      BY <3>1 DEF Shape
    <3>3. f \in All /\ s \in Sides /\ a = c1[f][s] /\ a # Nil
      BY <1>7, <2>1, <3>1
    <3>4. a \in below[f] /\ below[f] \subseteq below[Root]
      BY <2>1, <3>2, <3>3, ChildBelow, BelowTransitive
    <3>. QED
      BY <1>1, <2>1, <3>1, <3>4
  <2>3. key[At] \in Keys /\ KeyDiff(op.key, key[At]) = 0
    BY <1>7, <2>1 DEF TypeOK, Reached
  <2>4. op.key - key[At] = 0 /\ op.key \in Int /\ key[At] \in Int
    BY <1>5, <2>3, ComparisonRight, KeysAreIntegers
  <2>. QED
    BY <2>2, <2>4
<1>. QED
  BY <1>1, <1>4, <1>5, <1>6, <1>7 DEF TellsApart

LEMMA InitMap == Init => Map!Init
<1>. SUFFICES ASSUME Init PROVE Map!Init
  OBVIOUS
<1>1. Linked = {}
  <2>1. PICK below : Shape(below)
    BY InitInvariant DEF IInv
  <2>2. TypeOK
    BY InitInvariant DEF IInv
  <2>3. Linked = below[child[Root]["right"]]
    BY <2>1, <2>2, LinkedBelow
  <2>4. child[Root]["right"] = Nil
    BY SidesTwo DEF Init
  <2>. QED
    BY <2>1, <2>3, <2>4 DEF Shape, Tree
<1>2. Contents = [k \in {} |-> Zero]
  BY <1>1 DEF Contents
<1>. QED
  BY <1>2 DEF Init, Map!Init

\* Contents depends on nothing but the nodes that are linked, their keys and their items.
LEMMA ContentsSame ==
  ASSUME Linked' = Linked, key' = key, data' = data
  PROVE  Contents' = Contents
  BY DEF Contents

LEMMA LinkedSame ==
  ASSUME child' = child
  PROVE  Linked' = Linked
<1>1. OrderOf(child') = OrderOf(child)
  BY DEF OrderOf
<1>2. InOrder' = InOrder
  BY <1>1, InOrderOf, InOrderNext
<1>. QED
  BY <1>2 DEF Linked, ToSet

LEMMA StartMap ==
  ASSUME NEW name, NEW k, NEW x, Start(name, k, x)
  PROVE  Map!Call
<1>1. child' = child /\ key' = key /\ data' = data /\ result' = <<>>
  BY DEF Start, nodes
<1>2. Contents' = Contents
  BY <1>1, LinkedSame, ContentsSame
<1>. QED
  BY <1>1, <1>2 DEF Map!Call

LEMMA WalkMap ==
  ASSUME TypeOK, NEW below, Shape(below), KeysClose => Order(below), Walk
  PROVE  Contents' = Contents /\ result' = result
<1>1. nodes' = nodes /\ result' = result
  BY WalkFacts
<1>2. Linked' = Linked
  <2>1. CASE child' = child
    BY <2>1, LinkedSame
  <2>2. CASE child' # child
    <3>1. /\ link' = link /\ child[At][Direction] # Nil
          /\ child' \in [All -> [Sides -> Nodes \cup {Nil}]]
          /\ Rotated(child, child', link.of, link.side, Direction)
      BY <2>2, WalkFacts
    <3>2. \E b : /\ TypeOK' /\ Shape(b)' /\ (KeysClose => Order(b)')
                 /\ b[At'] = below[At]
                 /\ b[child'[Root]["right"]] = below[child[Root]["right"]]
      BY <3>1, RotateStep
    <3>3. PICK b : TypeOK' /\ Shape(b)' /\ b[child'[Root]["right"]] = below[child[Root]["right"]]
      BY <3>2
    <3>4. Linked' = b[child'[Root]["right"]]
      BY <3>3, LinkedNext
    <3>5. Linked = below[child[Root]["right"]]
      BY LinkedBelow
    <3>. QED
      BY <3>3, <3>4, <3>5
  <2>. QED
    BY <2>1, <2>2
<1>3. key' = key /\ data' = data
  BY <1>1 DEF nodes
<1>. QED
  BY <1>1, <1>2, <1>3, ContentsSame

LEMMA ValidKeyMap ==
  ASSUME KeysClose, TypeOK, NEW below, Shape(below), Order(below), ValidKey
  PROVE  Map!ValidKey(op.key)
<1>1. child' = child /\ key' = key /\ data' = data /\ Searching /\ Reached
  BY DEF ValidKey, nodes, Searching
<1>2. Contents' = Contents
  BY <1>1, LinkedSame, ContentsSame
<1>3. DOMAIN Contents = {key[n] : n \in Linked}
  BY DEF Contents
<1>4. result' = IF op.key \in DOMAIN Contents THEN <<op.key>> ELSE <<>>
  <2>1. CASE At = Nil
    <3>1. \A n \in Linked : key[n] # op.key
      BY <1>1, <2>1, KeyFacts
    <3>2. op.key \notin DOMAIN Contents
      BY <1>3, <3>1
    <3>. QED
      BY <2>1, <3>2 DEF ValidKey
  <2>2. CASE At # Nil
    <3>1. At \in Linked /\ key[At] = op.key
      BY <1>1, <2>2, KeyFacts
    <3>2. op.key \in DOMAIN Contents
      BY <1>3, <3>1
    <3>. QED
      BY <2>2, <3>1, <3>2 DEF ValidKey
  <2>. QED
    BY <2>1, <2>2
<1>. QED
  BY <1>2, <1>4 DEF Map!ValidKey, Map!Has

LEMMA CardinalityMap ==
  ASSUME NEW S
  PROVE  Map!Cardinality(S) = Cardinality(S)
  BY DEF Map!Cardinality, Cardinality, Map!IsFiniteSet, IsFiniteSet

LEMMA ListKeysMap ==
  ASSUME KeysClose, TypeOK, NEW below, Shape(below), Order(below), ListKeys
  PROVE  Map!ListKeys
<1>1. child' = child /\ key' = key /\ data' = data
  BY DEF ListKeys, nodes
<1>2. Contents' = Contents
  BY <1>1, LinkedSame, ContentsSame
<1>3. DOMAIN Contents = {key[n] : n \in Linked}
  BY DEF Contents
<1>4. PICK order, res, S : /\ order = InOrder[child[Root]["right"]] /\ res = result'
                           /\ S = DOMAIN Contents
  OBVIOUS
<1>5. /\ order \in Seq(Nodes) /\ ToSet(order) = Linked /\ Ascending(key, order)
      /\ Len(order) \in Nat /\ DOMAIN order = 1 .. Len(order)
      /\ Len(order) = Cardinality(Linked)
  BY <1>4, OrderFacts
<1>6. res = [i \in 1 .. Len(order) |-> key[order[i]]]
  BY <1>4, <1>5 DEF ListKeys
<1>7. Cardinality(S) = Len(order)
  <2>1. key \in [Nodes -> Keys] /\ Linked \subseteq Nodes
    BY LinkedBelow DEF TypeOK
  <2>2. PICK h : h = [n \in Linked |-> key[n]]
    OBVIOUS
  <2>3. h \in [Linked -> S]
    BY <1>3, <1>4, <2>2
  <2>4. \A n, m \in Linked : h[n] = h[m] => n = m
    BY <2>2, KeyFacts DEF TellsApart
  <2>5. \A x \in S : \E n \in Linked : h[n] = x
    BY <1>3, <1>4, <2>2
  <2>6. h \in Bijection(Linked, S)
    BY <2>3, <2>4, <2>5 DEF Bijection, Injection, Surjection, IsInjective
  <2>7. IsFiniteSet(Linked)
    BY LinkedBelow
  <2>8. Cardinality(S) = Cardinality(Linked)
    BY <2>6, <2>7, FS_Bijection DEF ExistsBijection
  <2>. QED
    BY <1>5, <2>8
<1>8. res \in [1 .. Cardinality(S) -> S]
  <2>1. \A i \in 1 .. Len(order) : order[i] \in Linked
    BY <1>5 DEF ToSet
  <2>2. \A i \in 1 .. Len(order) : key[order[i]] \in S
    BY <1>3, <1>4, <2>1
  <2>. QED
    BY <1>6, <1>7, <2>2
<1>9. \A i, j \in DOMAIN res : i < j => res[i] < res[j]
  BY <1>5, <1>6 DEF Ascending
<1>10. res \in Map!Listings(S)
  BY <1>8, <1>9, CardinalityMap DEF Map!Listings
<1>11. Map!Listings(S) = Map!Listings(DOMAIN Contents)
  BY <1>4 DEF Map!Listings
<1>. QED
  BY <1>2, <1>4, <1>10, <1>11 DEF Map!ListKeys

LEMMA IndexExistingMap ==
  ASSUME KeysClose, TypeOK, NEW below, Shape(below), Order(below), IndexExisting
  PROVE  \/ op.name = "index" /\ Map!Index(op.key)
         \/ op.name = "set" /\ Map!Set(op.key, op.item)
<1>1. /\ child' = child /\ key' = key /\ data' = [data EXCEPT ![At] = NewItem(@)]
      /\ result' = <<data'[At]>> /\ At # Nil /\ Reached /\ op.name \in {"index", "set"}
  BY DEF IndexExisting
<1>2. Linked' = Linked
  BY <1>1, LinkedSame
<1>3. PICK S, k, d, d2, a, C, C2 :
        /\ S = Linked /\ k = key /\ d = data /\ d2 = data' /\ a = At
        /\ C = Contents /\ C2 = Contents'
  OBVIOUS
<1>4. C = ContentsOf(S, k, d) /\ C2 = ContentsOf(S, k, d2)
  BY <1>1, <1>2, <1>3, ContentsNow DEF ContentsOf
<1>5. /\ TellsApart(k, S)
      /\ a \in S /\ k[a] = op.key /\ S \subseteq Nodes
  BY <1>1, <1>3, KeyFacts
<1>6. /\ DOMAIN C = {k[n] : n \in S} /\ \A n \in S : C[k[n]] = d[n]
  <2>1. IsContents(C, S, k, d)
    BY <1>4, <1>5, ContentsFacts
  <2>. QED
    BY <2>1 DEF IsContents
<1>7. /\ DOMAIN C2 = {k[n] : n \in S} /\ \A n \in S : C2[k[n]] = d2[n]
  <2>1. IsContents(C2, S, k, d2)
    BY <1>4, <1>5, ContentsFacts
  <2>. QED
    BY <2>1 DEF IsContents
<1>8. d \in [Nodes -> Items] /\ d2 = [d EXCEPT ![a] = NewItem(d[a])]
  BY <1>1, <1>3 DEF TypeOK
<1>9. op.key \in DOMAIN C
  BY <1>5, <1>6
<1>10. C2[op.key] = d2[a] /\ C[op.key] = d[a]
  BY <1>5, <1>6, <1>7
<1>11. CASE op.name = "index"
  <2>1. NewItem(d[a]) = d[a]
    BY <1>11 DEF NewItem
  <2>2. d2 = d
    BY <1>8, <2>1
  <2>3. C2 = C
    BY <1>4, <2>2
  <2>4. Contents' = Contents /\ result' = <<Contents'[op.key]>> /\ op.key \in DOMAIN Contents
    BY <1>1, <1>3, <1>9, <1>10, <2>3
  <2>. QED
    BY <1>11, <2>4 DEF Map!Index, Map!Has
<1>12. CASE op.name = "set"
  <2>1. d2 = [d EXCEPT ![a] = op.item] /\ d2[a] = op.item
    BY <1>5, <1>8, <1>12 DEF NewItem
  <2>2. PICK f : f = [j \in DOMAIN C \cup {op.key} |-> IF j = op.key THEN op.item ELSE C[j]]
    OBVIOUS
  <2>3. /\ f = [x \in DOMAIN f |-> f[x]] /\ DOMAIN f = {k[n] : n \in S}
        /\ \A n \in S : f[k[n]] = d2[n]
    <3>1. DOMAIN f = {k[n] : n \in S}
      BY <1>6, <1>9, <2>2
    <3>2. f = [x \in DOMAIN f |-> f[x]]
      BY <2>2
    <3>3. ASSUME NEW n \in S PROVE f[k[n]] = d2[n]
      <4>1. CASE n = a
        BY <4>1, <1>5, <2>1, <2>2
      <4>2. CASE n # a
        <5>1. k[n] # op.key
          BY <4>2, <1>5 DEF TellsApart
        <5>2. f[k[n]] = C[k[n]]
          BY <5>1, <1>6, <2>2
        <5>3. d2[n] = d[n]
          BY <4>2, <1>5, <1>8, <2>1
        <5>. QED
          BY <5>2, <5>3, <1>6
      <4>. QED
        BY <4>1, <4>2
    <3>. QED
      BY <3>1, <3>2, <3>3
  <2>4. f = ContentsOf(S, k, d2)
    <3>1. IsContents(f, S, k, d2)
      BY <2>3 DEF IsContents
    <3>. QED
      BY <3>1, <1>5, ContentsAre
  <2>5. Contents' = Map!With(op.key, op.item)
    BY <1>3, <1>4, <2>2, <2>4 DEF Map!With
  <2>6. result' = <<op.item>>
    BY <1>1, <1>3, <2>1
  <2>. QED
    BY <1>12, <2>5, <2>6 DEF Map!Set
<1>. QED
  BY <1>1, <1>11, <1>12

LEMMA IndexMissingMap ==
  ASSUME KeysClose, TypeOK, NEW below, Shape(below), Order(below), IndexMissing
  PROVE  \/ op.name = "index" /\ Map!Index(op.key)
         \/ op.name = "set" /\ Map!Set(op.key, op.item)
<1>1. \E n \in Nodes : \E b2 :
        /\ n \notin below[child[Root]["right"]]
        /\ TypeOK' /\ Shape(b2)' /\ (KeysClose => Order(b2)')
        /\ b2[child'[Root]["right"]] = below[child[Root]["right"]] \cup {n}
        /\ key' = [key EXCEPT ![n] = op.key]
        /\ data' = [data EXCEPT ![n] = NewItem(Zero)]
  BY IndexMissingStep
<1>2. PICK n, b2 :
        /\ n \in Nodes /\ n \notin below[child[Root]["right"]] /\ TypeOK' /\ Shape(b2)'
        /\ b2[child'[Root]["right"]] = below[child[Root]["right"]] \cup {n}
        /\ key' = [key EXCEPT ![n] = op.key]
        /\ data' = [data EXCEPT ![n] = NewItem(Zero)]
  BY <1>1
<1>3. /\ op.name \in {"index", "set"} /\ At = Nil /\ Searching
      /\ result' = <<NewItem(Zero)>>
  BY DEF IndexMissing, Searching
<1>4. PICK S, k, k2, d, d2, C, C2, x, j :
        /\ S = Linked /\ k = key /\ k2 = key' /\ d = data /\ d2 = data'
        /\ C = Contents /\ C2 = Contents' /\ x = NewItem(Zero) /\ j = op.key
  OBVIOUS
<1>5. Linked' = S \cup {n} /\ n \notin S
  BY <1>2, <1>4, LinkedBelow, LinkedNext
<1>6. C = ContentsOf(S, k, d) /\ C2 = ContentsOf(S \cup {n}, k2, d2)
  BY <1>4, <1>5, ContentsNow DEF ContentsOf
<1>7. /\ TellsApart(k, S)
      /\ S \subseteq Nodes /\ \A p \in S : k[p] # j
  BY <1>3, <1>4, KeyFacts
<1>8. /\ k2[n] = j /\ d2[n] = x
      /\ \A p \in S : k2[p] = k[p] /\ d2[p] = d[p]
  BY <1>2, <1>4, <1>5, <1>7 DEF TypeOK
<1>9. DOMAIN C = {k[p] : p \in S} /\ \A p \in S : C[k[p]] = d[p]
  <2>1. IsContents(C, S, k, d)
    BY <1>6, <1>7, ContentsFacts
  <2>. QED
    BY <2>1 DEF IsContents
<1>10. PICK f : f = [y \in DOMAIN C \cup {j} |-> IF y = j THEN x ELSE C[y]]
  OBVIOUS
<1>11. f = ContentsOf(S \cup {n}, k2, d2)
  <2>1. TellsApart(k2, S \cup {n})
    BY <1>7, <1>8 DEF TellsApart
  <2>2. f = [y \in DOMAIN f |-> f[y]]
    BY <1>10
  <2>3. DOMAIN f = {k2[p] : p \in S \cup {n}}
    BY <1>8, <1>9, <1>10
  <2>4. ASSUME NEW p \in S \cup {n} PROVE f[k2[p]] = d2[p]
    <3>1. CASE p = n
      BY <3>1, <1>8, <1>10
    <3>2. CASE p \in S
      BY <3>2, <1>7, <1>8, <1>9, <1>10
    <3>. QED
      BY <3>1, <3>2
  <2>5. IsContents(f, S \cup {n}, k2, d2)
    BY <2>2, <2>3, <2>4 DEF IsContents
  <2>. QED
    BY <2>1, <2>5, ContentsAre
<1>12. Contents' = Map!With(op.key, NewItem(Zero))
  BY <1>4, <1>6, <1>10, <1>11 DEF Map!With
<1>13. op.key \notin DOMAIN Contents
  BY <1>4, <1>7, <1>9
<1>14. Contents'[op.key] = NewItem(Zero)
  <2>1. f[j] = x
    BY <1>10
  <2>. QED
    BY <2>1, <1>4, <1>6, <1>11
<1>15. CASE op.name = "index"
  <2>1. NewItem(Zero) = Zero
    BY <1>15 DEF NewItem
  <2>. QED
    BY <1>3, <1>12, <1>13, <1>14, <1>15, <2>1 DEF Map!Index, Map!Has
<1>16. CASE op.name = "set"
  <2>1. NewItem(Zero) = op.item
    BY <1>16 DEF NewItem
  <2>. QED
    BY <1>3, <1>12, <1>16, <2>1 DEF Map!Set
<1>. QED
  BY <1>3, <1>15, <1>16

LEMMA DeleteMap ==
  ASSUME KeysClose, TypeOK, NEW below, Shape(below), Order(below), Delete
  PROVE  Map!Delete(op.key)
<1>1. Searching /\ Reached /\ result' = <<>>
  BY DEF Delete, Searching
<1>2. PICK S, k, d, C, j : S = Linked /\ k = key /\ d = data /\ C = Contents /\ j = op.key
  OBVIOUS
<1>3. C = ContentsOf(S, k, d)
  BY <1>2, ContentsNow
<1>4. TellsApart(k, S) /\ S \subseteq Nodes
  BY <1>2, KeyFacts
<1>5. DOMAIN C = {k[p] : p \in S} /\ \A p \in S : C[k[p]] = d[p]
  <2>1. IsContents(C, S, k, d)
    BY <1>3, <1>4, ContentsFacts
  <2>. QED
    BY <2>1 DEF IsContents
<1>6. CASE At = Nil
  <2>1. \A p \in S : k[p] # j
    BY <1>1, <1>2, <1>6, KeyFacts
  <2>2. Contents' = Contents
    <3>1. child' = child /\ nodes' = nodes
      BY <1>6 DEF Delete
    <3>2. key' = key /\ data' = data
      BY <3>1 DEF nodes
    <3>. QED
      BY <3>1, <3>2, LinkedSame, ContentsSame
  <2>3. C = [y \in DOMAIN C \ {j} |-> C[y]]
    <3>1. DOMAIN C \ {j} = DOMAIN C
      BY <1>5, <2>1
    <3>2. C = [y \in DOMAIN C |-> C[y]]
      BY <1>3 DEF ContentsOf
    <3>. QED
      BY <3>1, <3>2
  <2>. QED
    BY <1>1, <1>2, <2>2, <2>3 DEF Map!Delete
<1>7. CASE At # Nil
  <2>1. PICK n, k2, d2, C2 : n = At /\ k2 = key' /\ d2 = data' /\ C2 = Contents'
    OBVIOUS
  <2>2. n \in S /\ k[n] = j
    BY <1>1, <1>2, <1>7, <2>1, KeyFacts
  <2>3. PICK b2 : /\ TypeOK' /\ Shape(b2)'
                  /\ b2[child'[Root]["right"]] = below[child[Root]["right"]] \ {At}
    BY <1>7, DeleteStep
  <2>4. Linked' = S \ {n}
    BY <1>2, <2>1, <2>3, LinkedBelow, LinkedNext
  <2>5. C2 = ContentsOf(S \ {n}, k2, d2)
    BY <2>1, <2>4, ContentsNow DEF ContentsOf
  <2>6. \A p \in S \ {n} : k2[p] = k[p] /\ d2[p] = d[p]
    <3>1. key' = [key EXCEPT ![At] = NoOp.key] /\ data' = [data EXCEPT ![At] = Zero]
      BY <1>7 DEF Delete
    <3>. QED
      BY <3>1, <1>2, <1>4, <2>1 DEF TypeOK
  <2>7. PICK f : f = [y \in DOMAIN C \ {j} |-> C[y]]
    OBVIOUS
  <2>8. f = ContentsOf(S \ {n}, k2, d2)
    <3>1. TellsApart(k2, S \ {n})
      BY <1>4, <2>6 DEF TellsApart
    <3>2. f = [y \in DOMAIN f |-> f[y]]
      BY <2>7
    <3>3. \A p \in S \ {n} : k[p] # j
      BY <1>4, <2>2 DEF TellsApart
    <3>4. DOMAIN f = {k2[p] : p \in S \ {n}}
      BY <1>5, <2>2, <2>6, <2>7, <3>3
    <3>5. ASSUME NEW p \in S \ {n} PROVE f[k2[p]] = d2[p]
      BY <1>5, <2>6, <2>7, <3>3
    <3>6. IsContents(f, S \ {n}, k2, d2)
      BY <3>2, <3>4, <3>5 DEF IsContents
    <3>. QED
      BY <3>1, <3>6, ContentsAre
  <2>9. Contents' = [y \in DOMAIN Contents \ {op.key} |-> Contents[y]]
    BY <1>2, <2>1, <2>5, <2>7, <2>8
  <2>. QED
    BY <1>1, <2>9 DEF Map!Delete
<1>. QED
  BY <1>6, <1>7

\* Every step of the tree is a step of the map, or none.
LEMMA NextMap ==
  ASSUME KeysClose, IInv, [Next]_vars
  PROVE  [Map!Next]_(Map!vars)
<1>1. PICK below : Shape(below) /\ Order(below)
  BY DEF IInv
<1>2. TypeOK
  BY DEF IInv
<1>3. op.key \in Keys /\ op.item \in Items
  BY <1>2 DEF TypeOK, Op
<1>4. ASSUME NEW k \in Keys, NEW x \in Items, Start("set", k, x) PROVE Map!Next
  BY <1>4, StartMap DEF Map!Next
<1>5. ASSUME NEW name \in {"index", "delete", "validkey"}, NEW k \in Keys, Start(name, k, Zero)
      PROVE  Map!Next
  BY <1>5, StartMap DEF Map!Next
<1>6. ASSUME Walk PROVE Contents' = Contents /\ result' = result
  BY <1>1, <1>2, <1>6, WalkMap
<1>7. ASSUME IndexExisting PROVE Map!Next
  BY <1>1, <1>2, <1>3, <1>7, IndexExistingMap DEF Map!Next
<1>8. ASSUME IndexMissing PROVE Map!Next
  BY <1>1, <1>2, <1>3, <1>8, IndexMissingMap DEF Map!Next
<1>9. ASSUME ValidKey PROVE Map!Next
  BY <1>1, <1>2, <1>3, <1>9, ValidKeyMap DEF Map!Next
<1>10. ASSUME Delete PROVE Map!Next
  BY <1>1, <1>2, <1>3, <1>10, DeleteMap DEF Map!Next
<1>11. ASSUME ListKeys PROVE Map!Next
  BY <1>1, <1>2, <1>11, ListKeysMap DEF Map!Next
<1>12. ASSUME UNCHANGED vars PROVE Contents' = Contents /\ result' = result
  <2>1. child' = child /\ key' = key /\ data' = data /\ result' = result
    BY <1>12 DEF vars, nodes
  <2>. QED
    BY <2>1, LinkedSame, ContentsSame
<1>. QED
  BY <1>4, <1>5, <1>6, <1>7, <1>8, <1>9, <1>10, <1>11, <1>12 DEF Next, Map!vars

\* If the differences of the keys can be expressed in their type, the tree, with all its
\* walking and rotating, is a finite function from keys to items: an index creates the
\* item there is none of, delete() removes the one key, validkey() tells if it is there,
\* and keys() lists all of the keys in ascending order.
THEOREM MapsImplement ==
  ASSUME KeysClose
  PROVE  Spec => MapSpec
<1>1. Init => Map!Init
  BY InitMap
<1>2. IInv /\ [Next]_vars => [Map!Next]_(Map!vars)
  BY NextMap
<1>. QED
  BY <1>1, <1>2, Invariant, PTL DEF Spec, MapSpec, Map!Spec

=============================================================================
