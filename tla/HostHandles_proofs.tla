------------------------- MODULE HostHandles_proofs -------------------------
(***************************************************************************)
(* Proofs about HostHandles for all sets of strings, boxes, blocks,        *)
(* variables and handles.  Counting is shown by its balance: how much the  *)
(* count of a chunk exceeds the number of those who refer to it, while a   *)
(* value is passed from one place to another.                              *)
(***************************************************************************)
EXTENDS HostHandles, FiniteSetTheorems, TLAPS

\* Replacing one member of a finite set changes its cardinality by what goes and
\* what comes.
LEMMA CountUpdate ==
  ASSUME NEW S, IsFiniteSet(S), NEW T, NEW u, NEW comes \in BOOLEAN,
         T = (S \ {u}) \cup (IF comes THEN {u} ELSE {})
  PROVE  /\ IsFiniteSet(T)
         /\ Cardinality(S) \in Nat /\ Cardinality(T) \in Nat
         /\ Cardinality(T) = Cardinality(S) - (IF u \in S THEN 1 ELSE 0)
                                            + (IF comes THEN 1 ELSE 0)
<1>1. /\ IsFiniteSet(S \ {u})
      /\ Cardinality(S \ {u}) = IF u \in S THEN Cardinality(S) - 1 ELSE Cardinality(S)
  BY FS_RemoveElement
<1>2. Cardinality(S) \in Nat /\ Cardinality(S \ {u}) \in Nat
  BY <1>1, FS_CardinalityType
<1>3. CASE comes
  <2>1. T = (S \ {u}) \cup {u}
    BY <1>3
  <2>2. IsFiniteSet(T) /\ Cardinality(T) = Cardinality(S \ {u}) + 1
    BY <1>1, <2>1, FS_AddElement
  <2>. QED
    BY <1>1, <1>2, <1>3, <2>2
<1>4. CASE ~comes
  <2>1. T = S \ {u}
    BY <1>4
  <2>. QED
    BY <1>1, <1>2, <1>4, <2>1
<1>. QED
  BY <1>3, <1>4

(* References held in the places of a finite set S: f[x] is what x holds.  *)

\* How often p is o
One(o, p) == IF o = p THEN 1 ELSE 0

Holding(S, f, o) == {x \in S : f[x] = o}

\* The number of places that hold o is natural; it is positive if one is known.
LEMMA HoldersCounted ==
  ASSUME NEW S, IsFiniteSet(S), NEW f, NEW o
  PROVE  /\ IsFiniteSet(Holding(S, f, o))
         /\ Cardinality(Holding(S, f, o)) \in Nat
         /\ \A x \in S : f[x] = o => Cardinality(Holding(S, f, o)) > 0
         /\ (\A x \in S : f[x] # o) => Cardinality(Holding(S, f, o)) = 0
<1>1. IsFiniteSet(Holding(S, f, o)) /\ Cardinality(Holding(S, f, o)) \in Nat
  BY FS_Subset, FS_CardinalityType DEF Holding
<1>2. Cardinality(Holding(S, f, o)) = 0 <=> Holding(S, f, o) = {}
  BY <1>1, FS_EmptySet
<1>3. (\E x \in S : f[x] = o) <=> Holding(S, f, o) # {}
  BY DEF Holding
<1>. QED
  BY <1>1, <1>2, <1>3

\* When one place holds something else, the numbers of holders change by one each.
LEMMA HoldingUpdate ==
  ASSUME NEW S, IsFiniteSet(S), NEW x \in S, NEW f, NEW g,
         \A y \in S \ {x} : g[y] = f[y],
         NEW o
  PROVE  Cardinality(Holding(S, g, o)) =
           Cardinality(Holding(S, f, o)) - One(o, f[x]) + One(o, g[x])
<1>. DEFINE H == Holding(S, f, o)
            HN == Holding(S, g, o)
<1>1. IsFiniteSet(H)
  BY HoldersCounted
<1>2. (g[x] = o) \in BOOLEAN
  OBVIOUS
<1>3. HN = (H \ {x}) \cup (IF g[x] = o THEN {x} ELSE {})
  BY DEF Holding
<1>4. x \in H <=> f[x] = o
  BY DEF Holding
<1>. HIDE DEF H, HN
<1>5. Cardinality(HN) = Cardinality(H) - (IF x \in H THEN 1 ELSE 0)
                                       + (IF g[x] = o THEN 1 ELSE 0)
  BY <1>1, <1>2, <1>3, CountUpdate
<1>6. One(o, f[x]) = (IF x \in H THEN 1 ELSE 0) /\ One(o, g[x]) = (IF g[x] = o THEN 1 ELSE 0)
  BY <1>4 DEF One
<1>. QED
  BY <1>5, <1>6 DEF H, HN

-----------------------------------------------------------------------------
(* The balance of a chunk.                                                 *)

\* The strings that the boxes in use lead to
InUse(n, bx) == [a \in Boxes |-> IF n[a] > 0 THEN bx[a] ELSE Null]

\* What is counted for the handles
Retained == [h \in Handles |-> Counted(handle[h])]

\* Counts n, contents of boxes bx, variables cl, and what the handles retain, k
Excess(n, bx, cl, k, o) ==
  n[o] - Cardinality(Holding(Cells, cl, o)) - Cardinality(Holding(Boxes, InUse(n, bx), o))
       - Cardinality(Holding(Handles, k, o))

\* Holders can be counted.
LEMMA PlacesFinite == IsFiniteSet(Cells) /\ IsFiniteSet(Boxes) /\ IsFiniteSet(Handles)
BY HostHandlesAssumption, FS_Union DEF Cells

\* The numbers of holders are natural.
LEMMA ExcessIsInt ==
  ASSUME NEW n \in [Chunks -> Nat], NEW bx, NEW cl, NEW k, NEW o \in Chunks
  PROVE  /\ Cardinality(Holding(Cells, cl, o)) \in Nat
         /\ Cardinality(Holding(Boxes, InUse(n, bx), o)) \in Nat
         /\ Cardinality(Holding(Handles, k, o)) \in Nat
         /\ Excess(n, bx, cl, k, o) \in Int
<1>1. /\ Cardinality(Holding(Cells, cl, o)) \in Nat
      /\ Cardinality(Holding(Boxes, InUse(n, bx), o)) \in Nat
      /\ Cardinality(Holding(Handles, k, o)) \in Nat
  BY PlacesFinite, HoldersCounted
<1>. QED
  BY <1>1 DEF Excess

Exact(n, bx, cl, k) ==
  \A o \in Chunks :
    n[o] = Cardinality({c \in Cells : cl[c] = o})
           + Cardinality({a \in Boxes : n[a] > 0 /\ bx[a] = o})
           + Cardinality({h \in Handles : k[h] = o})

Balanced(n, bx, cl, k) == \A o \in Chunks : Excess(n, bx, cl, k, o) = 0

\* Counts are the numbers of those who refer to the chunk when everything is in balance.
LEMMA InBalance ==
  ASSUME NEW n \in [Chunks -> Nat], NEW bx, NEW cl, NEW k
  PROVE  Exact(n, bx, cl, k) <=> Balanced(n, bx, cl, k)
<1>1. ASSUME NEW o \in Chunks
      PROVE  (n[o] = Cardinality({c \in Cells : cl[c] = o})
                     + Cardinality({a \in Boxes : n[a] > 0 /\ bx[a] = o})
                     + Cardinality({h \in Handles : k[h] = o}))
             <=> Excess(n, bx, cl, k, o) = 0
  <2>1. /\ Holding(Cells, cl, o) = {c \in Cells : cl[c] = o}
        /\ Holding(Boxes, InUse(n, bx), o) = {a \in Boxes : n[a] > 0 /\ bx[a] = o}
        /\ Holding(Handles, k, o) = {h \in Handles : k[h] = o}
    <3>1. o # Null
      BY HostHandlesAssumption DEF Chunks
    <3>. QED
      BY <3>1 DEF Holding, InUse
  <2>2. /\ Cardinality(Holding(Cells, cl, o)) \in Nat
        /\ Cardinality(Holding(Handles, k, o)) \in Nat
        /\ Cardinality(Holding(Boxes, InUse(n, bx), o)) \in Nat
        /\ n[o] \in Nat
    BY ExcessIsInt
  <2>. QED
    BY <2>1, <2>2 DEF Excess
<1>. QED
  BY <1>1 DEF Exact, Balanced

\* What changes the balance: the count, and what the boxes in use lead to.
LEMMA ExcessMoves ==
  ASSUME NEW n \in [Chunks -> Nat], NEW m \in [Chunks -> Nat], NEW bx, NEW by, NEW cl, NEW k,
         NEW o \in Chunks, NEW d \in Int, NEW e \in Int, m[o] = n[o] + d,
         Cardinality(Holding(Boxes, InUse(m, by), o)) =
           Cardinality(Holding(Boxes, InUse(n, bx), o)) + e
  PROVE  Excess(m, by, cl, k, o) = Excess(n, bx, cl, k, o) + d - e
<1>1. /\ Cardinality(Holding(Cells, cl, o)) \in Nat
      /\ Cardinality(Holding(Handles, k, o)) \in Nat
      /\ Cardinality(Holding(Boxes, InUse(n, bx), o)) \in Nat
      /\ n[o] \in Nat
  BY ExcessIsInt
<1>. QED
  BY <1>1 DEF Excess

\* Counting a value that is there.
LEMMA PlusCounts ==
  ASSUME NEW n \in [Chunks -> Nat], NEW p, p \in Chunks => n[p] > 0
  PROVE  /\ Plus(n, p) \in [Chunks -> Nat]
         /\ \A o \in Chunks : Plus(n, p)[o] = n[o] + One(o, p)
BY DEF Plus, One

\* The balance of a chunk when its count goes up or down by one.
LEMMA PlusExcess ==
  ASSUME NEW n \in [Chunks -> Nat], NEW bx, NEW cl, NEW k, NEW p, p \in Chunks => n[p] > 0,
         NEW o \in Chunks
  PROVE  Excess(Plus(n, p), bx, cl, k, o) = Excess(n, bx, cl, k, o) + One(o, p)
<1>. DEFINE m == Plus(n, p)
<1>1. m \in [Chunks -> Nat] /\ \A q \in Chunks : m[q] = n[q] + One(q, p)
  BY PlusCounts
<1>. HIDE DEF m
<1>2. InUse(m, bx) = InUse(n, bx)
  <2>1. \A a \in Boxes : m[a] > 0 <=> n[a] > 0
    BY <1>1 DEF One, Chunks
  <2>. QED
    BY <2>1 DEF InUse
<1>3. One(o, p) \in Int
  BY DEF One
<1>4. Cardinality(Holding(Boxes, InUse(m, bx), o)) =
        Cardinality(Holding(Boxes, InUse(n, bx), o)) + 0
  BY <1>2, ExcessIsInt
<1>5. Excess(m, bx, cl, k, o) = Excess(n, bx, cl, k, o) + One(o, p) - 0
  <2>1. 0 \in Int /\ m[o] = n[o] + One(o, p)
    BY <1>1
  <2>. QED
    BY <1>1, <1>3, <1>4, <2>1, ExcessMoves
<1>. QED
  BY <1>3, <1>5, ExcessIsInt DEF m

\* A new chunk.
LEMMA FreshExcess ==
  ASSUME NEW n \in [Chunks -> Nat], NEW bx, NEW cl, NEW k, NEW p \in Chunks, n[p] = 0,
         NEW m \in [Chunks -> Nat], \A o \in Chunks : m[o] = n[o] + One(o, p),
         NEW v, p \notin Boxes => v = Null, NEW by,
         \A y \in Boxes : by[y] = IF y = p THEN v ELSE bx[y]
  PROVE  \A o \in Chunks :
           Excess(m, by, cl, k, o) =
             Excess(n, bx, cl, k, o) + One(o, p) - One(o, v)
<1>1. ASSUME NEW o \in Chunks
      PROVE  Cardinality(Holding(Boxes, InUse(m, by), o)) =
               Cardinality(Holding(Boxes, InUse(n, bx), o)) + One(o, v)
  <2>1. CASE p \in Boxes
    <3>1. \A y \in Boxes \ {p} : InUse(m, by)[y] = InUse(n, bx)[y]
      BY <2>1 DEF InUse, Chunks, One
    <3>2. InUse(m, by)[p] = v /\ InUse(n, bx)[p] = Null
      <4>1. m[p] = 1
        BY DEF One
      <4>. QED
        BY <2>1, <4>1 DEF InUse
    <3>3. o # Null
      BY HostHandlesAssumption DEF Chunks
    <3>4. Cardinality(Holding(Boxes, InUse(m, by), o)) =
            Cardinality(Holding(Boxes, InUse(n, bx), o)) - One(o, InUse(n, bx)[p])
              + One(o, InUse(m, by)[p])
      <4>. DEFINE F == InUse(n, bx)
                  G == InUse(m, by)
      <4>1. \A y \in Boxes \ {p} : G[y] = F[y]
        BY <3>1
      <4>. HIDE DEF F, G
      <4>2. Cardinality(Holding(Boxes, G, o)) =
              Cardinality(Holding(Boxes, F, o)) - One(o, F[p]) + One(o, G[p])
        BY <2>1, <4>1, PlacesFinite, HoldingUpdate
      <4>. QED
        BY <4>2 DEF F, G
    <3>5. One(o, InUse(n, bx)[p]) = 0 /\ One(o, InUse(m, by)[p]) = One(o, v)
      BY <2>1, <3>2, <3>3 DEF One
    <3>6. Cardinality(Holding(Boxes, InUse(n, bx), o)) \in Nat
      BY ExcessIsInt
    <3>7. One(o, v) \in Nat
      BY DEF One
    <3>. QED
      BY <3>4, <3>5, <3>6, <3>7
  <2>2. CASE p \notin Boxes
    <3>1. InUse(m, by) = InUse(n, bx)
      BY <2>2 DEF InUse, Chunks, One
    <3>2. One(o, v) = 0
      BY <2>2, HostHandlesAssumption DEF One, Chunks
    <3>3. Cardinality(Holding(Boxes, InUse(n, bx), o)) \in Nat
      BY ExcessIsInt
    <3>. QED
      BY <3>1, <3>2, <3>3
  <2>. QED
    BY <2>1, <2>2
<1>2. ASSUME NEW o \in Chunks
      PROVE  Excess(m, by, cl, k, o) =
               Excess(n, bx, cl, k, o) + One(o, p) - One(o, v)
  <2>1. One(o, p) \in Int /\ One(o, v) \in Int
    BY DEF One
  <2>2. m[o] = n[o] + One(o, p)
    OBVIOUS
  <2>. QED
    BY <1>1, <2>1, <2>2, ExcessMoves
<1>. QED
  BY <1>2


\* Giving up a value that is there: with the last reference to a box goes the one in it.
LEMMA MinusExcess ==
  ASSUME NEW n \in [Chunks -> Nat], NEW bx \in [Boxes -> Strings \cup {Null}],
         NEW p, p \in Chunks => n[p] > 0,
         p \in Boxes => bx[p] = box[p] /\ (box[p] \in Strings => n[box[p]] > 0)
  PROVE  /\ Minus(n, p) \in [Chunks -> Nat]
         /\ \A cl, k : \A o \in Chunks :
              Excess(Minus(n, p), bx, cl, k, o) = Excess(n, bx, cl, k, o) - One(o, p)
<1>. DEFINE m == Minus(n, p)
            q == IF p \in Boxes /\ n[p] = 1 THEN box[p] ELSE Null
<1>1. /\ q \in Chunks => q \in Strings /\ n[q] > 0 /\ q # p /\ p \in Boxes /\ n[p] = 1
      /\ p \in Boxes /\ n[p] = 1 => q = bx[p]
      /\ ~(p \in Boxes /\ n[p] = 1) => q = Null
  BY HostHandlesAssumption DEF Chunks
<1>2. m \in [Chunks -> Nat] /\ \A o \in Chunks : m[o] = n[o] - One(o, q) - One(o, p)
  <2>1. CASE p \in Boxes /\ n[p] = 1
    <3>1. p \in Chunks /\ q # p /\ (q \in Chunks => n[q] > 0)
      BY <1>1, <2>1, HostHandlesAssumption DEF Chunks
    <3>2. m = OneLess(OneLess(n, q), p)
      BY <2>1 DEF Minus
    <3>. HIDE DEF m, q
    <3>3. /\ OneLess(n, q) \in [Chunks -> Nat]
          /\ \A o \in Chunks : OneLess(n, q)[o] = n[o] - One(o, q)
      BY <3>1 DEF OneLess, One
    <3>. QED
      BY <2>1, <3>1, <3>2, <3>3 DEF OneLess, One
  <2>2. CASE ~(p \in Boxes /\ n[p] = 1)
    <3>1. m = OneLess(n, p) /\ \A o \in Chunks : One(o, q) = 0
      BY <2>2, HostHandlesAssumption DEF Minus, One, Chunks
    <3>. HIDE DEF m, q
    <3>2. m \in [Chunks -> Nat] /\ \A o \in Chunks : m[o] = n[o] - One(o, p)
      BY <3>1 DEF OneLess, One
    <3>. QED
      BY <3>1, <3>2
  <2>. QED
    BY <2>1, <2>2
<1>. HIDE DEF m, q
<1>3. ASSUME NEW o \in Chunks
      PROVE  Cardinality(Holding(Boxes, InUse(m, bx), o)) =
               Cardinality(Holding(Boxes, InUse(n, bx), o)) - One(o, q)
  <2>0. o # Null
    BY HostHandlesAssumption DEF Chunks
  <2>1. CASE p \in Boxes /\ n[p] = 1
    <3>1. \A y \in Boxes : y # q
      BY <1>1, HostHandlesAssumption DEF Chunks
    <3>2. m[p] = 0
      BY <1>2, <2>1, <3>1 DEF One, Chunks
    <3>3. \A y \in Boxes \ {p} : InUse(m, bx)[y] = InUse(n, bx)[y]
      BY <1>2, <3>1 DEF InUse, Chunks, One
    <3>4. InUse(m, bx)[p] = Null /\ InUse(n, bx)[p] = q
      BY <1>1, <2>1, <3>2 DEF InUse
    <3>. DEFINE F == InUse(n, bx)
                G == InUse(m, bx)
    <3>. HIDE DEF F, G
    <3>5. /\ Cardinality(Holding(Boxes, G, o)) =
               Cardinality(Holding(Boxes, F, o)) - One(o, F[p]) + One(o, G[p])
          /\ Cardinality(Holding(Boxes, F, o)) \in Nat
      <4>1. \A y \in Boxes \ {p} : G[y] = F[y]
        BY <3>3 DEF F, G
      <4>. QED
        BY <2>1, <4>1, PlacesFinite, HoldingUpdate, HoldersCounted
    <3>6. One(o, F[p]) = One(o, q) /\ One(o, G[p]) = 0 /\ One(o, q) \in Nat
      BY <2>0, <3>4 DEF One, F, G
    <3>. QED
      BY <3>5, <3>6 DEF F, G
  <2>2. CASE ~(p \in Boxes /\ n[p] = 1)
    <3>1. q = Null /\ One(o, q) = 0
      BY <1>1, <2>0, <2>2 DEF One
    <3>2. \A y \in Boxes : m[y] > 0 <=> n[y] > 0
      <4>1. ASSUME NEW y \in Boxes PROVE m[y] = n[y] - One(y, p) /\ n[y] \in Nat
        <5>1. y \in Chunks /\ One(y, q) = 0
          BY <3>1, HostHandlesAssumption DEF One, Chunks
        <5>2. One(y, p) \in Nat
          BY DEF One
        <5>. QED
          BY <1>2, <5>1, <5>2
      <4>2. p \in Boxes => n[p] > 1
        BY <2>2 DEF Chunks
      <4>. QED
        BY <4>1, <4>2 DEF One
    <3>3. InUse(m, bx) = InUse(n, bx)
      BY <3>2 DEF InUse
    <3>4. Cardinality(Holding(Boxes, InUse(n, bx), o)) \in Nat
      BY PlacesFinite, HoldersCounted
    <3>. QED
      BY <3>1, <3>3, <3>4
  <2>. QED
    BY <2>1, <2>2
<1>4. ASSUME NEW cl, NEW k, NEW o \in Chunks
      PROVE  Excess(m, bx, cl, k, o) = Excess(n, bx, cl, k, o) - One(o, p)
  <2>1. One(o, p) \in Int /\ One(o, q) \in Int
    BY DEF One
  <2>. DEFINE d == 0 - One(o, q) - One(o, p)
              e == 0 - One(o, q)
  <2>2. d \in Int /\ e \in Int
    BY <2>1
  <2>3. m[o] = n[o] + d
    BY <1>2, <2>1
  <2>4. Cardinality(Holding(Boxes, InUse(m, bx), o)) =
          Cardinality(Holding(Boxes, InUse(n, bx), o)) + e
    BY <1>3, <2>1, ExcessIsInt
  <2>. HIDE DEF d, e
  <2>5. Excess(m, bx, cl, k, o) = Excess(n, bx, cl, k, o) + d - e
    BY <1>2, <2>2, <2>3, <2>4, ExcessMoves
  <2>. QED
    BY <2>1, <2>5, ExcessIsInt DEF d, e
<1>. QED
  BY <1>2, <1>4 DEF m

\* A variable holds another value.
LEMMA CellExcess ==
  ASSUME NEW n \in [Chunks -> Nat], NEW bx, NEW k,
         NEW cl, NEW d, NEW c \in Cells, \A y \in Cells \ {c} : d[y] = cl[y],
         NEW o \in Chunks
  PROVE  Excess(n, bx, d, k, o) = Excess(n, bx, cl, k, o) + One(o, cl[c]) - One(o, d[c])
<1>2. Cardinality(Holding(Cells, d, o)) =
        Cardinality(Holding(Cells, cl, o)) - One(o, cl[c]) + One(o, d[c])
  BY PlacesFinite, HoldingUpdate
<1>3. /\ Cardinality(Holding(Cells, cl, o)) \in Nat
      /\ Cardinality(Holding(Handles, k, o)) \in Nat
      /\ Cardinality(Holding(Boxes, InUse(n, bx), o)) \in Nat
      /\ n[o] \in Nat
  BY ExcessIsInt
<1>. QED
  BY <1>2, <1>3 DEF Excess, One

\* A handle retains another value.
LEMMA HandleExcess ==
  ASSUME NEW n \in [Chunks -> Nat], NEW bx, NEW cl, NEW k, NEW j,
         NEW h \in Handles, \A g \in Handles \ {h} : j[g] = k[g],
         NEW o \in Chunks
  PROVE  Excess(n, bx, cl, j, o) = Excess(n, bx, cl, k, o) + One(o, k[h]) - One(o, j[h])
<1>1. Cardinality(Holding(Handles, j, o)) =
        Cardinality(Holding(Handles, k, o)) - One(o, k[h]) + One(o, j[h])
  BY PlacesFinite, HoldingUpdate
<1>2. /\ Cardinality(Holding(Cells, cl, o)) \in Nat
      /\ Cardinality(Holding(Handles, k, o)) \in Nat
      /\ Cardinality(Holding(Boxes, InUse(n, bx), o)) \in Nat
      /\ n[o] \in Nat
  BY ExcessIsInt
<1>. QED
  BY <1>1, <1>2 DEF Excess, One

-----------------------------------------------------------------------------
(* The inductive invariant: what is where, and that the counts are exact.  *)

\* A variable holds a value of its type.  Only if the host assigns anys that it has
\* retained do they hold storage of handles.
CellsShaped ==
  \A c \in Cells :
    cell[c] \in IF c \in AnyCells
                THEN Boxes \cup {Null} \cup (IF RetainedAnyAssigned THEN Blocks ELSE {})
                ELSE Strings \cup {Null}

\* What a handle x is, with the contents bl of the blocks
Shaped(x, bl) ==
  \/ x.kind = "empty" /\ x.type = Null /\ x.value = Null /\ x.storage = Null
  \/ /\ x.kind = "value" /\ x.type = "str"
     /\ x.value \in Strings \cup {Null} /\ x.storage = Null
  \/ /\ x.kind = "value" /\ x.type = "struct"
     /\ x.value = Null /\ x.storage \in Blocks /\ bl[x.storage] \in Strings \cup {Null}
  \/ /\ x.kind = "value" /\ x.type = "any" /\ x.storage \in Blocks
     /\ \/ x.value = Null /\ bl[x.storage] = "no value"
        \/ x.value = x.storage /\ bl[x.storage] \in Strings \cup {Null}
  \/ /\ x.kind = "data" /\ x.type = Null
     /\ x.value \in Boxes /\ x.storage = Null

HandlesShaped == \A h \in Handles : Shaped(handle[h], block)

IInv == HandlesSound /\ CellsShaped /\ HandlesShaped

Alive(p) == p \in Chunks => count[p] > 0

\* Every chunk is in balance between two steps.
LEMMA AllBalanced ==
  ASSUME IInv
  PROVE  /\ count \in [Chunks -> Nat] /\ box \in [Boxes -> Strings \cup {Null}]
         /\ \A o \in Chunks : Excess(count, box, cell, Retained, o) = 0
<1>1. count \in [Chunks -> Nat] /\ box \in [Boxes -> Strings \cup {Null}]
  BY DEF IInv, HandlesSound, TypeOK
<1>2. Exact(count, box, cell, Retained)
  BY DEF IInv, HandlesSound, CountsExact, Retained, Exact
<1>3. Balanced(count, box, cell, Retained)
  BY <1>1, <1>2, InBalance
<1>. QED
  BY <1>1, <1>3 DEF Balanced

\* What is held by somebody is alive.
LEMMA HeldAlive ==
  ASSUME IInv
  PROVE  /\ \A c \in Cells : Alive(cell[c])
         /\ \A a \in Boxes : count[a] > 0 => Alive(box[a])
         /\ \A h \in Handles : Alive(Counted(handle[h]))
<1>. USE DEF IInv, HandlesSound, Alive
<1>1. ASSUME NEW o \in Chunks
      PROVE  /\ count[o] = Cardinality(Holding(Cells, cell, o))
                           + Cardinality(Holding(Boxes, InUse(count, box), o))
                           + Cardinality(Holding(Handles, Retained, o))
             /\ Cardinality(Holding(Cells, cell, o)) \in Nat
             /\ Cardinality(Holding(Handles, Retained, o)) \in Nat
             /\ Cardinality(Holding(Boxes, InUse(count, box), o)) \in Nat
  <2>1. /\ Holding(Cells, cell, o) = {c \in Cells : cell[c] = o}
        /\ Holding(Boxes, InUse(count, box), o) = {a \in Boxes : count[a] > 0 /\ box[a] = o}
        /\ Holding(Handles, Retained, o) = {h \in Handles : Counted(handle[h]) = o}
    <3>1. o # Null
      BY HostHandlesAssumption DEF Chunks
    <3>. QED
      BY <3>1 DEF Holding, InUse, Retained
  <2>. QED
    BY <2>1, ExcessIsInt DEF CountsExact, TypeOK
<1>2. ASSUME NEW c \in Cells PROVE Alive(cell[c])
  <2>1. ASSUME cell[c] \in Chunks PROVE Cardinality(Holding(Cells, cell, cell[c])) > 0
    BY PlacesFinite, HoldersCounted
  <2>. QED
    BY <1>1, <2>1
<1>3. ASSUME NEW a \in Boxes, count[a] > 0 PROVE Alive(box[a])
  <2>1. InUse(count, box)[a] = box[a]
    BY <1>3 DEF InUse
  <2>2. Cardinality(Holding(Boxes, InUse(count, box), box[a])) > 0
    BY <2>1, PlacesFinite, HoldersCounted
  <2>. QED
    BY <1>1, <2>2
<1>4. ASSUME NEW h \in Handles PROVE Alive(Counted(handle[h]))
  <2>1. Retained[h] = Counted(handle[h])
    BY DEF Retained
  <2>2. Cardinality(Holding(Handles, Retained, Counted(handle[h]))) > 0
    BY <2>1, PlacesFinite, HoldersCounted
  <2>. QED
    BY <1>1, <2>2
<1>. QED
  BY <1>2, <1>3, <1>4

\* What is counted for a value of a certain shape.
LEMMA CountedShape ==
  ASSUME HandlesShaped, NEW h \in Handles
  PROVE  Counted(handle[h]) \in Strings \cup Boxes \cup {Null, "no value"}
<1>1. Shaped(handle[h], block)
  BY DEF HandlesShaped
<1>. QED
  BY <1>1, HostHandlesAssumption DEF Shaped, Counted

\* A string in a box or block that can be read is alive.
LEMMA InsideAlive ==
  ASSUME IInv, NEW a, Readable(a)
  PROVE  Inside(a) \in Strings \cup {Null} /\ Alive(Inside(a))
<1>0. /\ box \in [Boxes -> Strings \cup {Null}]
      /\ {b \in Blocks : block[b] # "free"} = {handle[h].storage : h \in Handles} \ {Null}
      /\ HandlesShaped
  BY DEF IInv, HandlesSound, TypeOK
<1>1. CASE a \in Boxes
  <2>1. count[a] > 0 /\ Inside(a) = box[a]
    BY <1>1, HostHandlesAssumption DEF Readable, Inside
  <2>. QED
    BY <1>0, <1>1, <2>1, HeldAlive
<1>2. CASE a \notin Boxes
  <2>1. a \in Blocks /\ block[a] \in Strings \cup {Null} /\ Inside(a) = block[a]
    BY <1>2 DEF Readable, Inside
  <2>2. block[a] # "free"
    BY <2>1, HostHandlesAssumption
  <2>3. PICK h \in Handles : handle[h].storage = a
    <3>1. a \in {handle[h].storage : h \in Handles}
      BY <1>0, <2>1, <2>2
    <3>. QED
      BY <3>1
  <2>4. Counted(handle[h]) = block[a]
    <3>1. Shaped(handle[h], block) /\ a # Null
      BY <1>0, <2>1, HostHandlesAssumption DEF HandlesShaped
    <3>. QED
      BY <2>1, <2>3, <3>1 DEF Shaped, Counted
  <2>. QED
    BY <2>1, <2>4, HeldAlive
<1>. QED
  BY <1>1, <1>2

\* What the program and the host may pass on is of the type, and it is alive.
LEMMA GivenAlive ==
  ASSUME IInv, NEW type \in {"str", "struct", "any"}, NEW v \in OfHost(type)
  PROVE  /\ v \in IF type = "any" THEN Boxes \cup Blocks \cup {Null} ELSE Strings \cup {Null}
         /\ Alive(v)
         /\ type = "any" /\ v \in OfProgram(type) => (v \in Blocks => RetainedAnyAssigned)
<1>. USE DEF IInv, HandlesSound
<1>1. Alive(Null)
  BY HostHandlesAssumption DEF Alive, Chunks
<1>2. ASSUME NEW c \in Cells
      PROVE  /\ cell[c] \in IF TypeOf(c) = "any" THEN Boxes \cup Blocks \cup {Null}
                            ELSE Strings \cup {Null}
             /\ Alive(cell[c])
             /\ cell[c] \in Blocks => RetainedAnyAssigned
  <2>1. TypeOf(c) = "any" <=> c \in AnyCells
    BY HostHandlesAssumption DEF TypeOf, Cells
  <2>2. cell[c] \in Blocks => cell[c] \notin Strings \cup {Null} \cup Boxes
    BY HostHandlesAssumption
  <2>. QED
    BY <2>1, <2>2, HeldAlive DEF CellsShaped
<1>3. ASSUME NEW c \in StrCells PROVE cell[c] \in Strings \cup {Null} /\ Alive(cell[c])
  <2>1. c \in Cells /\ TypeOf(c) = "str"
    BY DEF Cells, TypeOf
  <2>. QED
    BY <1>2, <2>1
<1>4. ASSUME NEW h \in Handles, Holds(h, type)
      PROVE  /\ HandleValue(h) \in IF type = "any" THEN Blocks \cup {Null}
                                   ELSE Strings \cup {Null}
             /\ Alive(HandleValue(h))
  <2>1. Shaped(handle[h], block) /\ handle[h].kind = "value" /\ handle[h].type = type
    BY <1>4 DEF HandlesShaped, Holds
  <2>2. CASE type = "any"
    <3>1. HandleValue(h) \in Blocks \cup {Null}
      BY <2>1, <2>2 DEF Shaped, HandleValue
    <3>. QED
      BY <2>2, <3>1, HostHandlesAssumption DEF Alive, Chunks
  <2>3. CASE type # "any"
    <3>1. HandleValue(h) \in Strings \cup {Null} /\ HandleValue(h) = Counted(handle[h])
      BY <2>1, <2>3 DEF Shaped, HandleValue, Counted
    <3>. QED
      BY <2>3, <3>1, HeldAlive
  <2>. QED
    BY <2>2, <2>3
<1>5. \A a : Readable(a) => Inside(a) \in Strings \cup {Null} /\ Alive(Inside(a))
  BY InsideAlive
<1>6. Base # "any"
  BY HostHandlesAssumption
<1>7. CASE type = "any"
  <2>1. OfProgram(type) \subseteq {Null} \cup {cell[c] : c \in {d \in Cells : TypeOf(d) = type}}
    BY <1>6, <1>7 DEF OfProgram
  <2>2. OfHost(type) \subseteq OfProgram(type)
                               \cup {HandleValue(h) : h \in {g \in Handles : Holds(g, type)}}
    BY <1>6, <1>7 DEF OfHost
  <2>3. ASSUME v \in OfProgram(type)
        PROVE  v \in Boxes \cup Blocks \cup {Null} /\ Alive(v)
               /\ (v \in Blocks => RetainedAnyAssigned)
    <3>1. CASE v = Null
      BY <1>1, <3>1, HostHandlesAssumption
    <3>2. CASE v # Null
      <4>1. PICK c \in Cells : TypeOf(c) = type /\ v = cell[c]
        BY <2>1, <2>3, <3>2
      <4>. QED
        BY <1>2, <1>7, <4>1
    <3>. QED
      BY <3>1, <3>2
  <2>4. ASSUME v \notin OfProgram(type)
        PROVE  v \in Blocks \cup {Null} /\ Alive(v)
    <3>1. PICK h \in Handles : Holds(h, type) /\ v = HandleValue(h)
      BY <2>2, <2>4
    <3>. QED
      BY <1>4, <1>7, <3>1
  <2>. QED
    BY <1>7, <2>3, <2>4
<1>8. CASE type # "any"
  <2>1. CASE v = Null
    BY <1>1, <1>8, <2>1
  <2>2. CASE \E c \in Cells : TypeOf(c) = type /\ v = cell[c]
    BY <1>2, <1>8, <2>2
  <2>3. CASE \E c \in StrCells : v = cell[c]
    BY <1>3, <1>8, <2>3
  <2>4. CASE \E a : Readable(a) /\ v = Inside(a)
    BY <1>5, <1>8, <2>4
  <2>5. CASE \E h \in Handles : Holds(h, type) /\ v = HandleValue(h)
    BY <1>4, <1>8, <2>5
  <2>. QED
    BY <2>1, <2>2, <2>3, <2>4, <2>5 DEF OfHost, OfProgram
<1>. QED
  BY <1>7, <1>8

\* The program assigns like the host.
LEMMA ProgramIsHost ==
  ASSUME NEW type PROVE OfProgram(type) \subseteq OfHost(type)
BY DEF OfHost

-----------------------------------------------------------------------------
(* A value passed on: the counts n before the old value is given up are    *)
(* out of balance by what is new in its place, w, and what is counted, v.  *)

\* A counted value is passed to a variable.
LEMMA StorePassed ==
  ASSUME IInv, NEW c \in Cells,
         NEW n \in [Chunks -> Nat], \A o \in Chunks : n[o] >= count[o],
         NEW bx \in [Boxes -> Strings \cup {Null}],
         cell[c] \in Boxes => bx[cell[c]] = box[cell[c]],
         NEW v, v \in Chunks => n[v] > 0,
         NEW d, \A y \in Cells \ {c} : d[y] = cell[y],
         \A o \in Chunks : Excess(n, bx, cell, Retained, o) = One(o, d[c]) - One(o, v)
  PROVE  /\ Minus(Plus(n, v), cell[c]) \in [Chunks -> Nat]
         /\ \A o \in Chunks : Excess(Minus(Plus(n, v), cell[c]), bx, d, Retained, o) = 0
<1>. DEFINE n1 == Plus(n, v)
            old == cell[c]
<1>1. n1 \in [Chunks -> Nat] /\ \A o \in Chunks : n1[o] = n[o] + One(o, v)
  BY PlusCounts
<1>2. \A o \in Chunks : Excess(n1, bx, d, Retained, o) = Excess(n, bx, d, Retained, o) + One(o, v)
  BY PlusExcess
<1>3. \A o \in Chunks :
        Excess(n, bx, d, Retained, o) =
          Excess(n, bx, cell, Retained, o) + One(o, old) - One(o, d[c])
  BY CellExcess
<1>4. \A o \in Chunks : One(o, v) \in Nat /\ One(o, d[c]) \in Nat /\ One(o, old) \in Nat
  BY DEF One
<1>5. count \in [Chunks -> Nat]
  BY DEF IInv, HandlesSound, TypeOK
<1>. HIDE DEF n1
<1>6. \A o \in Chunks : Excess(n1, bx, d, Retained, o) = One(o, old)
  BY <1>2, <1>3, <1>4
<1>7. \A o \in Chunks : count[o] > 0 => n1[o] > 0
  BY <1>1, <1>4, <1>5
<1>8. /\ old \in Chunks => n1[old] > 0
      /\ old \in Boxes => (box[old] \in Strings => n1[box[old]] > 0)
  BY <1>7, HeldAlive DEF Alive, Chunks
<1>. HIDE DEF old
<1>9. /\ Minus(n1, old) \in [Chunks -> Nat]
      /\ \A o \in Chunks :
           Excess(Minus(n1, old), bx, d, Retained, o) = Excess(n1, bx, d, Retained, o) - One(o, old)
  <2>1. old \in Boxes => bx[old] = box[old]
    BY DEF old
  <2>. QED
    BY <1>1, <1>8, <2>1, MinusExcess
<1>. QED
  BY <1>4, <1>6, <1>9 DEF n1, old

\* A counted value is passed to a handle.
LEMMA FillPassed ==
  ASSUME IInv, NEW h \in Handles, NEW v, Alive(v),
         NEW j, \A o \in Chunks : One(o, j[h]) = One(o, v),
         \A g \in Handles \ {h} : j[g] = Counted(handle[g])
  PROVE  /\ Minus(Plus(count, v), Counted(handle[h])) \in [Chunks -> Nat]
         /\ \A o \in Chunks : Excess(Minus(Plus(count, v), Counted(handle[h])), box, cell, j, o) = 0
<1>. DEFINE n1 == Plus(count, v)
            old == Counted(handle[h])
<1>1. /\ count \in [Chunks -> Nat] /\ box \in [Boxes -> Strings \cup {Null}]
      /\ \A o \in Chunks : Excess(count, box, cell, Retained, o) = 0
  BY AllBalanced
<1>2. (\A g \in Handles \ {h} : j[g] = Retained[g]) /\ Retained[h] = old
  BY DEF Retained
<1>3. old \in Chunks => count[old] > 0
  BY HeldAlive DEF Alive
<1>4. old \in Boxes => (box[old] \in Strings => count[box[old]] > 0)
  BY <1>3, HeldAlive DEF Alive, Chunks
<1>5. v \in Chunks => count[v] > 0
  BY DEF Alive
<1>6. n1 \in [Chunks -> Nat] /\ \A o \in Chunks : n1[o] = count[o] + One(o, v)
  BY <1>1, <1>5, PlusCounts
<1>7. \A o \in Chunks : Excess(n1, box, cell, j, o) = Excess(count, box, cell, j, o) + One(o, v)
  BY <1>1, <1>5, PlusExcess
<1>. HIDE DEF n1, old
<1>8. \A o \in Chunks :
        Excess(count, box, cell, j, o) =
          Excess(count, box, cell, Retained, o) + One(o, Retained[h]) - One(o, j[h])
  BY <1>1, <1>2, HandleExcess
<1>9. \A o \in Chunks : One(o, v) \in Nat /\ One(o, old) \in Nat
  BY DEF One
<1>10. \A o \in Chunks : Excess(n1, box, cell, j, o) = One(o, old)
  BY <1>1, <1>2, <1>7, <1>8, <1>9
<1>11. \A o \in Chunks : count[o] > 0 => n1[o] > 0
  BY <1>1, <1>6, <1>9
<1>12. /\ Minus(n1, old) \in [Chunks -> Nat]
       /\ \A o \in Chunks :
            Excess(Minus(n1, old), box, cell, j, o) = Excess(n1, box, cell, j, o) - One(o, old)
  <2>1. /\ old \in Chunks => n1[old] > 0
        /\ old \in Boxes => (box[old] \in Strings => n1[box[old]] > 0)
    BY <1>3, <1>4, <1>11 DEF Chunks
  <2>. QED
    BY <1>1, <1>6, <2>1, MinusExcess
<1>. QED
  BY <1>9, <1>10, <1>12 DEF n1, old

-----------------------------------------------------------------------------
(* Every step keeps the invariant.                                         *)

\* Balance after a step is exact counting after it.
LEMMA ExactNext ==
  ASSUME count' \in [Chunks -> Nat], NEW k, \A h \in Handles : k[h] = Counted(handle[h])',
         \A o \in Chunks : Excess(count', box', cell', k, o) = 0
  PROVE  CountsExact'
<1>1. Balanced(count', box', cell', k)
  BY DEF Balanced
<1>2. Exact(count', box', cell', k)
  BY <1>1, InBalance
<1>3. \A o \in Chunks : {g \in Handles : k[g] = o} = {g \in Handles : Counted(handle[g])' = o}
  OBVIOUS
<1>. QED
  BY <1>2, <1>3 DEF CountsExact, Exact

\* The types of what the balance is about
Typed ==
  /\ count \in [Chunks -> Nat]
  /\ box \in [Boxes -> Strings \cup {Null}]
  /\ cell \in [Cells -> Strings \cup Boxes \cup Blocks \cup {Null}]

\* The types of what the handles are, and whose the blocks in use are
HandlesTyped ==
  /\ block \in [Blocks -> Strings \cup {Null, "free", "no value"}]
  /\ handle \in [Handles ->
       [kind : {"empty", "value", "data"}, type : {"str", "struct", "any", Null},
        value : Chunks \cup Blocks \cup {Null}, storage : Blocks \cup {Null}]]
  /\ {b \in Blocks : block[b] # "free"} = {handle[h].storage : h \in Handles} \ {Null}
  /\ \A g, h \in Handles :
       g # h /\ handle[g].storage # Null => handle[g].storage # handle[h].storage

\* The invariant, part by part.
LEMMA IInvParts == IInv <=> Typed /\ HandlesTyped /\ CountsExact /\ CellsShaped /\ HandlesShaped
BY DEF IInv, HandlesSound, TypeOK, Typed, HandlesTyped

\* The same after a step.
LEMMA IInvPartsNext ==
  ASSUME Typed', HandlesTyped', CountsExact', CellsShaped', HandlesShaped'
  PROVE  IInv'
BY DEF IInv, HandlesSound, TypeOK, Typed, HandlesTyped

\* Handles are as before when their storage is.
LEMMA HandlesUnchanged ==
  ASSUME IInv, UNCHANGED <<handle, block>>
  PROVE  HandlesTyped' /\ HandlesShaped' /\ \A h \in Handles : Retained[h] = Counted(handle[h])'
<1>1. HandlesTyped /\ HandlesShaped
  BY IInvParts
<1>2. HandlesTyped'
  <2>1. {b \in Blocks : block'[b] # "free"} = {handle'[h].storage : h \in Handles} \ {Null}
    <3>1. {b \in Blocks : block[b] # "free"} = {handle[h].storage : h \in Handles} \ {Null}
      BY <1>1 DEF HandlesTyped
    <3>2. handle' = handle /\ block' = block
      OBVIOUS
    <3>. QED
      BY ONLY <3>1, <3>2
  <2>2. \A g, h \in Handles :
          g # h /\ handle'[g].storage # Null => handle'[g].storage # handle'[h].storage
    BY <1>1 DEF HandlesTyped
  <2>3. /\ block' \in [Blocks -> Strings \cup {Null, "free", "no value"}]
        /\ handle' \in [Handles ->
             [kind : {"empty", "value", "data"}, type : {"str", "struct", "any", Null},
              value : Chunks \cup Blocks \cup {Null}, storage : Blocks \cup {Null}]]
    BY <1>1 DEF HandlesTyped
  <2>. QED
    BY <2>1, <2>2, <2>3 DEF HandlesTyped
<1>3. HandlesShaped'
  BY <1>1, ZenonT(30) DEF HandlesShaped, Shaped
<1>4. \A h \in Handles : Retained[h] = Counted(handle[h])'
  BY DEF Retained, Counted
<1>. QED
  BY <1>2, <1>3, <1>4

\* The values a variable may be given
Fits(c) ==
  IF c \in AnyCells
  THEN Boxes \cup {Null} \cup (IF RetainedAnyAssigned THEN Blocks ELSE {})
  ELSE Strings \cup {Null}

\* Variables keep values of their types.
LEMMA CellsNext ==
  ASSUME IInv, NEW c \in Cells, NEW w \in Fits(c), cell' = [cell EXCEPT ![c] = w]
  PROVE  /\ CellsShaped'
         /\ cell' \in [Cells -> Strings \cup Boxes \cup Blocks \cup {Null}]
         /\ cell'[c] = w /\ \A y \in Cells \ {c} : cell'[y] = cell[y]
<1>1. Typed /\ CellsShaped
  BY IInvParts
<1>2. w \in Strings \cup Boxes \cup Blocks \cup {Null}
  BY DEF Fits
<1>3. cell \in [Cells -> Strings \cup Boxes \cup Blocks \cup {Null}]
  BY <1>1 DEF Typed
<1>. QED
  BY <1>1, <1>2, <1>3 DEF CellsShaped, Fits

\* A variable is assigned.
LEMMA AssignCellStep ==
  ASSUME IInv, NEW c \in Cells, NEW v \in Fits(c), Alive(v), AssignCell(c, v)
  PROVE  IInv'
<1>1. /\ count' = Minus(Plus(count, v), cell[c])
      /\ cell' = [cell EXCEPT ![c] = v]
      /\ UNCHANGED <<box, handle, block>>
  BY DEF AssignCell, Store
<1>2. /\ CellsShaped'
      /\ cell' \in [Cells -> Strings \cup Boxes \cup Blocks \cup {Null}]
      /\ cell'[c] = v /\ \A y \in Cells \ {c} : cell'[y] = cell[y]
  BY <1>1, CellsNext
<1>3. /\ count \in [Chunks -> Nat] /\ box \in [Boxes -> Strings \cup {Null}]
      /\ \A o \in Chunks : Excess(count, box, cell, Retained, o) = 0
  BY AllBalanced
<1>4. \A o \in Chunks : count[o] >= count[o]
  BY <1>3
<1>5. \A o \in Chunks :
        Excess(count, box, cell, Retained, o) = One(o, cell'[c]) - One(o, v)
  BY <1>2, <1>3 DEF One
<1>6. v \in Chunks => count[v] > 0
  BY DEF Alive
<1>7. /\ Minus(Plus(count, v), cell[c]) \in [Chunks -> Nat]
      /\ \A o \in Chunks :
           Excess(Minus(Plus(count, v), cell[c]), box, cell', Retained, o) = 0
  BY <1>2, <1>3, <1>4, <1>5, <1>6, StorePassed
<1>8. HandlesTyped' /\ HandlesShaped' /\ \A h \in Handles : Retained[h] = Counted(handle[h])'
  BY <1>1, HandlesUnchanged
<1>9. CountsExact'
  <2>1. box' = box /\ count' \in [Chunks -> Nat]
    BY <1>1, <1>7
  <2>2. \A o \in Chunks : Excess(count', box', cell', Retained, o) = 0
    BY <1>1, <1>7
  <2>. QED
    BY <1>8, <2>1, <2>2, ExactNext
<1>10. Typed'
  BY <1>1, <1>2, <1>3, <1>7 DEF Typed
<1>. QED
  BY <1>2, <1>8, <1>9, <1>10, IInvPartsNext

\* A string is made.
LEMMA NewStringStep ==
  ASSUME IInv, NEW c \in StrCells, NEW s \in Strings, NewString(c, s)
  PROVE  IInv'
<1>. DEFINE n == [count EXCEPT ![s] = 1]
<1>0. count[s] = 0 /\ c \in Cells /\ s \in Fits(c) /\ s \in Chunks /\ s \notin Boxes /\ s # Null
  BY HostHandlesAssumption DEF NewString, Cells, Fits, Chunks
<1>1. /\ count' = Minus(n, cell[c])
      /\ cell' = [cell EXCEPT ![c] = s]
      /\ UNCHANGED <<box, handle, block>>
  BY DEF NewString
<1>2. /\ CellsShaped'
      /\ cell' \in [Cells -> Strings \cup Boxes \cup Blocks \cup {Null}]
      /\ cell'[c] = s /\ \A y \in Cells \ {c} : cell'[y] = cell[y]
  BY <1>0, <1>1, CellsNext
<1>3. /\ count \in [Chunks -> Nat] /\ box \in [Boxes -> Strings \cup {Null}]
      /\ \A o \in Chunks : Excess(count, box, cell, Retained, o) = 0
  BY AllBalanced
<1>4. n \in [Chunks -> Nat] /\ \A o \in Chunks : n[o] = count[o] + One(o, s) /\ n[o] >= count[o]
  BY <1>0, <1>3 DEF One
<1>. HIDE DEF n
<1>5. \A o \in Chunks :
        Excess(n, box, cell, Retained, o) =
          Excess(count, box, cell, Retained, o) + One(o, s) - One(o, Null)
  <2>1. \A y \in Boxes : box[y] = IF y = s THEN Null ELSE box[y]
    BY <1>0
  <2>. QED
    BY <1>0, <1>3, <1>4, <2>1, FreshExcess
<1>6. \A o \in Chunks : Excess(n, box, cell, Retained, o) = One(o, cell'[c]) - One(o, Null)
  BY <1>2, <1>3, <1>5 DEF One
<1>7. Null \notin Chunks /\ Plus(n, Null) = n
  BY HostHandlesAssumption DEF Plus, Chunks
<1>8. /\ Minus(Plus(n, Null), cell[c]) \in [Chunks -> Nat]
      /\ \A o \in Chunks :
           Excess(Minus(Plus(n, Null), cell[c]), box, cell', Retained, o) = 0
  BY <1>0, <1>2, <1>3, <1>4, <1>6, <1>7, StorePassed
<1>9. HandlesTyped' /\ HandlesShaped' /\ \A h \in Handles : Retained[h] = Counted(handle[h])'
  BY <1>1, HandlesUnchanged
<1>10. CountsExact'
  <2>1. box' = box /\ count' \in [Chunks -> Nat]
    BY <1>1, <1>7, <1>8
  <2>2. \A o \in Chunks : Excess(count', box', cell', Retained, o) = 0
    BY <1>1, <1>7, <1>8
  <2>. QED
    BY <1>9, <2>1, <2>2, ExactNext
<1>11. Typed'
  BY <1>1, <1>2, <1>3, <1>7, <1>8 DEF Typed
<1>. QED
  BY <1>2, <1>9, <1>10, <1>11, IInvPartsNext

\* A value is put into a box.
LEMMA BoxValueStep ==
  ASSUME IInv, NEW c \in AnyCells, NEW o \in Boxes, NEW v \in Strings \cup {Null}, Alive(v),
         MakeDynamicValue(c, o, v)
  PROVE  IInv'
<1>. DEFINE n == [count EXCEPT ![o] = 1]
<1>0. count[o] = 0 /\ c \in Cells /\ o \in Fits(c) /\ o \in Chunks /\ o # v
  BY HostHandlesAssumption DEF MakeDynamicValue, Cells, Fits, Chunks
<1>1. /\ count' = Minus(Plus(n, v), cell[c])
      /\ box' = [box EXCEPT ![o] = v]
      /\ cell' = [cell EXCEPT ![c] = o]
      /\ UNCHANGED <<handle, block>>
  BY DEF MakeDynamicValue, BoxValue
<1>2. /\ CellsShaped'
      /\ cell' \in [Cells -> Strings \cup Boxes \cup Blocks \cup {Null}]
      /\ cell'[c] = o /\ \A y \in Cells \ {c} : cell'[y] = cell[y]
  BY <1>0, <1>1, CellsNext
<1>3. /\ count \in [Chunks -> Nat] /\ box \in [Boxes -> Strings \cup {Null}]
      /\ \A q \in Chunks : Excess(count, box, cell, Retained, q) = 0
  BY AllBalanced
<1>4. n \in [Chunks -> Nat] /\ \A q \in Chunks : n[q] = count[q] + One(q, o) /\ n[q] >= count[q]
  BY <1>0, <1>3 DEF One
<1>5. /\ box' \in [Boxes -> Strings \cup {Null}]
      /\ \A y \in Boxes : box'[y] = IF y = o THEN v ELSE box[y]
  BY <1>1, <1>3
<1>. HIDE DEF n
<1>6. \A q \in Chunks :
        Excess(n, box', cell, Retained, q) =
          Excess(count, box, cell, Retained, q) + One(q, o) - One(q, v)
  BY <1>0, <1>3, <1>4, <1>5, FreshExcess
<1>7. \A q \in Chunks : Excess(n, box', cell, Retained, q) = One(q, cell'[c]) - One(q, v)
  BY <1>2, <1>3, <1>6 DEF One
<1>8. cell[c] \in Boxes => box'[cell[c]] = box[cell[c]]
  <2>1. cell[c] # o
    <3>1. Alive(cell[c])
      BY <1>0, HeldAlive
    <3>. QED
      BY <1>0, <1>3, <3>1 DEF Alive
  <2>. QED
    BY <1>5, <2>1
<1>9. v \in Chunks => n[v] > 0
  <2>1. v \in Chunks => count[v] > 0
    BY DEF Alive
  <2>. QED
    BY <1>3, <1>4, <2>1
<1>10. /\ Minus(Plus(n, v), cell[c]) \in [Chunks -> Nat]
       /\ \A q \in Chunks :
            Excess(Minus(Plus(n, v), cell[c]), box', cell', Retained, q) = 0
  BY <1>0, <1>2, <1>4, <1>5, <1>7, <1>8, <1>9, StorePassed
<1>11. HandlesTyped' /\ HandlesShaped' /\ \A h \in Handles : Retained[h] = Counted(handle[h])'
  BY <1>1, HandlesUnchanged
<1>12. CountsExact'
  <2>1. count' \in [Chunks -> Nat] /\ \A q \in Chunks : Excess(count', box', cell', Retained, q) = 0
    BY <1>1, <1>10
  <2>. QED
    BY <1>11, <2>1, ExactNext
<1>13. Typed'
  BY <1>1, <1>2, <1>5, <1>10 DEF Typed
<1>. QED
  BY <1>2, <1>11, <1>12, <1>13, IInvPartsNext

HandleTypes ==
  [kind : {"empty", "value", "data"}, type : {"str", "struct", "any", Null},
   value : Chunks \cup Blocks \cup {Null}, storage : Blocks \cup {Null}]

\* The handle h becomes x, which has counted v.  The blocks are bl when the new storage,
\* if any, has been filled, before the old one is given back.
Becomes(h, x, v, bl) ==
  /\ x \in HandleTypes /\ Shaped(x, bl) /\ Alive(v)
  /\ bl \in [Blocks -> Strings \cup {Null, "free", "no value"}]
  /\ \A b \in Blocks : b # x.storage => bl[b] = block[b]
  /\ x.storage \in Blocks => block[x.storage] = "free" /\ bl[x.storage] # "free"
  /\ \A o \in Chunks :
       o = v <=> o = IF x.kind = "data" \/ x.type = "str" THEN x.value
                     ELSE IF x.storage \in Blocks THEN bl[x.storage] ELSE Null
  /\ handle' = [handle EXCEPT ![h] = x]
  /\ block' = Freed(handle[h], bl)
  /\ count' = Minus(Plus(count, v), Counted(handle[h]))
  /\ UNCHANGED <<box, cell>>

\* What filling a handle does, whatever it had before.
LEMMA FillStep ==
  ASSUME IInv, NEW h \in Handles, NEW x, NEW v, NEW bl, Becomes(h, x, v, bl)
  PROVE  IInv'
<1>0. Alive(v)
  BY DEF Becomes
<1>. USE DEF Becomes
<1>. DEFINE old == handle[h].storage
            s == x.storage
<1>1. Typed /\ HandlesTyped /\ CellsShaped /\ HandlesShaped
  BY IInvParts
<1>2. handle \in [Handles -> HandleTypes]
  BY <1>1 DEF HandlesTyped, HandleTypes
<1>3. /\ handle' \in [Handles -> HandleTypes]
      /\ handle'[h] = x
      /\ \A g \in Handles \ {h} : handle'[g] = handle[g]
  BY <1>2
<1>4. \A g \in Handles : handle[g].storage \in Blocks \cup {Null}
  BY <1>2 DEF HandleTypes
<1>5. s \in Blocks \cup {Null}
  BY DEF HandleTypes
<1>6. {b \in Blocks : block[b] # "free"} = {handle[g].storage : g \in Handles} \ {Null}
  BY <1>1 DEF HandlesTyped
<1>7. ASSUME NEW g \in Handles, handle[g].storage # Null
      PROVE  block[handle[g].storage] # "free"
  <2>1. handle[g].storage \in {handle[f].storage : f \in Handles} \ {Null}
    BY <1>7
  <2>. QED
    BY <1>6, <2>1
<1>8. \A g \in Handles : handle[g].storage # Null => handle[g].storage # s
  BY <1>4, <1>5, <1>7
<1>9. \A f, g \in Handles :
        f # g /\ handle[f].storage # Null => handle[f].storage # handle[g].storage
  BY <1>1 DEF HandlesTyped
<1>10. Null \notin Blocks
  BY HostHandlesAssumption
<1>11. /\ block' \in [Blocks -> Strings \cup {Null, "free", "no value"}]
       /\ \A b \in Blocks : block'[b] = IF b = old THEN "free" ELSE bl[b]
  BY DEF Freed
<1>12. ASSUME NEW g \in Handles \ {h}, handle[g].storage # Null
       PROVE  block'[handle[g].storage] = block[handle[g].storage]
  <2>1. handle[g].storage \in Blocks
    BY <1>4, <1>12
  <2>2. handle[g].storage # s /\ handle[g].storage # old
    BY <1>8, <1>9, <1>12
  <2>. QED
    BY <1>11, <2>1, <2>2
<1>13. s \in Blocks => block'[s] = bl[s] /\ block'[s] # "free"
  <2>1. s \in Blocks => s # old
    BY <1>8, <1>10
  <2>. QED
    BY <1>11, <2>1
<1>14. HandlesTyped'
  <2>1. {b \in Blocks : block'[b] # "free"} = {handle'[g].storage : g \in Handles} \ {Null}
    <3>1. ASSUME NEW b \in Blocks, block'[b] # "free"
          PROVE  b \in {handle'[g].storage : g \in Handles} \ {Null}
      <4>1. CASE b = s
        BY <1>3, <1>10, <4>1
      <4>2. CASE b # s
        <5>1. b # old /\ block[b] # "free"
          BY <1>11, <3>1, <4>2
        <5>2. b \in {handle[g].storage : g \in Handles} \ {Null}
          BY <1>6, <5>1
        <5>3. PICK g \in Handles : handle[g].storage = b
          BY <5>2
        <5>4. g # h
          BY <5>1, <5>3
        <5>. QED
          BY <1>3, <1>10, <5>3, <5>4
      <4>. QED
        BY <4>1, <4>2
    <3>2. ASSUME NEW g \in Handles, handle'[g].storage # Null
          PROVE  handle'[g].storage \in Blocks /\ block'[handle'[g].storage] # "free"
      <4>1. CASE g = h
        BY <1>3, <1>5, <1>13, <3>2, <4>1
      <4>2. CASE g # h
        BY <1>3, <1>4, <1>7, <1>12, <3>2, <4>2
      <4>. QED
        BY <4>1, <4>2
    <3>. DEFINE A == {b \in Blocks : block'[b] # "free"}
                B == {handle'[g].storage : g \in Handles} \ {Null}
    <3>3. A \subseteq B
      BY <3>1
    <3>4. ASSUME NEW e \in B PROVE e \in A
      <4>1. PICK g \in Handles : e = handle'[g].storage /\ e # Null
        OBVIOUS
      <4>. QED
        BY <3>2, <4>1
    <3>. QED
      BY <3>3, <3>4
  <2>2. \A f, g \in Handles :
          f # g /\ handle'[f].storage # Null => handle'[f].storage # handle'[g].storage
    BY <1>3, <1>8, <1>9
  <2>. QED
    BY <1>3, <1>11, <2>1, <2>2 DEF HandlesTyped, HandleTypes
<1>15. HandlesShaped'
  <2>1. ASSUME NEW g \in Handles PROVE Shaped(handle'[g], block')
    <3>1. CASE g = h
      <4>1. Shaped(x, block')
        BY <1>13 DEF Shaped
      <4>. QED
        BY <1>3, <3>1, <4>1
    <3>2. CASE g # h
      <4>1. Shaped(handle[g], block) /\ handle'[g] = handle[g]
        BY <1>1, <1>3, <3>2 DEF HandlesShaped
      <4>2. handle[g].storage \in Blocks => block'[handle[g].storage] = block[handle[g].storage]
        BY <1>10, <1>12, <3>2
      <4>3. Shaped(handle[g], block')
        BY <4>1, <4>2 DEF Shaped
      <4>. QED
        BY <4>1, <4>3
    <3>. QED
      BY <3>1, <3>2
  <2>. QED
    BY <2>1 DEF HandlesShaped
<1>16. CountsExact' /\ count' \in [Chunks -> Nat]
  <2>. DEFINE j == [g \in Handles |-> Counted(handle[g])']
  <2>1. \A g \in Handles : j[g] = Counted(handle[g])'
    OBVIOUS
  <2>2. ASSUME NEW g \in Handles \ {h} PROVE j[g] = Counted(handle[g])
    <3>1. handle'[g] = handle[g]
      BY <1>3
    <3>2. handle[g].storage \in Blocks => block'[handle[g].storage] = block[handle[g].storage]
      BY <1>10, <1>12
    <3>3. Counted(handle[g])' = Counted(handle[g])
      BY ONLY <3>1, <3>2 DEF Counted
    <3>. QED
      BY <2>1, <3>3
  <2>3. j[h] = IF x.kind = "data" \/ x.type = "str" THEN x.value
               ELSE IF x.storage \in Blocks THEN bl[x.storage] ELSE Null
    BY <1>3, <1>13, <2>1 DEF Counted
  <2>4. \A o \in Chunks : One(o, j[h]) = One(o, v)
    BY <2>3 DEF One
  <2>. HIDE DEF j
  <2>5. count' \in [Chunks -> Nat] /\ \A o \in Chunks : Excess(count', box, cell, j, o) = 0
    <3>1. /\ Minus(Plus(count, v), Counted(handle[h])) \in [Chunks -> Nat]
          /\ \A o \in Chunks :
               Excess(Minus(Plus(count, v), Counted(handle[h])), box, cell, j, o) = 0
      <4>1. \A g \in Handles \ {h} : j[g] = Counted(handle[g])
        BY <2>2
      <4>. QED
        BY ONLY IInv, <1>0, <2>4, <4>1, FillPassed
    <3>. QED
      BY <3>1
  <2>6. \A o \in Chunks : Excess(count', box', cell', j, o) = 0
    BY <2>5
  <2>. QED
    BY <2>1, <2>5, <2>6, ExactNext
<1>17. Typed'
  BY <1>1, <1>16 DEF Typed
<1>18. CellsShaped'
  BY <1>1 DEF CellsShaped
<1>. QED
  BY <1>14, <1>15, <1>16, <1>17, <1>18, IInvPartsNext

\* A string is retained.
LEMMA RetainStrStep ==
  ASSUME IInv, NEW h \in Handles, NEW v \in Strings \cup {Null}, Alive(v),
         RetainStr(h, v), UNCHANGED <<box, cell>>
  PROVE  IInv'
<1>. DEFINE x == [kind |-> "value", type |-> "str", value |-> v, storage |-> Null]
<1>1. /\ handle' = [handle EXCEPT ![h] = x]
      /\ block' = Freed(handle[h], block)
      /\ count' = Minus(Plus(count, v), Counted(handle[h]))
  BY DEF RetainStr, Fill
<1>2. block \in [Blocks -> Strings \cup {Null, "free", "no value"}]
  BY IInvParts DEF HandlesTyped
<1>3. /\ x \in HandleTypes /\ x.storage = Null /\ x.type = "str" /\ x.value = v
      /\ x.storage \notin Blocks
  BY HostHandlesAssumption DEF HandleTypes, Chunks
<1>4. Shaped(x, block)
  BY DEF Shaped
<1>. HIDE DEF x
<1>5. Becomes(h, x, v, block)
  BY <1>1, <1>2, <1>3, <1>4 DEF Becomes
<1>. QED
  BY <1>5, FillStep

\* A structured value is retained.
LEMMA RetainStructStep ==
  ASSUME IInv, NEW h \in Handles, NEW v \in Strings \cup {Null}, Alive(v),
         NEW b \in Blocks, block[b] = "free",
         RetainStruct(h, v, b), UNCHANGED <<box, cell>>
  PROVE  IInv'
<1>. DEFINE x == [kind |-> "value", type |-> "struct", value |-> Null, storage |-> b]
            bl == [block EXCEPT ![b] = v]
<1>1. /\ handle' = [handle EXCEPT ![h] = x]
      /\ block' = Freed(handle[h], bl)
      /\ count' = Minus(Plus(count, v), Counted(handle[h]))
  BY DEF RetainStruct, Fill
<1>2. block \in [Blocks -> Strings \cup {Null, "free", "no value"}]
  BY IInvParts DEF HandlesTyped
<1>3. /\ bl \in [Blocks -> Strings \cup {Null, "free", "no value"}]
      /\ \A a \in Blocks : a # b => bl[a] = block[a]
      /\ bl[b] = v /\ v # "free"
  BY <1>2, HostHandlesAssumption
<1>4. /\ x \in HandleTypes /\ x.storage = b /\ x.type = "struct" /\ x.kind = "value"
  BY DEF HandleTypes
<1>5. Shaped(x, bl)
  BY <1>3 DEF Shaped
<1>. HIDE DEF x, bl
<1>6. /\ \A a \in Blocks : a # x.storage => bl[a] = block[a]
      /\ x.storage \in Blocks => block[x.storage] = "free" /\ bl[x.storage] # "free"
      /\ \A o \in Chunks :
           o = v <=> o = IF x.kind = "data" \/ x.type = "str" THEN x.value
                         ELSE IF x.storage \in Blocks THEN bl[x.storage] ELSE Null
  BY <1>3, <1>4
<1>7. Becomes(h, x, v, bl)
  BY <1>1, <1>3, <1>4, <1>5, <1>6 DEF Becomes
<1>. QED
  BY <1>7, FillStep

\* An any is retained.
LEMMA RetainAnyStep ==
  ASSUME IInv, NEW h \in Handles, NEW self, self # Null => Readable(self),
         NEW b \in Blocks, block[b] = "free",
         RetainAny(h, self, b), UNCHANGED <<box, cell>>
  PROVE  IInv'
<1>. DEFINE x == [kind |-> "value", type |-> "any",
                  value |-> IF self = Null THEN Null ELSE b, storage |-> b]
            v == IF self = Null THEN Null ELSE Inside(self)
            y == IF self = Null THEN "no value" ELSE Inside(self)
            bl == [block EXCEPT ![b] = y]
<1>1. /\ handle' = [handle EXCEPT ![h] = x]
      /\ block' = Freed(handle[h], bl)
      /\ count' = Minus(Plus(count, v), Counted(handle[h]))
  BY DEF RetainAny, Fill
<1>2. block \in [Blocks -> Strings \cup {Null, "free", "no value"}]
  BY IInvParts DEF HandlesTyped
<1>3. /\ v \in Strings \cup {Null} /\ Alive(v)
      /\ self # Null => y = v
      /\ y \in Strings \cup {Null, "no value"}
      /\ y # "free"
      /\ \A o \in Chunks : o = v <=> o = y
  <2>1. CASE self = Null
    BY <2>1, HostHandlesAssumption DEF Alive, Chunks
  <2>2. CASE self # Null
    BY <2>2, InsideAlive, HostHandlesAssumption
  <2>. QED
    BY <2>1, <2>2
<1>4. /\ bl \in [Blocks -> Strings \cup {Null, "free", "no value"}]
      /\ \A a \in Blocks : a # b => bl[a] = block[a]
      /\ bl[b] = y
  BY <1>2, <1>3
<1>5. x \in HandleTypes /\ x.storage = b /\ x.type = "any" /\ x.kind = "value"
  BY DEF HandleTypes
<1>6. Shaped(x, bl)
  BY <1>3, <1>4 DEF Shaped
<1>. HIDE DEF x, bl, v, y
<1>7. /\ \A a \in Blocks : a # x.storage => bl[a] = block[a]
      /\ x.storage \in Blocks => block[x.storage] = "free" /\ bl[x.storage] # "free"
      /\ \A o \in Chunks :
           o = v <=> o = IF x.kind = "data" \/ x.type = "str" THEN x.value
                         ELSE IF x.storage \in Blocks THEN bl[x.storage] ELSE Null
  BY <1>3, <1>4, <1>5
<1>8. Becomes(h, x, v, bl)
  BY <1>1, <1>3, <1>4, <1>5, <1>6, <1>7 DEF Becomes
<1>. QED
  BY <1>8, FillStep

\* The pointer to a box is retained.
LEMMA RetainDataStep ==
  ASSUME IInv, NEW h \in Handles, NEW p \in Boxes, Alive(p), RetainHostData(h, p)
  PROVE  IInv'
<1>. DEFINE x == [kind |-> "data", type |-> Null, value |-> p, storage |-> Null]
<1>1. /\ handle' = [handle EXCEPT ![h] = x]
      /\ block' = Freed(handle[h], block)
      /\ count' = Minus(Plus(count, p), Counted(handle[h]))
      /\ UNCHANGED <<box, cell>>
  BY DEF RetainHostData, Fill
<1>2. block \in [Blocks -> Strings \cup {Null, "free", "no value"}]
  BY IInvParts DEF HandlesTyped
<1>3. /\ x \in HandleTypes /\ x.storage = Null /\ x.kind = "data" /\ x.value = p
      /\ x.storage \notin Blocks
  BY HostHandlesAssumption DEF HandleTypes, Chunks
<1>4. Shaped(x, block)
  BY DEF Shaped
<1>. HIDE DEF x
<1>5. Becomes(h, x, p, block)
  BY <1>1, <1>2, <1>3, <1>4 DEF Becomes
<1>. QED
  BY <1>5, FillStep

\* A handle is cleared.
LEMMA ClearStep ==
  ASSUME IInv, NEW h \in Handles, ClearHostHandle(h)
  PROVE  IInv'
<1>0. Alive(Null) /\ Plus(count, Null) = count /\ Null \notin Blocks /\ Null \notin Chunks
  BY HostHandlesAssumption DEF Alive, Plus, Chunks
<1>1. /\ handle' = [handle EXCEPT ![h] = Empty]
      /\ block' = Freed(handle[h], block)
      /\ count' = Minus(Plus(count, Null), Counted(handle[h]))
      /\ UNCHANGED <<box, cell>>
  BY <1>0 DEF ClearHostHandle
<1>2. block \in [Blocks -> Strings \cup {Null, "free", "no value"}]
  BY IInvParts DEF HandlesTyped
<1>3. Empty \in HandleTypes /\ Empty.storage = Null /\ Empty.value = Null /\ Empty.kind = "empty"
  BY DEF HandleTypes, Empty
<1>4. Shaped(Empty, block)
  BY DEF Shaped, Empty
<1>5. Becomes(h, Empty, Null, block)
  BY <1>0, <1>1, <1>2, <1>3, <1>4 DEF Becomes
<1>. QED
  BY <1>5, FillStep

\* All forms of umkaRetainHostValue().
LEMMA RetainHostValueStep ==
  ASSUME IInv, NEW h \in Handles, NEW type \in {"str", "struct", "any"},
         NEW v \in OfHost(type), RetainHostValue(h, type, v)
  PROVE  IInv'
<1>1. UNCHANGED <<box, cell>>
  BY DEF RetainHostValue
<1>2. Alive(v) /\ (type # "any" => v \in Strings \cup {Null})
  BY GivenAlive
<1>3. CASE type = "str" /\ RetainStr(h, v)
  BY <1>1, <1>2, <1>3, RetainStrStep
<1>4. CASE \E b \in Blocks : block[b] = "free" /\ type = "struct" /\ RetainStruct(h, v, b)
  BY <1>1, <1>2, <1>4, RetainStructStep
<1>5. CASE \E b \in Blocks :
             block[b] = "free" /\ type = "any" /\ (v # Null => Readable(v)) /\ RetainAny(h, v, b)
  BY <1>1, <1>5, RetainAnyStep
<1>. QED
  BY <1>3, <1>4, <1>5 DEF RetainHostValue

\* What the program or the host has given fits the type.
LEMMA FitsGiven ==
  ASSUME IInv, NEW c \in Cells, NEW v \in OfHost(TypeOf(c)),
         v \in OfProgram(TypeOf(c)) \/ (v \in Blocks => RetainedAnyAssigned)
  PROVE  v \in Fits(c) /\ Alive(v)
<1>1. TypeOf(c) \in {"str", "struct", "any"} /\ (TypeOf(c) = "any" <=> c \in AnyCells)
  BY HostHandlesAssumption DEF TypeOf, Cells
<1>2. /\ v \in IF TypeOf(c) = "any" THEN Boxes \cup Blocks \cup {Null} ELSE Strings \cup {Null}
      /\ Alive(v)
      /\ TypeOf(c) = "any" /\ v \in OfProgram(TypeOf(c)) => (v \in Blocks => RetainedAnyAssigned)
  BY <1>1, GivenAlive
<1>. QED
  BY <1>1, <1>2 DEF Fits

\* Every step keeps the invariant.
LEMMA NextStep ==
  ASSUME IInv, Next
  PROVE  IInv'
<1>1. ASSUME NEW c \in StrCells, NEW s \in Strings, NewString(c, s) PROVE IInv'
  BY <1>1, NewStringStep
<1>2. ASSUME NEW c \in Cells, NEW v \in OfProgram(TypeOf(c)), AssignCell(c, v) PROVE IInv'
  <2>1. v \in OfHost(TypeOf(c))
    BY ProgramIsHost
  <2>. QED
    BY <1>2, <2>1, FitsGiven, AssignCellStep
<1>3. ASSUME NEW c \in Cells, NEW v \in OfHost(TypeOf(c)), AssignHostValue(c, v) PROVE IInv'
  <2>1. AssignCell(c, v) /\ (v \in Blocks => RetainedAnyAssigned)
    BY <1>3 DEF AssignHostValue
  <2>. QED
    BY <2>1, FitsGiven, AssignCellStep
<1>4. ASSUME NEW c \in Cells, ReleaseHostValue(c) PROVE IInv'
  <2>1. Null \in Fits(c) /\ Alive(Null)
    BY HostHandlesAssumption DEF Fits, Alive, Chunks
  <2>. QED
    BY <1>4, <2>1, AssignCellStep DEF ReleaseHostValue
<1>5. ASSUME NEW c \in AnyCells, NEW o \in Boxes, NEW v \in OfHost(Base), MakeDynamicValue(c, o, v)
      PROVE IInv'
  <2>1. Base \in {"str", "struct", "any"} /\ Base # "any"
    BY HostHandlesAssumption
  <2>2. v \in Strings \cup {Null} /\ Alive(v)
    BY <2>1, GivenAlive
  <2>. QED
    BY <1>5, <2>2, BoxValueStep
<1>6. ASSUME NEW h \in Handles, NEW type \in {"str", "struct", "any"}, NEW v \in OfHost(type),
             RetainHostValue(h, type, v)
      PROVE  IInv'
  BY <1>6, RetainHostValueStep
<1>7. ASSUME NEW h \in Handles, NEW p \in AnysOfCells \cup AnysOfHandles, RetainHostData(h, p)
      PROVE  IInv'
  <2>1. p \in Boxes
    BY <1>7 DEF RetainHostData
  <2>2. p \in AnysOfCells
    <3>1. ASSUME NEW g \in Handles, Holds(g, "any") PROVE handle[g].value \notin Boxes
      <4>1. Shaped(handle[g], block)
        BY IInvParts DEF HandlesShaped
      <4>. QED
        BY <3>1, <4>1, HostHandlesAssumption DEF Shaped, Holds
    <3>. QED
      BY <2>1, <3>1 DEF AnysOfHandles
  <2>3. Alive(p)
    BY <2>2, HeldAlive DEF AnysOfCells, Cells
  <2>. QED
    BY <1>7, <2>1, <2>3, RetainDataStep
<1>8. ASSUME NEW h \in Handles, ClearHostHandle(h) PROVE IInv'
  BY <1>8, ClearStep
<1>. QED
  BY <1>1, <1>2, <1>3, <1>4, <1>5, <1>6, <1>7, <1>8 DEF Next

\* The invariant holds at first.
LEMMA InitIInv == Init => IInv
<1>. SUFFICES ASSUME Init PROVE IInv
  OBVIOUS
<1>1. Null \notin Chunks /\ Null \notin Blocks
  BY HostHandlesAssumption DEF Chunks
<1>2. Typed
  BY DEF Init, Typed
<1>3. HandlesTyped
  <2>1. \A h \in Handles : handle[h].storage = Null
    BY DEF Init, Empty
  <2>2. {b \in Blocks : block[b] # "free"} = {}
    BY DEF Init
  <2>3. {handle[h].storage : h \in Handles} \ {Null} = {}
    BY <2>1
  <2>. QED
    BY <2>1, <2>2, <2>3 DEF Init, HandlesTyped, Empty
<1>4. CellsShaped
  BY DEF Init, CellsShaped
<1>5. HandlesShaped
  BY DEF Init, HandlesShaped, Shaped, Empty
<1>6. CountsExact
  <2>1. ASSUME NEW o \in Chunks
        PROVE  /\ {c \in Cells : cell[c] = o} = {}
               /\ {a \in Boxes : count[a] > 0 /\ box[a] = o} = {}
               /\ {h \in Handles : Counted(handle[h]) = o} = {}
               /\ count[o] = 0
    BY <1>1 DEF Init, Counted, Empty
  <2>. QED
    BY <2>1, FS_EmptySet DEF CountsExact
<1>. QED
  BY <1>2, <1>3, <1>4, <1>5, <1>6, IInvParts

\* The invariant of all reachable states.
LEMMA Invariance == Spec => []IInv
<1>1. IInv /\ UNCHANGED vars => IInv'
  <2>. SUFFICES ASSUME IInv, UNCHANGED vars PROVE IInv'
    OBVIOUS
  <2>1. UNCHANGED <<count, box, cell>> /\ UNCHANGED <<handle, block>>
    BY DEF vars
  <2>2. HandlesTyped' /\ HandlesShaped' /\ \A h \in Handles : Retained[h] = Counted(handle[h])'
    BY <2>1, HandlesUnchanged
  <2>3. Typed' /\ CellsShaped'
    BY <2>1, IInvParts DEF Typed, CellsShaped
  <2>4. CountsExact'
    <3>1. count' \in [Chunks -> Nat] /\ \A o \in Chunks : Excess(count', box', cell', Retained, o) = 0
      BY <2>1, AllBalanced
    <3>. QED
      BY <2>2, <3>1, ExactNext
  <2>. QED
    BY <2>2, <2>3, <2>4, IInvPartsNext
<1>. QED
  BY <1>1, InitIInv, NextStep, PTL DEF Spec

-----------------------------------------------------------------------------
(* The theorems.                                                           *)

\* Whatever is retained, cleared, assigned and released in whatever order, the storage of
\* a handle is given back once, and a count is the number of those who refer to the chunk.
THEOREM HandlesAreSound == Spec => []HandlesSound
<1>1. IInv => HandlesSound
  BY DEF IInv
<1>. QED
  BY <1>1, Invariance, PTL

\* If the host does not assign an any that it got from a handle, every any leads to memory
\* that is there, and to a string that is.
THEOREM SelvesStayAlive == ~RetainedAnyAssigned => (Spec => []SelvesAlive)
<1>1. ASSUME ~RetainedAnyAssigned, IInv PROVE SelvesAlive
  <2>. SUFFICES ASSUME NEW self \in AnysOfCells \cup AnysOfHandles, self # Null
                PROVE  Readable(self) /\ (Inside(self) # Null => count[Inside(self)] > 0)
    BY DEF SelvesAlive
  <2>1. Readable(self)
    <3>1. ASSUME NEW c \in AnyCells, self = cell[c] PROVE Readable(self)
      <4>1. c \in Cells
        BY DEF Cells
      <4>2. self \in Boxes /\ Alive(self)
        BY <1>1, <3>1, <4>1, HeldAlive, IInvParts DEF CellsShaped
      <4>. QED
        BY <4>2 DEF Readable, Alive, Chunks
    <3>2. ASSUME NEW h \in Handles, Holds(h, "any"), self = handle[h].value PROVE Readable(self)
      <4>1. Shaped(handle[h], block)
        BY <1>1, IInvParts DEF HandlesShaped
      <4>. QED
        BY <3>2, <4>1 DEF Shaped, Holds, Readable
    <3>. QED
      BY <3>1, <3>2 DEF AnysOfCells, AnysOfHandles
  <2>2. Inside(self) \in Strings \cup {Null} /\ Alive(Inside(self))
    BY <1>1, <2>1, InsideAlive
  <2>. QED
    BY <2>1, <2>2 DEF Alive, Chunks
<1>. SUFFICES ASSUME ~RetainedAnyAssigned PROVE Spec => []SelvesAlive
  OBVIOUS
<1>2. IInv => SelvesAlive
  BY <1>1
<1>. QED
  BY <1>2, Invariance, PTL

\* What handles retain is alive.
LEMMA CountedAlive == IInv => \A h \in Handles : Alive(Counted(handle[h]))
BY HeldAlive

\* The same after a step.
LEMMA CountedAliveNext == IInv' => (\A h \in Handles : Alive(Counted(handle[h])))'
BY CountedAlive, PTL

\* What a handle keeps is what it has counted.
LEMMA KeptIsCounted ==
  ASSUME IInv, NEW h \in Handles, handle[h].kind = "value"
  PROVE  /\ Kept(h) \in Strings \cup {Null}
         /\ Kept(h) \in Strings => Kept(h) = Counted(handle[h])
         /\ Kept(h) = IF handle[h].storage \in Blocks
                      THEN IF handle[h].value = Null /\ handle[h].type = "any" THEN Null
                           ELSE block[handle[h].storage]
                      ELSE handle[h].value
<1>1. Shaped(handle[h], block)
  BY IInvParts DEF HandlesShaped
<1>. QED
  BY <1>1, HostHandlesAssumption DEF Shaped, Kept, Holds, HandleValue, Inside, Counted

\* While a handle is not touched, its storage is not: no two handles have the same, and
\* malloc does not give a block that is in use.
LEMMA BlocksOfOthers ==
  ASSUME IInv, Next, NEW h \in Handles, handle'[h] = handle[h], handle[h].kind = "value",
         handle[h].storage \in Blocks
  PROVE  block'[handle[h].storage] = block[handle[h].storage]
<1>. DEFINE s == handle[h].storage
<1>1. HandlesTyped /\ HandlesShaped
  BY IInvParts
<1>2. /\ block \in [Blocks -> Strings \cup {Null, "free", "no value"}]
      /\ handle \in [Handles -> HandleTypes]
  BY <1>1 DEF HandlesTyped, HandleTypes
<1>3. block[s] # "free"
  <2>1. s \in {handle[g].storage : g \in Handles} \ {Null}
    BY HostHandlesAssumption
  <2>2. {b \in Blocks : block[b] # "free"} = {handle[g].storage : g \in Handles} \ {Null}
    BY <1>1 DEF HandlesTyped
  <2>. QED
    BY <2>1, <2>2
<1>4. \A g \in Handles \ {h} : handle[g].storage # s
  BY <1>1, HostHandlesAssumption DEF HandlesTyped
<1>5. ASSUME NEW g \in Handles, NEW x, handle' = [handle EXCEPT ![g] = x], x.storage # s,
             NEW bl \in [Blocks -> Strings \cup {Null, "free", "no value"}], bl[s] = block[s],
             block' = Freed(handle[g], bl)
      PROVE  block'[s] = block[s]
  <2>1. g # h
    BY <1>2, <1>5
  <2>. QED
    BY <1>4, <1>5, <2>1 DEF Freed
<1>6. s # Null
  BY HostHandlesAssumption
<1>7. ASSUME NEW g \in Handles, NEW type \in {"str", "struct", "any"}, NEW v \in OfHost(type),
             RetainHostValue(g, type, v)
      PROVE  block'[s] = block[s]
  <2>0. Alive(v) /\ (type # "any" => v \in Strings \cup {Null})
    BY GivenAlive
  <2>1. CASE type = "str" /\ RetainStr(g, v)
    <3>. DEFINE x == [kind |-> "value", type |-> "str", value |-> v, storage |-> Null]
    <3>1. handle' = [handle EXCEPT ![g] = x] /\ block' = Freed(handle[g], block)
      BY <2>1 DEF RetainStr, Fill
    <3>2. x.storage # s
      BY <1>6
    <3>. HIDE DEF x, s
    <3>. QED
      BY <1>2, <1>5, <3>1, <3>2
  <2>2. ASSUME NEW b \in Blocks, block[b] = "free", type = "struct", RetainStruct(g, v, b)
        PROVE  block'[s] = block[s]
    <3>. DEFINE x == [kind |-> "value", type |-> "struct", value |-> Null, storage |-> b]
                bl == [block EXCEPT ![b] = v]
    <3>1. handle' = [handle EXCEPT ![g] = x] /\ block' = Freed(handle[g], bl)
      BY <2>2 DEF RetainStruct, Fill
    <3>2. x.storage # s /\ b # s
      BY <1>3, <2>2
    <3>3. bl \in [Blocks -> Strings \cup {Null, "free", "no value"}] /\ bl[s] = block[s]
      BY <1>2, <2>0, <2>2, <3>2
    <3>. HIDE DEF x, bl, s
    <3>. QED
      BY <1>5, <3>1, <3>2, <3>3
  <2>3. ASSUME NEW b \in Blocks, block[b] = "free", v # Null => Readable(v), RetainAny(g, v, b)
        PROVE  block'[s] = block[s]
    <3>. DEFINE x == [kind |-> "value", type |-> "any",
                      value |-> IF v = Null THEN Null ELSE b, storage |-> b]
                y == IF v = Null THEN "no value" ELSE Inside(v)
                bl == [block EXCEPT ![b] = y]
    <3>1. handle' = [handle EXCEPT ![g] = x] /\ block' = Freed(handle[g], bl)
      BY <2>3 DEF RetainAny, Fill
    <3>2. x.storage # s /\ b # s
      BY <1>3, <2>3
    <3>3. y \in Strings \cup {Null, "free", "no value"}
      BY <2>3, InsideAlive
    <3>4. bl \in [Blocks -> Strings \cup {Null, "free", "no value"}] /\ bl[s] = block[s]
      BY <1>2, <3>2, <3>3
    <3>. HIDE DEF x, bl, s
    <3>. QED
      BY <1>5, <3>1, <3>2, <3>4
  <2>. QED
    BY <1>7, <2>1, <2>2, <2>3 DEF RetainHostValue
<1>8. ASSUME NEW g \in Handles, NEW p, RetainHostData(g, p) PROVE block'[s] = block[s]
  <2>. DEFINE x == [kind |-> "data", type |-> Null, value |-> p, storage |-> Null]
  <2>1. handle' = [handle EXCEPT ![g] = x] /\ block' = Freed(handle[g], block)
    BY <1>8 DEF RetainHostData, Fill
  <2>2. x.storage # s
    BY <1>6
  <2>. HIDE DEF x, s
  <2>. QED
    BY <1>2, <1>5, <2>1, <2>2
<1>9. ASSUME NEW g \in Handles, ClearHostHandle(g) PROVE block'[s] = block[s]
  <2>1. handle' = [handle EXCEPT ![g] = Empty] /\ block' = Freed(handle[g], block)
    BY <1>9 DEF ClearHostHandle
  <2>2. Empty.storage # s
    BY <1>6 DEF Empty
  <2>. HIDE DEF s
  <2>. QED
    BY <1>2, <1>5, <2>1, <2>2
<1>. QED
  BY <1>7, <1>8, <1>9
     DEF Next, NewString, AssignHostValue, ReleaseHostValue, AssignCell, MakeDynamicValue, BoxValue

\* A retained value stays what it was, and the string it leads to is alive, until the
\* handle is cleared or filled.
THEOREM RetainedValuesStay == Spec => RetainedStays
<1>1. ASSUME IInv, IInv', Next, NEW h \in Handles, handle'[h] = handle[h],
             handle[h].kind = "value"
      PROVE  Kept(h)' = Kept(h) /\ (Kept(h) \in Strings => count'[Kept(h)] > 0)
  <2>1. Shaped(handle[h], block) /\ Shaped(handle[h], block')
    BY <1>1, IInvParts DEF IInv, HandlesShaped
  <2>2. handle[h].storage \in Blocks => block'[handle[h].storage] = block[handle[h].storage]
    BY <1>1, BlocksOfOthers
  <2>3. Kept(h)' = IF handle'[h].storage \in Blocks
                   THEN IF handle'[h].value = Null /\ handle'[h].type = "any" THEN Null
                        ELSE block'[handle'[h].storage]
                   ELSE handle'[h].value
    BY <1>1, <2>1, HostHandlesAssumption DEF Shaped, Kept, Holds, HandleValue, Inside
  <2>4. Kept(h)' = Kept(h)
    BY <1>1, <2>2, <2>3, KeptIsCounted
  <2>5. Kept(h) \in Strings => Counted(handle[h])' = Kept(h)
    BY <1>1, <2>2, KeptIsCounted DEF Counted
  <2>6. Alive(Counted(handle[h]))'
    <3>1. IInv' => Alive(Counted(handle[h]))'
      <4>1. IInv' => (\A g \in Handles : Alive(Counted(handle[g])))'
        BY CountedAliveNext
      <4>. QED
        BY <4>1
    <3>. QED
      BY <1>1, <3>1
  <2>. QED
    BY <2>4, <2>5, <2>6 DEF Alive, Chunks
<1>2. IInv /\ IInv' /\ [Next]_vars =>
        [\A h \in Handles :
           handle'[h] = handle[h] /\ handle[h].kind = "value" =>
             Kept(h)' = Kept(h) /\ (Kept(h) \in Strings => count'[Kept(h)] > 0)]_vars
  BY <1>1
<1>. QED
  BY <1>2, Invariance, PTL DEF Spec, RetainedStays

=============================================================================
