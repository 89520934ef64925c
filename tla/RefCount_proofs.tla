--------------------------- MODULE RefCount_proofs ---------------------------
(***************************************************************************)
(* Proofs about RefCount for all finite sets of objects and variables and  *)
(* all numbers of items, for programs that do not let go of an object that *)
(* they are assigning to, with callbacks that release nothing.             *)
(***************************************************************************)
EXTENDS RefCount, FiniteSetTheorems, WellFoundedInduction, SequenceTheorems, TLAPS

\* A finite family of finite sets has a minimal one.
LEMMA MinimalSet ==
  ASSUME NEW S, IsFiniteSet(S), NEW F \in SUBSET (SUBSET S), F # {}
  PROVE  \E x \in F : \A y \in F : y \subseteq x => y = x
<1>1. IsWellFoundedOn(StrictSubsetOrdering(S), SUBSET S)
  BY FS_StrictSubsetOrderingWellFounded, FS_FiniteSubsetsOfFinite
<1>2. PICK x \in F : \A y \in F : ~(<<y, x>> \in StrictSubsetOrdering(S))
  BY <1>1, WFMin
<1>. QED
  BY <1>2 DEF StrictSubsetOrdering

\* Replacing one member of a finite set changes its cardinality by what goes and
\* what comes.
LEMMA CountUpdate ==
  ASSUME NEW S, IsFiniteSet(S), NEW T, NEW u, NEW comes \in BOOLEAN,
         T = (S \ {u}) \cup (IF comes THEN {u} ELSE {})
  PROVE  /\ IsFiniteSet(T)
         /\ Cardinality(S) \in Nat /\ Cardinality(T) \in Nat
         /\ Cardinality(T) = Cardinality(S) - (IF u \in S THEN 1 ELSE 0)
                                            + (IF comes THEN 1 ELSE 0)
<1>1. /\ IsFiniteSet(S \ {u})
      /\ Cardinality(S \ {u}) = IF u \in S THEN Cardinality(S) - 1 ELSE Cardinality(S)
  BY FS_RemoveElement
<1>2. Cardinality(S) \in Nat /\ Cardinality(S \ {u}) \in Nat
  BY <1>1, FS_CardinalityType
<1>3. CASE comes
  <2>1. T = (S \ {u}) \cup {u}
    BY <1>3
  <2>2. IsFiniteSet(T) /\ Cardinality(T) = Cardinality(S \ {u}) + 1
    BY <1>1, <2>1, FS_AddElement
  <2>. QED
    BY <1>1, <1>2, <1>3, <2>2
<1>4. CASE ~comes
  <2>1. T = S \ {u}
    BY <1>4
  <2>. QED
    BY <1>1, <1>2, <1>4, <2>1
<1>. QED
  BY <1>3, <1>4

-----------------------------------------------------------------------------
(* The inductive invariant.                                                *)

\* Frames are pushed in one order: a release, and a callback in it.
Stacked ==
  /\ \/ cstack \in {<<>>, <<Release>>}
     \/ \E o \in Handles : cstack = <<Release, [fn |-> "onFree", obj |-> o]>> /\ count[o] = 1
  /\ Idle => candidates = <<>> /\ store = Null

\* Objects whose items are being released have one reference left.
LastReference ==
  \A i \in DOMAIN candidates : candidates[i].deferred =>
    candidates[i].ptr # Null /\ count[candidates[i].ptr.obj] = 1

\* Objects that have not been allocated
Unmade ==
  \A o \in Objs \ made :
    count[o] = 0 /\ calls[o] = 0 /\ \A i \in Cells : mem[o][i] = Null

\* Native data has no items, and variables have one cell.
Shaped ==
  /\ \A o \in Handles, i \in Cells : mem[o][i] = Null
  /\ \A v \in Vars, i \in Cells \ {1} : mem[v][i] = Null
  /\ lhs # Null => lhs.obj \notin Handles /\ lhs.cell \in Cells
  /\ store # Null => store.of \notin Handles /\ (store.of \in Vars => DOMAIN store.new = {1})

\* The objects in T hold no object outside it, and neither do the variables.
Closed(T) ==
  \A c \in Owning, o \in Objs :
    c[1] \in Vars \cup T /\ Refers(mem[c[1]][c[2]], o) => o \in T

\* The object that is assigned to is held, by a way that does not lead through the cells
\* that are assigned: its own release is out of the question.
Anchored ==
  store # Null /\ store.of \in Objs => \A T \in SUBSET Objs : Closed(T) => store.of \in T

IInv ==
  /\ CountsExact /\ OnFreeOnce /\ status = "running"
  /\ Stacked /\ LastReference /\ Unmade /\ Shaped /\ Anchored

-----------------------------------------------------------------------------
(* Counting references in cells.                                           *)

Hits(p, o) == IF Refers(p, o) THEN 1 ELSE 0

Places == (Objs \cup Vars) \X Cells

\* The cells of A that lead to o in the memory m
CellsTo(A, m, o) == {c \in A : Refers(m[c[1]][c[2]], o)}

\* The indices in D of the values in f that lead to o
IndicesTo(D, f, o) == {i \in D : Refers(f[i], o)}

\* Null leads nowhere, and every other pointer to one object.
LEMMA RefersTo ==
  /\ \A o : ~Refers(Null, o) /\ Hits(Null, o) = 0
  /\ \A p, o : Hits(p, o) \in Nat /\ (Hits(p, o) = 1 <=> Refers(p, o))
  /\ \A p \in Ptr : p # Null /\ p.obj \in Objs /\ Refers(p, p.obj)
                    /\ \A o : Refers(p, o) => o = p.obj
BY NullAssumption DEF Refers, Hits, Ptr

\* There are finitely many cells.
LEMMA PlacesFinite == IsFiniteSet(Cells) /\ IsFiniteSet(Places)
<1>1. IsFiniteSet(Cells)
  BY FS_Interval, RefCountAssumption DEF Cells
<1>2. IsFiniteSet(Objs \cup Vars)
  BY FS_Union, RefCountAssumption
<1>3. ASSUME NEW w \in Objs \cup Vars PROVE IsFiniteSet({w} \X Cells)
  <2>. DEFINE g == [i \in Cells |-> <<w, i>>]
  <2>1. g \in Surjection(Cells, {w} \X Cells)
    BY DEF Surjection
  <2>. QED
    BY <1>1, <2>1, FS_Surjection
<1>. DEFINE Rows == {{w} \X Cells : w \in Objs \cup Vars}
            h == [w \in Objs \cup Vars |-> {w} \X Cells]
<1>4. h \in Surjection(Objs \cup Vars, Rows)
  BY DEF Surjection
<1>5. IsFiniteSet(Rows)
  BY <1>2, <1>4, FS_Surjection
<1>6. IsFiniteSet(UNION Rows)
  BY <1>3, <1>5, FS_UNION
<1>7. Places = UNION Rows
  BY DEF Places
<1>. QED
  BY <1>1, <1>6, <1>7

\* The cells in D of w
Row(w, D) == {w} \X D

\* What a set of cells A and the cells in D of w make together, if they are disjoint
RowAdds(A, w, D, m, o) ==
  /\ Cardinality(CellsTo(A, m, o)) \in Nat
  /\ Cardinality(IndicesTo(D, m[w], o)) \in Nat
  /\ Cardinality(CellsTo(A \cup Row(w, D), m, o)) =
       Cardinality(CellsTo(A, m, o)) + Cardinality(IndicesTo(D, m[w], o))

\* The cells in D of w are added to A.
LEMMA RowAdded ==
  ASSUME NEW A, IsFiniteSet(A), NEW w, NEW D, IsFiniteSet(D), A \cap Row(w, D) = {},
         NEW m, NEW o
  PROVE  RowAdds(A, w, D, m, o)
<1>. DEFINE K == IndicesTo(D, m[w], o)
            R == CellsTo({w} \X D, m, o)
            g == [i \in K |-> <<w, i>>]
<1>1. IsFiniteSet(K) /\ Cardinality(K) \in Nat
  BY FS_Subset, FS_CardinalityType DEF IndicesTo
<1>2. g \in [K -> R]
  BY DEF IndicesTo, CellsTo
<1>3. g \in Surjection(K, R)
  BY <1>2 DEF Surjection, IndicesTo, CellsTo
<1>4. g \in Injection(K, R)
  BY <1>2 DEF Injection, IsInjective
<1>5. IsFiniteSet(R) /\ Cardinality(R) = Cardinality(K)
  BY <1>1, <1>3, <1>4, FS_Surjection
<1>6. IsFiniteSet(CellsTo(A, m, o)) /\ Cardinality(CellsTo(A, m, o)) \in Nat
  BY FS_Subset, FS_CardinalityType DEF CellsTo
<1>7. /\ CellsTo(A \cup ({w} \X D), m, o) = CellsTo(A, m, o) \cup R
      /\ CellsTo(A, m, o) \cap R = {}
  BY DEF CellsTo, Row
<1>8. Cardinality(CellsTo(A, m, o) \cup R) =
        Cardinality(CellsTo(A, m, o)) + Cardinality(R) - Cardinality(CellsTo(A, m, o) \cap R)
  BY <1>5, <1>6, FS_Union
<1>9. Cardinality(CellsTo(A, m, o) \cap R) = 0
  BY <1>7, FS_EmptySet
<1>. DEFINE B == CellsTo(A, m, o)
<1>. HIDE DEF K, R, B
<1>10. Cardinality(B \cup R) = Cardinality(B) + Cardinality(K)
  BY <1>1, <1>5, <1>6, <1>8, <1>9 DEF B
<1>. QED
  BY <1>1, <1>6, <1>7, <1>10 DEF B, K, RowAdds, Row

\* m and n are the same but for the cell c of A.
DifferAt(A, c, m, n) == \A d \in A \ {c} : n[d[1]][d[2]] = m[d[1]][d[2]]

\* What this means for the number of cells that lead to o
CellChanges(A, c, m, n, o) ==
  /\ Cardinality(CellsTo(A, m, o)) \in Nat
  /\ Cardinality(CellsTo(A, n, o)) =
       Cardinality(CellsTo(A, m, o)) - Hits(m[c[1]][c[2]], o) + Hits(n[c[1]][c[2]], o)

\* One cell of A is assigned.
LEMMA CellAssigned ==
  ASSUME NEW A, IsFiniteSet(A), NEW c \in A, NEW m, NEW n, DifferAt(A, c, m, n), NEW o
  PROVE  CellChanges(A, c, m, n, o)
<1>. DEFINE S == CellsTo(A, m, o)
            T == CellsTo(A, n, o)
            comes == Refers(n[c[1]][c[2]], o)
<1>1. IsFiniteSet(S)
  BY FS_Subset DEF CellsTo
<1>2. comes \in BOOLEAN
  BY DEF Refers
<1>3. T = (S \ {c}) \cup (IF comes THEN {c} ELSE {})
  BY DEF CellsTo, DifferAt
<1>4. c \in S <=> Refers(m[c[1]][c[2]], o)
  BY DEF CellsTo
<1>. HIDE DEF S, T, comes
<1>5. /\ Cardinality(S) \in Nat
      /\ Cardinality(T) = Cardinality(S) - (IF c \in S THEN 1 ELSE 0) + (IF comes THEN 1 ELSE 0)
  BY <1>1, <1>2, <1>3, CountUpdate
<1>. QED
  BY <1>4, <1>5 DEF S, T, comes, Hits, CellChanges

-----------------------------------------------------------------------------
(* Counting references in the stack of candidates.                         *)

Queued(q, o) == {i \in DOMAIN q : Refers(q[i].ptr, o)}

Pointers == Ptr \cup {Null}

\* Pointers are candidates, in the same order.
LEMMA CandidatesAre ==
  ASSUME NEW s \in Seq(Pointers)
  PROVE  /\ Candidates(s) \in Seq(Candidate)
         /\ Len(Candidates(s)) = Len(s) /\ Len(s) \in Nat /\ DOMAIN s = 1..Len(s)
         /\ \A i \in 1..Len(s) : /\ Candidates(s)[i].ptr = s[i] /\ ~Candidates(s)[i].deferred
                                 /\ s[i] \in Pointers
<1>1. Len(s) \in Nat /\ DOMAIN s = 1..Len(s) /\ \A i \in 1..Len(s) : s[i] \in Pointers
  BY LenProperties, ElementOfSeq
<1>2. Candidates(s) = [i \in 1..Len(s) |-> [ptr |-> s[i], deferred |-> FALSE]]
  BY <1>1 DEF Candidates
<1>3. Candidates(s) \in [1..Len(s) -> Candidate]
  BY <1>1, <1>2 DEF Candidate, Pointers
<1>. QED
  BY <1>1, <1>2, <1>3

\* Finitely many candidates lead to an object, and some do if one does.
LEMMA QueueFinite ==
  ASSUME NEW q \in Seq(Candidate), NEW o
  PROVE  /\ IsFiniteSet(Queued(q, o)) /\ Cardinality(Queued(q, o)) \in Nat
         /\ (\E i \in 1..Len(q) : Refers(q[i].ptr, o)) <=> Cardinality(Queued(q, o)) > 0
<1>1. Len(q) \in Nat /\ DOMAIN q = 1..Len(q)
  BY LenProperties
<1>2. IsFiniteSet(1..Len(q))
  BY <1>1, FS_Interval
<1>3. IsFiniteSet(Queued(q, o)) /\ Cardinality(Queued(q, o)) \in Nat
  BY <1>1, <1>2, FS_Subset, FS_CardinalityType DEF Queued
<1>4. Cardinality(Queued(q, o)) = 0 <=> Queued(q, o) = {}
  BY <1>3, FS_EmptySet
<1>5. Queued(q, o) # {} <=> \E i \in 1..Len(q) : Refers(q[i].ptr, o)
  BY <1>1 DEF Queued
<1>. QED
  BY <1>3, <1>4, <1>5

\* Taking the last candidate off
LEMMA QueuePopped ==
  ASSUME NEW q \in Seq(Candidate), q # <<>>
  PROVE  /\ Front(q) \in Seq(Candidate) /\ Last(q) \in Candidate
         /\ Len(q) \in Nat \ {0} /\ Len(Front(q)) = Len(q) - 1 /\ Last(q) = q[Len(q)]
         /\ \A i \in 1..(Len(q) - 1) : Front(q)[i] = q[i]
         /\ \A o : /\ Cardinality(Queued(q, o)) \in Nat
                   /\ Cardinality(Queued(Front(q), o)) =
                        Cardinality(Queued(q, o)) - Hits(Last(q).ptr, o)
<1>. DEFINE n == Len(q)
            t == Front(q)
<1>1. n \in Nat \ {0} /\ DOMAIN q = 1..n /\ \A i \in 1..n : q[i] \in Candidate
  BY EmptySeq, ElementOfSeq, LenProperties
<1>2. /\ SubSeq(q, 1, n - 1) \in Seq(Candidate)
      /\ Len(SubSeq(q, 1, n - 1)) = IF 1 <= n - 1 THEN (n - 1) - 1 + 1 ELSE 0
      /\ \A i \in 1..((n - 1) - 1 + 1) : SubSeq(q, 1, n - 1)[i] = q[1 + i - 1]
  BY <1>1, SubSeqProperties
<1>3. t = SubSeq(q, 1, n - 1) /\ Last(q) = q[n]
  BY DEF Front, Last
<1>4. /\ t \in Seq(Candidate) /\ Len(t) = n - 1 /\ \A i \in 1..(n - 1) : t[i] = q[i]
      /\ Last(q) \in Candidate
  BY <1>1, <1>2, <1>3
<1>5. DOMAIN t = 1..(n - 1)
  BY <1>4, LenProperties
<1>. HIDE DEF n, t
<1>6. ASSUME NEW o
      PROVE  /\ Cardinality(Queued(q, o)) \in Nat
             /\ Cardinality(Queued(t, o)) = Cardinality(Queued(q, o)) - Hits(q[n].ptr, o)
  <2>1. Queued(t, o) = Queued(q, o) \ {n}
    BY <1>1, <1>4, <1>5 DEF Queued
  <2>2. n \in Queued(q, o) <=> Refers(q[n].ptr, o)
    BY <1>1 DEF Queued
  <2>3. IsFiniteSet(Queued(q, o)) /\ Cardinality(Queued(q, o)) \in Nat
    BY QueueFinite
  <2>4. Cardinality(Queued(q, o) \ {n}) =
          IF n \in Queued(q, o) THEN Cardinality(Queued(q, o)) - 1 ELSE Cardinality(Queued(q, o))
    BY <2>3, FS_RemoveElement
  <2>. QED
    BY <2>1, <2>2, <2>3, <2>4 DEF Hits
<1>. QED
  BY <1>1, <1>3, <1>4, <1>6 DEF n, t

\* Putting others on
LEMMA QueueExtended ==
  ASSUME NEW q \in Seq(Candidate), NEW s \in Seq(Pointers), NEW o
  PROVE  /\ q \o Candidates(s) \in Seq(Candidate)
         /\ Cardinality(Queued(q, o)) \in Nat
         /\ Cardinality(IndicesTo(DOMAIN s, s, o)) \in Nat
         /\ Cardinality(Queued(q \o Candidates(s), o)) =
              Cardinality(Queued(q, o)) + Cardinality(IndicesTo(DOMAIN s, s, o))
<1>. DEFINE n == Len(q)
            r == q \o Candidates(s)
            K == IndicesTo(DOMAIN s, s, o)
            R == {i \in (n + 1)..(n + Len(s)) : Refers(r[i].ptr, o)}
            g == [i \in K |-> n + i]
<1>1. n \in Nat /\ DOMAIN q = 1..n
  BY LenProperties
<1>2. /\ Candidates(s) \in Seq(Candidate) /\ Len(Candidates(s)) = Len(s)
      /\ Len(s) \in Nat /\ DOMAIN s = 1..Len(s)
      /\ \A i \in 1..Len(s) : Candidates(s)[i].ptr = s[i]
  BY CandidatesAre
<1>. DEFINE t == Candidates(s)
<1>. HIDE DEF t
<1>21. t \in Seq(Candidate) /\ Len(t) = Len(s)
  BY <1>2 DEF t
<1>22. /\ q \o t \in Seq(Candidate) /\ Len(q \o t) = n + Len(t)
       /\ \A i \in 1..(n + Len(t)) : (q \o t)[i] = IF i <= n THEN q[i] ELSE t[i - n]
  BY <1>21, ConcatProperties
<1>3. /\ r \in Seq(Candidate) /\ Len(r) = n + Len(s)
      /\ \A i \in 1..(n + Len(s)) : r[i] = IF i <= n THEN q[i] ELSE Candidates(s)[i - n]
  BY <1>21, <1>22 DEF t
<1>4. DOMAIN r = 1..(n + Len(s))
  BY <1>3, LenProperties
<1>5. /\ \A i \in 1..n : r[i] = q[i]
      /\ \A i \in 1..Len(s) : n + i \in (n + 1)..(n + Len(s)) /\ r[n + i].ptr = s[i]
      /\ \A i \in (n + 1)..(n + Len(s)) : i - n \in 1..Len(s) /\ n + (i - n) = i
  BY <1>1, <1>2, <1>3
<1>. HIDE DEF n, r
<1>6. IsFiniteSet(K) /\ Cardinality(K) \in Nat
  <2>1. IsFiniteSet(1..Len(s))
    BY <1>2, FS_Interval
  <2>. QED
    BY <1>2, <2>1, FS_Subset, FS_CardinalityType DEF IndicesTo
<1>7. g \in [K -> R]
  BY <1>2, <1>5 DEF IndicesTo
<1>8. g \in Surjection(K, R)
  <2>1. ASSUME NEW i \in R PROVE \E k \in K : g[k] = i
    <3>1. i - n \in 1..Len(s) /\ n + (i - n) = i /\ Refers(r[i].ptr, o)
      BY <1>5
    <3>2. i - n \in K
      BY <1>2, <1>5, <3>1 DEF IndicesTo
    <3>. QED
      BY <3>1, <3>2
  <2>. QED
    BY <1>7, <2>1 DEF Surjection
<1>9. g \in Injection(K, R)
  BY <1>1, <1>2, <1>7 DEF Injection, IsInjective, IndicesTo
<1>10. IsFiniteSet(R) /\ Cardinality(R) = Cardinality(K)
  BY <1>6, <1>8, <1>9, FS_Surjection
<1>11. /\ Queued(r, o) = Queued(q, o) \cup R
       /\ Queued(q, o) \cap R = {}
  BY <1>1, <1>2, <1>4, <1>5 DEF Queued
<1>12. IsFiniteSet(Queued(q, o)) /\ Cardinality(Queued(q, o)) \in Nat
  BY QueueFinite
<1>. HIDE DEF K, R
<1>13. Cardinality(Queued(q, o) \cup R) =
         Cardinality(Queued(q, o)) + Cardinality(R) - Cardinality(Queued(q, o) \cap R)
  BY <1>10, <1>12, FS_Union
<1>14. Cardinality(Queued(q, o) \cap R) = 0
  BY <1>11, FS_EmptySet
<1>. QED
  BY <1>3, <1>6, <1>10, <1>11, <1>12, <1>13, <1>14 DEF r, K

\* A new stack of candidates
LEMMA QueueStarted ==
  ASSUME NEW s \in Seq(Pointers), NEW o
  PROVE  /\ Candidates(s) \in Seq(Candidate)
         /\ Cardinality(IndicesTo(DOMAIN s, s, o)) \in Nat
         /\ Cardinality(Queued(Candidates(s), o)) = Cardinality(IndicesTo(DOMAIN s, s, o))
         /\ \A i \in 1..Len(Candidates(s)) : ~Candidates(s)[i].deferred
<1>1. /\ Candidates(s) \in Seq(Candidate) /\ Len(Candidates(s)) = Len(s)
      /\ DOMAIN s = 1..Len(s)
      /\ \A i \in 1..Len(s) : Candidates(s)[i].ptr = s[i] /\ ~Candidates(s)[i].deferred
  BY CandidatesAre
<1>2. DOMAIN Candidates(s) = 1..Len(s)
  BY <1>1, LenProperties
<1>3. Queued(Candidates(s), o) = IndicesTo(DOMAIN s, s, o)
  BY <1>1, <1>2 DEF Queued, IndicesTo
<1>. QED
  BY <1>1, <1>3, QueueFinite

-----------------------------------------------------------------------------
(* What the counts add up from.                                            *)

Storing(o) == IF store = Null THEN 0 ELSE Occurrences(o, store.new)

Calling(o) == Cardinality({i \in DOMAIN cstack : cstack[i].fn = "onFree" /\ cstack[i].obj = o})

Sum(o) ==
  Cardinality(CellsTo(Owning, mem, o)) + Storing(o) + Cardinality(Queued(candidates, o)) + Calling(o)

OnFree(o) == [fn |-> "onFree", obj |-> o]

SumsUp == TypeOK /\ \A o \in Objs : count[o] = Sum(o)

\* The same, with names for the four terms
LEMMA ExactIs == CountsExact <=> SumsUp
BY DEF SumsUp, CountsExact, Sum, CellsTo, Queued, Storing, Calling

LEMMA ExactIsNext == CountsExact' <=> SumsUp'
BY ExactIs, PTL

\* Calls of callbacks, for the three forms that the C stack can have
CallsCounted ==
  /\ cstack = <<>> => \A o : Calling(o) = 0
  /\ cstack = <<Release>> => \A o : Calling(o) = 0
  /\ \A f \in Objs : cstack = <<Release, OnFree(f)>> =>
       \A o : Calling(o) = IF o = f THEN 1 ELSE 0

\* How often the callback of an object is on the C stack
LEMMA CallingIs == CallsCounted
<1>. DEFINE C(o) == {i \in DOMAIN cstack : cstack[i].fn = "onFree" /\ cstack[i].obj = o}
<1>1. Cardinality({}) = 0
  BY FS_EmptySet
<1>2. ASSUME cstack = <<>>, NEW o PROVE C(o) = {}
  BY <1>2
<1>3. ASSUME cstack = <<Release>>, NEW o PROVE C(o) = {}
  BY <1>3 DEF Release
<1>4. ASSUME NEW f \in Objs, cstack = <<Release, OnFree(f)>>, NEW o
      PROVE  C(o) = IF o = f THEN {2} ELSE {}
  <2>1. /\ DOMAIN cstack = {1, 2}
        /\ cstack[1].fn = "release" /\ cstack[2].fn = "onFree" /\ cstack[2].obj = f
    BY <1>4 DEF Release, OnFree
  <2>. QED
    BY <2>1
<1>5. Cardinality({2}) = 1
  BY FS_Singleton
<1>. QED
  BY <1>1, <1>2, <1>3, <1>4, <1>5 DEF Calling, CallsCounted

LEMMA CallingIsNext == CallsCounted'
BY CallingIs, PTL

\* Values that are stored
LEMMA StoresTyped ==
  ASSUME NEW s \in Store
  PROVE  /\ s # Null /\ s.of \in Objs \cup Vars
         /\ DOMAIN s.new \subseteq Cells /\ IsFiniteSet(DOMAIN s.new)
         /\ \A i \in DOMAIN s.new : s.new[i] \in Pointers
         /\ \A o : /\ Occurrences(o, s.new) = Cardinality(IndicesTo(DOMAIN s.new, s.new, o))
                   /\ Occurrences(o, s.new) \in Nat
                   /\ (\A i \in DOMAIN s.new : ~Refers(s.new[i], o)) => Occurrences(o, s.new) = 0
<1>1. /\ s.of \in Objs \cup Vars
      /\ \E D \in SUBSET Cells : s.new \in [D -> Ptr \cup {Null}]
  BY DEF Store
<1>2. /\ DOMAIN s.new \subseteq Cells /\ IsFiniteSet(DOMAIN s.new)
      /\ \A i \in DOMAIN s.new : s.new[i] \in Pointers
  BY <1>1, PlacesFinite, FS_Subset DEF Pointers
<1>3. ASSUME NEW o
      PROVE  /\ Occurrences(o, s.new) = Cardinality(IndicesTo(DOMAIN s.new, s.new, o))
             /\ IsFiniteSet(IndicesTo(DOMAIN s.new, s.new, o))
  BY <1>2, FS_Subset DEF Occurrences, IndicesTo
<1>4. ASSUME NEW o PROVE Occurrences(o, s.new) \in Nat
  BY <1>3, FS_CardinalityType
<1>5. ASSUME NEW o, \A i \in DOMAIN s.new : ~Refers(s.new[i], o)
      PROVE  Occurrences(o, s.new) = 0
  <2>1. IndicesTo(DOMAIN s.new, s.new, o) = {}
    BY <1>5 DEF IndicesTo
  <2>. QED
    BY <1>3, <2>1, FS_EmptySet
<1>6. s # Null
  BY NullAssumption
<1>. QED
  BY <1>1, <1>2, <1>3, <1>4, <1>5, <1>6

-----------------------------------------------------------------------------
(* What follows from exact counts.                                         *)

\* What types say of cells, candidates and counts
LEMMA Elements ==
  ASSUME TypeOK
  PROVE  /\ \A w \in Objs \cup Vars, i \in Cells : mem[w][i] \in Pointers
         /\ \A w \in Objs \cup Vars : mem[w] \in Seq(Pointers) /\ DOMAIN mem[w] = Cells
         /\ \A i \in 1..Len(candidates) :
              candidates[i] \in Candidate /\ candidates[i].ptr \in Pointers
         /\ \A o \in Objs : count[o] \in Nat /\ calls[o] \in Nat
         /\ Owning \subseteq Places /\ IsFiniteSet(Owning)
         /\ DOMAIN candidates = 1..Len(candidates) /\ Len(candidates) \in Nat
<1>1. mem \in [Objs \cup Vars -> [Cells -> Pointers]]
  BY DEF TypeOK, Pointers
<1>2. ASSUME NEW w \in Objs \cup Vars
      PROVE  mem[w] \in Seq(Pointers) /\ DOMAIN mem[w] = Cells
  <2>1. mem[w] \in [1..Width -> Pointers] /\ Width \in Nat
    BY <1>1, RefCountAssumption DEF Cells
  <2>. QED
    BY <2>1, SeqDef DEF Cells
<1>3. candidates \in Seq(Candidate)
  BY DEF TypeOK
<1>4. \A i \in 1..Len(candidates) : candidates[i] \in Candidate /\ candidates[i].ptr \in Pointers
  <2>1. \A i \in 1..Len(candidates) : candidates[i] \in Candidate
    BY <1>3, ElementOfSeq
  <2>2. \A c \in Candidate : c.ptr \in Pointers
    BY DEF Candidate, Pointers
  <2>. QED
    BY <2>1, <2>2
<1>5. Owning \subseteq Places
  BY DEF Owning, Places
<1>. QED
  BY <1>1, <1>2, <1>3, <1>4, <1>5, PlacesFinite, FS_Subset, LenProperties DEF TypeOK

\* Who refers to an object is counted.
LEMMA Counted ==
  ASSUME CountsExact, Stacked, NEW o \in Objs
  PROVE  /\ Cardinality(CellsTo(Owning, mem, o)) \in Nat /\ Storing(o) \in Nat
         /\ Cardinality(Queued(candidates, o)) \in Nat /\ Calling(o) \in Nat
         /\ count[o] = Sum(o) /\ count[o] \in Nat
         /\ \A c \in Owning : Refers(mem[c[1]][c[2]], o) => Cardinality(CellsTo(Owning, mem, o)) > 0
         /\ \A i \in 1..Len(candidates) :
              Refers(candidates[i].ptr, o) => Cardinality(Queued(candidates, o)) > 0
<1>1. TypeOK /\ count[o] = Sum(o)
  BY ExactIs DEF SumsUp
<1>2. IsFiniteSet(CellsTo(Owning, mem, o)) /\ Cardinality(CellsTo(Owning, mem, o)) \in Nat
  BY <1>1, Elements, FS_Subset, FS_CardinalityType DEF CellsTo
<1>3. Storing(o) \in Nat
  <2>1. CASE store = Null
    BY <2>1 DEF Storing
  <2>2. CASE store # Null
    <3>1. store \in Store
      BY <1>1, <2>2 DEF TypeOK
    <3>. QED
      BY <2>2, <3>1, StoresTyped DEF Storing
  <2>. QED
    BY <2>1, <2>2
<1>4. candidates \in Seq(Candidate)
  BY <1>1 DEF TypeOK
<1>5. Calling(o) \in Nat
  <2>1. CASE cstack \in {<<>>, <<Release>>}
    BY <2>1, CallingIs DEF CallsCounted
  <2>2. CASE \E f \in Handles : cstack = <<Release, [fn |-> "onFree", obj |-> f]>>
    <3>1. PICK f \in Handles : cstack = <<Release, OnFree(f)>>
      BY <2>2 DEF OnFree
    <3>. QED
      BY <3>1, CallingIs, RefCountAssumption DEF CallsCounted
  <2>. QED
    BY <2>1, <2>2 DEF Stacked
<1>6. \A c \in Owning : Refers(mem[c[1]][c[2]], o) => CellsTo(Owning, mem, o) # {}
  BY DEF CellsTo
<1>7. CellsTo(Owning, mem, o) # {} => Cardinality(CellsTo(Owning, mem, o)) > 0
  BY <1>2, FS_EmptySet
<1>. QED
  BY <1>1, <1>2, <1>3, <1>4, <1>5, <1>6, <1>7, QueueFinite, Elements

\* What is referred to is alive, and what a candidate with the last reference refers to is
\* referred to by nobody else.
LEMMA Referred ==
  ASSUME CountsExact, Stacked, NEW o \in Objs
  PROVE  /\ \A c \in Owning : Refers(mem[c[1]][c[2]], o) => count[o] > 0
         /\ \A i \in 1..Len(candidates) : Refers(candidates[i].ptr, o) =>
              /\ count[o] > 0
              /\ count[o] = 1 =>
                   /\ \A c \in Owning : ~Refers(mem[c[1]][c[2]], o)
                   /\ Storing(o) = 0 /\ Calling(o) = 0
                   /\ \A j \in 1..Len(candidates) : Refers(candidates[j].ptr, o) => j = i
         /\ Calling(o) > 0 /\ count[o] = 1 =>
              /\ \A c \in Owning : ~Refers(mem[c[1]][c[2]], o)
              /\ \A j \in 1..Len(candidates) : ~Refers(candidates[j].ptr, o)
<1>1. /\ Cardinality(CellsTo(Owning, mem, o)) \in Nat /\ Storing(o) \in Nat
      /\ Cardinality(Queued(candidates, o)) \in Nat /\ Calling(o) \in Nat
      /\ count[o] = Cardinality(CellsTo(Owning, mem, o)) + Storing(o)
                    + Cardinality(Queued(candidates, o)) + Calling(o)
      /\ \A c \in Owning : Refers(mem[c[1]][c[2]], o) => Cardinality(CellsTo(Owning, mem, o)) > 0
      /\ \A i \in 1..Len(candidates) :
           Refers(candidates[i].ptr, o) => Cardinality(Queued(candidates, o)) > 0
  BY Counted DEF Sum
<1>2. ASSUME NEW i \in 1..Len(candidates), Refers(candidates[i].ptr, o),
             NEW j \in 1..Len(candidates), Refers(candidates[j].ptr, o), i # j
      PROVE  Cardinality(Queued(candidates, o)) # 1
  <2>1. i \in Queued(candidates, o) /\ j \in Queued(candidates, o)
    BY <1>2, ExactIs, Elements DEF Queued, SumsUp
  <2>2. IsFiniteSet(Queued(candidates, o))
    BY QueueFinite, ExactIs DEF SumsUp, TypeOK
  <2>. QED
    BY <1>2, <2>1, <2>2, FS_Singleton
<1>3. ASSUME NEW i \in 1..Len(candidates), Refers(candidates[i].ptr, o), count[o] = 1
      PROVE  Cardinality(Queued(candidates, o)) = 1 /\ Cardinality(CellsTo(Owning, mem, o)) = 0
             /\ Storing(o) = 0 /\ Calling(o) = 0
  <2>1. Cardinality(Queued(candidates, o)) > 0
    BY <1>1, <1>3
  <2>. QED
    BY <1>1, <1>3, <2>1
<1>4. ASSUME Calling(o) > 0, count[o] = 1
      PROVE  Cardinality(Queued(candidates, o)) = 0 /\ Cardinality(CellsTo(Owning, mem, o)) = 0
  BY <1>1, <1>4
<1>5. ASSUME NEW c \in Owning, Refers(mem[c[1]][c[2]], o) PROVE count[o] > 0
  <2>1. Cardinality(CellsTo(Owning, mem, o)) > 0
    BY <1>1, <1>5
  <2>. QED
    BY <1>1, <2>1
<1>6. ASSUME NEW i \in 1..Len(candidates), Refers(candidates[i].ptr, o) PROVE count[o] > 0
  <2>1. Cardinality(Queued(candidates, o)) > 0
    BY <1>1, <1>6
  <2>. QED
    BY <1>1, <2>1
<1>7. /\ Cardinality(CellsTo(Owning, mem, o)) = 0 =>
           \A c \in Owning : ~Refers(mem[c[1]][c[2]], o)
      /\ Cardinality(Queued(candidates, o)) = 0 =>
           \A j \in 1..Len(candidates) : ~Refers(candidates[j].ptr, o)
  BY <1>1
<1>8. ASSUME NEW i \in 1..Len(candidates), Refers(candidates[i].ptr, o), count[o] = 1
      PROVE  /\ \A c \in Owning : ~Refers(mem[c[1]][c[2]], o)
             /\ Storing(o) = 0 /\ Calling(o) = 0
             /\ \A j \in 1..Len(candidates) : Refers(candidates[j].ptr, o) => j = i
  BY <1>2, <1>3, <1>7, <1>8
<1>. QED
  BY <1>4, <1>5, <1>6, <1>7, <1>8

-----------------------------------------------------------------------------
(* One iteration of a release.                                             *)

\* Candidates by their positions in the stack
LEMMA DyingAre ==
  ASSUME TypeOK, NEW o
  PROVE  o \in Dying <=> \E i \in 1..Len(candidates) :
                           candidates[i].deferred /\ candidates[i].ptr.obj = o
BY Elements DEF Dying

LEMMA DyingAreNext ==
  ASSUME TypeOK', NEW o
  PROVE  o \in Dying' <=> \E i \in 1..Len(candidates') :
                            candidates'[i].deferred /\ candidates'[i].ptr.obj = o
<1>1. DOMAIN candidates' = 1..Len(candidates')
  BY LenProperties DEF TypeOK
<1>. QED
  BY <1>1 DEF Dying

\* The cells of an object that is alive and whose items are not being released own
LEMMA OwningIs ==
  ASSUME NEW c
  PROVE  c \in Owning <=>
           /\ c \in Places
           /\ c[1] \in Vars \/ (c[1] \in Objs /\ count[c[1]] > 0 /\ c[1] \notin Dying)
           /\ store # Null => ~(c[1] = store.of /\ c[2] \in DOMAIN store.new)
BY DEF Owning, Places

\* In a release there is one frame, and the candidate is typed.
LEMMA InRelease ==
  ASSUME IInv, Releasing
  PROVE  /\ cstack = <<Release>> /\ \A o : Calling(o) = 0
         /\ candidates # <<>> =>
              /\ Len(candidates) \in Nat \ {0} /\ Last(candidates) = candidates[Len(candidates)]
              /\ Last(candidates) \in Candidate
              /\ Last(candidates).ptr \in Pointers
              /\ Last(candidates).deferred =>
                   Last(candidates).ptr # Null /\ count[Last(candidates).ptr.obj] = 1
<1>1. TypeOK
  BY ExactIs DEF IInv, SumsUp
<1>2. cstack = <<Release>>
  <2>1. CASE cstack = <<>>
    BY <2>1 DEF Releasing, Idle
  <2>2. ASSUME NEW f \in Handles, cstack = <<Release, OnFree(f)>> PROVE FALSE
    <3>1. Top = OnFree(f)
      BY <2>2 DEF Top, Last
    <3>. QED
      BY <3>1 DEF Releasing, OnFree
  <2>. QED
    BY <2>1, <2>2 DEF IInv, Stacked, OnFree
<1>3. candidates # <<>> =>
        /\ Len(candidates) \in Nat \ {0} /\ Last(candidates) = candidates[Len(candidates)]
        /\ Last(candidates) \in Candidate
  BY <1>1, QueuePopped DEF TypeOK
<1>4. \A c \in Candidate : c.ptr \in Pointers
  BY DEF Candidate, Pointers
<1>5. candidates # <<>> => Len(candidates) \in DOMAIN candidates
  BY <1>1, <1>3, Elements
<1>. QED
  BY <1>2, <1>3, <1>4, <1>5, CallingIs DEF CallsCounted, IInv, LastReference

\* The object that is assigned to is alive, and it is not one that no cell owns.
LEMMA StoreAlive ==
  ASSUME IInv, store # Null, store.of \in Objs
  PROVE  /\ count[store.of] > 0
         /\ \A o \in Objs : (\A c \in Owning : ~Refers(mem[c[1]][c[2]], o)) => store.of # o
<1>. DEFINE Live == {o \in Objs : count[o] > 0}
<1>1. Closed(Live)
  BY Referred DEF Closed, IInv
<1>2. ASSUME NEW o \in Objs, \A c \in Owning : ~Refers(mem[c[1]][c[2]], o)
      PROVE  Closed(Objs \ {o})
  BY <1>2 DEF Closed
<1>3. store.of \in Live
  BY <1>1 DEF IInv, Anchored
<1>4. ASSUME NEW o \in Objs, \A c \in Owning : ~Refers(mem[c[1]][c[2]], o)
      PROVE  store.of # o
  <2>1. Closed(Objs \ {o}) /\ Objs \ {o} \in SUBSET Objs
    BY <1>2, <1>4
  <2>. QED
    BY <2>1 DEF IInv, Anchored
<1>. QED
  BY <1>3, <1>4

\* As long as cells keep owning what they own, what is assigned to stays held.
LEMMA AnchoredKept ==
  ASSUME Anchored, UNCHANGED store,
         \A c \in Owning, o \in Objs : Refers(mem[c[1]][c[2]], o) =>
           c \in Owning' /\ Refers(mem'[c[1]][c[2]], o)
  PROVE  Anchored'
<1>1. ASSUME NEW T, Closed(T)' PROVE Closed(T)
  BY <1>1 DEF Closed
<1>. QED
  BY <1>1 DEF Anchored

\* What a release leaves alone
LEMMA ReleaseKeeps ==
  ASSUME IInv, UNCHANGED <<made, mem, store, lhs, calls>>,
         \A o \in Objs : count'[o] <= count[o] /\ count'[o] \in Nat
  PROVE  Unmade' /\ Shaped'
<1>1. \A o \in Objs : count[o] \in Nat
  BY Elements, ExactIs DEF IInv, SumsUp
<1>2. \A o \in Objs \ made : count[o] = 0
  BY DEF IInv, Unmade
<1>3. \A o \in Objs \ made : count'[o] = 0
  BY <1>1, <1>2
<1>. QED
  BY <1>3 DEF IInv, Unmade, Shaped

\* The last candidate is taken off.
LEMMA Popped ==
  ASSUME IInv, Releasing, candidates # <<>>, candidates' = Front(candidates)
  PROVE  /\ candidates' \in Seq(Candidate)
         /\ \A i \in 1..Len(candidates') : /\ i \in 1..Len(candidates) /\ i # Len(candidates)
                                           /\ candidates'[i] = candidates[i]
         /\ \A o : /\ Cardinality(Queued(candidates, o)) \in Nat
                   /\ Cardinality(Queued(candidates', o)) =
                        Cardinality(Queued(candidates, o)) - Hits(Last(candidates).ptr, o)
         /\ Dying' \subseteq Dying
         /\ \A x \in Dying \ Dying' : Last(candidates).deferred /\ x = Last(candidates).ptr.obj
         /\ Last(candidates).deferred => Last(candidates).ptr.obj \in Dying
<1>1. TypeOK /\ candidates \in Seq(Candidate) /\ DOMAIN candidates = 1..Len(candidates)
  BY ExactIs, Elements DEF IInv, SumsUp, TypeOK
<1>2. /\ candidates' \in Seq(Candidate) /\ Len(candidates) \in Nat \ {0}
      /\ Len(candidates') = Len(candidates) - 1
      /\ \A i \in 1..(Len(candidates) - 1) : candidates'[i] = candidates[i]
      /\ \A o : /\ Cardinality(Queued(candidates, o)) \in Nat
                /\ Cardinality(Queued(candidates', o)) =
                     Cardinality(Queued(candidates, o)) - Hits(Last(candidates).ptr, o)
      /\ Last(candidates) = candidates[Len(candidates)]
  BY <1>1, QueuePopped
<1>3. DOMAIN candidates' = 1..Len(candidates')
  BY <1>2, LenProperties
<1>4. \A i \in 1..Len(candidates') : /\ i \in 1..Len(candidates) /\ i # Len(candidates)
                                     /\ candidates'[i] = candidates[i]
  BY <1>2
<1>5. \A i \in 1..Len(candidates) : i \in 1..Len(candidates') \/ i = Len(candidates)
  BY <1>2
<1>6. Len(candidates) \in 1..Len(candidates)
  BY <1>2
<1>7. Dying' = {candidates'[i].ptr.obj : i \in {j \in 1..Len(candidates') : candidates'[j].deferred}}
  BY <1>3 DEF Dying
<1>8. Dying = {candidates[i].ptr.obj : i \in {j \in 1..Len(candidates) : candidates[j].deferred}}
  BY <1>1 DEF Dying
<1>9. Dying' \subseteq Dying
  BY <1>4, <1>7, <1>8
<1>10. ASSUME NEW x \in Dying \ Dying'
       PROVE  Last(candidates).deferred /\ x = Last(candidates).ptr.obj
  <2>1. PICK i \in 1..Len(candidates) : candidates[i].deferred /\ x = candidates[i].ptr.obj
    BY <1>8, <1>10
  <2>2. i \notin 1..Len(candidates')
    BY <1>4, <1>7, <1>10, <2>1
  <2>. QED
    BY <1>2, <1>5, <2>1, <2>2
<1>11. Last(candidates).deferred => Last(candidates).ptr.obj \in Dying
  BY <1>2, <1>6, <1>8
<1>. QED
  BY <1>2, <1>4, <1>9, <1>10, <1>11

\* The rest of the candidates keeps what is true of all.
LEMMA LastReferenceKept ==
  ASSUME IInv, candidates' \in Seq(Candidate),
         \A i \in 1..Len(candidates') : candidates'[i].deferred =>
           candidates'[i].ptr # Null /\ count'[candidates'[i].ptr.obj] = 1
  PROVE  LastReference'
BY LenProperties DEF LastReference

\* A null candidate
LEMMA SkipNullStep ==
  ASSUME IInv, Releasing, candidates # <<>>, Last(candidates).ptr = Null, SkipNull,
         UNCHANGED lhs
  PROVE  IInv'
<1>1. TypeOK /\ \A o \in Objs : count[o] = Sum(o)
  BY ExactIs DEF IInv, SumsUp
<1>2. /\ candidates' \in Seq(Candidate)
      /\ \A i \in 1..Len(candidates') : i \in 1..Len(candidates) /\ candidates'[i] = candidates[i]
      /\ \A o : /\ Cardinality(Queued(candidates, o)) \in Nat
                /\ Cardinality(Queued(candidates', o)) =
                     Cardinality(Queued(candidates, o)) - Hits(Last(candidates).ptr, o)
      /\ Dying' \subseteq Dying
      /\ \A x \in Dying \ Dying' : Last(candidates).deferred
  BY Popped DEF SkipNull
<1>3. TypeOK'
  BY <1>1, <1>2 DEF TypeOK, SkipNull, Idle, Releasing
<1>4. cstack = <<Release>> /\ ~Last(candidates).deferred
  BY InRelease
<1>5. Dying' = Dying
  BY <1>2, <1>4
<1>6. Owning' = Owning
  BY <1>5 DEF Owning, SkipNull
<1>7. ASSUME NEW o \in Objs PROVE count'[o] = Sum(o)'
  <2>1. Cardinality(Queued(candidates', o)) = Cardinality(Queued(candidates, o))
    BY <1>2, RefersTo
  <2>2. /\ Cardinality(CellsTo(Owning, mem, o))' = Cardinality(CellsTo(Owning, mem, o))
        /\ Storing(o)' = Storing(o) /\ Calling(o)' = Calling(o) /\ count'[o] = count[o]
    BY <1>6 DEF SkipNull, Storing, Calling
  <2>. QED
    BY <1>1, <2>1, <2>2 DEF Sum
<1>8. CountsExact'
  BY <1>3, <1>7, ExactIsNext DEF SumsUp
<1>9. Unmade' /\ Shaped'
  BY <1>1, Elements, ReleaseKeeps DEF SkipNull
<1>10. Anchored'
  BY <1>6, AnchoredKept DEF IInv, SkipNull
<1>11. OnFreeOnce' /\ status' = "running"
  BY DEF SkipNull, OnFreeOnce, IInv
<1>12. Stacked'
  BY <1>4 DEF SkipNull, Stacked, Idle
<1>13. LastReference'
  <2>1. DOMAIN candidates = 1..Len(candidates)
    BY <1>1, Elements
  <2>. QED
    BY <1>2, <2>1, LastReferenceKept DEF LastReference, IInv, SkipNull
<1>. QED
  BY <1>8, <1>9, <1>10, <1>11, <1>12, <1>13 DEF IInv

\* The callbacks on the C stack
LEMMA CallbacksAre ==
  /\ cstack = <<>> => \A o : [fn |-> "onFree", obj |-> o] \notin ToSet(cstack)
  /\ cstack = <<Release>> => \A o : [fn |-> "onFree", obj |-> o] \notin ToSet(cstack)
  /\ \A f \in Objs : cstack = <<Release, OnFree(f)>> =>
       \A o : [fn |-> "onFree", obj |-> o] \in ToSet(cstack) <=> o = f
<1>1. cstack = <<>> => ToSet(cstack) = {}
  BY DEF ToSet
<1>2. cstack = <<Release>> => ToSet(cstack) = {Release}
  <2>. SUFFICES ASSUME cstack = <<Release>> PROVE ToSet(cstack) = {Release}
    OBVIOUS
  <2>1. DOMAIN cstack = {1} /\ cstack[1] = Release
    OBVIOUS
  <2>. QED
    BY <2>1 DEF ToSet
<1>3. ASSUME NEW f \in Objs, cstack = <<Release, OnFree(f)>>
      PROVE  ToSet(cstack) = {Release, OnFree(f)}
  <2>1. DOMAIN cstack = {1, 2} /\ cstack[1] = Release /\ cstack[2] = OnFree(f)
    BY <1>3
  <2>. QED
    BY <2>1 DEF ToSet
<1>4. \A o, f : [fn |-> "onFree", obj |-> o] # Release
                /\ ([fn |-> "onFree", obj |-> o] = OnFree(f) <=> o = f)
  <2>. TAKE o, f
  <2>1. [fn |-> "onFree", obj |-> o].obj = o /\ OnFree(f).obj = f
    BY DEF OnFree
  <2>2. [fn |-> "onFree", obj |-> o].fn = "onFree" /\ Release.fn = "release"
    BY DEF Release
  <2>3. o = f => [fn |-> "onFree", obj |-> o] = OnFree(f)
    BY DEF OnFree
  <2>. QED
    BY <2>1, <2>2, <2>3
<1>5. ASSUME NEW f \in Objs, cstack = <<Release, OnFree(f)>>, NEW o
      PROVE  [fn |-> "onFree", obj |-> o] \in ToSet(cstack) <=> o = f
  <2>1. ToSet(cstack) = {Release, OnFree(f)}
    BY <1>3, <1>5
  <2>. QED
    BY <1>4, <2>1
<1>. QED
  BY <1>1, <1>2, <1>4, <1>5

CallbacksKnown ==
  /\ cstack = <<>> => \A o : [fn |-> "onFree", obj |-> o] \notin ToSet(cstack)
  /\ cstack = <<Release>> => \A o : [fn |-> "onFree", obj |-> o] \notin ToSet(cstack)
  /\ \A f \in Objs : cstack = <<Release, OnFree(f)>> =>
       \A o : [fn |-> "onFree", obj |-> o] \in ToSet(cstack) <=> o = f

LEMMA CallbacksKnownNext == CallbacksKnown'
<1>1. CallbacksKnown
  BY CallbacksAre DEF CallbacksKnown
<1>. QED
  BY <1>1, PTL

\* A frame is pushed on another one, and popped.
LEMMA TwoFrames ==
  ASSUME NEW a, NEW b
  PROVE  Append(<<a>>, b) = <<a, b>> /\ Front(<<a, b>>) = <<a>> /\ Front(<<a>>) = <<>>
<1>. DEFINE S == {a, b}
            t == Append(<<a>>, b)
            u == Front(<<a, b>>)
<1>1. <<a>> \in Seq(S) /\ <<a, b>> \in Seq(S) /\ Len(<<a>>) = 1 /\ Len(<<a, b>>) = 2
  OBVIOUS
<1>2. t \in Seq(S) /\ Len(t) = 2 /\ t[1] = a /\ t[2] = b
  BY <1>1, AppendProperties
<1>3. u \in Seq(S) /\ Len(u) = 1 /\ u[1] = a
  BY <1>1, SubSeqProperties DEF Front
<1>4. Front(<<a>>) = <<>>
  BY DEF Front
<1>5. t = <<a, b>>
  <2>. HIDE DEF t, S
  <2>1. t \in [1..Len(t) -> S]
    BY <1>2, LenProperties
  <2>2. DOMAIN t = {1, 2}
    BY <1>2, <2>1
  <2>3. t = [i \in {1, 2} |-> t[i]]
    BY <2>1, <2>2
  <2>. QED
    BY <1>2, <2>3
<1>6. u = <<a>>
  <2>. HIDE DEF u, S
  <2>1. u \in [1..Len(u) -> S]
    BY <1>3, LenProperties
  <2>2. DOMAIN u = {1}
    BY <1>3, <2>1
  <2>3. u = [i \in {1} |-> u[i]]
    BY <2>1, <2>2
  <2>. QED
    BY <1>3, <2>3
<1>. QED
  BY <1>4, <1>5, <1>6

\* The last reference to native data goes: its callback is called.
LEMMA CallbackStep ==
  ASSUME IInv, Releasing, candidates # <<>>, Last(candidates).ptr # Null, UNCHANGED lhs,
         NEW o, o = Last(candidates).ptr.obj, Last(candidates).deferred,
         o \in Handles, count[o] = 1, Decrement(o, Front(candidates))
  PROVE  IInv'
<1>. DEFINE c == Last(candidates)
<1>1. TypeOK /\ \A x \in Objs : count[x] = Sum(x)
  BY ExactIs DEF IInv, SumsUp
<1>2. /\ cstack = <<Release>> /\ \A x : Calling(x) = 0
      /\ c.ptr \in Ptr /\ o \in Objs /\ \A x : Refers(c.ptr, x) <=> x = o
  <2>1. cstack = <<Release>> /\ (\A x : Calling(x) = 0) /\ c.ptr \in Pointers
    BY InRelease
  <2>2. c.ptr \in Ptr
    BY <2>1 DEF Pointers
  <2>. QED
    BY <2>1, <2>2, RefersTo
<1>3. /\ candidates' = Front(candidates)
      /\ cstack' = Append(cstack, OnFree(o))
      /\ calls' = [calls EXCEPT ![o] = @ + 1]
      /\ UNCHANGED <<made, count, mem, store, status>>
  BY DEF Decrement, OnFree
<1>4. /\ candidates' \in Seq(Candidate)
      /\ \A i \in 1..Len(candidates') : i \in 1..Len(candidates) /\ candidates'[i] = candidates[i]
      /\ \A x : /\ Cardinality(Queued(candidates, x)) \in Nat
                /\ Cardinality(Queued(candidates', x)) =
                     Cardinality(Queued(candidates, x)) - Hits(c.ptr, x)
      /\ Dying' \subseteq Dying
      /\ \A x \in Dying \ Dying' : x = o
  BY <1>3, Popped
<1>. HIDE DEF c
<1>5. cstack' = <<Release, OnFree(o)>>
  <2>1. Append(<<Release>>, OnFree(o)) = <<Release, OnFree(o)>>
    BY TwoFrames
  <2>. QED
    BY <1>2, <1>3, <2>1
<1>6. TypeOK'
  <2>1. cstack' \in Seq(Frame)
    BY <1>2, <1>5 DEF Frame, Release, OnFree
  <2>2. calls' \in [Objs -> Nat]
    BY <1>1, <1>2, <1>3 DEF TypeOK
  <2>3. ~(Idle')
    BY <1>5 DEF Idle
  <2>. QED
    BY <1>1, <1>3, <1>4, <2>1, <2>2, <2>3 DEF TypeOK
<1>7. /\ \A d \in Owning : d \in Owning'
      /\ \A d \in Owning' \ Owning : d \in Places /\ d[1] = o
  BY <1>3, <1>4 DEF Owning, Places
<1>8. \A d \in Places : d[1] = o => mem[d[1]][d[2]] = Null
  BY DEF IInv, Shaped, Places
<1>9. \A x : CellsTo(Owning', mem, x) = CellsTo(Owning, mem, x)
  BY <1>7, <1>8, RefersTo DEF CellsTo
<1>10. ASSUME NEW x \in Objs PROVE count'[x] = Sum(x)'
  <2>1. Calling(x)' = IF x = o THEN 1 ELSE 0
    BY <1>2, <1>5, CallingIsNext DEF CallsCounted
  <2>2. Hits(c.ptr, x) = IF x = o THEN 1 ELSE 0
    BY <1>2 DEF Hits
  <2>3. /\ Cardinality(CellsTo(Owning, mem, x))' = Cardinality(CellsTo(Owning, mem, x))
        /\ Storing(x)' = Storing(x) /\ count'[x] = count[x]
    BY <1>3, <1>9 DEF Storing
  <2>4. /\ Cardinality(CellsTo(Owning, mem, x)) \in Nat /\ Storing(x) \in Nat
    BY Counted DEF IInv
  <2>. QED
    BY <1>1, <1>2, <1>4, <2>1, <2>2, <2>3, <2>4 DEF Sum
<1>11. CountsExact'
  BY <1>6, <1>10, ExactIsNext DEF SumsUp
<1>12. Unmade' /\ Shaped'
  <2>1. o \in made
    BY <1>2 DEF IInv, Unmade
  <2>2. \A x \in Objs : x # o => calls'[x] = calls[x]
    BY <1>1, <1>3 DEF TypeOK
  <2>. QED
    BY <1>3, <2>1, <2>2 DEF IInv, Unmade, Shaped
<1>13. Anchored'
  BY <1>3, <1>7, AnchoredKept DEF IInv
<1>14. OnFreeOnce'
  <2>1. o \in made
    BY <1>2 DEF IInv, Unmade
  <2>2. \A x : [fn |-> "onFree", obj |-> x] \in ToSet(cstack') <=> x = o
    BY <1>2, <1>5, CallbacksKnownNext DEF CallbacksKnown
  <2>3. \A x : [fn |-> "onFree", obj |-> x] \notin ToSet(cstack)
    BY <1>2, CallbacksAre
  <2>4. \A x \in Objs : calls[x] = IF x \in Handles \cap made /\ count[x] = 0 THEN 1 ELSE 0
    BY <2>3 DEF IInv, OnFreeOnce
  <2>5. \A x \in Objs : calls'[x] = IF x = o THEN calls[x] + 1 ELSE calls[x]
    BY <1>1, <1>3 DEF TypeOK
  <2>6. ASSUME NEW x \in Objs
        PROVE  calls'[x] = IF x \in Handles \cap made /\ (count[x] = 0 \/ x = o) THEN 1 ELSE 0
    <3>1. CASE x = o
      <4>1. calls[x] = 0
        BY <2>4, <3>1
      <4>2. calls'[x] = 1
        BY <2>5, <3>1, <4>1
      <4>. QED
        BY <2>1, <3>1, <4>2
    <3>2. CASE x # o
      BY <2>4, <2>5, <3>2
    <3>. QED
      BY <3>1, <3>2
  <2>. QED
    BY <1>3, <2>2, <2>6 DEF OnFreeOnce
<1>15. Stacked' /\ status' = "running"
  <2>1. ~(Idle')
    BY <1>5 DEF Idle
  <2>. QED
    BY <1>3, <1>5, <2>1 DEF Stacked, OnFree, IInv
<1>16. LastReference'
  <2>1. DOMAIN candidates = 1..Len(candidates)
    BY <1>1, Elements
  <2>. QED
    BY <1>3, <1>4, <2>1, LastReferenceKept DEF LastReference, IInv
<1>. QED
  BY <1>11, <1>12, <1>13, <1>14, <1>15, <1>16 DEF IInv

\* A reference goes, but not the last one to native data.
LEMMA DecrementStep ==
  ASSUME IInv, Releasing, candidates # <<>>, Last(candidates).ptr # Null, UNCHANGED lhs,
         NEW o, o = Last(candidates).ptr.obj, Last(candidates).deferred \/ count[o] > 1,
         ~(o \in Handles /\ count[o] = 1), Decrement(o, Front(candidates))
  PROVE  IInv'
<1>. DEFINE c == Last(candidates)
<1>1. TypeOK /\ \A x \in Objs : count[x] = Sum(x) /\ count[x] \in Nat
  BY ExactIs, Elements DEF IInv, SumsUp
<1>2. /\ cstack = <<Release>> /\ (c.deferred => count[o] = 1)
      /\ c = candidates[Len(candidates)] /\ Len(candidates) \in 1..Len(candidates)
      /\ c.ptr \in Ptr /\ o \in Objs /\ \A x : Refers(c.ptr, x) <=> x = o
  <2>1. /\ cstack = <<Release>> /\ (c.deferred => count[o] = 1) /\ c.ptr \in Pointers
        /\ c = candidates[Len(candidates)] /\ Len(candidates) \in Nat \ {0}
    BY InRelease
  <2>2. c.ptr \in Ptr
    BY <2>1 DEF Pointers
  <2>. QED
    BY <2>1, <2>2, RefersTo
<1>3. /\ candidates' = Front(candidates)
      /\ count' = [count EXCEPT ![o] = @ - 1]
      /\ UNCHANGED <<made, mem, cstack, store, calls, status>>
  BY DEF Decrement
<1>4. /\ candidates' \in Seq(Candidate)
      /\ \A i \in 1..Len(candidates') : /\ i \in 1..Len(candidates) /\ i # Len(candidates)
                                        /\ candidates'[i] = candidates[i]
      /\ \A x : /\ Cardinality(Queued(candidates, x)) \in Nat
                /\ Cardinality(Queued(candidates', x)) =
                     Cardinality(Queued(candidates, x)) - Hits(c.ptr, x)
      /\ Dying' \subseteq Dying
      /\ \A x \in Dying \ Dying' : c.deferred /\ x = o
      /\ c.deferred => o \in Dying
  BY <1>3, Popped
<1>. HIDE DEF c
<1>5. /\ \A x \in Objs : count'[x] = IF x = o THEN count[x] - 1 ELSE count[x]
      /\ count[o] > 0
  <2>1. count[o] > 0
    BY <1>2, Referred DEF IInv
  <2>. QED
    BY <1>1, <1>3, <2>1 DEF TypeOK
<1>6. \A x \in Objs : count'[x] \in Nat /\ count'[x] <= count[x]
  BY <1>1, <1>5
<1>7. TypeOK'
  <2>1. count' \in [Objs -> Nat]
    BY <1>1, <1>3, <1>6 DEF TypeOK
  <2>. QED
    BY <1>1, <1>3, <1>4, <2>1 DEF TypeOK, Idle, Releasing
<1>8. ASSUME NEW x \in Dying PROVE count[x] = 1 /\ x \in Objs
  <2>1. PICK i \in 1..Len(candidates) : candidates[i].deferred /\ candidates[i].ptr.obj = x
    BY <1>1, <1>8, DyingAre
  <2>2. candidates[i].ptr # Null /\ count[x] = 1
    BY <1>1, <2>1, Elements DEF IInv, LastReference
  <2>3. candidates[i].ptr \in Ptr
    BY <1>1, <2>2, Elements DEF Pointers
  <2>. QED
    BY <2>1, <2>2, <2>3, RefersTo
<1>9. Owning' = Owning
  <2>1. \A x \in Objs : (count'[x] > 0 /\ x \notin Dying') <=> (count[x] > 0 /\ x \notin Dying)
    <3>. TAKE x \in Objs
    <3>1. CASE x # o
      BY <1>4, <1>5, <3>1
    <3>2. CASE x = o /\ c.deferred
      <4>1. x \in Dying /\ count'[x] = 0
        BY <1>1, <1>2, <1>4, <1>5, <3>2
      <4>. QED
        BY <4>1
    <3>3. CASE x = o /\ ~c.deferred
      <4>1. count[x] \in Nat /\ count[x] > 1 /\ count'[x] = count[x] - 1
        BY <1>1, <1>2, <1>5, <3>3 DEF c
      <4>2. x \notin Dying
        BY <1>8, <4>1
      <4>3. x \notin Dying'
        BY <1>4, <4>2
      <4>. QED
        BY <4>1, <4>2, <4>3
    <3>. QED
      BY <3>1, <3>2, <3>3
  <2>. QED
    BY <1>3, <2>1 DEF Owning
<1>10. ASSUME NEW x \in Objs PROVE count'[x] = Sum(x)'
  <2>1. Hits(c.ptr, x) = IF x = o THEN 1 ELSE 0
    BY <1>2 DEF Hits
  <2>2. /\ Cardinality(CellsTo(Owning, mem, x))' = Cardinality(CellsTo(Owning, mem, x))
        /\ Storing(x)' = Storing(x) /\ Calling(x)' = Calling(x)
    BY <1>3, <1>9 DEF Storing, Calling
  <2>3. /\ Cardinality(CellsTo(Owning, mem, x)) \in Nat /\ Storing(x) \in Nat
        /\ Calling(x) \in Nat
    BY Counted DEF IInv
  <2>. QED
    BY <1>1, <1>4, <1>5, <2>1, <2>2, <2>3 DEF Sum
<1>11. CountsExact'
  BY <1>7, <1>10, ExactIsNext DEF SumsUp
<1>12. Unmade' /\ Shaped'
  BY <1>3, <1>6, ReleaseKeeps
<1>13. Anchored'
  BY <1>3, <1>9, AnchoredKept DEF IInv
<1>14. OnFreeOnce'
  <2>1. \A x \in Handles \cap Objs : count'[x] = 0 <=> count[x] = 0
    BY <1>1, <1>5
  <2>. QED
    BY <1>3, <2>1, RefCountAssumption DEF OnFreeOnce, IInv
<1>15. Stacked' /\ status' = "running"
  BY <1>2, <1>3 DEF Stacked, Idle, IInv
<1>16. LastReference'
  <2>1. ASSUME NEW i \in 1..Len(candidates'), candidates'[i].deferred
        PROVE  candidates'[i].ptr # Null /\ count'[candidates'[i].ptr.obj] = 1
    <3>1. /\ i \in 1..Len(candidates) /\ i # Len(candidates) /\ candidates'[i] = candidates[i]
          /\ candidates[i].deferred
      BY <1>4, <2>1
    <3>2. candidates[i].ptr # Null /\ count[candidates[i].ptr.obj] = 1
      BY <1>1, <3>1, Elements DEF IInv, LastReference
    <3>3. candidates[i].ptr \in Ptr
      BY <1>1, <3>1, <3>2, Elements DEF Pointers
    <3>4. candidates[i].ptr.obj # o
      <4>1. \A j \in 1..Len(candidates) :
              count[o] = 1 /\ Refers(candidates[j].ptr, o) => j = Len(candidates)
        BY <1>2, Referred DEF IInv
      <4>. QED
        BY <3>1, <3>2, <3>3, <4>1, RefersTo
    <3>. QED
      BY <1>5, <3>1, <3>2, <3>3, <3>4, RefersTo
  <2>. QED
    BY <1>4, <2>1, LastReferenceKept
<1>. QED
  BY <1>11, <1>12, <1>13, <1>14, <1>15, <1>16 DEF IInv

\* What has become of the candidates, if d took the place of the last one, and s were put on
Defers(d, s) ==
  /\ candidates' \in Seq(Candidate)
  /\ \A i \in 1..Len(candidates') : candidates'[i].deferred =>
       \/ i \in 1..Len(candidates) /\ candidates'[i] = candidates[i]
       \/ candidates'[i] = d
  /\ \A i \in 1..Len(candidates) : i # Len(candidates) =>
       i \in 1..Len(candidates') /\ candidates'[i] = candidates[i]
  /\ \E i \in 1..Len(candidates') : candidates'[i] = d
  /\ \A o : /\ Cardinality(Queued(candidates, o)) \in Nat
            /\ Cardinality(IndicesTo(DOMAIN s, s, o)) \in Nat
            /\ Cardinality(Queued(candidates', o)) =
                 Cardinality(Queued(candidates, o)) + Cardinality(IndicesTo(DOMAIN s, s, o))

Marked(c) == [ptr |-> c.ptr, deferred |-> TRUE]

\* The last candidate is marked, and the values s are put on.
LEMMA Deferred ==
  ASSUME TypeOK, candidates # <<>>, Last(candidates).ptr \in Pointers, NEW s \in Seq(Pointers),
         candidates' = Append(Front(candidates), Marked(Last(candidates))) \o Candidates(s)
  PROVE  Defers(Marked(Last(candidates)), s)
<1>. DEFINE d == Marked(Last(candidates))
            n == Len(candidates)
            t == Front(candidates)
            q == Append(t, d)
            r == Candidates(s)
<1>1. /\ t \in Seq(Candidate) /\ n \in Nat \ {0} /\ Len(t) = n - 1
      /\ Last(candidates) = candidates[n] /\ candidates \in Seq(Candidate)
      /\ \A i \in 1..(n - 1) : t[i] = candidates[i]
  BY QueuePopped DEF TypeOK
<1>2. d \in Candidate /\ d.ptr = Last(candidates).ptr
  BY DEF Candidate, Pointers, Marked
<1>. HIDE DEF d
<1>3. /\ q \in Seq(Candidate) /\ Len(q) = n /\ q[n] = d
      /\ \A i \in 1..(n - 1) : q[i] = candidates[i]
  <2>. HIDE DEF t, n
  <2>1. /\ q \in Seq(Candidate) /\ Len(q) = Len(t) + 1
        /\ \A i \in 1..Len(t) : q[i] = t[i]
        /\ q[Len(t) + 1] = d
    BY <1>1, <1>2, AppendProperties
  <2>. HIDE DEF q
  <2>. QED
    BY <1>1, <2>1
<1>. HIDE DEF n, t, q
<1>4. /\ r \in Seq(Candidate) /\ Len(r) = Len(s) /\ Len(s) \in Nat
      /\ \A i \in 1..Len(s) : ~r[i].deferred
  BY CandidatesAre
<1>. HIDE DEF r
<1>5. candidates' = q \o r
  BY DEF d, q, r, t
<1>6. /\ candidates' \in Seq(Candidate) /\ Len(candidates') = n + Len(s)
      /\ \A i \in 1..(n + Len(s)) : candidates'[i] = IF i <= n THEN q[i] ELSE r[i - n]
  <2>1. /\ q \o r \in Seq(Candidate) /\ Len(q \o r) = Len(q) + Len(r)
        /\ \A i \in 1..(Len(q) + Len(r)) :
             (q \o r)[i] = IF i <= Len(q) THEN q[i] ELSE r[i - Len(q)]
    <3>1. q \in Seq(Candidate) /\ r \in Seq(Candidate)
      BY <1>3, <1>4
    <3>. QED
      BY ONLY <3>1, ConcatProperties
  <2>. QED
    BY <1>3, <1>4, <1>5, <2>1
<1>7. \A i \in 1..n : i \in 1..(n + Len(s)) /\ (i # n => i \in 1..(n - 1))
  BY <1>1, <1>4
<1>71. n \in Nat \ {0} /\ Len(s) \in Nat
  BY <1>1, <1>4
<1>72. \A i \in 1..(n + Len(s)) : candidates'[i] = IF i <= n THEN q[i] ELSE r[i - n]
  BY <1>6
<1>8. \A i \in 1..n : candidates'[i] = q[i]
  BY ONLY <1>71, <1>72
<1>9. ASSUME NEW i \in 1..(n + Len(s)), candidates'[i].deferred
      PROVE  (i \in 1..n /\ candidates'[i] = candidates[i]) \/ candidates'[i] = d
  <2>1. CASE i <= n
    <3>1. i \in 1..n
      BY <1>1, <2>1
    <3>2. CASE i = n
      BY <1>3, <1>8, <3>1, <3>2
    <3>3. CASE i # n
      BY <1>3, <1>7, <1>8, <3>1, <3>3
    <3>. QED
      BY <3>2, <3>3
  <2>2. CASE ~(i <= n)
    <3>1. i - n \in 1..Len(s) /\ candidates'[i] = r[i - n]
      BY ONLY <1>9, <1>71, <1>72, <2>2
    <3>. QED
      BY <1>4, <1>9, <3>1
  <2>. QED
    BY <2>1, <2>2
<1>10. ASSUME NEW o PROVE Queued(q, o) = Queued(candidates, o)
  <2>1. DOMAIN q = 1..n /\ DOMAIN candidates = 1..n
    BY <1>1, <1>3, LenProperties DEF n
  <2>2. \A i \in 1..n : q[i].ptr = candidates[i].ptr
    <3>. TAKE i \in 1..n
    <3>1. CASE i = n
      BY <1>1, <1>2, <1>3, <3>1
    <3>2. CASE i # n
      BY <1>3, <1>7, <3>2
    <3>. QED
      BY <3>1, <3>2
  <2>. QED
    BY <2>1, <2>2 DEF Queued
<1>11. \A o : /\ Cardinality(Queued(q, o)) \in Nat
              /\ Cardinality(IndicesTo(DOMAIN s, s, o)) \in Nat
              /\ Cardinality(Queued(q \o r, o)) =
                   Cardinality(Queued(q, o)) + Cardinality(IndicesTo(DOMAIN s, s, o))
  BY <1>3, QueueExtended DEF r
<1>12. n \in 1..(n + Len(s)) /\ n \in 1..n /\ candidates'[n] = d
  <2>1. n \in 1..(n + Len(s)) /\ n \in 1..n
    BY ONLY <1>71
  <2>. QED
    BY <1>3, <1>8, <2>1
<1>13. \A i \in 1..n : i # n => i \in 1..(n + Len(s)) /\ candidates'[i] = candidates[i]
  BY <1>3, <1>7, <1>8
<1>. QED
  BY <1>5, <1>6, <1>9, <1>10, <1>11, <1>12, <1>13 DEF n, d, Defers

\* The last reference to an object is put back, and its items are to be released first.
LEMMA DeferralStep ==
  ASSUME IInv, Releasing, candidates # <<>>, Last(candidates).ptr # Null, UNCHANGED lhs,
         NEW o, o = Last(candidates).ptr.obj, ~Last(candidates).deferred, count[o] = 1,
         candidates' = Append(Front(candidates), [ptr |-> Last(candidates).ptr, deferred |-> TRUE])
                         \o Children(Last(candidates).ptr),
         UNCHANGED <<made, count, mem, cstack, store, calls, status>>
  PROVE  IInv'
<1>. DEFINE c == Last(candidates)
            d == Marked(c)
            s == IF o \in Handles THEN <<>> ELSE mem[o]
<1>1. TypeOK /\ \A x \in Objs : count[x] = Sum(x)
  BY ExactIs DEF IInv, SumsUp
<1>2. /\ cstack = <<Release>> /\ c \in Candidate
      /\ c = candidates[Len(candidates)] /\ Len(candidates) \in 1..Len(candidates)
      /\ c.ptr \in Ptr /\ o \in Objs /\ \A x : Refers(c.ptr, x) <=> x = o
  <2>1. /\ cstack = <<Release>> /\ c.ptr \in Pointers /\ c \in Candidate
        /\ c = candidates[Len(candidates)] /\ Len(candidates) \in Nat \ {0}
    BY InRelease
  <2>2. c.ptr \in Ptr
    BY <2>1 DEF Pointers
  <2>. QED
    BY <2>1, <2>2, RefersTo
<1>4. s \in Seq(Pointers) /\ Children(c.ptr) = Candidates(s)
  <2>1. CASE o \in Handles
    <3>1. Candidates(<<>>) = <<>> /\ <<>> \in Seq(Pointers)
      BY DEF Candidates
    <3>. QED
      BY <2>1, <3>1 DEF Children
  <2>2. CASE o \notin Handles
    BY <1>1, <1>2, <2>2, Elements DEF Children
  <2>. QED
    BY <2>1, <2>2
<1>5. \A x : IndicesTo(DOMAIN s, s, x) = IndicesTo(Cells, mem[o], x)
  <2>1. CASE o \in Handles
    <3>1. \A i \in Cells : mem[o][i] = Null
      BY <2>1 DEF IInv, Shaped
    <3>. QED
      BY <2>1, <3>1, RefersTo DEF IndicesTo
  <2>2. CASE o \notin Handles
    BY <1>1, <1>2, <2>2, Elements
  <2>. QED
    BY <2>1, <2>2
<1>. HIDE DEF c, d, s
<1>6. /\ candidates' \in Seq(Candidate)
      /\ \A i \in 1..Len(candidates') : candidates'[i].deferred =>
           \/ i \in 1..Len(candidates) /\ candidates'[i] = candidates[i]
           \/ candidates'[i] = d
      /\ \A i \in 1..Len(candidates) : i # Len(candidates) =>
           i \in 1..Len(candidates') /\ candidates'[i] = candidates[i]
      /\ \E i \in 1..Len(candidates') : candidates'[i] = d
      /\ \A x : /\ Cardinality(Queued(candidates, x)) \in Nat
                /\ Cardinality(IndicesTo(Cells, mem[o], x)) \in Nat
                /\ Cardinality(Queued(candidates', x)) =
                     Cardinality(Queued(candidates, x)) + Cardinality(IndicesTo(Cells, mem[o], x))
  <2>1. candidates' = Append(Front(candidates), Marked(Last(candidates))) \o Candidates(s)
    BY <1>4 DEF c, Marked
  <2>2. Last(candidates).ptr \in Pointers
    BY <1>2 DEF Pointers, c
  <2>3. Defers(Marked(Last(candidates)), s)
    BY <1>1, <1>4, <2>1, <2>2, Deferred
  <2>4. Marked(Last(candidates)) = d
    BY DEF d, c
  <2>. QED
    BY <1>5, <2>3, <2>4 DEF Defers
<1>7. TypeOK'
  BY <1>1, <1>6 DEF TypeOK, Idle
<1>8. /\ \A e \in Owning : ~Refers(mem[e[1]][e[2]], o)
      /\ \A i \in 1..Len(candidates) : Refers(candidates[i].ptr, o) => i = Len(candidates)
  BY <1>2, Referred DEF IInv
<1>9. store # Null => store.of # o
  BY <1>1, <1>2, <1>8, StoreAlive, RefCountAssumption DEF TypeOK, Store
<1>10. \A i \in 1..Len(candidates) : candidates[i].deferred => candidates[i].ptr.obj # o
  <2>. SUFFICES ASSUME NEW i \in 1..Len(candidates), candidates[i].deferred,
                       candidates[i].ptr.obj = o
                PROVE  FALSE
    OBVIOUS
  <2>1. candidates[i].ptr # Null
    BY <1>1, Elements DEF IInv, LastReference
  <2>2. Refers(candidates[i].ptr, o)
    BY <2>1 DEF Refers
  <2>. QED
    BY <1>2, <1>8, <2>2 DEF c
<1>11. o \notin Dying /\ \A x : x \in Dying' <=> x \in Dying \/ x = o
  <2>1. o \notin Dying
    BY <1>1, <1>10, DyingAre
  <2>2. d.deferred /\ d.ptr.obj = o
    BY DEF c, d, Marked
  <2>3. ASSUME NEW x, x \in Dying' PROVE x \in Dying \/ x = o
    <3>1. PICK i \in 1..Len(candidates') : candidates'[i].deferred /\ candidates'[i].ptr.obj = x
      BY <1>7, <2>3, DyingAreNext
    <3>2. CASE i \in 1..Len(candidates) /\ candidates'[i] = candidates[i]
      BY <1>1, <3>1, <3>2, DyingAre
    <3>3. CASE candidates'[i] = d
      BY <2>2, <3>1, <3>3
    <3>. QED
      BY <1>6, <3>1, <3>2, <3>3
  <2>4. ASSUME NEW x, x \in Dying PROVE x \in Dying'
    <3>1. PICK i \in 1..Len(candidates) : candidates[i].deferred /\ candidates[i].ptr.obj = x
      BY <1>1, <2>4, DyingAre
    <3>2. i # Len(candidates)
      BY <1>2, <3>1 DEF c
    <3>. QED
      BY <1>6, <1>7, <3>1, <3>2, DyingAreNext
  <2>5. o \in Dying'
    <3>1. PICK i \in 1..Len(candidates') : candidates'[i] = d
      BY <1>6
    <3>. QED
      BY <1>7, <2>2, <3>1, DyingAreNext
  <2>. QED
    BY <2>1, <2>3, <2>4, <2>5
<1>12. /\ \A e \in Owning' : e \in Owning /\ e[1] # o
       /\ \A e \in Owning : e[1] # o => e \in Owning'
       /\ \A i \in Cells : <<o, i>> \in Owning
  <2>1. count[o] > 0 /\ o \notin Vars
    BY <1>2, RefCountAssumption
  <2>2. \A e \in Owning' : e \in Owning /\ e[1] # o
    BY <1>11, <2>1 DEF Owning
  <2>3. \A e \in Owning : e[1] # o => e \in Owning'
    BY <1>11 DEF Owning
  <2>4. \A i \in Cells : <<o, i>> \in Owning
    BY <1>2, <1>9, <1>11, <2>1 DEF Owning
  <2>. QED
    BY <2>2, <2>3, <2>4
<1>13. /\ Owning = Owning' \cup Row(o, Cells) /\ Owning' \cap Row(o, Cells) = {}
       /\ IsFiniteSet(Owning')
  <2>1. Owning \subseteq Places /\ IsFiniteSet(Owning)
    BY <1>1, Elements
  <2>2. Owning' \subseteq Owning
    BY <1>12
  <2>3. \A e \in Places : e[1] = o => e \in Row(o, Cells)
    BY DEF Places, Row
  <2>4. \A e \in Row(o, Cells) : e[1] = o /\ e \in Owning
    BY <1>12 DEF Row
  <2>. QED
    BY <1>12, <2>1, <2>2, <2>3, <2>4, FS_Subset
<1>14. ASSUME NEW x \in Objs PROVE count'[x] = Sum(x)'
  <2>1. /\ Cardinality(CellsTo(Owning', mem, x)) \in Nat
        /\ Cardinality(CellsTo(Owning, mem, x)) =
             Cardinality(CellsTo(Owning', mem, x)) + Cardinality(IndicesTo(Cells, mem[o], x))
    <3>. DEFINE A == Owning'
    <3>1. IsFiniteSet(A) /\ A \cap Row(o, Cells) = {} /\ Owning = A \cup Row(o, Cells)
      BY <1>13
    <3>. HIDE DEF A
    <3>2. RowAdds(A, o, Cells, mem, x)
      BY <3>1, RowAdded, PlacesFinite
    <3>. QED
      BY <3>1, <3>2 DEF A, RowAdds
  <2>2. /\ Cardinality(CellsTo(Owning, mem, x))' = Cardinality(CellsTo(Owning', mem, x))
        /\ Storing(x)' = Storing(x) /\ Calling(x)' = Calling(x) /\ count'[x] = count[x]
    BY DEF Storing, Calling
  <2>3. Storing(x) \in Nat /\ Calling(x) \in Nat
    BY Counted DEF IInv
  <2>4. /\ Cardinality(Queued(candidates, x)) \in Nat
        /\ Cardinality(IndicesTo(Cells, mem[o], x)) \in Nat
        /\ Cardinality(Queued(candidates, x))' =
             Cardinality(Queued(candidates, x)) + Cardinality(IndicesTo(Cells, mem[o], x))
    BY <1>6
  <2>5. count[x] = Sum(x)
    BY <1>1
  <2>. QED
    BY ONLY <2>1, <2>2, <2>3, <2>4, <2>5 DEF Sum
<1>15. CountsExact'
  BY <1>7, <1>14, ExactIsNext DEF SumsUp
<1>16. Unmade' /\ Shaped'
  BY <1>1, Elements, ReleaseKeeps
<1>17. Anchored'
  <2>1. ASSUME NEW T \in SUBSET Objs, Closed(T)' PROVE Closed(T \ {o})
    <3>1. ASSUME NEW e \in Owning, NEW x \in Objs, e[1] \in Vars \cup (T \ {o}),
                 Refers(mem[e[1]][e[2]], x)
          PROVE  x \in T \ {o}
      <4>1. e[1] # o
        BY <1>2, <3>1, RefCountAssumption
      <4>2. e \in Owning'
        BY <1>12, <4>1
      <4>3. x \in T
        BY <2>1, <3>1, <4>2 DEF Closed
      <4>. QED
        BY <1>8, <3>1, <4>3
    <3>. QED
      BY <3>1 DEF Closed
  <2>. QED
    BY <2>1 DEF IInv, Anchored
<1>18. OnFreeOnce' /\ status' = "running"
  BY DEF OnFreeOnce, IInv
<1>19. Stacked'
  BY <1>2 DEF Stacked, Idle
<1>20. LastReference'
  <2>1. ASSUME NEW i \in 1..Len(candidates'), candidates'[i].deferred
        PROVE  candidates'[i].ptr # Null /\ count'[candidates'[i].ptr.obj] = 1
    <3>1. CASE i \in 1..Len(candidates) /\ candidates'[i] = candidates[i]
      BY <1>1, <2>1, <3>1, Elements DEF IInv, LastReference
    <3>2. CASE candidates'[i] = d
      BY <3>2 DEF c, d, Marked
    <3>. QED
      BY <1>6, <2>1, <3>1, <3>2
  <2>. QED
    BY <1>6, <2>1, LastReferenceKept
<1>. QED
  BY <1>15, <1>16, <1>17, <1>18, <1>19, <1>20 DEF IInv

\* One iteration, whatever the last candidate is
LEMMA IterateStep ==
  ASSUME IInv, Iterate
  PROVE  IInv'
<1>. DEFINE c == Last(candidates)
            o == c.ptr.obj
<1>1. Releasing /\ candidates # <<>> /\ UNCHANGED lhs
  BY DEF Iterate
<1>2. CASE c.ptr = Null
  <2>1. SkipNull
    BY <1>2 DEF Iterate
  <2>. QED
    BY <1>1, <1>2, <2>1, SkipNullStep
<1>3. CASE c.ptr # Null
  <2>1. /\ c.ptr \in Ptr /\ Len(candidates) \in 1..Len(candidates)
        /\ c = candidates[Len(candidates)] /\ TypeOK
        /\ c.deferred => count[c.ptr.obj] = 1
    <3>1. /\ c.ptr \in Pointers /\ Len(candidates) \in Nat \ {0}
          /\ c = candidates[Len(candidates)] /\ (c.deferred => count[c.ptr.obj] = 1)
      BY <1>1, InRelease
    <3>. QED
      BY <1>3, <3>1, ExactIs DEF Pointers, IInv, SumsUp
  <2>2. o \in Objs /\ Refers(candidates[Len(candidates)].ptr, o)
    BY <2>1, RefersTo
  <2>3. count[o] > 0 /\ count[o] \in Nat
    BY <2>1, <2>2, Referred, Elements DEF IInv
  <2>4. CASE c.deferred \/ count[o] > 1
    <3>1. Decrement(o, Front(candidates))
      BY <1>3, <2>3, <2>4 DEF Iterate
    <3>2. CASE o \in Handles /\ count[o] = 1
      <4>1. c.deferred
        BY <2>4, <3>2
      <4>. QED
        BY <1>1, <1>3, <3>1, <3>2, <4>1, CallbackStep
    <3>3. CASE ~(o \in Handles /\ count[o] = 1)
      BY <1>1, <1>3, <2>4, <3>1, <3>3, DecrementStep
    <3>. QED
      BY <3>2, <3>3
  <2>5. CASE ~(c.deferred \/ count[o] > 1)
    <3>1. /\ candidates' = Append(Front(candidates), [ptr |-> c.ptr, deferred |-> TRUE])
                             \o Children(c.ptr)
          /\ UNCHANGED <<made, count, mem, cstack, store, calls, status>>
      <4>1. ~(count[o] <= 0) /\ ~(c.deferred \/ count[o] > 1)
        BY <2>3, <2>5
      <4>. QED
        BY <1>3, <4>1, Zenon DEF Iterate
    <3>2. count[o] = 1 /\ ~c.deferred
      BY <2>3, <2>5
    <3>. QED
      BY <1>1, <1>3, <3>1, <3>2, DeferralStep
  <2>. QED
    BY <2>4, <2>5
<1>. QED
  BY <1>2, <1>3

-----------------------------------------------------------------------------
(* The ends of a release and of a callback.                                *)

\* A callback returns: the last reference to its object goes.
LEMMA OnFreeReturnsStep ==
  ASSUME IInv, OnFreeReturns
  PROVE  IInv'
<1>1. TypeOK /\ \A x \in Objs : count[x] = Sum(x) /\ count[x] \in Nat
  BY ExactIs, Elements DEF IInv, SumsUp
<1>2. PICK f \in Handles : cstack = <<Release, OnFree(f)>> /\ count[f] = 1
  <2>1. cstack # <<>> /\ cstack # <<Release>>
    BY DEF OnFreeReturns, InOnFree, Idle, Top, Last, Release
  <2>. QED
    BY <2>1 DEF IInv, Stacked, OnFree
<1>3. f \in Objs /\ f \in made
  BY <1>2, RefCountAssumption DEF IInv, Unmade
<1>4. cstack' = <<Release>> /\ Top.obj = f
  <2>1. Front(<<Release, OnFree(f)>>) = <<Release>>
    BY TwoFrames
  <2>2. Top = OnFree(f)
    BY <1>2 DEF Top, Last
  <2>. QED
    BY <1>2, <2>1, <2>2 DEF OnFreeReturns, OnFree
<1>5. /\ count' = [count EXCEPT ![f] = @ - 1]
      /\ UNCHANGED <<made, mem, candidates, lhs, store, calls, status>>
  BY <1>4 DEF OnFreeReturns
<1>6. \A x \in Objs : count'[x] = IF x = f THEN 0 ELSE count[x]
  BY <1>1, <1>2, <1>5 DEF TypeOK
<1>7. /\ \A x : Calling(x) = IF x = f THEN 1 ELSE 0
      /\ \A x : Calling(x)' = 0
  BY <1>2, <1>3, <1>4, CallingIs, CallingIsNext DEF CallsCounted
<1>8. TypeOK'
  <2>1. cstack' \in Seq(Frame) /\ ~(Idle')
    BY <1>4 DEF Frame, Release, Idle
  <2>2. \A x \in Objs : count'[x] \in Nat
    BY <1>1, <1>6
  <2>3. count' \in [Objs -> Nat]
    BY <1>1, <1>5, <2>2 DEF TypeOK
  <2>. QED
    BY <1>1, <1>5, <2>1, <2>3 DEF TypeOK
<1>9. Dying' = Dying
  BY <1>5 DEF Dying
<1>10. /\ \A d \in Owning' : d \in Owning
       /\ \A d \in Owning : d[1] # f => d \in Owning'
  BY <1>1, <1>5, <1>6, <1>9 DEF Owning
<1>11. \A i \in Cells : mem[f][i] = Null
  BY DEF IInv, Shaped
<1>12. \A d \in Owning : \A x : Refers(mem[d[1]][d[2]], x) => d \in Owning'
  BY <1>1, <1>10, <1>11, Elements, RefersTo DEF Places
<1>13. ASSUME NEW x \in Objs PROVE count'[x] = Sum(x)'
  <2>1. CellsTo(Owning', mem, x) = CellsTo(Owning, mem, x)
    BY <1>10, <1>12 DEF CellsTo
  <2>2. /\ Cardinality(CellsTo(Owning, mem, x))' = Cardinality(CellsTo(Owning, mem, x))
        /\ Storing(x)' = Storing(x)
        /\ Cardinality(Queued(candidates, x))' = Cardinality(Queued(candidates, x))
    BY <1>5, <2>1 DEF Storing
  <2>3. /\ Cardinality(CellsTo(Owning, mem, x)) \in Nat /\ Storing(x) \in Nat
        /\ Cardinality(Queued(candidates, x)) \in Nat
    BY Counted DEF IInv
  <2>4. count[x] = Sum(x) /\ (x = f => count[x] = 1)
    BY <1>1, <1>2
  <2>. QED
    BY <1>6, <1>7, <2>2, <2>3, <2>4 DEF Sum
<1>14. CountsExact'
  BY <1>8, <1>13, ExactIsNext DEF SumsUp
<1>15. Unmade' /\ Shaped'
  <2>1. \A x \in Objs : count'[x] <= count[x] /\ count'[x] \in Nat
    BY <1>1, <1>6
  <2>. QED
    BY <1>5, <2>1, ReleaseKeeps
<1>16. Anchored'
  BY <1>5, <1>12, AnchoredKept DEF IInv
<1>17. OnFreeOnce'
  <2>1. /\ \A x : [fn |-> "onFree", obj |-> x] \in ToSet(cstack) <=> x = f
        /\ \A x : [fn |-> "onFree", obj |-> x] \notin ToSet(cstack')
    BY <1>2, <1>3, <1>4, CallbacksAre, CallbacksKnownNext DEF CallbacksKnown
  <2>. QED
    BY <1>3, <1>5, <1>6, <2>1 DEF OnFreeOnce, IInv
<1>18. Stacked' /\ status' = "running"
  BY <1>4, <1>5 DEF Stacked, Idle, IInv
<1>19. LastReference'
  <2>1. \A i \in 1..Len(candidates) : ~Refers(candidates[i].ptr, f)
    BY <1>2, <1>3, <1>7, Referred DEF IInv
  <2>2. ASSUME NEW i \in 1..Len(candidates), candidates[i].deferred
        PROVE  candidates[i].ptr # Null /\ count'[candidates[i].ptr.obj] = 1
    <3>1. candidates[i].ptr # Null /\ count[candidates[i].ptr.obj] = 1
      BY <1>1, <2>2, Elements DEF IInv, LastReference
    <3>2. candidates[i].ptr \in Ptr
      BY <1>1, <3>1, Elements DEF Pointers
    <3>. QED
      BY <1>6, <2>1, <3>1, <3>2, RefersTo
  <2>. QED
    BY <1>1, <1>5, <2>2, LastReferenceKept DEF TypeOK
<1>. QED
  BY <1>14, <1>15, <1>16, <1>17, <1>18, <1>19 DEF IInv

\* The store that ends an assignment: the cells own what they are given.
LEMMA StoreStep ==
  ASSUME IInv, cstack = <<Release>>, candidates = <<>>, cstack' = <<>>, store # Null,
         mem' = [mem EXCEPT ![store.of] =
                  [i \in Cells |-> IF i \in DOMAIN store.new THEN store.new[i] ELSE @[i]]],
         store' = Null, UNCHANGED <<made, count, candidates, lhs, calls, status>>
  PROVE  IInv'
<1>. DEFINE w == store.of
            D == DOMAIN store.new
<1>1. TypeOK /\ \A x \in Objs : count[x] = Sum(x) /\ count[x] \in Nat
  BY ExactIs, Elements DEF IInv, SumsUp
<1>2. /\ store \in Store /\ w \in Objs \cup Vars /\ D \subseteq Cells /\ IsFiniteSet(D)
      /\ \A i \in D : store.new[i] \in Pointers
      /\ \A x : Occurrences(x, store.new) = Cardinality(IndicesTo(D, store.new, x))
  <2>1. store \in Store
    BY <1>1 DEF TypeOK
  <2>. QED
    BY <2>1, StoresTyped
<1>3. w \notin Handles /\ (w \in Vars => D = {1})
  BY DEF IInv, Shaped
<1>4. w \in Objs => count[w] > 0 /\ w \in made
  <2>1. w \in Objs => count[w] > 0
    BY StoreAlive
  <2>. QED
    BY <1>1, <2>1 DEF IInv, Unmade
<1>. HIDE DEF w, D
<1>5. /\ \A i \in Cells : mem'[w][i] = IF i \in D THEN store.new[i] ELSE mem[w][i]
      /\ \A v \in Objs \cup Vars : v # w => mem'[v] = mem[v]
      /\ mem' \in [Objs \cup Vars -> [Cells -> Pointers]]
  <2>1. mem \in [Objs \cup Vars -> [Cells -> Pointers]]
    BY <1>1 DEF TypeOK, Pointers
  <2>. DEFINE g == [i \in Cells |-> IF i \in D THEN store.new[i] ELSE mem[w][i]]
  <2>2. mem' = [mem EXCEPT ![w] = g]
    BY DEF w, D
  <2>3. /\ g \in [Cells -> Pointers]
        /\ \A i \in Cells : g[i] = IF i \in D THEN store.new[i] ELSE mem[w][i]
    BY <1>2, <2>1
  <2>. HIDE DEF g
  <2>. QED
    BY <1>2, <2>1, <2>2, <2>3
<1>6. TypeOK'
  BY <1>1, <1>5 DEF TypeOK, Pointers
<1>7. Dying = {} /\ Dying' = {}
  BY DEF Dying
<1>8. Owning' = Owning \cup Row(w, D) /\ Owning \cap Row(w, D) = {}
  <2>1. \A c : c \in Owning' <=>
                 c \in Places /\ (c[1] \in Vars \/ (c[1] \in Objs /\ count[c[1]] > 0))
    BY <1>7 DEF Owning, Places
  <2>2. \A c : c \in Owning <=>
                 /\ c \in Places /\ (c[1] \in Vars \/ (c[1] \in Objs /\ count[c[1]] > 0))
                 /\ ~(c[1] = w /\ c[2] \in D)
    BY <1>7, OwningIs DEF w, D
  <2>3. \A c \in Places : c[1] = w /\ c[2] \in D <=> c \in Row(w, D)
    BY DEF Places, Row
  <2>4. \A c \in Row(w, D) : c \in Places /\ c[1] = w /\ c[2] \in D
    BY <1>2 DEF Places, Row
  <2>5. w \in Vars \/ (w \in Objs /\ count[w] > 0)
    BY <1>2, <1>4
  <2>6. Owning' \subseteq Owning \cup Row(w, D)
    BY <2>1, <2>2, <2>3
  <2>7. \A c \in Owning : c \in Owning' /\ c \notin Row(w, D)
    BY <2>1, <2>2, <2>4
  <2>8. \A c \in Row(w, D) : c \in Owning'
    BY <2>1, <2>4, <2>5
  <2>. QED
    BY <2>6, <2>7, <2>8
<1>9. IsFiniteSet(Owning) /\ Owning \subseteq Places
  BY <1>1, Elements
<1>10. ASSUME NEW x \in Objs PROVE count'[x] = Sum(x)'
  <2>1. RowAdds(Owning, w, D, mem', x)
    BY <1>2, <1>8, <1>9, RowAdded
  <2>2. CellsTo(Owning, mem', x) = CellsTo(Owning, mem, x)
    <3>1. \A c \in Owning : mem'[c[1]][c[2]] = mem[c[1]][c[2]]
      <4>1. \A c \in Owning : c \in Places /\ ~(c[1] = w /\ c[2] \in D)
        BY <1>8, <1>9 DEF Places, Row
      <4>. QED
        BY <1>5, <4>1 DEF Places
    <3>. QED
      BY <3>1 DEF CellsTo
  <2>3. IndicesTo(D, mem'[w], x) = IndicesTo(D, store.new, x)
    BY <1>2, <1>5 DEF IndicesTo
  <2>4. /\ Storing(x) = Cardinality(IndicesTo(D, store.new, x)) /\ Storing(x)' = 0
    BY <1>2 DEF Storing
  <2>5. Calling(x) = 0 /\ Calling(x)' = 0
    BY CallingIs, CallingIsNext DEF CallsCounted
  <2>6. Cardinality(CellsTo(Owning, mem, x))' =
          Cardinality(CellsTo(Owning, mem, x)) + Storing(x)
    BY <1>8, <2>1, <2>2, <2>3, <2>4 DEF RowAdds
  <2>7. /\ Cardinality(CellsTo(Owning, mem, x)) \in Nat /\ Storing(x) \in Nat
        /\ Cardinality(Queued(candidates, x)) \in Nat
    BY Counted DEF IInv
  <2>8. /\ Cardinality(Queued(candidates, x))' = Cardinality(Queued(candidates, x))
        /\ count'[x] = count[x] /\ count[x] = Sum(x)
    BY <1>1
  <2>. QED
    BY <2>4, <2>5, <2>6, <2>7, <2>8 DEF Sum
<1>11. CountsExact'
  BY <1>6, <1>10, ExactIsNext DEF SumsUp
<1>12. Unmade'
  <2>1. \A o \in Objs \ made : mem'[o] = mem[o]
    BY <1>4, <1>5
  <2>. QED
    BY <2>1 DEF IInv, Unmade
<1>13. Shaped'
  <2>1. \A o \in Handles, i \in Cells : mem'[o][i] = Null
    BY <1>3, <1>5, RefCountAssumption DEF IInv, Shaped
  <2>2. \A v \in Vars, i \in Cells \ {1} : mem'[v][i] = Null
    BY <1>3, <1>5 DEF IInv, Shaped
  <2>. QED
    BY <2>1, <2>2 DEF IInv, Shaped
<1>14. Anchored' /\ Stacked' /\ LastReference' /\ status' = "running"
  BY DEF Anchored, Stacked, Idle, LastReference, IInv
<1>15. OnFreeOnce'
  <2>1. /\ \A x : [fn |-> "onFree", obj |-> x] \notin ToSet(cstack)
        /\ \A x : [fn |-> "onFree", obj |-> x] \notin ToSet(cstack')
    BY CallbacksAre, CallbacksKnownNext DEF CallbacksKnown
  <2>. QED
    BY <2>1 DEF OnFreeOnce, IInv
<1>. QED
  BY <1>11, <1>12, <1>13, <1>14, <1>15 DEF IInv

\* A release is over, with or without a store that waited for it.
LEMMA ReleaseReturnsStep ==
  ASSUME IInv, ReleaseReturns
  PROVE  IInv'
<1>1. cstack = <<Release>> /\ candidates = <<>>
  BY InRelease DEF ReleaseReturns
<1>2. cstack' = <<>> /\ Len(cstack) = 1
  <2>1. Front(<<Release>>) = <<>> /\ Len(<<Release>>) = 1
    BY TwoFrames
  <2>. QED
    BY <1>1, <2>1 DEF ReleaseReturns
<1>3. UNCHANGED <<made, count, candidates, lhs, calls, status>>
  BY DEF ReleaseReturns
<1>4. CASE store # Null
  BY <1>1, <1>2, <1>3, <1>4, StoreStep DEF ReleaseReturns
<1>5. CASE store = Null
  <2>1. UNCHANGED <<mem, store>>
    BY <1>2, <1>5 DEF ReleaseReturns
  <2>2. TypeOK /\ \A x \in Objs : count[x] = Sum(x)
    BY ExactIs DEF IInv, SumsUp
  <2>3. TypeOK'
    BY <1>2, <1>3, <1>5, <2>1, <2>2 DEF TypeOK
  <2>4. ASSUME NEW x \in Objs PROVE count'[x] = Sum(x)'
    <3>1. Calling(x) = 0 /\ Calling(x)' = 0
      BY <1>1, <1>2, CallingIs, CallingIsNext DEF CallsCounted
    <3>2. /\ Owning' = Owning /\ Storing(x)' = Storing(x)
          /\ Queued(candidates, x)' = Queued(candidates, x)
      BY <1>3, <2>1 DEF Owning, Dying, Storing
    <3>. QED
      BY <1>3, <2>1, <2>2, <3>1, <3>2 DEF Sum
  <2>5. CountsExact'
    BY <2>3, <2>4, ExactIsNext DEF SumsUp
  <2>6. /\ \A x : [fn |-> "onFree", obj |-> x] \notin ToSet(cstack)
        /\ \A x : [fn |-> "onFree", obj |-> x] \notin ToSet(cstack')
    BY <1>1, <1>2, CallbacksAre, CallbacksKnownNext DEF CallbacksKnown
  <2>7. OnFreeOnce'
    BY <1>3, <2>6 DEF OnFreeOnce, IInv
  <2>8. Unmade' /\ Shaped' /\ status' = "running"
    BY <1>3, <2>1 DEF Unmade, Shaped, IInv
  <2>9. Anchored' /\ Stacked' /\ LastReference'
    BY <1>1, <1>2, <1>3, <1>5, <2>1 DEF Anchored, Stacked, Idle, LastReference
  <2>. QED
    BY <2>5, <2>7, <2>8, <2>9 DEF IInv
<1>. QED
  BY <1>4, <1>5

-----------------------------------------------------------------------------
(* Compiled and native code runs between releases.                         *)

\* Between releases the cells of variables and of live objects own, and nothing else counts.
LEMMA WhenIdle ==
  ASSUME IInv, Idle
  PROVE  /\ cstack = <<>> /\ candidates = <<>> /\ store = Null /\ Dying = {} /\ TypeOK
         /\ \A c : c \in Owning <=>
                     c \in Places /\ (c[1] \in Vars \/ (c[1] \in Objs /\ count[c[1]] > 0))
         /\ IsFiniteSet(Owning)
         /\ \A o \in Objs : /\ count[o] \in Nat
                            /\ count[o] = Cardinality(CellsTo(Owning, mem, o))
         /\ \A o : [fn |-> "onFree", obj |-> o] \notin ToSet(cstack)
<1>1. cstack = <<>> /\ candidates = <<>> /\ store = Null
  BY DEF IInv, Stacked, Idle
<1>2. TypeOK /\ \A o \in Objs : count[o] = Sum(o)
  BY ExactIs DEF IInv, SumsUp
<1>3. Dying = {}
  BY <1>1 DEF Dying
<1>4. \A o : Queued(candidates, o) = {}
  BY <1>1 DEF Queued
<1>5. Cardinality({}) = 0
  BY FS_EmptySet
<1>6. ASSUME NEW o \in Objs PROVE count[o] = Cardinality(CellsTo(Owning, mem, o))
  <2>1. Storing(o) = 0 /\ Calling(o) = 0
    BY <1>1, CallingIs DEF Storing, CallsCounted
  <2>2. Cardinality(CellsTo(Owning, mem, o)) \in Nat
    BY Counted DEF IInv
  <2>3. Cardinality(Queued(candidates, o)) = 0 /\ count[o] = Sum(o)
    BY <1>2, <1>4, <1>5
  <2>. QED
    BY <2>1, <2>2, <2>3 DEF Sum
<1>7. \A c : c \in Owning <=>
               c \in Places /\ (c[1] \in Vars \/ (c[1] \in Objs /\ count[c[1]] > 0))
  BY <1>1, <1>3, OwningIs
<1>. QED
  BY <1>1, <1>2, <1>3, <1>6, <1>7, Elements, CallbacksAre

\* A step that starts no release
LEMMA IdleKept ==
  ASSUME IInv, Idle, UNCHANGED <<cstack, candidates, store, status>>, TypeOK',
         \A x \in Objs : count'[x] = Cardinality(CellsTo(Owning', mem', x)),
         Unmade', Shaped', OnFreeOnce'
  PROVE  IInv'
<1>1. cstack = <<>> /\ candidates = <<>> /\ store = Null
  BY WhenIdle
<1>2. ASSUME NEW x \in Objs PROVE count'[x] = Sum(x)'
  <2>1. Storing(x)' = 0 /\ Calling(x)' = 0
    BY <1>1, CallingIsNext DEF Storing, CallsCounted
  <2>2. Queued(candidates, x)' = {}
    BY <1>1 DEF Queued
  <2>3. Cardinality({}) = 0
    BY FS_EmptySet
  <2>4. Cardinality(CellsTo(Owning, mem, x))' \in Nat
    <3>1. count'[x] \in Nat
      BY DEF TypeOK
    <3>. QED
      BY <3>1
  <2>. QED
    BY <2>1, <2>2, <2>3, <2>4 DEF Sum
<1>3. CountsExact'
  BY <1>2, ExactIsNext DEF SumsUp
<1>4. Stacked' /\ LastReference' /\ Anchored' /\ status' = "running"
  BY <1>1 DEF Stacked, Idle, LastReference, Anchored, IInv
<1>. QED
  BY <1>3, <1>4 DEF IInv

\* Variables hold what is alive.
LEMMA VariablesAlive ==
  ASSUME IInv, Idle, NEW v \in Vars, mem[v][1] # Null
  PROVE  /\ mem[v][1] \in Ptr /\ mem[v][1].obj \in Objs /\ count[mem[v][1].obj] > 0
         /\ \A x : Refers(mem[v][1], x) <=> x = mem[v][1].obj
<1>1. 1 \in Cells
  BY RefCountAssumption DEF Cells
<1>2. mem[v][1] \in Ptr
  BY <1>1, WhenIdle, Elements DEF Pointers
<1>3. <<v, 1>> \in Owning
  BY <1>1, WhenIdle DEF Places
<1>4. mem[v][1].obj \in Objs /\ \A x : Refers(mem[v][1], x) <=> x = mem[v][1].obj
  BY <1>2, RefersTo
<1>5. count[mem[v][1].obj] > 0
  <2>. DEFINE c == <<v, 1>>
  <2>1. Refers(mem[c[1]][c[2]], mem[v][1].obj)
    BY <1>4
  <2>. QED
    BY <1>3, <1>4, <2>1, Referred DEF IInv
<1>. QED
  BY <1>2, <1>4, <1>5

\* umkaIncRef()
LEMMA HostIncRefStep ==
  ASSUME IInv, NEW h \in HostVars, NEW v \in Vars \ HostVars, HostIncRef(h, v)
  PROVE  IInv'
<1>. DEFINE p == mem[v][1]
            o == p.obj
<1>1. /\ Idle /\ mem[h][1] = Null /\ p # Null
      /\ mem' = [mem EXCEPT ![h][1] = p]
      /\ count' = [count EXCEPT ![o] = @ + 1]
      /\ UNCHANGED <<made, cstack, candidates, lhs, store, calls, status>>
  BY DEF HostIncRef, Running
<1>2. /\ p \in Ptr /\ o \in Objs /\ count[o] > 0 /\ \A x : Refers(p, x) <=> x = o
  BY <1>1, VariablesAlive
<1>3. h \in Vars /\ 1 \in Cells /\ h \notin Objs /\ h \notin Handles
  BY RefCountAssumption DEF Cells
<1>4. /\ TypeOK /\ IsFiniteSet(Owning)
      /\ \A c : c \in Owning <=>
                  c \in Places /\ (c[1] \in Vars \/ (c[1] \in Objs /\ count[c[1]] > 0))
      /\ \A x \in Objs : count[x] \in Nat /\ count[x] = Cardinality(CellsTo(Owning, mem, x))
      /\ \A x : [fn |-> "onFree", obj |-> x] \notin ToSet(cstack)
      /\ store = Null /\ Dying = {}
  BY <1>1, WhenIdle
<1>. HIDE DEF p, o
<1>5. \A x \in Objs : count'[x] = IF x = o THEN count[x] + 1 ELSE count[x]
  BY <1>1, <1>4 DEF TypeOK
<1>6. \A x \in Objs : count'[x] \in Nat /\ (count'[x] > 0 <=> count[x] > 0)
  BY <1>2, <1>4, <1>5
<1>7. /\ mem' \in [Objs \cup Vars -> [Cells -> Pointers]]
      /\ \A w \in Objs \cup Vars, i \in Cells :
           mem'[w][i] = IF w = h /\ i = 1 THEN p ELSE mem[w][i]
  BY <1>1, <1>2, <1>3, <1>4 DEF TypeOK, Pointers
<1>8. TypeOK'
  <2>1. count' \in [Objs -> Nat]
    BY <1>1, <1>4, <1>6 DEF TypeOK
  <2>. QED
    BY <1>1, <1>4, <1>7, <2>1 DEF TypeOK, Pointers, Idle
<1>9. Owning' = Owning
  <2>1. Dying' = Dying
    BY <1>1 DEF Dying
  <2>. QED
    BY <1>1, <1>6, <2>1 DEF Owning
<1>10. ASSUME NEW x \in Objs PROVE count'[x] = Cardinality(CellsTo(Owning', mem', x))
  <2>. DEFINE c == <<h, 1>>
  <2>1. c \in Owning /\ c[1] = h /\ c[2] = 1
    BY <1>3, <1>4 DEF Places
  <2>2. DifferAt(Owning, c, mem, mem')
    BY <1>4, <1>7 DEF Places, DifferAt
  <2>3. mem[c[1]][c[2]] = Null /\ mem'[c[1]][c[2]] = p
    BY <1>1, <1>3, <1>7
  <2>. HIDE DEF c
  <2>4. CellChanges(Owning, c, mem, mem', x)
    BY <1>4, <2>1, <2>2, CellAssigned
  <2>5. Hits(Null, x) = 0 /\ Hits(p, x) = IF x = o THEN 1 ELSE 0
    BY <1>2, RefersTo DEF Hits
  <2>. QED
    BY <1>4, <1>5, <1>9, <2>3, <2>4, <2>5 DEF CellChanges
<1>11. Unmade'
  <2>1. \A x \in Objs : x # h
    BY <1>3
  <2>. QED
    BY <1>1, <1>2, <1>5, <1>7, <2>1 DEF IInv, Unmade
<1>12. Shaped'
  BY <1>1, <1>3, <1>7, RefCountAssumption DEF IInv, Shaped
<1>13. OnFreeOnce'
  <2>1. \A x \in Objs : count'[x] = 0 <=> count[x] = 0
    BY <1>2, <1>4, <1>5
  <2>. QED
    BY <1>1, <2>1 DEF OnFreeOnce, IInv
<1>. QED
  BY <1>1, <1>8, <1>10, <1>11, <1>12, <1>13, IdleKept

\* An allocation
LEMMA NewStep ==
  ASSUME IInv, NEW v \in Vars \ HostVars, NEW o \in Objs, New(v, o)
  PROVE  IInv'
<1>. DEFINE p == [obj |-> o, cell |-> 0]
<1>1. /\ Idle /\ mem[v][1] = Null /\ o \notin made
      /\ mem' = [mem EXCEPT ![v][1] = p]
      /\ count' = [count EXCEPT ![o] = 1]
      /\ made' = made \cup {o}
      /\ UNCHANGED <<cstack, candidates, lhs, store, calls, status>>
  BY DEF New, Running
<1>2. p \in Ptr /\ \A x : Refers(p, x) <=> x = o
  <2>1. p \in Ptr /\ p.obj = o
    BY RefCountAssumption DEF Ptr
  <2>. QED
    BY <2>1, RefersTo
<1>3. 1 \in Cells /\ v \notin Objs /\ v \notin Handles /\ v # o
  BY RefCountAssumption DEF Cells
<1>4. /\ TypeOK /\ IsFiniteSet(Owning)
      /\ \A c : c \in Owning <=>
                  c \in Places /\ (c[1] \in Vars \/ (c[1] \in Objs /\ count[c[1]] > 0))
      /\ \A x \in Objs : count[x] \in Nat /\ count[x] = Cardinality(CellsTo(Owning, mem, x))
      /\ \A x : [fn |-> "onFree", obj |-> x] \notin ToSet(cstack)
      /\ store = Null /\ Dying = {}
  BY <1>1, WhenIdle
<1>5. count[o] = 0 /\ calls[o] = 0 /\ \A i \in Cells : mem[o][i] = Null
  BY <1>1 DEF IInv, Unmade
<1>. HIDE DEF p
<1>6. \A x \in Objs : count'[x] = IF x = o THEN 1 ELSE count[x]
  BY <1>1, <1>4 DEF TypeOK
<1>7. /\ mem' \in [Objs \cup Vars -> [Cells -> Pointers]]
      /\ \A w \in Objs \cup Vars, i \in Cells :
           mem'[w][i] = IF w = v /\ i = 1 THEN p ELSE mem[w][i]
  BY <1>1, <1>2, <1>3, <1>4 DEF TypeOK, Pointers
<1>8. TypeOK'
  <2>1. \A x \in Objs : count'[x] \in Nat
    BY <1>4, <1>6
  <2>2. count' \in [Objs -> Nat]
    BY <1>1, <1>4, <2>1 DEF TypeOK
  <2>. QED
    BY <1>1, <1>4, <1>7, <2>2 DEF TypeOK, Pointers, Idle
<1>9. Dying' = {} /\ store' = Null
  BY <1>1, <1>4 DEF Dying
<1>10. /\ \A d \in Owning : d \in Owning'
       /\ \A d \in Owning' \ Owning : d \in Places /\ d[1] = o
  BY <1>4, <1>6, <1>9 DEF Owning, Places
<1>11. ASSUME NEW x \in Objs PROVE count'[x] = Cardinality(CellsTo(Owning', mem', x))
  <2>. DEFINE c == <<v, 1>>
  <2>1. c \in Owning /\ c[1] = v /\ c[2] = 1
    BY <1>3, <1>4 DEF Places
  <2>2. DifferAt(Owning, c, mem, mem')
    BY <1>4, <1>7 DEF Places, DifferAt
  <2>3. mem[c[1]][c[2]] = Null /\ mem'[c[1]][c[2]] = p
    BY <1>1, <1>3, <1>7
  <2>. HIDE DEF c
  <2>4. CellChanges(Owning, c, mem, mem', x)
    BY <1>4, <2>1, <2>2, CellAssigned
  <2>5. Hits(Null, x) = 0 /\ Hits(p, x) = IF x = o THEN 1 ELSE 0
    BY <1>2, RefersTo DEF Hits
  <2>6. \A d \in Owning' \ Owning : mem'[d[1]][d[2]] = Null
    BY <1>3, <1>5, <1>7, <1>10 DEF Places
  <2>7. CellsTo(Owning', mem', x) = CellsTo(Owning, mem', x)
    BY <1>10, <2>6, RefersTo DEF CellsTo
  <2>. QED
    BY <1>4, <1>5, <1>6, <2>3, <2>4, <2>5, <2>7 DEF CellChanges
<1>12. Unmade'
  <2>1. \A x \in Objs : x # v
    BY <1>3
  <2>. QED
    BY <1>1, <1>6, <1>7, <2>1 DEF IInv, Unmade
<1>13. Shaped'
  BY <1>1, <1>3, <1>7, RefCountAssumption DEF IInv, Shaped
<1>14. OnFreeOnce'
  BY <1>1, <1>4, <1>5, <1>6, ZenonT(30) DEF OnFreeOnce, IInv
<1>. QED
  BY <1>1, <1>8, <1>11, <1>12, <1>13, <1>14, IdleKept

\* The cells that a pointer gives access to
LEMMA ReachIs ==
  ASSUME NEW p \in Ptr
  PROVE  /\ Reach(p) \subseteq Cells
         /\ \A i \in Reach(p) : p.obj \notin Handles /\ [obj |-> p.obj, cell |-> i] \in Ptr
<1>1. p.obj \in Objs /\ p.cell \in 0..Width /\ Width \in Nat
  BY RefCountAssumption DEF Ptr
<1>2. Reach(p) \subseteq Cells
  BY <1>1 DEF Reach, Cells
<1>3. Cells \subseteq 0..Width
  BY <1>1 DEF Cells
<1>4. \A i \in Cells : [obj |-> p.obj, cell |-> i] \in Ptr
  BY <1>1, <1>3 DEF Ptr
<1>. QED
  BY <1>2, <1>4 DEF Reach

\* The pointers that variables hold
LEMMA ReadableAlive ==
  ASSUME IInv, Idle, NEW p \in Readable
  PROVE  p \in Ptr /\ p.obj \in Held /\ p.obj \in Objs /\ count[p.obj] > 0
<1>1. PICK v \in Vars \ HostVars : p = mem[v][1] /\ p # Null
  BY DEF Readable
<1>2. p \in Ptr /\ p.obj \in Objs /\ count[p.obj] > 0 /\ Refers(mem[v][1], p.obj)
  BY <1>1, VariablesAlive
<1>. QED
  BY <1>2 DEF Held

\* The address of the left side is pushed.
LEMMA PushLhsStep ==
  ASSUME IInv, NEW p \in Readable, NEW i \in Reach(p), PushLhs(p, i)
  PROVE  IInv'
<1>1. /\ Idle /\ lhs' = [obj |-> p.obj, cell |-> i]
      /\ UNCHANGED <<made, count, mem, cstack, candidates, store, calls, status>>
  BY DEF PushLhs, Running
<1>2. p \in Ptr
  BY <1>1, ReadableAlive
<1>3. i \in Cells /\ p.obj \notin Handles /\ lhs' \in Ptr
  BY <1>1, <1>2, ReachIs
<1>4. TypeOK' /\ Owning' = Owning
  <2>1. TypeOK
    BY <1>1, WhenIdle
  <2>2. TypeOK'
    BY <1>1, <1>3, <2>1 DEF TypeOK, Idle
  <2>3. Owning' = Owning
    BY <1>1 DEF Owning, Dying
  <2>. QED
    BY <2>2, <2>3
<1>5. \A x \in Objs : count'[x] = Cardinality(CellsTo(Owning', mem', x))
  BY <1>1, <1>4, WhenIdle
<1>6. Shaped'
  <2>1. lhs'.obj = p.obj /\ lhs'.cell = i
    BY <1>1
  <2>. QED
    BY <1>1, <1>3, <2>1 DEF IInv, Shaped
<1>7. Unmade' /\ OnFreeOnce'
  BY <1>1 DEF IInv, Unmade, OnFreeOnce
<1>. QED
  BY <1>1, <1>4, <1>5, <1>6, <1>7, IdleKept

\* One value
LEMMA OneIndex ==
  ASSUME NEW p \in Pointers, NEW o
  PROVE  <<p>> \in Seq(Pointers) /\ Cardinality(IndicesTo(DOMAIN <<p>>, <<p>>, o)) = Hits(p, o)
<1>1. IndicesTo(DOMAIN <<p>>, <<p>>, o) = IF Refers(p, o) THEN {1} ELSE {}
  BY DEF IndicesTo
<1>2. Cardinality({1}) = 1 /\ Cardinality({}) = 0
  BY FS_Singleton, FS_EmptySet
<1>. QED
  BY <1>1, <1>2 DEF Hits

\* umkaDecRef(), from native code that no release has called
LEMMA HostDecRefStep ==
  ASSUME IInv, ~CountsInOnFree, NEW h \in HostVars, HostDecRef(h)
  PROVE  IInv'
<1>. DEFINE p == mem[h][1]
            q == Candidates(<<p>>)
<1>1. /\ Idle /\ p # Null
      /\ mem' = [mem EXCEPT ![h][1] = Null]
      /\ candidates' = q /\ cstack' = Append(cstack, Release)
      /\ UNCHANGED <<made, count, lhs, store, calls, status>>
  BY DEF HostDecRef
<1>2. h \in Vars /\ 1 \in Cells /\ h \notin Objs /\ h \notin Handles
  BY RefCountAssumption DEF Cells
<1>3. p \in Ptr /\ p \in Pointers
  BY <1>1, <1>2, VariablesAlive DEF Pointers
<1>4. /\ TypeOK /\ IsFiniteSet(Owning) /\ cstack = <<>>
      /\ \A c : c \in Owning <=>
                  c \in Places /\ (c[1] \in Vars \/ (c[1] \in Objs /\ count[c[1]] > 0))
      /\ \A x \in Objs : count[x] \in Nat /\ count[x] = Cardinality(CellsTo(Owning, mem, x))
      /\ \A x : [fn |-> "onFree", obj |-> x] \notin ToSet(cstack)
      /\ store = Null /\ Dying = {}
  BY <1>1, WhenIdle
<1>5. cstack' = <<Release>>
  BY <1>1, <1>4
<1>6. /\ q \in Seq(Candidate) /\ \A i \in 1..Len(q) : ~q[i].deferred
      /\ \A x : Cardinality(Queued(q, x)) = Hits(p, x)
  BY <1>3, OneIndex, QueueStarted
<1>. HIDE DEF p, q
<1>7. /\ mem' \in [Objs \cup Vars -> [Cells -> Pointers]]
      /\ \A w \in Objs \cup Vars, i \in Cells :
           mem'[w][i] = IF w = h /\ i = 1 THEN Null ELSE mem[w][i]
  BY <1>1, <1>2, <1>4 DEF TypeOK, Pointers
<1>8. TypeOK'
  BY <1>1, <1>4, <1>5, <1>6, <1>7 DEF TypeOK, Pointers, Idle, Frame, Release
<1>9. Dying' = {}
  <2>1. \A x : x \notin Dying'
    BY <1>1, <1>6, <1>8, DyingAreNext
  <2>. QED
    BY <2>1
<1>10. Owning' = Owning
  BY <1>1, <1>4, <1>9 DEF Owning
<1>11. ASSUME NEW x \in Objs PROVE count'[x] = Sum(x)'
  <2>. DEFINE c == <<h, 1>>
  <2>1. c \in Owning /\ c[1] = h /\ c[2] = 1
    BY <1>2, <1>4 DEF Places
  <2>2. DifferAt(Owning, c, mem, mem')
    BY <1>4, <1>7 DEF Places, DifferAt
  <2>3. mem[c[1]][c[2]] = p /\ mem'[c[1]][c[2]] = Null
    BY <1>2, <1>7 DEF p
  <2>. HIDE DEF c
  <2>4. CellChanges(Owning, c, mem, mem', x)
    BY <1>4, <2>1, <2>2, CellAssigned
  <2>5. Hits(Null, x) = 0 /\ Hits(p, x) \in Nat
    BY RefersTo
  <2>6. Storing(x)' = 0 /\ Calling(x)' = 0
    BY <1>1, <1>4, <1>5, CallingIsNext DEF Storing, CallsCounted
  <2>7. /\ Cardinality(CellsTo(Owning, mem, x))' = Cardinality(CellsTo(Owning, mem, x)) - Hits(p, x)
        /\ Cardinality(CellsTo(Owning, mem, x)) \in Nat
    BY <1>10, <2>3, <2>4, <2>5 DEF CellChanges
  <2>8. Cardinality(Queued(candidates, x))' = Hits(p, x)
    BY <1>1, <1>6
  <2>9. count'[x] = Cardinality(CellsTo(Owning, mem, x))
    BY <1>1, <1>4
  <2>. QED
    BY <2>5, <2>6, <2>7, <2>8, <2>9 DEF Sum
<1>12. CountsExact'
  BY <1>8, <1>11, ExactIsNext DEF SumsUp
<1>13. Unmade'
  <2>1. \A x \in Objs : x # h
    BY <1>2
  <2>. QED
    BY <1>1, <1>7, <2>1 DEF IInv, Unmade
<1>14. Shaped'
  BY <1>1, <1>2, <1>7, RefCountAssumption DEF IInv, Shaped
<1>15. OnFreeOnce'
  <2>1. \A x : [fn |-> "onFree", obj |-> x] \notin ToSet(cstack')
    BY <1>5, CallbacksKnownNext DEF CallbacksKnown
  <2>. QED
    BY <1>1, <1>4, <2>1 DEF OnFreeOnce, IInv
<1>16. Stacked' /\ Anchored' /\ status' = "running"
  BY <1>1, <1>4, <1>5 DEF Stacked, Idle, Anchored, IInv
<1>17. LastReference'
  BY <1>1, <1>6, LastReferenceKept
<1>. QED
  BY <1>12, <1>13, <1>14, <1>15, <1>16, <1>17 DEF IInv

-----------------------------------------------------------------------------
(* Assignments.                                                            *)

\* What is reachable is in every set that holds nothing outside it and contains the start.
LEMMA ReachableIn ==
  ASSUME NEW S, NEW o \in ReachableFrom(S), NEW T \in SUBSET Objs,
         S \subseteq T, ItemsOf(T) \subseteq T
  PROVE  o \in T
BY DEF ReachableFrom

\* Between releases what the program can reach is alive, and it keeps being held if the
\* cells of one reachable object are not counted.
LEMMA ReachableHeld ==
  ASSUME IInv, Idle, NEW w \in ReachableFrom(Held)
  PROVE  /\ w \in Objs /\ count[w] > 0
         /\ \A T \in SUBSET Objs :
              (\A c \in Owning, o \in Objs :
                 c[1] \in Vars \cup (T \ {w}) /\ Refers(mem[c[1]][c[2]], o) => o \in T)
              => w \in T
<1>. DEFINE Live == {o \in Objs : count[o] > 0}
<1>1. /\ \A c : c \in Owning <=>
                  c \in Places /\ (c[1] \in Vars \/ (c[1] \in Objs /\ count[c[1]] > 0))
      /\ 1 \in Cells
  BY WhenIdle, RefCountAssumption DEF Cells
<1>2. \A x \in Live, i \in Cells : <<x, i>> \in Owning
  BY <1>1 DEF Places
<1>3. \A v \in Vars : <<v, 1>> \in Owning
  BY <1>1 DEF Places
<1>4. \A o \in Objs : \A c \in Owning : Refers(mem[c[1]][c[2]], o) => count[o] > 0
  BY Referred DEF IInv
<1>5. Held \subseteq Live
  <2>1. ASSUME NEW o \in Objs, NEW v \in Vars, Refers(mem[v][1], o) PROVE count[o] > 0
    <3>. DEFINE c == <<v, 1>>
    <3>1. c \in Owning /\ Refers(mem[c[1]][c[2]], o)
      BY <1>3, <2>1
    <3>. QED
      BY <1>4, <3>1
  <2>. QED
    BY <2>1 DEF Held
<1>6. ASSUME NEW T \in SUBSET Live, NEW o \in ItemsOf(T)
      PROVE  /\ o \in Live
             /\ \E c \in Owning : c[1] \in T /\ Refers(mem[c[1]][c[2]], o)
  <2>1. PICK x \in T, i \in Cells : Refers(mem[x][i], o)
    BY DEF ItemsOf
  <2>. DEFINE c == <<x, i>>
  <2>2. c \in Owning /\ c[1] = x /\ Refers(mem[c[1]][c[2]], o) /\ o \in Objs
    BY <1>2, <2>1 DEF ItemsOf
  <2>. QED
    BY <1>4, <2>2
<1>7. w \in Live
  <2>1. ItemsOf(Live) \subseteq Live
    BY <1>6
  <2>. QED
    BY <1>5, <2>1, ReachableIn
<1>8. ASSUME NEW T \in SUBSET Objs, w \notin T,
             \A c \in Owning, o \in Objs :
               c[1] \in Vars \cup (T \ {w}) /\ Refers(mem[c[1]][c[2]], o) => o \in T
      PROVE  FALSE
  <2>. DEFINE U == T \cap Live
  <2>1. Held \subseteq U
    <3>1. ASSUME NEW o \in Objs, NEW v \in Vars, Refers(mem[v][1], o) PROVE o \in T
      <4>. DEFINE c == <<v, 1>>
      <4>1. c \in Owning /\ c[1] \in Vars /\ Refers(mem[c[1]][c[2]], o)
        BY <1>3, <3>1
      <4>. QED
        BY <1>8, <4>1
    <3>. QED
      BY <1>5, <3>1 DEF Held
  <2>2. ItemsOf(U) \subseteq U
    <3>1. ASSUME NEW o \in ItemsOf(U) PROVE o \in U
      <4>1. PICK c \in Owning : c[1] \in U /\ Refers(mem[c[1]][c[2]], o)
        BY <1>6
      <4>2. o \in Live /\ c[1] \in T \ {w}
        BY <1>6, <1>8, <4>1
      <4>. QED
        BY <1>8, <4>1, <4>2
    <3>. QED
      BY <3>1
  <2>3. w \in U
    BY <2>1, <2>2, ReachableIn
  <2>. QED
    BY <1>8, <2>3
<1>. QED
  BY <1>7, <1>8

\* What is held is reachable.
LEMMA HeldReachable == Held \subseteq ReachableFrom(Held)
BY DEF Held, ReachableFrom

\* What is assigned can be used after it is counted: the values are those of live objects.
LEMMA DirectAlive ==
  ASSUME IInv, Idle, NEW p \in Direct \cup Addresses
  PROVE  p \in Pointers /\ \A x \in Objs : Refers(p, x) => count[x] > 0
<1>1. CASE p = Null
  BY <1>1, RefersTo DEF Pointers
<1>2. CASE p \in Readable
  BY <1>2, ReadableAlive, RefersTo DEF Pointers
<1>3. ASSUME NEW q \in Readable, NEW i \in Reach(q), p = mem[q.obj][i]
      PROVE  p \in Pointers /\ \A x \in Objs : Refers(p, x) => count[x] > 0
  <2>1. q \in Ptr /\ q.obj \in Objs /\ count[q.obj] > 0
    BY ReadableAlive
  <2>2. i \in Cells
    BY <2>1, ReachIs
  <2>. DEFINE c == <<q.obj, i>>
  <2>3. c \in Owning /\ mem[c[1]][c[2]] = p
    BY <1>3, <2>1, <2>2, WhenIdle DEF Places
  <2>4. p \in Pointers
    BY <1>3, <2>1, <2>2, WhenIdle, Elements
  <2>. HIDE DEF c
  <2>. QED
    BY <2>3, <2>4, Referred DEF IInv
<1>4. ASSUME NEW q \in Readable, NEW i \in Reach(q), p = [obj |-> q.obj, cell |-> i]
      PROVE  p \in Pointers /\ \A x \in Objs : Refers(p, x) => count[x] > 0
  <2>1. q \in Ptr /\ q.obj \in Objs /\ count[q.obj] > 0
    BY ReadableAlive
  <2>2. p \in Ptr /\ p.obj = q.obj
    BY <1>4, <2>1, ReachIs
  <2>. QED
    BY <2>1, <2>2, RefersTo DEF Pointers
<1>. QED
  BY <1>1, <1>2, <1>3, <1>4 DEF Direct, Addresses

\* The right side is counted, and the release of the left side begins: the cells that are
\* assigned to stop owning, and the candidates and the store own instead.
LEMMA AssignStep ==
  ASSUME IInv, Idle, NEW w \in Objs \cup Vars, NEW D \in SUBSET Cells,
         NEW new \in [D -> Pointers], NEW old \in Seq(Pointers),
         \A x : Cardinality(IndicesTo(DOMAIN old, old, x)) = Cardinality(IndicesTo(D, mem[w], x)),
         RefCntAssign(w, old, new), lhs' \in {lhs, Null},
         w \notin Handles, w \in Vars => D = {1}, w \in Objs => w \in ReachableFrom(Held),
         \A i \in D, x \in Objs : Refers(new[i], x) => count[x] > 0
  PROVE  IInv'
<1>. DEFINE s == [of |-> w, new |-> new]
            q == Candidates(old)
            n(x) == Occurrences(x, new)
<1>1. /\ s \in Store /\ s.of = w /\ s.new = new /\ DOMAIN new = D
  BY DEF Store, Pointers
<1>. HIDE DEF s
<1>2. /\ IsFiniteSet(D) /\ s # Null
      /\ \A x : n(x) \in Nat /\ ((\A i \in D : ~Refers(new[i], x)) => n(x) = 0)
  <2>1. /\ s # Null /\ IsFiniteSet(DOMAIN s.new)
        /\ \A x : /\ Occurrences(x, s.new) \in Nat
                  /\ (\A i \in DOMAIN s.new : ~Refers(s.new[i], x)) => Occurrences(x, s.new) = 0
    BY <1>1, StoresTyped
  <2>. QED
    BY <1>1, <2>1
<1>3. /\ candidates' = q /\ cstack' = <<Release>> /\ store' = s
      /\ count' = [x \in Objs |-> count[x] + n(x)]
      /\ UNCHANGED <<made, mem, calls, status>>
  BY DEF RefCntAssign, s
<1>. HIDE DEF n
<1>4. /\ TypeOK /\ IsFiniteSet(Owning)
      /\ \A c : c \in Owning <=>
                  c \in Places /\ (c[1] \in Vars \/ (c[1] \in Objs /\ count[c[1]] > 0))
      /\ \A x \in Objs : count[x] \in Nat /\ count[x] = Cardinality(CellsTo(Owning, mem, x))
      /\ \A x : [fn |-> "onFree", obj |-> x] \notin ToSet(cstack)
  BY WhenIdle
<1>5. \A x \in Objs : /\ count'[x] = count[x] + n(x) /\ count'[x] \in Nat
                      /\ (count'[x] > 0 <=> count[x] > 0)
  <2>. TAKE x \in Objs
  <2>1. count'[x] = count[x] + n(x) /\ count[x] \in Nat /\ n(x) \in Nat
    BY <1>2, <1>3, <1>4
  <2>2. n(x) > 0 => count[x] > 0
    BY <1>2
  <2>. QED
    BY <2>1, <2>2
<1>6. /\ q \in Seq(Candidate) /\ \A i \in 1..Len(q) : ~q[i].deferred
      /\ \A x : /\ Cardinality(Queued(q, x)) \in Nat
                /\ Cardinality(Queued(q, x)) = Cardinality(IndicesTo(D, mem[w], x))
  <2>1. \A x : /\ Cardinality(IndicesTo(DOMAIN old, old, x)) \in Nat
               /\ Cardinality(Queued(q, x)) = Cardinality(IndicesTo(DOMAIN old, old, x))
    BY QueueStarted
  <2>2. q \in Seq(Candidate) /\ \A i \in 1..Len(q) : ~q[i].deferred
    BY QueueStarted
  <2>. QED
    BY <2>1, <2>2
<1>. HIDE DEF q
<1>7. TypeOK'
  <2>1. count' \in [Objs -> Nat]
    BY <1>3, <1>5
  <2>2. cstack' \in Seq(Frame) /\ ~(Idle') /\ lhs' \in Ptr \cup {Null}
    BY <1>3, <1>4 DEF TypeOK, Frame, Release, Idle
  <2>. QED
    BY <1>1, <1>3, <1>4, <1>6, <2>1, <2>2 DEF TypeOK
<1>8. Dying' = {}
  <2>1. \A x : x \notin Dying'
    BY <1>3, <1>6, <1>7, DyingAreNext
  <2>. QED
    BY <2>1
<1>9. w \in Objs => count[w] > 0
  BY ReachableHeld
<1>10. /\ \A c : c \in Owning' <=> c \in Owning /\ ~(c[1] = w /\ c[2] \in D)
       /\ \A c \in Row(w, D) : c \in Owning /\ c[1] = w /\ c[2] \in D
  <2>1. \A c : c \in Owning' <=>
                 /\ c \in Places /\ (c[1] \in Vars \/ (c[1] \in Objs /\ count'[c[1]] > 0))
                 /\ ~(c[1] = w /\ c[2] \in D)
    BY <1>1, <1>2, <1>3, <1>8 DEF Owning, Places
  <2>2. \A c \in Row(w, D) : c \in Places /\ c[1] = w /\ c[2] \in D
    BY DEF Row, Places
  <2>3. \A c \in Row(w, D) : c \in Owning
    BY <1>4, <1>9, <2>2
  <2>. QED
    BY <1>4, <1>5, <2>1, <2>2, <2>3
<1>11. /\ Owning = Owning' \cup Row(w, D) /\ Owning' \cap Row(w, D) = {}
       /\ IsFiniteSet(Owning')
  <2>1. \A c \in Places : c[1] = w /\ c[2] \in D => c \in Row(w, D)
    BY DEF Places, Row
  <2>2. Owning' \subseteq Owning
    BY <1>10
  <2>. QED
    BY <1>4, <1>10, <2>1, <2>2, FS_Subset
<1>12. ASSUME NEW x \in Objs PROVE count'[x] = Sum(x)'
  <2>. DEFINE A == Owning'
  <2>1. IsFiniteSet(A) /\ A \cap Row(w, D) = {} /\ Owning = A \cup Row(w, D)
    BY <1>11
  <2>. HIDE DEF A
  <2>2. RowAdds(A, w, D, mem, x)
    BY <1>2, <2>1, RowAdded
  <2>3. /\ Cardinality(CellsTo(A, mem, x)) \in Nat
        /\ count[x] = Cardinality(CellsTo(A, mem, x)) + Cardinality(Queued(q, x))
    BY <1>4, <1>6, <2>1, <2>2 DEF RowAdds
  <2>4. /\ Cardinality(CellsTo(Owning, mem, x))' = Cardinality(CellsTo(A, mem, x))
        /\ Cardinality(Queued(candidates, x))' = Cardinality(Queued(q, x))
    BY <1>3 DEF A
  <2>5. Storing(x)' = n(x) /\ Calling(x)' = 0
    BY <1>1, <1>2, <1>3, CallingIsNext DEF Storing, CallsCounted, n
  <2>6. count'[x] = count[x] + n(x) /\ n(x) \in Nat /\ Cardinality(Queued(q, x)) \in Nat
    BY <1>2, <1>5, <1>6
  <2>. QED
    BY <2>3, <2>4, <2>5, <2>6 DEF Sum
<1>13. CountsExact'
  BY <1>7, <1>12, ExactIsNext DEF SumsUp
<1>14. Unmade'
  <2>1. \A x \in Objs \ made : count[x] = 0 /\ count'[x] \in Nat
    BY <1>5 DEF IInv, Unmade
  <2>2. \A x \in Objs \ made : count'[x] = 0
    BY <1>5, <2>1
  <2>. QED
    BY <1>3, <2>2 DEF IInv, Unmade
<1>15. Shaped'
  BY <1>1, <1>3 DEF IInv, Shaped
<1>16. OnFreeOnce'
  <2>1. \A x : [fn |-> "onFree", obj |-> x] \notin ToSet(cstack')
    BY <1>3, CallbacksKnownNext DEF CallbacksKnown
  <2>2. \A x \in Objs : count'[x] = 0 <=> count[x] = 0
    BY <1>4, <1>5
  <2>. QED
    BY <1>3, <1>4, <2>1, <2>2 DEF OnFreeOnce, IInv
<1>17. Anchored'
  <2>1. ASSUME w \in Objs, NEW T \in SUBSET Objs, Closed(T)' PROVE w \in T
    <3>1. ASSUME NEW c \in Owning, NEW o \in Objs, c[1] \in Vars \cup (T \ {w}),
                 Refers(mem[c[1]][c[2]], o)
          PROVE  o \in T
      <4>1. c[1] # w
        BY <2>1, <3>1, RefCountAssumption
      <4>2. c \in Owning'
        BY <1>10, <4>1
      <4>. QED
        BY <1>3, <2>1, <3>1, <4>2 DEF Closed
    <3>. QED
      BY <2>1, <3>1, ReachableHeld
  <2>. QED
    BY <1>1, <1>3, <2>1 DEF Anchored
<1>18. Stacked' /\ status' = "running"
  BY <1>3 DEF Stacked, Idle, IInv
<1>19. LastReference'
  BY <1>3, <1>6, LastReferenceKept
<1>. QED
  BY <1>13, <1>14, <1>15, <1>16, <1>17, <1>18, <1>19 DEF IInv

\* One cell counts once at most.
LEMMA OneCell ==
  ASSUME NEW f, NEW i, NEW o
  PROVE  Cardinality(IndicesTo({i}, f, o)) = Hits(f[i], o)
<1>1. IndicesTo({i}, f, o) = IF Refers(f[i], o) THEN {i} ELSE {}
  BY DEF IndicesTo
<1>2. Cardinality({i}) = 1 /\ Cardinality({}) = 0
  BY FS_Singleton, FS_EmptySet
<1>. QED
  BY <1>1, <1>2 DEF Hits

\* One cell is assigned.
LEMMA AssignOne ==
  ASSUME IInv, Idle, NEW w \in Objs \cup Vars, NEW i \in Cells, NEW p \in Direct \cup Addresses,
         RefCntAssign(w, <<mem[w][i]>>, [j \in {i} |-> p]), lhs' \in {lhs, Null},
         w \notin Handles, w \in Vars => i = 1, w \in Objs => w \in ReachableFrom(Held)
  PROVE  IInv'
<1>. DEFINE D == {i}
            new == [j \in {i} |-> p]
            old == <<mem[w][i]>>
<1>1. p \in Pointers /\ \A x \in Objs : Refers(p, x) => count[x] > 0
  BY DirectAlive
<1>2. mem[w][i] \in Pointers
  BY WhenIdle, Elements
<1>3. /\ D \in SUBSET Cells /\ new \in [D -> Pointers] /\ old \in Seq(Pointers)
      /\ w \in Vars => D = {1}
  BY <1>1, <1>2, OneIndex
<1>4. \A x : Cardinality(IndicesTo(DOMAIN old, old, x)) = Cardinality(IndicesTo(D, mem[w], x))
  BY <1>2, OneIndex, OneCell
<1>5. \A j \in D, x \in Objs : Refers(new[j], x) => count[x] > 0
  BY <1>1
<1>6. RefCntAssign(w, old, new)
  OBVIOUS
<1>. HIDE DEF D, new, old
<1>. QED
  BY <1>3, <1>4, <1>5, <1>6, AssignStep

\* An assignment to a variable, or the end of its scope
LEMMA AssignVarStep ==
  ASSUME IInv, NEW v \in Vars \ HostVars, NEW p \in Direct \cup Addresses, AssignVar(v, p)
  PROVE  IInv'
<1>1. /\ Idle /\ lhs' = lhs
      /\ RefCntAssign(v, <<mem[v][1]>>, [i \in {1} |-> p])
  BY DEF AssignVar, Running
<1>2. 1 \in Cells /\ v \notin Handles /\ v \notin Objs
  BY RefCountAssumption DEF Cells
<1>. QED
  BY <1>1, <1>2, AssignOne

\* An assignment through an address whose object the program still holds
LEMMA AssignLhsStep ==
  ASSUME IInv, ~StaleLhs, NEW p \in Direct, AssignLhs(p)
  PROVE  IInv'
<1>1. /\ Idle /\ lhs # Null /\ lhs' = Null /\ lhs.obj \in ReachableFrom(Held)
      /\ RefCntAssign(lhs.obj, <<mem[lhs.obj][lhs.cell]>>, [i \in {lhs.cell} |-> p])
  BY DEF AssignLhs, Running
<1>2. lhs.obj \notin Handles /\ lhs.cell \in Cells
  BY <1>1 DEF IInv, Shaped
<1>3. lhs.obj \in Objs /\ lhs.obj \notin Vars
  BY <1>1, RefCountAssumption DEF ReachableFrom
<1>. QED
  BY <1>1, <1>2, <1>3, AssignOne

\* An assignment of a structure or an array
LEMMA CopyStep ==
  ASSUME IInv, NEW p \in Readable, NEW q \in Readable, Copy(p, q)
  PROVE  IInv'
<1>1. /\ Idle /\ Reach(p) # {} /\ lhs' = lhs /\ q.cell = 0 /\ Reach(q) # {}
      /\ RefCntAssign(p.obj, mem[p.obj], mem[q.obj])
  BY DEF Copy, Running
<1>. DEFINE w == p.obj
            new == mem[q.obj]
            old == mem[p.obj]
<1>2. p \in Ptr /\ w \in Held /\ w \in Objs
  BY <1>1, ReadableAlive
<1>3. w \notin Handles /\ w \notin Vars /\ w \in ReachableFrom(Held)
  BY <1>1, <1>2, HeldReachable, RefCountAssumption DEF Reach
<1>4. q \in Ptr /\ q.obj \in Objs /\ Reach(q) = Cells
  BY <1>1, ReadableAlive DEF Reach
<1>5. new \in [Cells -> Pointers] /\ old \in Seq(Pointers) /\ DOMAIN old = Cells
  <2>1. TypeOK
    BY <1>1, WhenIdle
  <2>2. new \in [Cells -> Pointers]
    BY <1>4, <2>1 DEF TypeOK, Pointers
  <2>. QED
    BY <1>2, <2>1, <2>2, Elements
<1>6. \A x : Cardinality(IndicesTo(DOMAIN old, old, x)) = Cardinality(IndicesTo(Cells, mem[w], x))
  BY <1>5
<1>7. \A i \in Cells, x \in Objs : Refers(new[i], x) => count[x] > 0
  <2>1. \A i \in Cells : mem[q.obj][i] \in Direct
    BY <1>4 DEF Direct
  <2>. QED
    BY <1>1, <2>1, DirectAlive
<1>8. RefCntAssign(w, old, new)
  BY <1>1
<1>. HIDE DEF w, new, old
<1>. QED
  BY <1>1, <1>2, <1>3, <1>5, <1>6, <1>7, <1>8, AssignStep

-----------------------------------------------------------------------------
(* The invariant.                                                          *)

\* At first nothing is allocated and nothing refers to anything.
LEMMA InitIInv == Init => IInv
<1>. SUFFICES ASSUME Init PROVE IInv
  OBVIOUS
<1>1. TypeOK
  <2>1. mem \in [Objs \cup Vars -> [Cells -> Ptr \cup {Null}]]
    BY DEF Init
  <2>. QED
    BY <2>1 DEF Init, TypeOK
<1>2. \A w \in Objs \cup Vars, i \in Cells : mem[w][i] = Null
  BY DEF Init
<1>3. ASSUME NEW o \in Objs PROVE count[o] = Sum(o)
  <2>1. CellsTo(Owning, mem, o) = {}
    BY <1>1, <1>2, Elements, RefersTo DEF CellsTo, Places
  <2>2. Queued(candidates, o) = {}
    BY DEF Init, Queued
  <2>3. Storing(o) = 0 /\ Calling(o) = 0 /\ count[o] = 0
    BY CallingIs DEF Init, CallsCounted, Storing
  <2>. QED
    BY <2>1, <2>2, <2>3, FS_EmptySet DEF Sum
<1>4. CountsExact
  BY <1>1, <1>3, ExactIs DEF SumsUp
<1>5. OnFreeOnce
  <2>1. made = {} /\ \A o \in Objs : calls[o] = 0
    BY DEF Init
  <2>. QED
    BY <2>1 DEF OnFreeOnce
<1>6. Unmade
  BY <1>2 DEF Init, Unmade
<1>7. Shaped
  <2>1. lhs = Null /\ store = Null
    BY DEF Init
  <2>. QED
    BY <1>2, <2>1, RefCountAssumption DEF Shaped
<1>8. Stacked /\ LastReference /\ Anchored /\ status = "running"
  BY DEF Init, Stacked, LastReference, Anchored, Idle
<1>. QED
  BY <1>4, <1>5, <1>6, <1>7, <1>8 DEF IInv

LEMMA Unchanged ==
  ASSUME IInv, UNCHANGED vars
  PROVE  IInv'
<1>1. CountsExact'
  <2>1. TypeOK /\ \A o \in Objs : count[o] = Sum(o)
    BY ExactIs DEF IInv, SumsUp
  <2>2. TypeOK'
    BY <2>1 DEF vars, TypeOK, Idle
  <2>3. ASSUME NEW o \in Objs PROVE count'[o] = Sum(o)'
    <3>1. /\ Owning' = Owning /\ Storing(o)' = Storing(o) /\ Calling(o)' = Calling(o)
          /\ Queued(candidates, o)' = Queued(candidates, o)
      BY DEF vars, Owning, Dying, Storing, Calling
    <3>. QED
      BY <2>1, <3>1 DEF vars, Sum
  <2>. QED
    BY <2>2, <2>3, ExactIsNext DEF SumsUp
<1>2. Stacked' /\ LastReference' /\ Unmade' /\ Shaped' /\ status' = "running"
  BY DEF IInv, vars, Stacked, LastReference, Unmade, Shaped, Idle
<1>3. Anchored'
  BY DEF IInv, vars, Anchored, Closed, Owning, Dying
<1>4. OnFreeOnce'
  BY DEF IInv, vars, OnFreeOnce
<1>. QED
  BY <1>1, <1>2, <1>3, <1>4 DEF IInv

\* Every step keeps the invariant, by the lemma about its action.
LEMMA NextStep ==
  ASSUME ~StaleLhs, ~CountsInOnFree, IInv, [Next]_vars
  PROVE  IInv'
<1>1. CASE Iterate
  BY <1>1, IterateStep
<1>2. CASE ReleaseReturns
  BY <1>2, ReleaseReturnsStep
<1>3. CASE OnFreeReturns
  BY <1>3, OnFreeReturnsStep
<1>4. ASSUME NEW h \in HostVars, HostDecRef(h) PROVE IInv'
  BY <1>4, HostDecRefStep
<1>5. ASSUME NEW h \in HostVars, NEW v \in Vars \ HostVars, HostIncRef(h, v) PROVE IInv'
  BY <1>5, HostIncRefStep
<1>6. ASSUME NEW v \in Vars \ HostVars, NEW o \in Objs, New(v, o) PROVE IInv'
  BY <1>6, NewStep
<1>7. ASSUME NEW v \in Vars \ HostVars, NEW p \in Direct \cup Addresses, AssignVar(v, p)
      PROVE  IInv'
  BY <1>7, AssignVarStep
<1>8. ASSUME NEW p \in Readable, NEW i \in Reach(p), PushLhs(p, i) PROVE IInv'
  BY <1>8, PushLhsStep
<1>9. ASSUME NEW p \in Direct, AssignLhs(p) PROVE IInv'
  BY <1>9, AssignLhsStep
<1>10. ASSUME NEW p \in Readable, NEW q \in Readable, Copy(p, q) PROVE IInv'
  BY <1>10, CopyStep
<1>11. CASE UNCHANGED vars
  BY <1>11, Unchanged
<1>. QED
  BY <1>1, <1>2, <1>3, <1>4, <1>5, <1>6, <1>7, <1>8, <1>9, <1>10, <1>11 DEF Next

\* In every run of a program that lets go of no object that it is assigning to, with
\* callbacks that release nothing, the counts are exact, and what this rests on.
THEOREM Invariance == ~StaleLhs /\ ~CountsInOnFree => (Spec => []IInv)
<1>. SUFFICES ASSUME ~StaleLhs, ~CountsInOnFree PROVE Spec => []IInv
  OBVIOUS
<1>1. Init => IInv
  BY InitIInv
<1>2. IInv /\ [Next]_vars => IInv'
  BY NextStep
<1>. QED
  BY <1>1, <1>2, PTL DEF Spec

\* Spec => []CountsExact: at every point of a release, and between releases, the count of
\* every object is the number of cells, candidates, stores and callbacks that refer to it.
THEOREM ExactCounts == ~StaleLhs /\ ~CountsInOnFree => (Spec => []CountsExact)
<1>. SUFFICES ASSUME ~StaleLhs, ~CountsInOnFree PROVE Spec => []CountsExact
  OBVIOUS
<1>1. IInv => CountsExact
  BY DEF IInv
<1>. QED
  BY <1>1, Invariance, PTL

-----------------------------------------------------------------------------
(* What is reachable is alive.                                             *)

\* Exact counts keep alive what is reachable.
LEMMA AliveHolds == IInv => ReachableAlive
<1>. SUFFICES ASSUME IInv, Idle, NEW o \in ReachableFrom(Held) PROVE count[o] > 0
  BY DEF ReachableAlive, IInv
<1>. QED
  BY ReachableHeld

\* Spec => []ReachableAlive: no release ever meets a dead object, and what the program can
\* reach through its variables has not been freed.
THEOREM ReachableStaysAlive == ~StaleLhs /\ ~CountsInOnFree => (Spec => []ReachableAlive)
<1>. SUFFICES ASSUME ~StaleLhs, ~CountsInOnFree PROVE Spec => []ReachableAlive
  OBVIOUS
<1>. QED
  BY Invariance, AliveHolds, PTL

-----------------------------------------------------------------------------
(* What is not reachable is freed, or held by a cycle.                     *)

\* From whatever holds d, and from no less, what d leads to can be reached.
LEMMA ReachableThrough ==
  ASSUME NEW e \in Objs, NEW d \in ItemsOf({e}), NEW o
  PROVE  /\ d \in ReachableFrom(ItemsOf({e}))
         /\ o \in ReachableFrom({d}) => o \in ReachableFrom({e})
         /\ \A f \in Objs : e \in ReachableFrom(ItemsOf({f})) => d \in ReachableFrom(ItemsOf({f}))
<1>1. \A T : e \in T => d \in ItemsOf(T)
  BY DEF ItemsOf
<1>2. d \in Objs
  BY DEF ItemsOf
<1>3. d \in ReachableFrom(ItemsOf({e}))
  BY <1>2 DEF ReachableFrom
<1>4. ASSUME o \in ReachableFrom({d}) PROVE o \in ReachableFrom({e})
  <2>1. o \in Objs
    BY <1>4 DEF ReachableFrom
  <2>2. ASSUME NEW T \in SUBSET Objs, {e} \subseteq T, ItemsOf(T) \subseteq T PROVE o \in T
    <3>1. {d} \subseteq T
      BY <1>1, <2>2
    <3>. QED
      BY <1>4, <2>2, <3>1, ReachableIn
  <2>. QED
    BY <2>1, <2>2 DEF ReachableFrom
<1>5. ASSUME NEW f \in Objs, e \in ReachableFrom(ItemsOf({f}))
      PROVE  d \in ReachableFrom(ItemsOf({f}))
  <2>1. ASSUME NEW T \in SUBSET Objs, ItemsOf({f}) \subseteq T, ItemsOf(T) \subseteq T PROVE d \in T
    <3>1. e \in T
      BY <1>5, <2>1, ReachableIn
    <3>. QED
      BY <1>1, <2>1, <3>1
  <2>. QED
    BY <1>2, <2>1 DEF ReachableFrom
<1>. QED
  BY <1>3, <1>4, <1>5

\* What leads to an object that the program cannot reach is held by another such object.
LEMMA Leaked ==
  ASSUME IInv, Idle, NEW o \in Objs, o \notin ReachableFrom(Held),
         NEW d \in Objs, count[d] > 0, o \in ReachableFrom({d})
  PROVE  \E e \in Objs : count[e] > 0 /\ d \in ItemsOf({e})
<1>1. d \notin Held
  <2>. SUFFICES ASSUME d \in Held PROVE o \in ReachableFrom(Held)
    OBVIOUS
  <2>1. \A T \in SUBSET Objs : Held \subseteq T /\ ItemsOf(T) \subseteq T => o \in T
    BY ReachableIn
  <2>. QED
    BY <2>1 DEF ReachableFrom
<1>2. PICK c \in Owning : Refers(mem[c[1]][c[2]], d)
  <2>1. CellsTo(Owning, mem, d) # {}
    <3>1. count[d] = Cardinality(CellsTo(Owning, mem, d))
      BY WhenIdle
    <3>2. Cardinality({}) = 0
      BY FS_EmptySet
    <3>. QED
      BY <3>1, <3>2
  <2>. QED
    BY <2>1 DEF CellsTo
<1>3. /\ c \in Places /\ c[1] \in Objs \cup Vars /\ c[2] \in Cells
      /\ c[1] \in Vars \/ (c[1] \in Objs /\ count[c[1]] > 0)
  BY WhenIdle DEF Places
<1>4. CASE c[1] \in Vars
  <2>1. c[2] = 1
    BY <1>2, <1>3, <1>4, RefersTo DEF IInv, Shaped
  <2>2. d \in Held
    BY <1>2, <1>4, <2>1 DEF Held
  <2>. QED
    BY <1>1, <2>2
<1>5. CASE c[1] \in Objs /\ count[c[1]] > 0
  BY <1>2, <1>3, <1>5 DEF ItemsOf
<1>. QED
  BY <1>3, <1>4, <1>5

\* A live object that is not reachable is held by another one, and so on: as there are finitely
\* many, one of them holds itself.
LEMMA ReclaimedHolds == IInv => ReclaimedWhenIdle
<1>. SUFFICES ASSUME IInv, Idle, NEW o \in Objs, count[o] > 0, o \notin ReachableFrom(Held)
              PROVE  \E d \in Objs : count[d] > 0 /\ d \in ReachableFrom(ItemsOf({d}))
                                     /\ o \in ReachableFrom({d})
  BY DEF ReclaimedWhenIdle
<1>. DEFINE B == {d \in Objs : count[d] > 0 /\ o \in ReachableFrom({d})}
            Above(d) == {e \in B : d \in ReachableFrom(ItemsOf({e}))}
            F == {Above(d) : d \in B}
<1>1. o \in B
  BY DEF ReachableFrom
<1>2. IsFiniteSet(B)
  BY RefCountAssumption, FS_Subset
<1>3. PICK d \in B : \A y \in F : y \subseteq Above(d) => y = Above(d)
  <2>1. \A y : Above(y) \in SUBSET B
    OBVIOUS
  <2>. HIDE DEF B, Above
  <2>2. F # {} /\ (\A y \in F : \E x \in B : y = Above(x)) /\ (\A x \in B : Above(x) \in F)
    BY <1>1
  <2>. HIDE DEF F
  <2>3. F \in SUBSET (SUBSET B)
    BY <2>1, <2>2
  <2>4. PICK x \in F : \A y \in F : y \subseteq x => y = x
    BY <1>2, <2>2, <2>3, MinimalSet
  <2>. QED
    BY <2>2, <2>4
<1>4. PICK e \in Objs : count[e] > 0 /\ d \in ItemsOf({e})
  BY <1>3, Leaked
<1>5. /\ e \in B /\ e \in Above(d)
      /\ \A f \in Objs : e \in ReachableFrom(ItemsOf({f})) => d \in ReachableFrom(ItemsOf({f}))
  BY <1>3, <1>4, ReachableThrough
<1>6. Above(e) \subseteq Above(d)
  BY <1>5
<1>7. Above(e) = Above(d)
  BY <1>3, <1>5, <1>6
<1>8. e \in ReachableFrom(ItemsOf({e}))
  BY <1>5, <1>7
<1>. QED
  BY <1>4, <1>5, <1>8

\* Spec => []ReclaimedOnce: what the program can no longer reach has been freed by the end
\* of the release, unless a cycle of references holds it, and the callback of native data
\* has run once when it is freed, and not before.
THEOREM GarbageReclaimedOnce == ~StaleLhs /\ ~CountsInOnFree => (Spec => []ReclaimedOnce)
<1>. SUFFICES ASSUME ~StaleLhs, ~CountsInOnFree PROVE Spec => []ReclaimedOnce
  OBVIOUS
<1>1. IInv => ReclaimedOnce
  BY ReclaimedHolds DEF ReclaimedOnce, IInv
<1>. QED
  BY <1>1, Invariance, PTL

=============================================================================
