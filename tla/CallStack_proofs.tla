--------------------------- MODULE CallStack_proofs ---------------------------
(***************************************************************************)
(* Proofs about CallStack for all sets of fibers and shared variables, all *)
(* ways in which fibers make each other, and all numbers of frames.  The   *)
(* stacks are seen as two functions of places: how many pointers a frame   *)
(* has counted, and which pointer a place holds.                           *)
(***************************************************************************)
EXTENDS CallStack, FiniteSetTheorems, SequenceTheorems, TLAPS

\* Replacing one member of a finite set changes its cardinality by what goes and
\* what comes.
LEMMA CountUpdate ==
  ASSUME NEW S, IsFiniteSet(S), NEW T, NEW u, NEW comes \in BOOLEAN,
         T = (S \ {u}) \cup (IF comes THEN {u} ELSE {})
  PROVE  /\ IsFiniteSet(T)
         /\ Cardinality(S) \in Nat /\ Cardinality(T) \in Nat
         /\ Cardinality(T) = Cardinality(S) - (IF u \in S THEN 1 ELSE 0)
                                            + (IF comes THEN 1 ELSE 0)
<1>1. /\ IsFiniteSet(S \ {u})
      /\ Cardinality(S \ {u}) = IF u \in S THEN Cardinality(S) - 1 ELSE Cardinality(S)
  BY FS_RemoveElement
<1>2. Cardinality(S) \in Nat /\ Cardinality(S \ {u}) \in Nat
  BY <1>1, FS_CardinalityType
<1>3. CASE comes
  <2>1. T = (S \ {u}) \cup {u}
    BY <1>3
  <2>2. IsFiniteSet(T) /\ Cardinality(T) = Cardinality(S \ {u}) + 1
    BY <1>1, <2>1, FS_AddElement
  <2>. QED
    BY <1>1, <1>2, <1>3, <2>2
<1>4. CASE ~comes
  <2>1. T = S \ {u}
    BY <1>4
  <2>. QED
    BY <1>1, <1>2, <1>4, <2>1
<1>. QED
  BY <1>3, <1>4

(* References held in the places of a finite set S: f[x] is what x holds.  *)

\* How often p is o
One(o, p) == IF o = p THEN 1 ELSE 0

Holding(S, f, o) == {x \in S : f[x] = o}

\* The number of places that hold o is natural; it is positive if one is known.
LEMMA HoldersCounted ==
  ASSUME NEW S, IsFiniteSet(S), NEW f, NEW o
  PROVE  /\ IsFiniteSet(Holding(S, f, o))
         /\ Cardinality(Holding(S, f, o)) \in Nat
         /\ \A x \in S : f[x] = o => Cardinality(Holding(S, f, o)) > 0
         /\ (\A x \in S : f[x] # o) => Cardinality(Holding(S, f, o)) = 0
<1>1. IsFiniteSet(Holding(S, f, o)) /\ Cardinality(Holding(S, f, o)) \in Nat
  BY FS_Subset, FS_CardinalityType DEF Holding
<1>2. Cardinality(Holding(S, f, o)) = 0 <=> Holding(S, f, o) = {}
  BY <1>1, FS_EmptySet
<1>3. (\E x \in S : f[x] = o) <=> Holding(S, f, o) # {}
  BY DEF Holding
<1>. QED
  BY <1>1, <1>2, <1>3

\* When one place holds something else, the numbers of holders change by one each.
LEMMA HoldingUpdate ==
  ASSUME NEW S, IsFiniteSet(S), NEW x \in S, NEW f, NEW g,
         \A y \in S \ {x} : g[y] = f[y],
         NEW o
  PROVE  Cardinality(Holding(S, g, o)) =
           Cardinality(Holding(S, f, o)) - One(o, f[x]) + One(o, g[x])
<1>. DEFINE H == Holding(S, f, o)
            HN == Holding(S, g, o)
<1>1. IsFiniteSet(H)
  BY HoldersCounted
<1>2. (g[x] = o) \in BOOLEAN
  OBVIOUS
<1>3. HN = (H \ {x}) \cup (IF g[x] = o THEN {x} ELSE {})
  BY DEF Holding
<1>4. x \in H <=> f[x] = o
  BY DEF Holding
<1>. HIDE DEF H, HN
<1>5. Cardinality(HN) = Cardinality(H) - (IF x \in H THEN 1 ELSE 0)
                                       + (IF g[x] = o THEN 1 ELSE 0)
  BY <1>1, <1>2, <1>3, CountUpdate
<1>6. One(o, f[x]) = (IF x \in H THEN 1 ELSE 0) /\ One(o, g[x]) = (IF g[x] = o THEN 1 ELSE 0)
  BY <1>4 DEF One
<1>. QED
  BY <1>5, <1>6 DEF H, HN

-----------------------------------------------------------------------------
(* Stacks as functions of places.                                          *)

Frame == [refs : Int, var : Pointer \cup {Null}, fromC : BOOLEAN]

Stacks == {st \in [Fibers -> Seq(Frame)] : \A f \in Fibers : Len(st[f]) <= MaxFrames}

Places == Shared \cup Pointer

\* The frame with this variable is there
There(st, p) == p.depth <= Len(st[p.fiber])

Refs(st) == [p \in Pointer |-> IF There(st, p) THEN st[p.fiber][p.depth].refs ELSE 0]

Vars(st, sh) ==
  [x \in Places |-> IF x \in Shared THEN sh[x]
                    ELSE IF There(st, x) THEN st[x.fiber][x.depth].var ELSE Null]

\* Pointers are pairs of a fiber and a depth.
LEMMA PointerParts ==
  /\ \A p \in Pointer : /\ p.fiber \in Fibers /\ p.depth \in 1..MaxFrames /\ p # Null
                        /\ p \notin Shared /\ p \in Places
                        /\ p = [fiber |-> p.fiber, depth |-> p.depth]
  /\ \A f \in Fibers, i \in 1..MaxFrames :
       /\ [fiber |-> f, depth |-> i] \in Pointer
       /\ [fiber |-> f, depth |-> i].fiber = f /\ [fiber |-> f, depth |-> i].depth = i
  /\ \A p, q \in Pointer : p.fiber = q.fiber /\ p.depth = q.depth => p = q
BY CallStackAssumption DEF Pointer, Places

\* Frames and their numbers.
LEMMA StackParts ==
  ASSUME NEW st \in Stacks, NEW f \in Fibers
  PROVE  /\ st[f] \in Seq(Frame) /\ Len(st[f]) \in Nat /\ Len(st[f]) <= MaxFrames
         /\ DOMAIN st[f] = 1..Len(st[f])
         /\ \A i \in 1..Len(st[f]) : i \in 1..MaxFrames /\ st[f][i] \in Frame
<1>1. st[f] \in Seq(Frame) /\ Len(st[f]) <= MaxFrames
  BY DEF Stacks
<1>. QED
  BY <1>1, LenProperties, CallStackAssumption

\* One frame of a stack is replaced.
LEMMA FrameReplaced ==
  ASSUME NEW st \in Stacks, NEW f \in Fibers, NEW i \in 1..Len(st[f]), NEW fr \in Frame
  PROVE  LET s2 == [st EXCEPT ![f] = [st[f] EXCEPT ![i] = fr]]
         IN  /\ s2 \in Stacks
             /\ \A g \in Fibers : Len(s2[g]) = Len(st[g])
             /\ \A g \in Fibers : \A j \in 1..Len(st[g]) :
                  s2[g][j] = IF g = f /\ j = i THEN fr ELSE st[g][j]
<1>. DEFINE t == [st[f] EXCEPT ![i] = fr]
            s2 == [st EXCEPT ![f] = t]
<1>1. /\ t \in Seq(Frame) /\ Len(t) = Len(st[f])
      /\ \A j \in 1..Len(st[f]) : t[j] = IF j = i THEN fr ELSE st[f][j]
  BY StackParts, ExceptSeq
<1>2. st \in [Fibers -> Seq(Frame)] /\ \A g \in Fibers : Len(st[g]) <= MaxFrames
  BY DEF Stacks
<1>. HIDE DEF t
<1>3. \A g \in Fibers : s2[g] = IF g = f THEN t ELSE st[g]
  BY <1>2
<1>4. s2 \in [Fibers -> Seq(Frame)]
  BY <1>1, <1>2
<1>. HIDE DEF s2
<1>5. \A g \in Fibers : Len(s2[g]) = Len(st[g])
  BY <1>1, <1>3
<1>6. \A g \in Fibers : \A j \in 1..Len(st[g]) :
        s2[g][j] = IF g = f /\ j = i THEN fr ELSE st[g][j]
  BY <1>1, <1>3
<1>7. s2 \in Stacks
  BY <1>2, <1>4, <1>5 DEF Stacks
<1>. QED
  BY <1>5, <1>6, <1>7 DEF s2, t

\* Two stacks with the same frames there, but for one or the other field
Same(st, s2) ==
  \A f \in Fibers : /\ Len(s2[f]) = Len(st[f])
                    /\ \A i \in 1..Len(st[f]) : s2[f][i].fromC = st[f][i].fromC

\* A pointer that stackUpdateFrameRefCnt sees is counted.
LEMMA CountedEffect ==
  ASSUME NEW st \in Stacks, NEW p \in Pointer \cup {Null}, NEW d \in Int,
         p # Null => Seen(st, p), NEW sh
  PROVE  LET s2 == Counted(st, p, d)
         IN  /\ s2 \in Stacks
             /\ Same(st, s2)
             /\ \A q \in Pointer : Refs(s2)[q] = Refs(st)[q] + (IF q = p THEN d ELSE 0)
             /\ Vars(s2, sh) = Vars(st, sh)
<1>. DEFINE s2 == Counted(st, p, d)
<1>0. \A q \in Pointer : Refs(st)[q] \in Int
  BY PointerParts, StackParts DEF Refs, There, Frame
<1>1. CASE p = Null
  <2>1. s2 = st
    BY <1>1 DEF Counted, Seen
  <2>2. \A q \in Pointer : Refs(s2)[q] = Refs(st)[q] + (IF q = p THEN d ELSE 0)
    BY <1>0, <1>1, <2>1, PointerParts
  <2>. QED
    BY <2>1, <2>2 DEF Same
<1>2. CASE p # Null
  <2>. DEFINE f == p.fiber
              i == p.depth
              fr == [st[f][i] EXCEPT !.refs = @ + d]
              s3 == [st EXCEPT ![f] = [st[f] EXCEPT ![i] = fr]]
  <2>1. f \in Fibers /\ i \in 1..Len(st[f]) /\ p \in Pointer
    BY <1>2, PointerParts, StackParts DEF Seen
  <2>2. st[f][i] \in Frame
    BY <2>1, StackParts
  <2>3. fr \in Frame /\ fr.refs = st[f][i].refs + d /\ fr.var = st[f][i].var
        /\ fr.fromC = st[f][i].fromC
    BY <2>2 DEF Frame
  <2>4. s2 = s3
    BY <1>2 DEF Counted
  <2>. HIDE DEF fr, s3, s2
  <2>5. /\ s3 \in Stacks
        /\ \A g \in Fibers : Len(s3[g]) = Len(st[g])
        /\ \A g \in Fibers : \A j \in 1..Len(st[g]) :
             s3[g][j] = IF g = f /\ j = i THEN fr ELSE st[g][j]
    BY <2>1, <2>3, FrameReplaced DEF s3
  <2>6. Same(st, s3)
    BY <2>3, <2>5 DEF Same
  <2>7. ASSUME NEW q \in Pointer
        PROVE  Refs(s3)[q] = Refs(st)[q] + (IF q = p THEN d ELSE 0)
    <3>1. CASE There(st, q)
      <4>1. /\ Refs(st)[q] = st[q.fiber][q.depth].refs
            /\ Refs(s3)[q] = s3[q.fiber][q.depth].refs
            /\ q.fiber \in Fibers /\ q.depth \in 1..Len(st[q.fiber])
        BY <2>5, <3>1, PointerParts, StackParts DEF Refs, There
      <4>2. q = p <=> q.fiber = f /\ q.depth = i
        BY <2>1, PointerParts
      <4>. QED
        BY <1>0, <2>3, <2>5, <4>1, <4>2
    <3>2. CASE ~There(st, q)
      <4>1. Refs(st)[q] = 0 /\ Refs(s3)[q] = 0 /\ q # p
        BY <2>1, <2>5, <3>2, PointerParts DEF Refs, There
      <4>. QED
        BY <4>1
    <3>. QED
      BY <3>1, <3>2
  <2>8. Vars(s3, sh) = Vars(st, sh)
    <3>1. ASSUME NEW x \in Pointer
          PROVE  /\ There(s3, x) <=> There(st, x)
                 /\ There(st, x) => s3[x.fiber][x.depth].var = st[x.fiber][x.depth].var
      BY <2>3, <2>5, PointerParts, StackParts DEF There
    <3>. QED
      BY <3>1 DEF Vars, Places
  <2>. QED
    BY <2>4, <2>5, <2>6, <2>7, <2>8 DEF s2
<1>. QED
  BY <1>1, <1>2

\* A frame is pushed.
WithFrame(st, f, fr) == [st EXCEPT ![f] = Append(st[f], fr)]

\* A frame is pushed: its place is new.
LEMMA PushEffect ==
  ASSUME NEW st \in Stacks, NEW f \in Fibers, Len(st[f]) < MaxFrames,
         NEW fr \in Frame, fr.refs = 0, NEW sh
  PROVE  LET s2 == WithFrame(st, f, fr)
             new == [fiber |-> f, depth |-> Len(st[f]) + 1]
         IN  /\ s2 \in Stacks /\ new \in Pointer /\ There(s2, new)
             /\ \A g \in Fibers : Len(s2[g]) = IF g = f THEN Len(st[g]) + 1 ELSE Len(st[g])
             /\ \A g \in Fibers : \A j \in 1..Len(st[g]) : s2[g][j] = st[g][j]
             /\ s2[f][Len(st[f]) + 1] = fr
             /\ \A q \in Pointer : Refs(s2)[q] = Refs(st)[q]
             /\ \A x \in Places : Vars(s2, sh)[x] = IF x = new THEN fr.var ELSE Vars(st, sh)[x]
             /\ Vars(st, sh)[new] = Null
<1>. DEFINE t == Append(st[f], fr)
            s2 == WithFrame(st, f, fr)
            n == Len(st[f])
            new == [fiber |-> f, depth |-> n + 1]
<1>1. n \in Nat /\ n + 1 \in 1..MaxFrames
  BY StackParts, CallStackAssumption
<1>2. /\ t \in Seq(Frame) /\ Len(t) = n + 1
      /\ \A j \in 1..n : t[j] = st[f][j]
      /\ t[n + 1] = fr
  BY StackParts, AppendProperties
<1>3. st \in [Fibers -> Seq(Frame)] /\ \A g \in Fibers : Len(st[g]) <= MaxFrames
  BY DEF Stacks
<1>4. new \in Pointer /\ new.fiber = f /\ new.depth = n + 1
  BY <1>1, PointerParts
<1>0. s2 = [st EXCEPT ![f] = t]
  BY DEF WithFrame
<1>. HIDE DEF t, s2
<1>5. \A g \in Fibers : s2[g] = IF g = f THEN t ELSE st[g]
  BY <1>0, <1>3
<1>6. s2 \in [Fibers -> Seq(Frame)]
  BY <1>0, <1>2, <1>3
<1>. HIDE DEF n, new
<1>7. \A g \in Fibers : Len(s2[g]) = IF g = f THEN Len(st[g]) + 1 ELSE Len(st[g])
  BY <1>2, <1>5 DEF n
<1>8. \A g \in Fibers : \A j \in 1..Len(st[g]) : s2[g][j] = st[g][j]
  BY <1>2, <1>5 DEF n
<1>9. s2[f][n + 1] = fr
  BY <1>2, <1>5
<1>10. s2 \in Stacks
  BY <1>1, <1>3, <1>6, <1>7, CallStackAssumption DEF Stacks, n
<1>11. ASSUME NEW x \in Pointer
       PROVE  /\ x # new => (There(s2, x) <=> There(st, x))
              /\ There(st, x) => x # new /\ s2[x.fiber][x.depth] = st[x.fiber][x.depth]
              /\ x = new => There(s2, x) /\ ~There(st, x) /\ s2[x.fiber][x.depth] = fr
  <2>1. /\ x.fiber \in Fibers /\ x.depth \in Nat /\ x.depth >= 1
        /\ (x = new <=> x.fiber = f /\ x.depth = n + 1)
    BY <1>4, PointerParts, CallStackAssumption
  <2>2. Len(st[x.fiber]) \in Nat
    BY <2>1, StackParts
  <2>3. x.fiber = f => Len(st[x.fiber]) = n
    BY DEF n
  <2>. QED
    BY <1>1, <1>7, <1>8, <1>9, <2>1, <2>2, <2>3, SMTT(20) DEF There
<1>12. \A q \in Pointer : Refs(s2)[q] = Refs(st)[q]
  BY <1>11 DEF Refs
<1>13. \A x \in Places : Vars(s2, sh)[x] = IF x = new THEN fr.var ELSE Vars(st, sh)[x]
  <2>1. ASSUME NEW x \in Shared
        PROVE  Vars(s2, sh)[x] = IF x = new THEN fr.var ELSE Vars(st, sh)[x]
    BY <1>4, PointerParts DEF Vars, Places
  <2>2. ASSUME NEW x \in Pointer
        PROVE  Vars(s2, sh)[x] = IF x = new THEN fr.var ELSE Vars(st, sh)[x]
    BY <1>11, PointerParts DEF Vars, Places
  <2>. QED
    BY <2>1, <2>2 DEF Places
<1>14. Vars(st, sh)[new] = Null
  BY <1>4, <1>11, PointerParts DEF Vars
<1>. QED
  BY <1>4, <1>7, <1>8, <1>9, <1>10, <1>11, <1>12, <1>13, <1>14 DEF s2, t, new, n

\* A frame is popped.
WithoutFrame(st, f) == [st EXCEPT ![f] = Front(@)]

\* A frame is popped: its place is gone.
LEMMA PopEffect ==
  ASSUME NEW st \in Stacks, NEW f \in Fibers, st[f] # <<>>, NEW sh
  PROVE  LET s2 == WithoutFrame(st, f)
             old == [fiber |-> f, depth |-> Len(st[f])]
         IN  /\ s2 \in Stacks /\ old \in Pointer
             /\ \A g \in Fibers : Len(s2[g]) = IF g = f THEN Len(st[g]) - 1 ELSE Len(st[g])
             /\ \A g \in Fibers : \A j \in 1..Len(s2[g]) : s2[g][j] = st[g][j]
             /\ \A q \in Pointer : Refs(s2)[q] = IF q = old THEN 0 ELSE Refs(st)[q]
             /\ \A x \in Places : Vars(s2, sh)[x] = IF x = old THEN Null ELSE Vars(st, sh)[x]
<1>. DEFINE n == Len(st[f])
            t == Front(st[f])
            s2 == WithoutFrame(st, f)
            old == [fiber |-> f, depth |-> n]
<1>1. st[f] \in Seq(Frame) /\ n \in 1..MaxFrames
  <2>1. st[f] \in Seq(Frame) /\ n \in Nat /\ n <= MaxFrames
    BY StackParts
  <2>2. n # 0
    BY <2>1, EmptySeq
  <2>. QED
    BY <2>1, <2>2, CallStackAssumption
<1>2. /\ t \in Seq(Frame) /\ Len(t) = n - 1
      /\ \A j \in 1..(n - 1) : t[j] = st[f][j]
  <2>1. \A i \in 1..(n - 1) : st[f][i] \in Frame
    BY <1>1, StackParts
  <2>2. /\ SubSeq(st[f], 1, n - 1) \in Seq(Frame)
        /\ Len(SubSeq(st[f], 1, n - 1)) = IF 1 <= n - 1 THEN (n - 1) - 1 + 1 ELSE 0
        /\ \A i \in 1..((n - 1) - 1 + 1) : SubSeq(st[f], 1, n - 1)[i] = st[f][1 + i - 1]
    BY <1>1, <2>1, SubSeqProperties
  <2>3. t = SubSeq(st[f], 1, n - 1)
    BY DEF Front
  <2>. HIDE DEF t, n
  <2>. QED
    BY <1>1, <2>2, <2>3
<1>3. st \in [Fibers -> Seq(Frame)] /\ \A g \in Fibers : Len(st[g]) <= MaxFrames
  BY DEF Stacks
<1>4. old \in Pointer /\ old.fiber = f /\ old.depth = n
  BY <1>1, PointerParts
<1>0. s2 = [st EXCEPT ![f] = t]
  BY DEF WithoutFrame
<1>. HIDE DEF t, s2
<1>5. \A g \in Fibers : s2[g] = IF g = f THEN t ELSE st[g]
  BY <1>0, <1>3
<1>6. s2 \in [Fibers -> Seq(Frame)]
  BY <1>0, <1>2, <1>3
<1>. HIDE DEF n, old
<1>7. \A g \in Fibers : Len(s2[g]) = IF g = f THEN Len(st[g]) - 1 ELSE Len(st[g])
  BY <1>2, <1>5 DEF n
<1>8. \A g \in Fibers : \A j \in 1..Len(s2[g]) : s2[g][j] = st[g][j]
  BY <1>2, <1>5, <1>7 DEF n
<1>9. s2 \in Stacks
  <2>1. \A g \in Fibers : Len(s2[g]) <= MaxFrames
    BY <1>1, <1>3, <1>7, CallStackAssumption DEF n
  <2>. QED
    BY <1>6, <2>1 DEF Stacks
<1>10. ASSUME NEW x \in Pointer
       PROVE  /\ x # old => (There(s2, x) <=> There(st, x))
              /\ There(s2, x) => x # old /\ s2[x.fiber][x.depth] = st[x.fiber][x.depth]
              /\ x = old => ~There(s2, x)
  <2>1. /\ x.fiber \in Fibers /\ x.depth \in Nat /\ x.depth >= 1
        /\ (x = old <=> x.fiber = f /\ x.depth = n)
    BY <1>4, PointerParts, CallStackAssumption
  <2>2. Len(st[x.fiber]) \in Nat
    BY <2>1, StackParts
  <2>3. x.fiber = f => Len(st[x.fiber]) = n
    BY DEF n
  <2>. QED
    BY <1>1, <1>7, <1>8, <2>1, <2>2, <2>3 DEF There
<1>11. \A q \in Pointer : Refs(s2)[q] = IF q = old THEN 0 ELSE Refs(st)[q]
  BY <1>10 DEF Refs
<1>12. \A x \in Places : Vars(s2, sh)[x] = IF x = old THEN Null ELSE Vars(st, sh)[x]
  <2>1. ASSUME NEW x \in Shared
        PROVE  Vars(s2, sh)[x] = IF x = old THEN Null ELSE Vars(st, sh)[x]
    BY <1>4, PointerParts DEF Vars, Places
  <2>2. ASSUME NEW x \in Pointer
        PROVE  Vars(s2, sh)[x] = IF x = old THEN Null ELSE Vars(st, sh)[x]
    BY <1>10, PointerParts DEF Vars, Places
  <2>. QED
    BY <2>1, <2>2 DEF Places
<1>. QED
  BY <1>4, <1>7, <1>8, <1>9, <1>11, <1>12 DEF s2, t, old, n

\* The variable of a frame is assigned.
WithVar(st, x, p) == [st EXCEPT ![x.fiber][x.depth].var = p]

\* The variable of a frame is assigned.
LEMMA VarEffect ==
  ASSUME NEW st \in Stacks, NEW x \in Pointer, There(st, x), NEW p \in Pointer \cup {Null}, NEW sh
  PROVE  LET s2 == WithVar(st, x, p)
         IN  /\ s2 \in Stacks
             /\ Same(st, s2)
             /\ \A q \in Pointer : Refs(s2)[q] = Refs(st)[q]
             /\ \A y \in Places : Vars(s2, sh)[y] = IF y = x THEN p ELSE Vars(st, sh)[y]
<1>. DEFINE f == x.fiber
            i == x.depth
            fr == [st[f][i] EXCEPT !.var = p]
            s2 == WithVar(st, x, p)
            s3 == [st EXCEPT ![f] = [st[f] EXCEPT ![i] = fr]]
<1>1. f \in Fibers /\ i \in 1..Len(st[f])
  BY PointerParts, StackParts DEF There
<1>2. st[f][i] \in Frame
  BY <1>1, StackParts
<1>3. fr \in Frame /\ fr.refs = st[f][i].refs /\ fr.var = p /\ fr.fromC = st[f][i].fromC
  BY <1>2 DEF Frame
<1>4. s2 = s3
  BY DEF WithVar
<1>. HIDE DEF fr, s3, s2
<1>5. /\ s3 \in Stacks
      /\ \A g \in Fibers : Len(s3[g]) = Len(st[g])
      /\ \A g \in Fibers : \A j \in 1..Len(st[g]) :
           s3[g][j] = IF g = f /\ j = i THEN fr ELSE st[g][j]
  BY <1>1, <1>3, FrameReplaced DEF s3
<1>6. Same(st, s3)
  BY <1>3, <1>5 DEF Same
<1>7. ASSUME NEW y \in Pointer
      PROVE  /\ There(s3, y) <=> There(st, y)
             /\ There(st, y) => s3[y.fiber][y.depth].refs = st[y.fiber][y.depth].refs
             /\ y = x => There(st, y) /\ s3[y.fiber][y.depth].var = p
             /\ There(st, y) /\ y # x => s3[y.fiber][y.depth].var = st[y.fiber][y.depth].var
  <2>1. y.fiber \in Fibers /\ (y = x <=> y.fiber = f /\ y.depth = i)
    BY PointerParts
  <2>2. There(st, y) => y.depth \in 1..Len(st[y.fiber])
    BY <2>1, PointerParts, StackParts DEF There
  <2>. QED
    BY <1>1, <1>3, <1>5, <2>1, <2>2 DEF There
<1>8. \A q \in Pointer : Refs(s3)[q] = Refs(st)[q]
  BY <1>7 DEF Refs
<1>9. \A y \in Places : Vars(s3, sh)[y] = IF y = x THEN p ELSE Vars(st, sh)[y]
  <2>1. ASSUME NEW y \in Shared
        PROVE  Vars(s3, sh)[y] = IF y = x THEN p ELSE Vars(st, sh)[y]
    BY PointerParts DEF Vars, Places
  <2>2. ASSUME NEW y \in Pointer
        PROVE  Vars(s3, sh)[y] = IF y = x THEN p ELSE Vars(st, sh)[y]
    BY <1>7, PointerParts DEF Vars, Places
  <2>. QED
    BY <2>1, <2>2 DEF Places
<1>. QED
  BY <1>4, <1>5, <1>6, <1>8, <1>9 DEF s2

\* A place is assigned.
LEMMA StoreEffect ==
  ASSUME NEW st \in Stacks, NEW x \in Places, x \in Pointer => There(st, x),
         NEW p \in Pointer \cup {Null}, shared \in [Shared -> Pointer \cup {Null}],
         Store(st, x, p)
  PROVE  /\ stack' \in Stacks /\ shared' \in [Shared -> Pointer \cup {Null}]
         /\ Same(st, stack')
         /\ \A q \in Pointer : Refs(stack')[q] = Refs(st)[q]
         /\ \A y \in Places : Vars(stack', shared')[y] = IF y = x THEN p ELSE Vars(st, shared)[y]
<1>1. CASE x \in Shared
  <2>1. shared' = [shared EXCEPT ![x] = p] /\ stack' = st
    BY <1>1 DEF Store
  <2>2. Same(st, stack')
    BY <2>1 DEF Same
  <2>3. \A y \in Places : Vars(stack', shared')[y] = IF y = x THEN p ELSE Vars(st, shared)[y]
    BY <1>1, <2>1, PointerParts DEF Vars, Places
  <2>. QED
    BY <2>1, <2>2, <2>3
<1>2. CASE x \notin Shared
  <2>1. /\ stack' = [st EXCEPT ![x.fiber][x.depth].var = p] /\ shared' = shared
        /\ x \in Pointer
    BY <1>2 DEF Store, Places
  <2>. DEFINE s2 == WithVar(st, x, p)
  <2>2. /\ s2 \in Stacks /\ Same(st, s2)
        /\ \A q \in Pointer : Refs(s2)[q] = Refs(st)[q]
        /\ \A y \in Places : Vars(s2, shared)[y] = IF y = x THEN p ELSE Vars(st, shared)[y]
    BY <2>1, VarEffect
  <2>3. stack' = s2 /\ shared' = shared
    BY <2>1 DEF WithVar
  <2>. HIDE DEF s2
  <2>. QED
    BY <2>2, <2>3
<1>. QED
  BY <1>1, <1>2

-----------------------------------------------------------------------------
(* The balance: what a frame has counted beyond the pointers into it.      *)

Over(st, sh, r, p) ==
  Refs(st)[p] - Cardinality(Holding(Places, Vars(st, sh), p)) - One(p, r)

\* There are finitely many places.
LEMMA PlacesFinite == IsFiniteSet(Places) /\ IsFiniteSet(Pointer)
<1>. DEFINE P == Fibers \X (1..MaxFrames)
            m == [x \in P |-> [fiber |-> x[1], depth |-> x[2]]]
<1>1. IsFiniteSet(P)
  <2>1. IsFiniteSet(1..MaxFrames)
    BY CallStackAssumption, FS_Interval
  <2>. QED
    BY <2>1, CallStackAssumption, FS_Product
<1>2. m \in Surjection(P, Pointer)
  <2>1. m \in [P -> Pointer]
    BY PointerParts
  <2>2. ASSUME NEW p \in Pointer PROVE \E x \in P : m[x] = p
    <3>1. <<p.fiber, p.depth>> \in P /\ m[<<p.fiber, p.depth>>] = p
      BY PointerParts
    <3>. QED
      BY <3>1
  <2>. QED
    BY <2>1, <2>2 DEF Surjection
<1>3. IsFiniteSet(Pointer)
  BY <1>1, <1>2, FS_Surjection
<1>. QED
  BY <1>3, CallStackAssumption, FS_Union DEF Places

\* Balances are integers.
LEMMA OverIsInt ==
  ASSUME NEW st \in Stacks, NEW sh, NEW r, NEW p \in Pointer
  PROVE  /\ Refs(st)[p] \in Int
         /\ Cardinality(Holding(Places, Vars(st, sh), p)) \in Nat
         /\ One(p, r) \in Nat
         /\ Over(st, sh, r, p) \in Int
<1>1. Refs(st)[p] \in Int
  BY PointerParts, StackParts DEF Refs, There, Frame
<1>2. Cardinality(Holding(Places, Vars(st, sh), p)) \in Nat
  BY PlacesFinite, HoldersCounted
<1>3. One(p, r) \in Nat
  BY DEF One
<1>. QED
  BY <1>1, <1>2, <1>3 DEF Over

\* Exact counting is a balance of zero.
LEMMA CountedOver ==
  ASSUME NEW st \in Stacks, NEW p \in Pointer \cup {Null}, NEW d \in Int,
         p # Null => Seen(st, p), NEW sh, NEW r, NEW q \in Pointer
  PROVE  Over(Counted(st, p, d), sh, r, q) = Over(st, sh, r, q) + (IF q = p THEN d ELSE 0)
<1>. DEFINE s2 == Counted(st, p, d)
<1>1. /\ s2 \in Stacks /\ Vars(s2, sh) = Vars(st, sh)
      /\ Refs(s2)[q] = Refs(st)[q] + (IF q = p THEN d ELSE 0)
  BY CountedEffect
<1>. HIDE DEF s2
<1>2. /\ Refs(st)[q] \in Int
      /\ Cardinality(Holding(Places, Vars(st, sh), q)) \in Nat
      /\ One(q, r) \in Nat
  BY OverIsInt
<1>3. Over(s2, sh, r, q) = Over(st, sh, r, q) + (IF q = p THEN d ELSE 0)
  BY <1>1, <1>2 DEF Over
<1>. QED
  BY <1>3 DEF s2

\* One place holds another pointer, and the counts are the same.
LEMMA PlaceOver ==
  ASSUME NEW st \in Stacks, NEW s2 \in Stacks, NEW sh, NEW s2h, NEW r, NEW x \in Places,
         \A q \in Pointer : Refs(s2)[q] = Refs(st)[q],
         \A y \in Places : y # x => Vars(s2, s2h)[y] = Vars(st, sh)[y],
         NEW q \in Pointer
  PROVE  Over(s2, s2h, r, q) =
           Over(st, sh, r, q) + One(q, Vars(st, sh)[x]) - One(q, Vars(s2, s2h)[x])
<1>. DEFINE F == Vars(st, sh)
            G == Vars(s2, s2h)
<1>1. \A y \in Places \ {x} : G[y] = F[y]
  OBVIOUS
<1>2. Refs(s2)[q] = Refs(st)[q] /\ Refs(st)[q] \in Int
  BY OverIsInt
<1>3. Over(st, sh, r, q) = Refs(st)[q] - Cardinality(Holding(Places, F, q)) - One(q, r)
  BY DEF Over
<1>4. Over(s2, s2h, r, q) = Refs(s2)[q] - Cardinality(Holding(Places, G, q)) - One(q, r)
  BY DEF Over
<1>. HIDE DEF F, G
<1>5. /\ Cardinality(Holding(Places, G, q)) =
           Cardinality(Holding(Places, F, q)) - One(q, F[x]) + One(q, G[x])
      /\ Cardinality(Holding(Places, F, q)) \in Nat
  BY <1>1, PlacesFinite, HoldingUpdate, HoldersCounted
<1>6. One(q, F[x]) \in Nat /\ One(q, G[x]) \in Nat /\ One(q, r) \in Nat
  BY DEF One
<1>7. Over(s2, s2h, r, q) = Over(st, sh, r, q) + One(q, F[x]) - One(q, G[x])
  BY <1>2, <1>3, <1>4, <1>5, <1>6
<1>. QED
  BY <1>7 DEF F, G

\* The result of a call is another one.
LEMMA ResultOver ==
  ASSUME NEW st \in Stacks, NEW sh, NEW r, NEW t, NEW q \in Pointer
  PROVE  Over(st, sh, t, q) = Over(st, sh, r, q) + One(q, r) - One(q, t)
BY OverIsInt DEF Over

-----------------------------------------------------------------------------
(* The inductive invariant.                                                *)

Typed ==
  /\ stack \in Stacks
  /\ shared \in [Shared -> Pointer \cup {Null}]
  /\ made \subseteq Fibers /\ cur \in made
  /\ result \in Pointer \cup {Null}
  /\ status \in {"running", "done", "escape", "illegal"}

\* The frame count is the number of pointers into the frame, the untaken result being
\* one; and so there are none into frames that are not there.
Balanced == \A p \in Pointer : Over(stack, shared, result, p) = 0

\* Who can assign a pointer can also count it: into a fiber that is not in the chain of
\* the running one, pointers lead from its own variables only.
PointersInChain ==
  /\ \A x \in Places :
       LET p == Vars(stack, shared)[x]
       IN  p \in Pointer /\ p.fiber \notin Chain[cur] => x \in Pointer /\ x.fiber = p.fiber
  /\ result \in Pointer => result.fiber \in Chain[cur]

\* Fibers end after those they have made, and C code has called their first function.
Families ==
  /\ \A f \in Fibers : Alive(f) => f \in made /\ stack[f][1].fromC
  /\ \A f \in made \ {Root} : Parent[f] \in made /\ (Alive(f) => Alive(Parent[f]))
  /\ status \in {"running", "escape"} => Alive(cur)

\* A pointer to the variable of the function that has failed is held by somebody else.
EscapeTrue ==
  status = "escape" =>
    result = TopVar \/ \E x \in Places \ {TopVar} : Vars(stack, shared)[x] = TopVar

IInv == Typed /\ Balanced /\ PointersInChain /\ Families /\ EscapeTrue

\* A fiber is in its own chain.
LEMMA CurInChain == \A f \in Fibers : f \in Chain[f]
BY CallStackAssumption

\* The variable of the running function
LEMMA TopVarThere ==
  ASSUME IInv, status = "running"
  PROVE  /\ TopVar \in Pointer /\ TopVar \in Places /\ There(stack, TopVar)
         /\ TopVar.fiber = cur /\ TopVar.depth = Len(stack[cur])
         /\ cur \in Fibers /\ stack[cur] # <<>> /\ Len(stack[cur]) \in 1..MaxFrames
<1>1. cur \in Fibers /\ stack \in Stacks /\ stack[cur] # <<>>
  BY DEF IInv, Typed, Families, Alive
<1>2. Len(stack[cur]) \in 1..MaxFrames
  <2>1. stack[cur] \in Seq(Frame) /\ Len(stack[cur]) \in Nat /\ Len(stack[cur]) <= MaxFrames
    BY <1>1, StackParts
  <2>. QED
    BY <1>1, <2>1, EmptySeq, CallStackAssumption
<1>. QED
  BY <1>1, <1>2, PointerParts DEF TopVar, Depth, There

\* No pointer leads into a frame that is not there.
LEMMA HeldThereIn ==
  ASSUME NEW st \in Stacks, NEW sh, NEW r, NEW p \in Pointer, Over(st, sh, r, p) = 0,
         r = p \/ \E x \in Places : Vars(st, sh)[x] = p
  PROVE  There(st, p)
<1>1. /\ Refs(st)[p] = Cardinality(Holding(Places, Vars(st, sh), p)) + One(p, r)
      /\ Cardinality(Holding(Places, Vars(st, sh), p)) \in Nat
      /\ One(p, r) \in Nat
  BY OverIsInt DEF Over
<1>2. (\E x \in Places : Vars(st, sh)[x] = p) =>
        Cardinality(Holding(Places, Vars(st, sh), p)) > 0
  BY PlacesFinite, HoldersCounted
<1>3. r = p => One(p, r) = 1
  BY DEF One
<1>4. Refs(st)[p] # 0
  BY <1>1, <1>2, <1>3
<1>. QED
  BY <1>4 DEF Refs

\* Which pointer a place holds.
LEMMA HeldThere ==
  ASSUME IInv, NEW p \in Pointer, result = p \/ \E x \in Places : Vars(stack, shared)[x] = p
  PROVE  There(stack, p)
<1>1. stack \in Stacks /\ Over(stack, shared, result, p) = 0
  BY DEF IInv, Typed, Balanced
<1>. QED
  BY <1>1, HeldThereIn

\* Places hold pointers.
LEMMA VarsTyped ==
  ASSUME Typed
  PROVE  \A x \in Places : Vars(stack, shared)[x] \in Pointer \cup {Null}
<1>1. ASSUME NEW x \in Pointer, There(stack, x)
      PROVE  stack[x.fiber][x.depth].var \in Pointer \cup {Null}
  BY <1>1, PointerParts, StackParts DEF Typed, There, Frame
<1>. QED
  BY <1>1 DEF Typed, Vars, Places

\* Holders of a pointer, as a function of places.
LEMMA HeldIsVars ==
  ASSUME NEW x \in Places, x \in Pointer => There(stack, x)
  PROVE  Held(x) = Vars(stack, shared)[x]
BY DEF Held, Vars, Places

\* The places that the running function can name are there, and the pointers that it can
\* get at will be seen.
LEMMA Reach ==
  ASSUME IInv, status = "running"
  PROVE  /\ \A x \in Writable :
              /\ x \in Places /\ (x \in Pointer => There(stack, x))
              /\ Held(x) = Vars(stack, shared)[x]
              /\ Held(x) \in Pointer \cup {Null} /\ (Held(x) # Null => Seen(stack, Held(x)))
         /\ \A p \in Readable : p \in Pointer \cup {Null} /\ (p # Null => Seen(stack, p))
         /\ TopVar \in Writable
         /\ result # Null => Seen(stack, result)
<1>. USE DEF IInv
<1>1. \A p \in Pointer : p.fiber \in Chain[cur] /\ There(stack, p) => Seen(stack, p)
  BY PointerParts DEF Seen, There
<1>2. /\ TopVar \in Pointer /\ TopVar \in Places /\ There(stack, TopVar)
      /\ TopVar.fiber = cur /\ cur \in Chain[cur]
  BY TopVarThere, CurInChain
<1>3. /\ Held(TopVar) = Vars(stack, shared)[TopVar]
      /\ Held(TopVar) \in Pointer \cup {Null}
  BY <1>2, HeldIsVars, VarsTyped
<1>4. Held(TopVar) # Null => Held(TopVar).fiber \in Chain[cur] /\ There(stack, Held(TopVar))
  <2>1. ASSUME Held(TopVar) # Null PROVE There(stack, Held(TopVar))
    BY <1>2, <1>3, <2>1, HeldThere
  <2>2. ASSUME Held(TopVar) # Null PROVE Held(TopVar).fiber \in Chain[cur]
    BY <1>2, <1>3, <2>2 DEF PointersInChain
  <2>. QED
    BY <2>1, <2>2
<1>5. ASSUME NEW x \in Writable
      PROVE  /\ x \in Places /\ (x \in Pointer => There(stack, x) /\ x.fiber \in Chain[cur])
             /\ Held(x) = Vars(stack, shared)[x]
             /\ Held(x) \in Pointer \cup {Null} /\ (Held(x) # Null => Seen(stack, Held(x)))
  <2>1. x \in Shared \/ x = TopVar \/ (x = Held(TopVar) /\ x # Null)
    BY DEF Writable
  <2>2. x \in Places /\ (x \in Pointer => There(stack, x) /\ x.fiber \in Chain[cur])
    BY <1>2, <1>3, <1>4, <2>1, PointerParts DEF Places
  <2>3. Held(x) = Vars(stack, shared)[x] /\ Held(x) \in Pointer \cup {Null}
    BY <2>2, HeldIsVars, VarsTyped
  <2>4. ASSUME Held(x) # Null PROVE Seen(stack, Held(x))
    <3>1. Held(x) \in Pointer /\ There(stack, Held(x))
      BY <2>2, <2>3, <2>4, HeldThere
    <3>2. Held(x).fiber \in Chain[cur]
      BY <2>2, <2>3, <3>1 DEF PointersInChain
    <3>. QED
      BY <1>1, <3>1, <3>2
  <2>. QED
    BY <2>2, <2>3, <2>4
<1>6. ASSUME NEW p \in Readable PROVE p \in Pointer \cup {Null} /\ (p # Null => Seen(stack, p))
  <2>1. p = TopVar \/ p = Null \/ \E x \in Writable : p = Held(x)
    BY DEF Readable
  <2>. QED
    BY <1>1, <1>2, <1>5, <2>1
<1>7. TopVar \in Writable
  BY <1>2, PointerParts DEF Writable
<1>8. ASSUME result # Null PROVE Seen(stack, result)
  <2>1. result \in Pointer /\ result.fiber \in Chain[cur]
    BY <1>8 DEF Typed, PointersInChain
  <2>2. There(stack, result)
    BY <2>1, HeldThere
  <2>. QED
    BY <1>1, <2>1, <2>2
<1>. QED
  BY <1>5, <1>6, <1>7, <1>8

-----------------------------------------------------------------------------
(* Every step keeps the invariant.                                         *)

\* Which frames can be seen depends on the running fiber only.
LEMMA SameSeen ==
  ASSUME NEW st, NEW s2, Same(st, s2), NEW p \in Pointer \cup {Null}
  PROVE  (p # Null => Seen(st, p)) => (p # Null => Seen(s2, p))
BY PointerParts DEF Same, Seen

\* A pointer is counted once more, and one less.
LEMMA CountedTwice ==
  ASSUME NEW st \in Stacks, NEW p \in Pointer \cup {Null}, p # Null => Seen(st, p),
         NEW o \in Pointer \cup {Null}, o # Null => Seen(st, o), NEW sh, NEW r
  PROVE  LET s2 == Counted(Counted(st, p, 1), o, -1)
         IN  /\ s2 \in Stacks /\ Same(st, s2) /\ Vars(s2, sh) = Vars(st, sh)
             /\ \A q \in Pointer :
                  Over(s2, sh, r, q) = Over(st, sh, r, q) + One(q, p) - One(q, o)
<1>. DEFINE s1 == Counted(st, p, 1)
            s2 == Counted(s1, o, -1)
<1>1. s1 \in Stacks /\ Same(st, s1) /\ Vars(s1, sh) = Vars(st, sh)
  BY CountedEffect
<1>2. ASSUME NEW q \in Pointer
      PROVE  Over(s1, sh, r, q) = Over(st, sh, r, q) + One(q, p)
  <2>1. Over(s1, sh, r, q) = Over(st, sh, r, q) + (IF q = p THEN 1 ELSE 0)
    BY CountedOver
  <2>. QED
    BY <2>1 DEF One
<1>. HIDE DEF s1
<1>3. o # Null => Seen(s1, o)
  BY <1>1, SameSeen
<1>4. s2 \in Stacks /\ Same(s1, s2) /\ Vars(s2, sh) = Vars(s1, sh)
  BY <1>1, <1>3, CountedEffect
<1>5. ASSUME NEW q \in Pointer
      PROVE  Over(s2, sh, r, q) = Over(s1, sh, r, q) - One(q, o)
  <2>1. Over(s2, sh, r, q) = Over(s1, sh, r, q) + (IF q = o THEN -1 ELSE 0)
    BY <1>1, <1>3, CountedOver
  <2>2. Over(s1, sh, r, q) \in Int
    BY <1>1, OverIsInt
  <2>. QED
    BY <2>1, <2>2 DEF One
<1>6. Same(st, s2)
  BY <1>1, <1>4 DEF Same
<1>. HIDE DEF s2
<1>7. \A q \in Pointer : Over(s2, sh, r, q) = Over(st, sh, r, q) + One(q, p) - One(q, o)
  BY <1>2, <1>5, OverIsInt DEF One
<1>. QED
  BY <1>1, <1>4, <1>6, <1>7 DEF s1, s2

\* Without holders there are no counts.
LEMMA NoneCounted ==
  ASSUME NEW st, NEW d PROVE Counted(st, Null, d) = st
BY DEF Counted, Seen

\* The fibers and the first frames of their stacks stay.
LEMMA SameFamilies ==
  ASSUME IInv, made' = made, cur' = cur, status = "running", stack' \in Stacks,
         Same(stack, stack')
  PROVE  Families'
<1>. USE DEF IInv
<1>1. \A f \in Fibers : Len(stack'[f]) = Len(stack[f])
  BY DEF Same
<1>2. \A f \in Fibers : stack'[f] # <<>> <=> stack[f] # <<>>
  <2>1. \A f \in Fibers : stack'[f] \in Seq(Frame) /\ stack[f] \in Seq(Frame)
    BY DEF Typed, Stacks
  <2>. QED
    BY <1>1, <2>1, EmptySeq
<1>3. \A f \in Fibers : stack[f] # <<>> => stack'[f][1].fromC = stack[f][1].fromC
  <2>1. ASSUME NEW f \in Fibers, stack[f] # <<>> PROVE 1 \in 1..Len(stack[f])
    BY <2>1, EmptySeq DEF Typed, Stacks
  <2>. QED
    BY <2>1 DEF Same
<1>4. \A f \in made \ {Root} : Parent[f] \in Fibers /\ f \in Fibers
  BY CallStackAssumption DEF Typed
<1>5. cur \in Fibers
  BY DEF Typed
<1>. QED
  BY <1>2, <1>3, <1>4, <1>5 DEF Families, Alive

\* A step of the running function that puts a pointer it can get at to a place.
LEMMA KeptStep ==
  ASSUME IInv, made \subseteq made', made' \subseteq Fibers, cur' = cur,
         status' \in {"running", "done", "escape", "illegal"},
         stack' \in Stacks, shared' \in [Shared -> Pointer \cup {Null}],
         result' \in Pointer \cup {Null},
         \A q \in Pointer : Over(stack', shared', result', q) = 0,
         NEW x, \A y \in Places : y # x => Vars(stack', shared')[y] = Vars(stack, shared)[y],
         x \in Places /\ Vars(stack', shared')[x] \in Pointer =>
           Vars(stack', shared')[x].fiber \in Chain[cur],
         result' \in Pointer => result'.fiber \in Chain[cur],
         Families', EscapeTrue'
  PROVE  IInv'
<1>. USE DEF IInv
<1>1. Typed'
  BY DEF Typed
<1>2. Balanced'
  BY DEF Balanced
<1>3. PointersInChain'
  <2>1. ASSUME NEW y \in Places, Vars(stack', shared')[y] \in Pointer,
               Vars(stack', shared')[y].fiber \notin Chain[cur]
        PROVE  y \in Pointer /\ y.fiber = Vars(stack', shared')[y].fiber
    <3>1. y # x
      BY <2>1
    <3>2. Vars(stack', shared')[y] = Vars(stack, shared)[y]
      BY <3>1
    <3>. QED
      BY <2>1, <3>2 DEF PointersInChain
  <2>. QED
    BY <2>1 DEF PointersInChain
<1>. QED
  BY <1>1, <1>2, <1>3

\* The program ends with an error.
LEMMA FailStep ==
  ASSUME IInv, Fail("illegal")
  PROVE  IInv'
<1>1. UNCHANGED <<stack, shared, made, cur, result>> /\ status' = "illegal"
  BY DEF Fail
<1>. QED
  BY <1>1 DEF IInv, Typed, Balanced, PointersInChain, Families, Alive, EscapeTrue

\* A variable is assigned.
LEMMA AssignStep ==
  ASSUME IInv, NEW x \in Writable, NEW p \in Readable, Assign(x, p)
  PROVE  IInv'
<1>. DEFINE o == Held(x)
            s2 == Counted(Counted(stack, p, 1), o, -1)
<1>1. status = "running" /\ result = Null
  BY DEF Assign, Running
<1>2. /\ x \in Places /\ (x \in Pointer => There(stack, x))
      /\ o = Vars(stack, shared)[x]
      /\ o \in Pointer \cup {Null} /\ (o # Null => Seen(stack, o))
      /\ p \in Pointer \cup {Null} /\ (p # Null => Seen(stack, p))
  BY <1>1, Reach
<1>3. Typed /\ Balanced /\ stack \in Stacks
  BY DEF IInv, Typed
<1>4. CASE Unreachable(stack, p) \/ Unreachable(stack, o)
  BY <1>4, FailStep DEF Assign
<1>5. CASE ~(Unreachable(stack, p) \/ Unreachable(stack, o))
  <2>1. Store(s2, x, p) /\ UNCHANGED <<made, cur, result, status>>
    BY <1>5 DEF Assign
  <2>2. /\ s2 \in Stacks /\ Same(stack, s2) /\ Vars(s2, shared) = Vars(stack, shared)
        /\ \A q \in Pointer :
             Over(s2, shared, result, q) = Over(stack, shared, result, q) + One(q, p) - One(q, o)
    BY <1>2, <1>3, CountedTwice
  <2>. HIDE DEF o, s2
  <2>3. x \in Pointer => There(s2, x)
    BY <1>2, <2>2, PointerParts DEF Same, There
  <2>4. /\ stack' \in Stacks /\ shared' \in [Shared -> Pointer \cup {Null}]
        /\ Same(s2, stack')
        /\ \A q \in Pointer : Refs(stack')[q] = Refs(s2)[q]
        /\ \A y \in Places : Vars(stack', shared')[y] = IF y = x THEN p ELSE Vars(s2, shared)[y]
    BY <1>2, <1>3, <2>1, <2>2, <2>3, StoreEffect DEF Typed
  <2>5. ASSUME NEW q \in Pointer PROVE Over(stack', shared', result', q) = 0
    <3>1. Over(stack', shared', result, q) =
            Over(s2, shared, result, q) + One(q, Vars(s2, shared)[x]) - One(q, Vars(stack', shared')[x])
      BY <1>2, <2>2, <2>4, PlaceOver
    <3>2. Vars(s2, shared)[x] = o /\ Vars(stack', shared')[x] = p
      BY <1>2, <2>2, <2>4
    <3>3. Over(stack, shared, result, q) = 0
      BY <1>3 DEF Balanced
    <3>4. One(q, o) \in Nat /\ One(q, p) \in Nat
      BY DEF One
    <3>. QED
      BY <2>1, <2>2, <3>1, <3>2, <3>3, <3>4
  <2>6. Same(stack, stack')
    BY <2>2, <2>4 DEF Same
  <2>7. \A y \in Places : y # x => Vars(stack', shared')[y] = Vars(stack, shared)[y]
    BY <2>2, <2>4
  <2>8. Vars(stack', shared')[x] \in Pointer => Vars(stack', shared')[x].fiber \in Chain[cur]
    BY <1>2, <2>4, PointerParts DEF Seen
  <2>9. result' \in Pointer \cup {Null} /\ (result' \in Pointer => result'.fiber \in Chain[cur])
    BY <1>1, <2>1, CallStackAssumption
  <2>. QED
    BY <1>1, <1>3, <2>1, <2>4, <2>5, <2>6, <2>7, <2>8, <2>9, SameFamilies, KeptStep
       DEF Typed, EscapeTrue
<1>. QED
  BY <1>4, <1>5

\* The caller takes a result.
LEMMA TakeResultStep ==
  ASSUME IInv, NEW x \in Writable, TakeResult(x)
  PROVE  IInv'
<1>. DEFINE o == Held(x)
            s2 == Counted(stack, o, -1)
<1>1. status = "running" /\ result # Null
  BY DEF TakeResult
<1>2. /\ x \in Places /\ (x \in Pointer => There(stack, x))
      /\ o = Vars(stack, shared)[x]
      /\ o \in Pointer \cup {Null} /\ (o # Null => Seen(stack, o))
      /\ Seen(stack, result)
  BY <1>1, Reach
<1>3. Typed /\ Balanced /\ stack \in Stacks /\ result \in Pointer
  BY <1>1 DEF IInv, Typed
<1>4. CASE Unreachable(stack, o)
  BY <1>4, FailStep DEF TakeResult
<1>5. CASE ~Unreachable(stack, o)
  <2>1. Store(s2, x, result) /\ result' = Null /\ UNCHANGED <<made, cur, status>>
    BY <1>5 DEF TakeResult
  <2>2. s2 \in Stacks /\ Same(stack, s2) /\ Vars(s2, shared) = Vars(stack, shared)
    BY <1>2, <1>3, CountedEffect
  <2>3. ASSUME NEW q \in Pointer
        PROVE  Over(s2, shared, result, q) = 0 - One(q, o)
    <3>1. Over(s2, shared, result, q) = Over(stack, shared, result, q) + (IF q = o THEN -1 ELSE 0)
      BY <1>2, <1>3, CountedOver
    <3>. QED
      BY <1>3, <3>1 DEF Balanced, One
  <2>. HIDE DEF o, s2
  <2>4. x \in Pointer => There(s2, x)
    BY <1>2, <2>2, PointerParts DEF Same, There
  <2>5. /\ stack' \in Stacks /\ shared' \in [Shared -> Pointer \cup {Null}]
        /\ Same(s2, stack')
        /\ \A q \in Pointer : Refs(stack')[q] = Refs(s2)[q]
        /\ \A y \in Places : Vars(stack', shared')[y] = IF y = x THEN result ELSE Vars(s2, shared)[y]
    BY <1>2, <1>3, <2>1, <2>2, <2>4, StoreEffect DEF Typed
  <2>6. ASSUME NEW q \in Pointer PROVE Over(stack', shared', result', q) = 0
    <3>1. Over(stack', shared', result, q) =
            Over(s2, shared, result, q) + One(q, Vars(s2, shared)[x]) - One(q, Vars(stack', shared')[x])
      BY <1>2, <2>2, <2>5, PlaceOver
    <3>2. Vars(s2, shared)[x] = o /\ Vars(stack', shared')[x] = result
      BY <1>2, <2>2, <2>5
    <3>3. Over(stack', shared', result', q) =
            Over(stack', shared', result, q) + One(q, result) - One(q, result')
      BY <2>5, ResultOver
    <3>4. One(q, o) \in Nat /\ One(q, result) \in Nat /\ One(q, result') = 0
      BY <2>1, PointerParts DEF One
    <3>. QED
      BY <2>3, <3>1, <3>2, <3>3, <3>4
  <2>7. Same(stack, stack')
    BY <2>2, <2>5 DEF Same
  <2>8. \A y \in Places : y # x => Vars(stack', shared')[y] = Vars(stack, shared)[y]
    BY <2>2, <2>5
  <2>9. Vars(stack', shared')[x] \in Pointer => Vars(stack', shared')[x].fiber \in Chain[cur]
    BY <1>2, <2>5 DEF Seen
  <2>10. result' \in Pointer \cup {Null} /\ (result' \in Pointer => result'.fiber \in Chain[cur])
    BY <2>1, CallStackAssumption
  <2>. QED
    BY <1>1, <1>3, <2>1, <2>5, <2>6, <2>7, <2>8, <2>9, <2>10, SameFamilies, KeptStep
       DEF Typed, EscapeTrue
<1>. QED
  BY <1>4, <1>5

\* The caller drops a result.
LEMMA DropResultStep ==
  ASSUME IInv, DropResult
  PROVE  IInv'
<1>1. status = "running" /\ result # Null
  BY DEF DropResult
<1>2. Seen(stack, result)
  BY <1>1, Reach
<1>3. Typed /\ Balanced /\ stack \in Stacks /\ result \in Pointer
  BY <1>1 DEF IInv, Typed
<1>4. CASE Unreachable(stack, result)
  BY <1>4, FailStep DEF DropResult
<1>5. CASE ~Unreachable(stack, result)
  <2>. DEFINE s2 == Counted(stack, result, -1)
  <2>1. stack' = s2 /\ result' = Null /\ UNCHANGED <<shared, made, cur, status>>
    BY <1>5 DEF DropResult
  <2>2. s2 \in Stacks /\ Same(stack, s2) /\ Vars(s2, shared) = Vars(stack, shared)
    BY <1>2, <1>3, CountedEffect
  <2>3. ASSUME NEW q \in Pointer PROVE Over(s2, shared, Null, q) = 0
    <3>1. Over(s2, shared, result, q) =
            Over(stack, shared, result, q) + (IF q = result THEN -1 ELSE 0)
      BY <1>2, <1>3, CountedOver
    <3>2. Over(s2, shared, Null, q) = Over(s2, shared, result, q) + One(q, result) - One(q, Null)
      BY <2>2, ResultOver
    <3>. QED
      BY <1>3, <3>1, <3>2, PointerParts DEF Balanced, One
  <2>. HIDE DEF s2
  <2>4. Null \notin Places /\ Null \notin Pointer
    BY CallStackAssumption DEF Places
  <2>5. /\ stack' \in Stacks /\ shared' \in [Shared -> Pointer \cup {Null}]
        /\ Same(stack, stack')
        /\ \A q \in Pointer : Over(stack', shared', result', q) = 0
        /\ \A y \in Places : y # Null => Vars(stack', shared')[y] = Vars(stack, shared)[y]
    BY <1>3, <2>1, <2>2, <2>3 DEF Typed
  <2>. QED
    BY <1>1, <1>3, <2>1, <2>4, <2>5, SameFamilies, KeptStep DEF Typed, EscapeTrue
<1>. QED
  BY <1>4, <1>5

\* If there is room for a frame, there is on every stack.
LEMMA RoomOnStack ==
  ASSUME IInv, FrameFree, NEW f \in Fibers
  PROVE  Len(stack[f]) < MaxFrames
<1>1. Len(stack[f]) \in Nat /\ Len(stack[f]) <= MaxFrames /\ MaxFrames \in Nat
  BY StackParts, CallStackAssumption DEF IInv, Typed
<1>2. SUFFICES ASSUME Len(stack[f]) = MaxFrames PROVE FALSE
  BY <1>1
<1>. DEFINE S == {p \in Pointer : p.depth <= Depth(p.fiber)}
            N == 1..MaxFrames
            m == [i \in N |-> [fiber |-> f, depth |-> i]]
<1>3. IsFiniteSet(S)
  BY PlacesFinite, FS_Subset
<1>4. IsFiniteSet(N) /\ Cardinality(N) = MaxFrames
  <2>1. Cardinality(N) = IF 1 > MaxFrames THEN 0 ELSE MaxFrames - 1 + 1
    BY <1>1, FS_Interval
  <2>. QED
    BY <1>1, <2>1, FS_Interval
<1>5. m \in Injection(N, S)
  <2>1. \A i \in N : /\ [fiber |-> f, depth |-> i] \in S
                     /\ [fiber |-> f, depth |-> i].depth = i
    BY <1>1, <1>2, PointerParts DEF Depth
  <2>2. m \in [N -> S]
    BY <2>1
  <2>3. \A i, j \in N : m[i] = m[j] => i = j
    BY <2>1
  <2>. QED
    BY <2>2, <2>3 DEF Injection, IsInjective
<1>. HIDE DEF S, N, m
<1>6. Cardinality(N) <= Cardinality(S)
  BY <1>3, <1>5, FS_Injection
<1>7. Cardinality(S) < MaxFrames
  BY DEF FrameFree, S
<1>8. Cardinality(S) \in Nat
  BY <1>3, FS_CardinalityType
<1>. QED
  BY <1>1, <1>4, <1>6, <1>7, <1>8

\* The new function's frame is the only one that is added to a stack that was there.
LEMMA EnteredFamilies ==
  ASSUME IInv, made' = made, cur' = cur, status = "running", stack' \in Stacks,
         \A f \in Fibers : Len(stack'[f]) = IF f = cur THEN Len(stack[f]) + 1 ELSE Len(stack[f]),
         \A f \in Fibers : \A j \in 1..Len(stack[f]) : stack'[f][j].fromC = stack[f][j].fromC
  PROVE  Families'
<1>. USE DEF IInv
<1>1. \A f \in Fibers : stack'[f] \in Seq(Frame) /\ stack[f] \in Seq(Frame)
  BY DEF Typed, Stacks
<1>2. cur \in Fibers /\ stack[cur] # <<>>
  BY TopVarThere
<1>3. ASSUME NEW f \in Fibers
      PROVE  /\ stack'[f] # <<>> <=> stack[f] # <<>>
             /\ stack[f] # <<>> => stack'[f][1].fromC = stack[f][1].fromC
  <2>1. /\ stack[f] # <<>> <=> Len(stack[f]) # 0
        /\ stack'[f] # <<>> <=> Len(stack'[f]) # 0
        /\ Len(stack[f]) \in Nat
    BY <1>1, EmptySeq, LenProperties
  <2>2. stack'[f] # <<>> <=> stack[f] # <<>>
    BY <1>2, <2>1
  <2>3. ASSUME stack[f] # <<>> PROVE stack'[f][1].fromC = stack[f][1].fromC
    <3>1. 1 \in 1..Len(stack[f])
      BY <2>1, <2>3
    <3>. QED
      BY <3>1
  <2>. QED
    BY <2>2, <2>3
<1>4. \A f \in made \ {Root} : Parent[f] \in Fibers /\ f \in Fibers
  BY CallStackAssumption DEF Typed
<1>. QED
  BY <1>2, <1>3, <1>4 DEF Families, Alive

\* A function is entered.
LEMMA EnterStep ==
  ASSUME IInv, NEW fromC \in BOOLEAN, NEW p \in Readable, Enter(fromC, p)
  PROVE  IInv'
<1>. DEFINE fr == NewFrame(fromC)
            s1 == Pushed(fromC)
            new == [fiber |-> cur, depth |-> Len(stack[cur]) + 1]
            s2 == Counted(s1, p, 1)
<1>1. status = "running" /\ result = Null /\ FrameFree
  BY DEF Enter, Running
<1>2. p \in Pointer \cup {Null} /\ (p # Null => Seen(stack, p))
  BY <1>1, Reach
<1>3. Typed /\ Balanced /\ stack \in Stacks
  BY DEF IInv, Typed
<1>4. cur \in Fibers /\ Len(stack[cur]) < MaxFrames
  BY <1>1, RoomOnStack, TopVarThere
<1>5. CASE Unreachable(s1, p)
  BY <1>5, FailStep DEF Enter
<1>6. CASE ~Unreachable(s1, p)
  <2>1. Store(s2, new, p) /\ UNCHANGED <<made, cur, result, status>>
    <3>1. [TopVar EXCEPT !.depth = @ + 1] = new
      BY DEF TopVar, Depth
    <3>. QED
      BY <1>6, <3>1 DEF Enter
  <2>2. fr \in Frame /\ fr.refs = 0 /\ fr.var = Null
    BY DEF NewFrame, Frame
  <2>3. s1 = WithFrame(stack, cur, fr)
    BY DEF Pushed, WithFrame
  <2>. HIDE DEF fr, s1
  <2>4. /\ s1 \in Stacks /\ new \in Pointer /\ There(s1, new)
        /\ \A g \in Fibers :
             Len(s1[g]) = IF g = cur THEN Len(stack[g]) + 1 ELSE Len(stack[g])
        /\ \A g \in Fibers : \A j \in 1..Len(stack[g]) : s1[g][j] = stack[g][j]
        /\ \A q \in Pointer : Refs(s1)[q] = Refs(stack)[q]
        /\ \A y \in Places :
             Vars(s1, shared)[y] = IF y = new THEN Null ELSE Vars(stack, shared)[y]
        /\ Vars(stack, shared)[new] = Null
    <3>1. /\ s1 \in Stacks /\ new \in Pointer /\ There(s1, new)
          /\ \A g \in Fibers :
               Len(s1[g]) = IF g = cur THEN Len(stack[g]) + 1 ELSE Len(stack[g])
          /\ \A g \in Fibers : \A j \in 1..Len(stack[g]) : s1[g][j] = stack[g][j]
          /\ \A q \in Pointer : Refs(s1)[q] = Refs(stack)[q]
          /\ \A y \in Places :
               Vars(s1, shared)[y] = IF y = new THEN fr.var ELSE Vars(stack, shared)[y]
          /\ Vars(stack, shared)[new] = Null
      BY <1>3, <1>4, <2>2, <2>3, PushEffect
    <3>. QED
      BY <2>2, <3>1
  <2>. HIDE DEF new
  <2>5. new \in Places
    BY <2>4, PointerParts
  <2>6. p # Null => Seen(s1, p)
    <3>1. ASSUME NEW f \in Fibers PROVE Len(s1[f]) \in Nat /\ Len(stack[f]) \in Nat
      BY <1>3, <2>4, StackParts
    <3>. QED
      BY <1>2, <2>4, <3>1, PointerParts DEF Seen
  <2>7. /\ s2 \in Stacks /\ Same(s1, s2) /\ Vars(s2, shared) = Vars(s1, shared)
    BY <1>2, <2>4, <2>6, CountedEffect
  <2>8. ASSUME NEW q \in Pointer PROVE Over(s2, shared, result, q) = One(q, p)
    <3>1. Over(s1, shared, result, q) =
            Over(stack, shared, result, q)
              + One(q, Vars(stack, shared)[new]) - One(q, Vars(s1, shared)[new])
      BY <1>3, <2>4, <2>5, PlaceOver
    <3>2. Over(s1, shared, result, q) = 0
      <4>1. /\ One(q, Vars(s1, shared)[new]) = One(q, Null)
            /\ One(q, Vars(stack, shared)[new]) = One(q, Null)
        BY <2>4, <2>5
      <4>2. Over(stack, shared, result, q) = 0
        BY <1>3 DEF Balanced
      <4>3. One(q, Null) \in Nat
        BY DEF One
      <4>. QED
        BY <3>1, <4>1, <4>2, <4>3
    <3>3. Over(s2, shared, result, q) = Over(s1, shared, result, q) + (IF q = p THEN 1 ELSE 0)
      <4>1. s1 \in Stacks /\ p \in Pointer \cup {Null} /\ (p # Null => Seen(s1, p))
        BY <1>2, <2>4, <2>6
      <4>. QED
        BY ONLY <4>1, q \in Pointer, CountedOver
    <3>. QED
      BY <3>2, <3>3 DEF One
  <2>. HIDE DEF s2
  <2>9. There(s2, new)
    BY <2>4, <2>7, PointerParts DEF Same, There
  <2>10. /\ stack' \in Stacks /\ shared' \in [Shared -> Pointer \cup {Null}]
         /\ Same(s2, stack')
         /\ \A q \in Pointer : Refs(stack')[q] = Refs(s2)[q]
         /\ \A y \in Places : Vars(stack', shared')[y] = IF y = new THEN p ELSE Vars(s2, shared)[y]
    BY <1>2, <1>3, <2>1, <2>5, <2>7, <2>9, StoreEffect DEF Typed
  <2>11. ASSUME NEW q \in Pointer PROVE Over(stack', shared', result', q) = 0
    <3>1. Over(stack', shared', result, q) =
            Over(s2, shared, result, q)
              + One(q, Vars(s2, shared)[new]) - One(q, Vars(stack', shared')[new])
      BY <2>5, <2>7, <2>10, PlaceOver, SMTT(20)
    <3>2. Vars(s2, shared)[new] = Null /\ Vars(stack', shared')[new] = p
      BY <2>4, <2>5, <2>7, <2>10
    <3>3. One(q, p) \in Nat /\ One(q, Null) = 0
      BY PointerParts DEF One
    <3>. QED
      BY <2>1, <2>8, <3>1, <3>2, <3>3
  <2>12. /\ \A g \in Fibers :
              Len(stack'[g]) = IF g = cur THEN Len(stack[g]) + 1 ELSE Len(stack[g])
         /\ \A g \in Fibers : \A j \in 1..Len(stack[g]) : stack'[g][j].fromC = stack[g][j].fromC
    <3>1. \A g \in Fibers : Len(stack'[g]) = Len(s1[g])
      BY <2>7, <2>10 DEF Same
    <3>2. ASSUME NEW g \in Fibers, NEW j \in 1..Len(stack[g])
          PROVE  stack'[g][j].fromC = stack[g][j].fromC
      <4>1. Len(stack[g]) \in Nat
        BY <1>3, StackParts
      <4>2. j \in 1..Len(s1[g])
        BY <2>4, <4>1
      <4>3. s1[g][j] = stack[g][j]
        BY <2>4
      <4>4. s2[g][j].fromC = s1[g][j].fromC /\ j \in 1..Len(s2[g])
        BY <2>7, <4>2 DEF Same
      <4>5. stack'[g][j].fromC = s2[g][j].fromC
        BY <2>10, <4>4 DEF Same
      <4>. QED
        BY <4>3, <4>4, <4>5
    <3>. QED
      BY <2>4, <3>1, <3>2
  <2>13. Families'
    BY <1>1, <2>1, <2>10, <2>12, EnteredFamilies
  <2>14. \A y \in Places : y # new => Vars(stack', shared')[y] = Vars(stack, shared)[y]
    BY <2>4, <2>7, <2>10
  <2>15. Vars(stack', shared')[new] \in Pointer => Vars(stack', shared')[new].fiber \in Chain[cur]
    BY <1>2, <2>5, <2>10, PointerParts DEF Seen
  <2>16. result' \in Pointer \cup {Null} /\ (result' \in Pointer => result'.fiber \in Chain[cur])
    BY <1>1, <2>1, CallStackAssumption
  <2>. QED
    BY <1>1, <1>3, <2>1, <2>10, <2>11, <2>13, <2>14, <2>15, <2>16, KeptStep
       DEF Typed, EscapeTrue
<1>. QED
  BY <1>5, <1>6

\* The fiber that is made begins with a function that C code has called.
LEMMA MadeFamilies ==
  ASSUME IInv, NEW c \in Fibers, c \notin made, Parent[c] = cur, made' = made \cup {c},
         cur' = cur, status = "running", stack[c] = <<>>,
         stack'[c] # <<>> /\ stack'[c][1].fromC,
         \A f \in Fibers : f # c => (stack'[f] # <<>> <=> stack[f] # <<>>),
         \A f \in Fibers : f # c /\ stack[f] # <<>> => stack'[f][1].fromC = stack[f][1].fromC
  PROVE  Families'
<1>. USE DEF IInv
<1>1. cur \in made /\ cur \in Fibers /\ stack[cur] # <<>> /\ c # cur
  BY TopVarThere DEF Typed
<1>2. \A f \in made \ {Root} : Parent[f] \in Fibers /\ f \in Fibers /\ f # c
  BY CallStackAssumption DEF Typed
<1>3. \A f \in Fibers : Alive(f)' => f \in made' /\ stack'[f][1].fromC
  BY DEF Families, Alive
<1>4. ASSUME NEW f \in made' \ {Root}
      PROVE  Parent[f] \in made' /\ (Alive(f)' => Alive(Parent[f])')
  <2>1. CASE f = c
    BY <1>1, <2>1 DEF Alive
  <2>2. CASE f # c
    <3>1. f \in made \ {Root} /\ f \in Fibers /\ Parent[f] \in Fibers
      BY <1>2, <2>2
    <3>2. Parent[f] \in made /\ Parent[f] # c /\ (Alive(f) => Alive(Parent[f]))
      BY <3>1 DEF Families
    <3>. QED
      BY <2>2, <3>1, <3>2 DEF Alive
  <2>. QED
    BY <2>1, <2>2
<1>5. Alive(cur)'
  BY <1>1 DEF Alive
<1>. QED
  BY <1>3, <1>4, <1>5 DEF Families

\* The first frame of a fiber, with the captured variable.
LEMMA FrameWithVar ==
  ASSUME NEW b \in BOOLEAN, NEW p \in Pointer \cup {Null}
  PROVE  LET fr == [NewFrame(b) EXCEPT !.var = p]
         IN  fr \in Frame /\ fr.refs = 0 /\ fr.var = p /\ fr.fromC = b
BY DEF NewFrame, Frame

\* A fiber is made.
LEMMA MakeStep ==
  ASSUME IInv, NEW c \in Fibers, NEW p \in Readable, Make(c, p)
  PROVE  IInv'
<1>. DEFINE fr == [NewFrame(TRUE) EXCEPT !.var = p]
            s1 == Counted(stack, p, 1)
            new == [fiber |-> c, depth |-> Len(s1[c]) + 1]
            s2 == WithFrame(s1, c, fr)
<1>1. status = "running" /\ result = Null /\ FrameFree /\ c \notin made /\ Parent[c] = cur
  BY DEF Make, Running
<1>2. p \in Pointer \cup {Null} /\ (p # Null => Seen(stack, p))
  BY <1>1, Reach
<1>3. Typed /\ Balanced /\ stack \in Stacks
  BY DEF IInv, Typed
<1>4. CASE Unreachable(stack, p)
  BY <1>4, FailStep DEF Make
<1>5. CASE ~Unreachable(stack, p)
  <2>1. /\ made' = made \cup {c} /\ stack' = [s1 EXCEPT ![c] = <<fr>>]
        /\ UNCHANGED <<shared, cur, result, status>>
    <3>1. Make(c, p) /\ ~Unreachable(stack, p)
      BY <1>5
    <3>. HIDE DEF s1
    <3>2. Make(c, p) => \/ Unreachable(stack, p)
                        \/ /\ made' = made \cup {c}
                           /\ stack' = [Counted(stack, p, 1) EXCEPT ![c] = <<fr>>]
                           /\ UNCHANGED <<shared, cur, result, status>>
      BY ONLY Zenon DEF Make
    <3>. QED
      BY ONLY <3>1, <3>2 DEF s1
  <2>2. fr \in Frame /\ fr.refs = 0 /\ fr.var = p /\ fr.fromC
    BY <1>2, FrameWithVar
  <2>3. s1 \in Stacks /\ Same(stack, s1) /\ Vars(s1, shared) = Vars(stack, shared)
    BY <1>2, <1>3, CountedEffect
  <2>4. ASSUME NEW q \in Pointer PROVE Over(s1, shared, result, q) = One(q, p)
    <3>1. Over(s1, shared, result, q) =
            Over(stack, shared, result, q) + (IF q = p THEN 1 ELSE 0)
      BY <1>2, <1>3, CountedOver
    <3>. QED
      BY <1>3, <3>1 DEF Balanced, One
  <2>5. stack[c] = <<>> /\ s1[c] = <<>>
    <3>1. stack[c] = <<>>
      BY <1>1 DEF IInv, Families, Alive
    <3>2. Len(s1[c]) = 0 /\ s1[c] \in Seq(Frame)
      BY <2>3, <3>1, StackParts DEF Same
    <3>. QED
      BY <3>1, <3>2, EmptySeq
  <2>6. Len(s1[c]) < MaxFrames
    BY <1>1, <2>3, RoomOnStack DEF Same
  <2>. HIDE DEF fr, s1
  <2>7. stack' = s2
    <3>1. Append(s1[c], fr) = <<fr>>
      BY <2>5
    <3>. QED
      BY <2>1, <3>1 DEF WithFrame
  <2>8. /\ s2 \in Stacks /\ new \in Pointer /\ There(s2, new)
        /\ \A g \in Fibers : Len(s2[g]) = IF g = c THEN Len(s1[g]) + 1 ELSE Len(s1[g])
        /\ \A g \in Fibers : \A j \in 1..Len(s1[g]) : s2[g][j] = s1[g][j]
        /\ s2[c][Len(s1[c]) + 1] = fr
        /\ \A q \in Pointer : Refs(s2)[q] = Refs(s1)[q]
        /\ \A y \in Places : Vars(s2, shared)[y] = IF y = new THEN fr.var ELSE Vars(s1, shared)[y]
        /\ Vars(s1, shared)[new] = Null
    BY <2>2, <2>3, <2>6, PushEffect
  <2>. HIDE DEF s2, new
  <2>9. new \in Places
    BY <2>8, PointerParts
  <2>10. /\ stack' \in Stacks /\ shared' \in [Shared -> Pointer \cup {Null}]
         /\ \A y \in Places : y # new => Vars(stack', shared')[y] = Vars(stack, shared)[y]
         /\ Vars(stack', shared')[new] = p
    BY <1>3, <2>1, <2>2, <2>3, <2>7, <2>8, <2>9 DEF Typed
  <2>11. ASSUME NEW q \in Pointer PROVE Over(stack', shared', result', q) = 0
    <3>0. /\ s1 \in Stacks /\ s2 \in Stacks
          /\ \A r \in Pointer : Refs(s2)[r] = Refs(s1)[r]
          /\ \A y \in Places : y # new => Vars(s2, shared)[y] = Vars(s1, shared)[y]
      BY <2>3, <2>8
    <3>1. Over(s2, shared, result, q) =
            Over(s1, shared, result, q)
              + One(q, Vars(s1, shared)[new]) - One(q, Vars(s2, shared)[new])
      BY ONLY <3>0, <2>9, PlaceOver, q \in Pointer
    <3>2. Vars(s1, shared)[new] = Null /\ Vars(s2, shared)[new] = p
      BY <2>2, <2>8, <2>9
    <3>3. One(q, p) \in Nat /\ One(q, Null) = 0
      BY PointerParts DEF One
    <3>4. Over(s1, shared, result, q) = One(q, p)
      BY <2>4
    <3>5. Over(s2, shared, result, q) = 0
      BY <3>1, <3>2, <3>3, <3>4
    <3>. QED
      BY <2>1, <2>7, <3>5
  <2>12. stack'[c] # <<>> /\ stack'[c][1].fromC
    <3>1. Len(s1[c]) = 0
      BY <2>5
    <3>2. s2[c][1] = fr
      <4>1. s2[c][Len(s1[c]) + 1] = fr
        BY <2>8
      <4>2. Len(s1[c]) + 1 = 1
        BY <3>1
      <4>. QED
        BY ONLY <4>1, <4>2
    <3>3. Len(s2[c]) = 1
      <4>1. Len(s2[c]) = Len(s1[c]) + 1
        BY <2>8
      <4>. QED
        BY ONLY <3>1, <4>1
    <3>. QED
      BY <2>2, <2>7, <3>2, <3>3
  <2>13. ASSUME NEW f \in Fibers, f # c
         PROVE  /\ stack'[f] # <<>> <=> stack[f] # <<>>
                /\ stack[f] # <<>> => stack'[f][1].fromC = stack[f][1].fromC
    <3>1. stack'[f] = s1[f]
      BY <2>1, <2>3, <2>13 DEF Stacks
    <3>2. Len(s1[f]) = Len(stack[f]) /\ stack[f] \in Seq(Frame) /\ s1[f] \in Seq(Frame)
          /\ Len(stack[f]) \in Nat
      BY <1>3, <2>3, StackParts DEF Same
    <3>3. (s1[f] # <<>> <=> Len(s1[f]) # 0) /\ (stack[f] # <<>> <=> Len(stack[f]) # 0)
      BY <3>2, EmptySeq
    <3>4. ASSUME stack[f] # <<>> PROVE s1[f][1].fromC = stack[f][1].fromC
      <4>1. 1 \in 1..Len(stack[f])
        BY <3>2, <3>3, <3>4
      <4>. QED
        BY <2>3, <4>1 DEF Same
    <3>. QED
      BY <3>1, <3>2, <3>3, <3>4
  <2>14. Families'
    BY <1>1, <2>1, <2>5, <2>12, <2>13, MadeFamilies
  <2>15. Vars(stack', shared')[new] \in Pointer => Vars(stack', shared')[new].fiber \in Chain[cur]
    BY <1>2, <2>10, PointerParts DEF Seen
  <2>16. result' \in Pointer \cup {Null} /\ (result' \in Pointer => result'.fiber \in Chain[cur])
    BY <1>1, <2>1, CallStackAssumption
  <2>17. made \subseteq made' /\ made' \subseteq Fibers
    BY <1>3, <2>1 DEF Typed
  <2>. QED
    BY <1>1, <1>3, <2>1, <2>10, <2>11, <2>14, <2>15, <2>16, <2>17, KeptStep
       DEF Typed, EscapeTrue
<1>. QED
  BY <1>4, <1>5

\* A function returns; the last one of a fiber does so after the fibers it has made.
LEMMA LeftFamilies ==
  ASSUME IInv, made' = made, status = "running", stack' \in Stacks,
         \A f \in Fibers : Len(stack'[f]) = IF f = cur THEN Len(stack[f]) - 1 ELSE Len(stack[f]),
         \A f \in Fibers : \A j \in 1..Len(stack'[f]) : stack'[f][j].fromC = stack[f][j].fromC,
         \A c \in made \ {Root} : Depth(cur) = 1 /\ Alive(c) => Parent[c] # cur,
         cur' = IF Depth(cur) = 1 /\ cur # Root THEN Parent[cur] ELSE cur,
         status' = IF Depth(cur) = 1 /\ cur = Root THEN "done" ELSE "running"
  PROVE  Families'
<1>. USE DEF IInv
<1>1. cur \in made /\ cur \in Fibers /\ stack[cur] # <<>> /\ Len(stack[cur]) \in 1..MaxFrames
      /\ stack \in Stacks
  BY TopVarThere DEF Typed
<1>2. ASSUME NEW f \in Fibers
      PROVE  /\ Len(stack[f]) \in Nat /\ Len(stack'[f]) \in Nat
             /\ stack[f] # <<>> <=> Len(stack[f]) # 0
             /\ stack'[f] # <<>> <=> Len(stack'[f]) # 0
  <2>1. /\ stack[f] \in Seq(Frame) /\ stack'[f] \in Seq(Frame)
        /\ Len(stack[f]) \in Nat /\ Len(stack'[f]) \in Nat
    BY <1>1, StackParts
  <2>. QED
    BY <2>1, EmptySeq
<1>3. \A f \in made \ {Root} : Parent[f] \in Fibers /\ f \in Fibers
  BY CallStackAssumption DEF Typed
<1>4. ASSUME NEW f \in Fibers, stack'[f] # <<>>
      PROVE  stack[f] # <<>> /\ f \in made /\ stack'[f][1].fromC
  <2>1. Len(stack'[f]) # 0 /\ Len(stack'[f]) \in Nat
    BY <1>2, <1>4
  <2>2. stack[f] # <<>>
    BY <1>1, <1>2, <2>1
  <2>3. 1 \in 1..Len(stack'[f])
    BY <2>1
  <2>. QED
    BY <2>2, <2>3 DEF Families, Alive
<1>5. ASSUME NEW f \in Fibers, stack[f] # <<>>, f # cur \/ Len(stack[cur]) # 1
      PROVE  stack'[f] # <<>>
  <2>1. Len(stack[f]) \in Nat /\ Len(stack[f]) # 0
    BY <1>2, <1>5
  <2>2. Len(stack'[f]) # 0
    <3>1. CASE f = cur
      <4>1. Len(stack'[f]) = Len(stack[f]) - 1 /\ Len(stack[f]) # 1
        BY <1>5, <3>1
      <4>. QED
        BY <2>1, <4>1
    <3>2. CASE f # cur
      BY <2>1, <3>2
    <3>. QED
      BY <3>1, <3>2
  <2>. QED
    BY <1>2, <2>2
<1>6. ASSUME NEW f \in made \ {Root}
      PROVE  Parent[f] \in made /\ (stack'[f] # <<>> => stack'[Parent[f]] # <<>>)
  <2>1. Parent[f] \in made
    BY DEF Families
  <2>2. ASSUME stack'[f] # <<>> PROVE stack'[Parent[f]] # <<>>
    <3>1. stack[f] # <<>>
      BY <1>3, <1>4, <2>2
    <3>2. stack[Parent[f]] # <<>>
      BY <3>1 DEF Families, Alive
    <3>3. Parent[f] # cur \/ Len(stack[cur]) # 1
      BY <3>1 DEF Alive, Depth
    <3>. QED
      BY <1>3, <1>5, <3>2, <3>3
  <2>. QED
    BY <2>1, <2>2
<1>7. ASSUME status' = "running" PROVE stack'[cur'] # <<>>
  <2>1. CASE Len(stack[cur]) = 1
    <3>1. cur # Root /\ cur' = Parent[cur]
      BY <1>7, <2>1 DEF Depth
    <3>2. Parent[cur] # cur /\ stack[Parent[cur]] # <<>>
      BY <1>1, <2>1, <3>1 DEF Families, Alive, Depth
    <3>. QED
      BY <1>1, <1>3, <1>5, <3>1, <3>2
  <2>2. CASE Len(stack[cur]) # 1
    BY <1>1, <1>5, <2>2 DEF Depth
  <2>. QED
    BY <2>1, <2>2
<1>. QED
  BY <1>4, <1>6, <1>7 DEF Families, Alive

\* A function is left.
LEMMA LeaveStep ==
  ASSUME IInv, NEW r \in Readable, Leave(r)
  PROVE  IInv'
<1>. DEFINE o == Held(TopVar)
            s == Released(r)
<1>1. status = "running" /\ result = Null
  BY DEF Leave, Running
<1>2. /\ TopVar \in Pointer /\ TopVar \in Places /\ There(stack, TopVar)
      /\ TopVar.fiber = cur /\ TopVar.depth = Len(stack[cur])
      /\ cur \in Fibers /\ stack[cur] # <<>> /\ Len(stack[cur]) \in 1..MaxFrames
  BY <1>1, TopVarThere
<1>3. /\ o = Vars(stack, shared)[TopVar]
      /\ o \in Pointer \cup {Null} /\ (o # Null => Seen(stack, o))
      /\ r \in Pointer \cup {Null} /\ (r # Null => Seen(stack, r))
  BY <1>1, Reach
<1>4. Typed /\ Balanced /\ stack \in Stacks /\ shared \in [Shared -> Pointer \cup {Null}]
      /\ cur \in made
  BY DEF IInv, Typed
<1>5. r \in Pointer => r.fiber \in Chain[cur]
  BY <1>3, PointerParts DEF Seen
<1>6. /\ s \in Stacks /\ Same(stack, s) /\ Vars(s, shared) = Vars(stack, shared)
      /\ \A q \in Pointer : Over(s, shared, Null, q) = One(q, r) - One(q, o)
  <2>1. s = Counted(Counted(stack, r, 1), o, -1)
    BY DEF Released
  <2>2. /\ s \in Stacks /\ Same(stack, s) /\ Vars(s, shared) = Vars(stack, shared)
        /\ \A q \in Pointer :
             Over(s, shared, Null, q) = Over(stack, shared, Null, q) + One(q, r) - One(q, o)
    BY <1>3, <1>4, <2>1, CountedTwice
  <2>3. \A q \in Pointer : Over(stack, shared, Null, q) = 0
    BY <1>1, <1>4 DEF Balanced
  <2>4. \A q \in Pointer : One(q, r) \in Nat /\ One(q, o) \in Nat
    BY DEF One
  <2>. QED
    BY <2>2, <2>3, <2>4
<1>. HIDE DEF o, s
<1>7. Len(s[cur]) = Len(stack[cur]) /\ There(s, TopVar) /\ s[cur] # <<>>
  <2>1. Len(s[cur]) = Len(stack[cur])
    BY <1>2, <1>6 DEF Same
  <2>2. s[cur] # <<>>
    BY <1>2, <2>1
  <2>. QED
    BY <1>2, <2>1, <2>2 DEF There
<1>8. Last(s[cur]).refs = Refs(s)[TopVar]
  BY <1>2, <1>7 DEF Last, Refs
\* The variable is given up, and the result is counted.
<1>9. ASSUME stack' \in Stacks, shared' = shared, result' = r,
             \A q \in Pointer : Refs(stack')[q] = Refs(s)[q],
             \A y \in Places : Vars(stack', shared')[y] =
                                 IF y = TopVar THEN Null ELSE Vars(s, shared)[y]
      PROVE  /\ \A q \in Pointer : Over(stack', shared', result', q) = 0
             /\ \A y \in Places : y # TopVar => Vars(stack', shared')[y] = Vars(stack, shared)[y]
             /\ Vars(stack', shared')[TopVar] = Null
             /\ result' \in Pointer \cup {Null}
             /\ result' \in Pointer => result'.fiber \in Chain[cur]
  <2>1. Vars(stack', shared')[TopVar] = Null /\ Vars(s, shared)[TopVar] = o
    BY <1>2, <1>3, <1>6, <1>9
  <2>2. ASSUME NEW q \in Pointer PROVE Over(stack', shared', result', q) = 0
    <3>1. Over(stack', shared', Null, q) =
            Over(s, shared, Null, q)
              + One(q, Vars(s, shared)[TopVar]) - One(q, Vars(stack', shared')[TopVar])
      BY <1>2, <1>6, <1>9, PlaceOver
    <3>2. Over(stack', shared', r, q) = Over(stack', shared', Null, q) + One(q, Null) - One(q, r)
      BY <1>9, ResultOver
    <3>3. One(q, r) \in Nat /\ One(q, o) \in Nat /\ One(q, Null) = 0
      BY PointerParts DEF One
    <3>4. Over(s, shared, Null, q) = One(q, r) - One(q, o)
      BY <1>6
    <3>5. Over(stack', shared', Null, q) = One(q, r)
      BY <2>1, <3>1, <3>3, <3>4
    <3>6. Over(stack', shared', r, q) = 0
      BY <3>2, <3>3, <3>5
    <3>. QED
      BY <1>9, <3>6
  <2>. QED
    BY <1>3, <1>5, <1>6, <1>9, <2>1, <2>2
<1>10. CASE Unreachable(stack, r) \/ Unreachable(stack, o)
  BY <1>10, FailStep DEF Leave, o
<1>11. CASE ~(Unreachable(stack, r) \/ Unreachable(stack, o)) /\ Last(s[cur]).refs # 0
  <2>1. /\ status' = "escape" /\ result' = r
        /\ stack' = [s EXCEPT ![cur][Depth(cur)].var = Null]
        /\ UNCHANGED <<shared, made, cur>>
    BY <1>11 DEF Leave, o, s
  <2>2. stack' = WithVar(s, TopVar, Null)
    BY <1>2, <2>1 DEF WithVar, Depth
  <2>3. /\ stack' \in Stacks /\ Same(s, stack')
        /\ \A q \in Pointer : Refs(stack')[q] = Refs(s)[q]
        /\ \A y \in Places : Vars(stack', shared)[y] =
                               IF y = TopVar THEN Null ELSE Vars(s, shared)[y]
    BY <1>2, <1>6, <1>7, <2>2, VarEffect
  <2>4. /\ \A q \in Pointer : Over(stack', shared', result', q) = 0
        /\ \A y \in Places : y # TopVar => Vars(stack', shared')[y] = Vars(stack, shared)[y]
        /\ Vars(stack', shared')[TopVar] = Null
        /\ result' \in Pointer \cup {Null}
        /\ result' \in Pointer => result'.fiber \in Chain[cur]
    BY <1>9, <2>1, <2>3
  <2>5. Same(stack, stack')
    BY <1>6, <2>3 DEF Same
  <2>6. Families'
    BY <1>1, <2>1, <2>3, <2>5, SameFamilies
  <2>7. TopVar' = TopVar
    <3>1. Len(stack'[cur]) = Len(stack[cur])
      BY <1>2, <2>5 DEF Same
    <3>. QED
      BY <2>1, <3>1 DEF TopVar, Depth
  <2>8. result' = TopVar \/ \E x \in Places \ {TopVar} : Vars(stack', shared')[x] = TopVar
    <3>1. Refs(stack')[TopVar] # 0
      BY <1>2, <1>8, <1>11, <2>3
    <3>2. /\ Over(stack', shared', result', TopVar) = 0
          /\ Refs(stack')[TopVar] \in Int /\ One(TopVar, result') \in Nat
          /\ Cardinality(Holding(Places, Vars(stack', shared'), TopVar)) \in Nat
      BY <1>2, <2>3, <2>4, OverIsInt
    <3>3. Cardinality(Holding(Places, Vars(stack', shared'), TopVar)) # 0
            \/ One(TopVar, result') # 0
      BY <3>1, <3>2 DEF Over
    <3>4. One(TopVar, result') # 0 => result' = TopVar
      BY DEF One
    <3>5. ASSUME Cardinality(Holding(Places, Vars(stack', shared'), TopVar)) # 0
          PROVE  \E x \in Places : Vars(stack', shared')[x] = TopVar
      <4>1. Cardinality(Holding(Places, Vars(stack', shared'), TopVar)) > 0
        BY <3>2, <3>5
      <4>. QED
        BY <4>1, PlacesFinite, HoldersCounted
    <3>6. TopVar # Null
      BY <1>2, PointerParts
    <3>. QED
      BY <2>4, <3>3, <3>4, <3>5, <3>6
  <2>9. EscapeTrue'
    BY <2>7, <2>8 DEF EscapeTrue
  <2>10. Vars(stack', shared')[TopVar] \notin Pointer
    BY <2>4, PointerParts
  <2>11. status' \in {"running", "done", "escape", "illegal"} /\ made \subseteq made'
         /\ made' \subseteq Fibers /\ cur' = cur /\ shared' \in [Shared -> Pointer \cup {Null}]
    BY <1>4, <2>1 DEF Typed
  <2>. QED
    BY <2>3, <2>4, <2>6, <2>9, <2>10, <2>11, KeptStep
<1>12. CASE ~(Unreachable(stack, r) \/ Unreachable(stack, o)) /\ Last(s[cur]).refs = 0
  <2>1. /\ stack' = [s EXCEPT ![cur] = Front(@)] /\ result' = r
        /\ cur' = IF Depth(cur) = 1 /\ cur # Root THEN Parent[cur] ELSE cur
        /\ status' = IF Depth(cur) = 1 /\ cur = Root THEN "done" ELSE "running"
        /\ UNCHANGED <<shared, made>>
    BY <1>12 DEF Leave, o, s
  <2>2. [fiber |-> cur, depth |-> Len(s[cur])] = TopVar
    BY <1>7 DEF TopVar, Depth
  <2>3. /\ stack' \in Stacks
        /\ \A g \in Fibers : Len(stack'[g]) = IF g = cur THEN Len(s[g]) - 1 ELSE Len(s[g])
        /\ \A g \in Fibers : \A j \in 1..Len(stack'[g]) : stack'[g][j] = s[g][j]
        /\ \A q \in Pointer : Refs(stack')[q] = IF q = TopVar THEN 0 ELSE Refs(s)[q]
        /\ \A y \in Places : Vars(stack', shared)[y] =
                               IF y = TopVar THEN Null ELSE Vars(s, shared)[y]
    <3>1. stack' = WithoutFrame(s, cur)
      BY <2>1 DEF WithoutFrame
    <3>. QED
      BY <1>2, <1>6, <1>7, <2>2, <3>1, PopEffect
  <2>4. \A q \in Pointer : Refs(stack')[q] = Refs(s)[q]
    BY <1>8, <1>12, <2>3
  <2>5. /\ \A q \in Pointer : Over(stack', shared', result', q) = 0
        /\ \A y \in Places : y # TopVar => Vars(stack', shared')[y] = Vars(stack, shared)[y]
        /\ Vars(stack', shared')[TopVar] = Null
        /\ result' \in Pointer \cup {Null}
        /\ result' \in Pointer => result'.fiber \in Chain[cur]
    BY <1>9, <2>1, <2>3, <2>4
  <2>6. \A f \in Fibers : Len(stack'[f]) = IF f = cur THEN Len(stack[f]) - 1 ELSE Len(stack[f])
    BY <1>6, <2>3 DEF Same
  <2>7. ASSUME NEW f \in Fibers, NEW j \in 1..Len(stack'[f])
        PROVE  stack'[f][j].fromC = stack[f][j].fromC
    <3>1. Len(stack'[f]) \in Nat /\ Len(stack[f]) \in Nat
      BY <1>4, <2>3, StackParts
    <3>2. j \in 1..Len(stack[f])
      BY <2>6, <3>1
    <3>. QED
      BY <1>6, <2>3, <3>2 DEF Same
  <2>8. \A c \in made \ {Root} : Depth(cur) = 1 /\ Alive(c) => Parent[c] # cur
    BY DEF Leave
  <2>9. Families'
    BY <1>1, <2>1, <2>3, <2>6, <2>7, <2>8, LeftFamilies
  <2>10. EscapeTrue'
    BY <2>1 DEF EscapeTrue
  <2>11. Vars(stack', shared')[TopVar] \notin Pointer
    BY <2>5, PointerParts
  <2>12. status' \in {"running", "done", "escape", "illegal"} /\ made \subseteq made'
         /\ made' \subseteq Fibers /\ shared' \in [Shared -> Pointer \cup {Null}]
    BY <1>4, <2>1 DEF Typed
  <2>13. CASE Depth(cur) = 1 /\ cur # Root
    <3>1. cur' = Parent[cur] /\ Chain[cur] = {cur} \cup Chain[cur'] /\ cur' \in made'
      BY <1>2, <1>4, <2>1, <2>13, CallStackAssumption DEF IInv, Families
    <3>2. result' = Null
      <4>1. Last(stack[cur]).fromC
        BY <1>2, <2>13 DEF Last, Depth, IInv, Families, Alive
      <4>. QED
        BY <2>1, <4>1 DEF Leave
    <3>3. ASSUME NEW x \in Places, Vars(stack', shared')[x] \in Pointer,
                 Vars(stack', shared')[x].fiber \notin Chain[cur']
          PROVE  x \in Pointer /\ x.fiber = Vars(stack', shared')[x].fiber
      <4>. DEFINE p == Vars(stack', shared')[x]
      <4>1. There(stack', p)
        <5>1. stack' \in Stacks /\ p \in Pointer /\ Over(stack', shared', result', p) = 0
              /\ \E y \in Places : Vars(stack', shared')[y] = p
          BY <2>3, <2>5, <3>3
        <5>. HIDE DEF p
        <5>. QED
          BY ONLY <5>1, HeldThereIn
      <4>2. p.fiber # cur
        <5>1. Len(stack'[cur]) = 0
          <6>1. Len(stack'[cur]) = Len(stack[cur]) - 1
            BY <1>2, <2>6
          <6>2. Len(stack[cur]) = 1
            BY <2>13 DEF Depth
          <6>. QED
            BY <6>1, <6>2
        <5>2. p.depth \in 1..MaxFrames
          BY <3>3, PointerParts
        <5>. QED
          BY <4>1, <5>1, <5>2, CallStackAssumption DEF There
      <4>3. x # TopVar
        BY <2>11, <3>3
      <4>4. p = Vars(stack, shared)[x] /\ p.fiber \notin Chain[cur]
        BY <2>5, <3>1, <3>3, <4>2, <4>3
      <4>. QED
        BY <3>3, <4>4 DEF IInv, PointersInChain
    <3>4. PointersInChain'
      BY <3>2, <3>3, PointerParts DEF PointersInChain
    <3>. QED
      BY <2>3, <2>5, <2>9, <2>10, <2>12, <3>1, <3>4 DEF IInv, Typed, Balanced
  <2>14. CASE ~(Depth(cur) = 1 /\ cur # Root)
    <3>1. cur' = cur
      BY <2>1, <2>14
    <3>. QED
      BY <2>3, <2>5, <2>9, <2>10, <2>11, <2>12, <3>1, KeptStep
  <2>. QED
    BY <2>13, <2>14
<1>. QED
  BY <1>10, <1>11, <1>12

-----------------------------------------------------------------------------
(* The places that hold a pointer, in the terms of the model.              *)

\* Which places hold pointers into the frame that is left.
LEMMA HoldersAre ==
  ASSUME stack \in Stacks, NEW p \in Pointer
  PROVE  Holders(p) = Holding(Places, Vars(stack, shared), p)
<1>1. ASSUME NEW x \in Holders(p) PROVE x \in Holding(Places, Vars(stack, shared), p)
  <2>1. CASE x \in Shared /\ shared[x] = p
    BY <2>1 DEF Holding, Places, Vars
  <2>2. CASE \E f \in Fibers : \E i \in DOMAIN stack[f] :
               x = [fiber |-> f, depth |-> i] /\ stack[f][i].var = p
    <3>0. PICK f \in Fibers : \E i \in DOMAIN stack[f] :
               x = [fiber |-> f, depth |-> i] /\ stack[f][i].var = p
      BY <2>2
    <3>1. PICK i \in DOMAIN stack[f] : x = [fiber |-> f, depth |-> i] /\ stack[f][i].var = p
      BY <3>0
    <3>2. i \in 1..MaxFrames /\ i <= Len(stack[f])
      BY StackParts
    <3>3. x \in Pointer /\ x.fiber = f /\ x.depth = i
      BY <3>1, <3>2, PointerParts
    <3>. QED
      BY <3>1, <3>2, <3>3, PointerParts DEF Holding, Vars, There
  <2>. QED
    BY <1>1, <2>1, <2>2 DEF Holders
<1>2. ASSUME NEW x \in Holding(Places, Vars(stack, shared), p) PROVE x \in Holders(p)
  <2>1. x \in Places /\ Vars(stack, shared)[x] = p /\ p # Null
    BY PointerParts DEF Holding
  <2>2. CASE x \in Shared
    BY <2>1, <2>2 DEF Holders, Vars
  <2>3. CASE x \notin Shared
    <3>1. x \in Pointer /\ There(stack, x) /\ stack[x.fiber][x.depth].var = p
      BY <2>1, <2>3 DEF Vars, Places
    <3>2. /\ x.fiber \in Fibers /\ x.depth \in DOMAIN stack[x.fiber]
          /\ x = [fiber |-> x.fiber, depth |-> x.depth]
      BY <3>1, PointerParts, StackParts DEF There
    <3>. QED
      BY <3>1, <3>2 DEF Holders
  <2>. QED
    BY <2>2, <2>3
<1>. QED
  BY <1>1, <1>2

\* Control does not leave a fiber that others have pointers into.
LEMMA SwitchStep ==
  ASSUME IInv, ~LocalsLeftBehind, NEW g \in Fibers, Switch(g)
  PROVE  IInv'
<1>1. /\ result = Null /\ g \in made /\ Alive(g) /\ LeftAlone(g)
      /\ cur' = g /\ UNCHANGED <<stack, shared, made, result, status>>
  BY DEF Switch, Running
<1>2. Typed' /\ Balanced' /\ stack \in Stacks /\ status = "running"
  BY <1>1 DEF IInv, Typed, Balanced, Switch, Running
<1>3. Families' /\ EscapeTrue'
  BY <1>1, <1>2 DEF IInv, Families, Alive, EscapeTrue
<1>4. ASSUME NEW x \in Places, Vars(stack, shared)[x] \in Pointer,
             Vars(stack, shared)[x].fiber \notin Chain[g]
      PROVE  x \in Pointer /\ x.fiber = Vars(stack, shared)[x].fiber
  <2>. DEFINE p == Vars(stack, shared)[x]
  <2>1. /\ p \in Pointer /\ p.fiber \in Fibers \ Chain[g] /\ p.depth \in 1..MaxFrames
        /\ p = [fiber |-> p.fiber, depth |-> p.depth]
    BY <1>4, PointerParts
  <2>2. x \in Holders(p)
    BY <1>2, <2>1, HoldersAre DEF Holding
  <2>. HIDE DEF p
  <2>3. x \notin Shared /\ x.fiber = p.fiber
    BY <1>1, <2>1, <2>2 DEF LeftAlone
  <2>. QED
    BY <2>3 DEF p, Places
<1>5. PointersInChain'
  BY <1>1, <1>4, PointerParts DEF PointersInChain
<1>. QED
  BY <1>2, <1>3, <1>5 DEF IInv

\* Every step keeps the invariant.
LEMMA NextStep ==
  ASSUME IInv, ~LocalsLeftBehind, Next
  PROVE  IInv'
<1>1. CASE \E place \in Writable, p \in Readable : Assign(place, p)
  BY <1>1, AssignStep
<1>2. CASE \E place \in Writable : TakeResult(place)
  BY <1>2, TakeResultStep
<1>3. CASE DropResult
  BY <1>3, DropResultStep
<1>4. CASE \E fromC \in BOOLEAN, p \in Readable : Enter(fromC, p)
  BY <1>4, EnterStep
<1>5. CASE \E p \in Readable : Leave(p)
  BY <1>5, LeaveStep
<1>6. CASE \E c \in Fibers, p \in Readable : Make(c, p)
  BY <1>6, MakeStep
<1>7. CASE \E g \in Fibers : Switch(g)
  BY <1>7, SwitchStep
<1>. QED
  BY <1>1, <1>2, <1>3, <1>4, <1>5, <1>6, <1>7 DEF Next

\* A new frame counts nothing, and its variable points nowhere.
LEMMA FrameIsNew ==
  ASSUME NEW b \in BOOLEAN
  PROVE  NewFrame(b) \in Frame /\ NewFrame(b).refs = 0 /\ NewFrame(b).var = Null
         /\ NewFrame(b).fromC = b
BY DEF NewFrame, Frame

\* At first there is the frame of main, and no pointer.
LEMMA InitIInv ==
  ASSUME Init
  PROVE  IInv
<1>. DEFINE fr == NewFrame(TRUE)
            main == <<fr>>
<1>1. fr \in Frame /\ fr.refs = 0 /\ fr.var = Null /\ fr.fromC
  BY FrameIsNew
<1>2. /\ stack = [f \in Fibers |-> IF f = Root THEN main ELSE <<>>]
      /\ shared = [s \in Shared |-> Null] /\ made = {Root} /\ cur = Root
      /\ result = Null /\ status = "running"
  BY DEF Init
<1>. HIDE DEF fr
<1>3. main \in Seq(Frame) /\ Len(main) = 1 /\ main[1] = fr /\ main # <<>>
  BY <1>1
<1>. HIDE DEF main
<1>4. stack[Root] = main /\ \A f \in Fibers : f # Root => stack[f] = <<>>
  BY <1>2, CallStackAssumption
<1>5. stack \in Stacks
  <2>1. stack \in [Fibers -> Seq(Frame)]
    BY <1>2, <1>3, EmptySeq
  <2>2. ASSUME NEW f \in Fibers PROVE Len(stack[f]) <= MaxFrames
    <3>1. CASE f = Root
      <4>1. Len(stack[f]) = 1
        BY <1>3, <1>4, <3>1
      <4>. QED
        BY <4>1, CallStackAssumption
    <3>2. CASE f # Root
      <4>1. Len(stack[f]) = 0
        BY <1>4, <3>2
      <4>. QED
        BY <4>1, CallStackAssumption
    <3>. QED
      BY <3>1, <3>2
  <2>. QED
    BY <2>1, <2>2 DEF Stacks
<1>6. Typed
  BY <1>2, <1>5, CallStackAssumption DEF Typed
<1>7. ASSUME NEW p \in Pointer, There(stack, p)
      PROVE  stack[p.fiber][p.depth] = fr
  <2>1. p.fiber \in Fibers /\ p.depth \in 1..MaxFrames /\ p.depth <= Len(stack[p.fiber])
    BY <1>7, PointerParts DEF There
  <2>2. p.fiber = Root
    BY <1>4, <2>1, CallStackAssumption
  <2>3. p.depth = 1
    <3>1. Len(stack[p.fiber]) = 1
      BY <1>3, <1>4, <2>2
    <3>. QED
      BY <2>1, <3>1, CallStackAssumption
  <2>. QED
    BY <1>3, <1>4, <2>2, <2>3
<1>8. \A x \in Places : Vars(stack, shared)[x] = Null
  BY <1>1, <1>2, <1>7 DEF Vars, Places
<1>9. Balanced
  <2>1. ASSUME NEW p \in Pointer PROVE Over(stack, shared, result, p) = 0
    <3>1. Refs(stack)[p] = 0
      BY <1>1, <1>7 DEF Refs
    <3>2. Cardinality(Holding(Places, Vars(stack, shared), p)) = 0
      BY <1>8, PointerParts, PlacesFinite, HoldersCounted
    <3>3. One(p, result) = 0
      BY <1>2, PointerParts DEF One
    <3>. QED
      BY <3>1, <3>2, <3>3 DEF Over
  <2>. QED
    BY <2>1 DEF Balanced
<1>10. PointersInChain
  BY <1>2, <1>8, PointerParts DEF PointersInChain
<1>11. Families
  BY <1>1, <1>2, <1>3, <1>4, CallStackAssumption DEF Families, Alive
<1>12. EscapeTrue
  BY <1>2 DEF EscapeTrue
<1>. QED
  BY <1>6, <1>9, <1>10, <1>11, <1>12 DEF IInv

\* Nothing is left to do when a program has ended.
LEMMA Stutter ==
  ASSUME IInv, UNCHANGED vars
  PROVE  IInv'
BY DEF IInv, vars, Typed, Balanced, PointersInChain, Families, Alive, EscapeTrue, TopVar, Depth

\* The invariant of all reachable states.
LEMMA Invariance == ~LocalsLeftBehind => (Spec => []IInv)
<1>1. Init => IInv
  BY InitIInv
<1>2. ASSUME ~LocalsLeftBehind PROVE IInv /\ [Next]_vars => IInv'
  BY <1>2, NextStep, Stutter
<1>3. CASE ~LocalsLeftBehind
  <2>1. IInv /\ [Next]_vars => IInv'
    BY <1>2, <1>3
  <2>. QED
    BY <1>1, <2>1, PTL DEF Spec
<1>4. CASE LocalsLeftBehind
  BY <1>4
<1>. QED
  BY <1>3, <1>4

\* A frame count is natural, being a number of pointers.
LEMMA CountsAreNatural ==
  ASSUME IInv
  PROVE  TypeOK
<1>. DEFINE NF == [refs : Nat, var : Pointer \cup {Null}, fromC : BOOLEAN]
<1>1. Typed /\ stack \in Stacks
  BY DEF IInv, Typed
<1>2. ASSUME NEW f \in Fibers PROVE stack[f] \in Seq(NF)
  <2>1. ASSUME NEW i \in 1..Len(stack[f]) PROVE stack[f][i] \in NF
    <3>. DEFINE p == [fiber |-> f, depth |-> i]
    <3>1. i \in 1..MaxFrames /\ stack[f][i] \in Frame
      BY <1>1, StackParts
    <3>2. p \in Pointer /\ p.fiber = f /\ p.depth = i
      BY <3>1, PointerParts
    <3>3. There(stack, p)
      BY <1>1, <3>2, StackParts DEF There
    <3>4. Refs(stack)[p] = stack[f][i].refs
      BY <3>2, <3>3 DEF Refs
    <3>. HIDE DEF p
    <3>5. Over(stack, shared, result, p) = 0
      BY <3>2 DEF IInv, Balanced
    <3>6. Refs(stack)[p] \in Nat
      BY <1>1, <3>2, <3>5, OverIsInt DEF Over
    <3>. QED
      BY <3>1, <3>4, <3>6 DEF Frame
  <2>2. stack[f] \in Seq(Frame) /\ Len(stack[f]) \in Nat
    BY <1>1, StackParts
  <2>3. stack[f] \in [1..Len(stack[f]) -> Frame]
    BY <2>2, LenProperties
  <2>. HIDE DEF NF
  <2>4. stack[f] \in [1..Len(stack[f]) -> NF]
    BY <2>1, <2>3
  <2>. QED
    BY <2>2, <2>4, SeqDef
<1>3. stack \in [Fibers -> Seq(NF)]
  <2>. HIDE DEF NF
  <2>. QED
    BY <1>1, <1>2 DEF Stacks
<1>. QED
  BY <1>1, <1>3 DEF Typed, TypeOK

\* The invariant says of the frames and pointers what the properties say.
LEMMA InvariantMeans ==
  ASSUME IInv
  PROVE  FramesCounted /\ PointersLive /\
         (status = "escape" => result = TopVar \/ Holders(TopVar) \ {TopVar} # {})
<1>1. stack \in Stacks /\ TypeOK
  BY CountsAreNatural DEF IInv, Typed
<1>2. ASSUME NEW f \in Fibers, NEW i \in DOMAIN stack[f]
      PROVE  LET p == [fiber |-> f, depth |-> i]
             IN  stack[f][i].refs = Cardinality(Holders(p)) + IF result = p THEN 1 ELSE 0
  <2>. DEFINE p == [fiber |-> f, depth |-> i]
  <2>1. i \in 1..Len(stack[f]) /\ i \in 1..MaxFrames
    BY <1>1, StackParts
  <2>2. p \in Pointer /\ p.fiber = f /\ p.depth = i
    BY <2>1, PointerParts
  <2>3. Refs(stack)[p] = stack[f][i].refs
    BY <1>1, <2>1, <2>2, StackParts DEF Refs, There
  <2>. HIDE DEF p
  <2>4. Over(stack, shared, result, p) = 0
    BY <2>2 DEF IInv, Balanced
  <2>5. Refs(stack)[p] = Cardinality(Holders(p)) + One(p, result)
    BY <1>1, <2>2, <2>4, OverIsInt, HoldersAre DEF Over
  <2>6. stack[f][i].refs = Cardinality(Holders(p)) + IF result = p THEN 1 ELSE 0
    BY <2>3, <2>5 DEF One
  <2>. QED
    BY <2>6 DEF p
<1>3. ASSUME NEW f \in Fibers, NEW i \in 1..MaxFrames
      PROVE  LET p == [fiber |-> f, depth |-> i]
             IN  Holders(p) # {} \/ result = p => i <= Depth(f)
  <2>. DEFINE p == [fiber |-> f, depth |-> i]
  <2>1. p \in Pointer /\ p.fiber = f /\ p.depth = i
    BY PointerParts
  <2>. HIDE DEF p
  <2>2. ASSUME Holders(p) # {} \/ result = p PROVE i <= Depth(f)
    <3>1. result = p \/ \E x \in Places : Vars(stack, shared)[x] = p
      BY <1>1, <2>1, <2>2, HoldersAre DEF Holding
    <3>2. There(stack, p)
      BY <2>1, <3>1, HeldThere
    <3>. QED
      BY <2>1, <3>2 DEF There, Depth
  <2>. QED
    BY <2>2 DEF p
<1>4. ASSUME status = "escape" PROVE result = TopVar \/ Holders(TopVar) \ {TopVar} # {}
  <2>1. CASE result = TopVar
    BY <2>1
  <2>2. CASE \E x \in Places \ {TopVar} : Vars(stack, shared)[x] = TopVar
    <3>1. PICK x \in Places \ {TopVar} : Vars(stack, shared)[x] = TopVar
      BY <2>2
    <3>2. x \in Holding(Places, Vars(stack, shared), TopVar)
      BY <3>1 DEF Holding
    <3>3. TopVar \in Pointer
      <4>1. cur \in Fibers /\ stack[cur] # <<>>
        BY <1>4 DEF IInv, Typed, Families, Alive
      <4>2. Len(stack[cur]) \in Nat /\ Len(stack[cur]) # 0 /\ Len(stack[cur]) <= MaxFrames
        BY <1>1, <4>1, StackParts, EmptySeq
      <4>. QED
        BY <4>1, <4>2, PointerParts, CallStackAssumption DEF TopVar, Depth
    <3>. QED
      BY <1>1, <3>1, <3>2, <3>3, HoldersAre
  <2>. QED
    BY <1>4, <2>1, <2>2 DEF IInv, EscapeTrue
<1>. QED
  BY <1>1, <1>2, <1>3, <1>4 DEF FramesCounted, PointersLive

-----------------------------------------------------------------------------
(* Theorems.                                                               *)

\* In every reachable state of a running program, with any number of fibers, functions
\* and variables, the count of a frame (stackUpdateFrameRefCnt) is the number of
\* pointers into it, when no fiber is left while others have pointers into it.
THEOREM FramesAreCounted == ~LocalsLeftBehind => (Spec => []FramesCounted)
<1>1. IInv => FramesCounted
  BY InvariantMeans
<1>2. CASE ~LocalsLeftBehind
  BY <1>1, <1>2, Invariance, PTL
<1>. QED
  BY <1>2

\* Then doLeaveFrame lets no pointer outlive the frame it leads into.
THEOREM PointersStayLive == ~LocalsLeftBehind => (Spec => []PointersLive)
<1>1. IInv => PointersLive
  BY InvariantMeans
<1>2. CASE ~LocalsLeftBehind
  BY <1>1, <1>2, Invariance, PTL
<1>. QED
  BY <1>2

\* A pointer that can be counted is counted without an error.
LEMMA NeverIllegal == ~CallbackPointers => (Spec => [](status # "illegal"))
<1>1. Init => status # "illegal"
  BY DEF Init
<1>2. ASSUME ~CallbackPointers, status # "illegal", [Next]_vars PROVE status' # "illegal"
  <2>1. \A st, p : Allowed(st, p) => ~Unreachable(st, p)
    BY <1>2 DEF Allowed
  <2>2. CASE \E place \in Writable, p \in Readable : Assign(place, p)
    BY <1>2, <2>1, <2>2 DEF Assign
  <2>3. CASE \E place \in Writable : TakeResult(place)
    BY <1>2, <2>1, <2>3 DEF TakeResult
  <2>4. CASE DropResult
    BY <1>2, <2>1, <2>4 DEF DropResult
  <2>5. CASE \E fromC \in BOOLEAN, p \in Readable : Enter(fromC, p)
    BY <1>2, <2>1, <2>5 DEF Enter
  <2>6. CASE \E p \in Readable : Leave(p)
    BY <1>2, <2>1, <2>6 DEF Leave
  <2>7. CASE \E c \in Fibers, p \in Readable : Make(c, p)
    BY <1>2, <2>1, <2>7 DEF Make
  <2>8. CASE \E g \in Fibers : Switch(g)
    BY <1>2, <2>8 DEF Switch
  <2>9. CASE UNCHANGED vars
    BY <1>2, <2>9 DEF vars
  <2>. QED
    BY <1>2, <2>2, <2>3, <2>4, <2>5, <2>6, <2>7, <2>8, <2>9 DEF Next
<1>3. CASE ~CallbackPointers
  <2>1. status # "illegal" /\ [Next]_vars => (status # "illegal")'
    BY <1>2, <1>3
  <2>. QED
    BY <1>1, <2>1, PTL DEF Spec
<1>. QED
  BY <1>3

\* "Pointer to a local variable escapes from the function" is said only when one does;
\* and if functions that C code has called count no pointers to its callers, a pointer
\* can always be counted: "Illegal stack pointer" is never said.
THEOREM AlarmsAreTrue ==
  ~LocalsLeftBehind /\ ~CallbackPointers => (Spec => []AlarmsTrue)
<1>1. IInv /\ status # "illegal" => AlarmsTrue
  BY InvariantMeans DEF AlarmsTrue
<1>2. CASE ~LocalsLeftBehind /\ ~CallbackPointers
  <2>1. Spec => []IInv /\ [](status # "illegal")
    BY <1>2, Invariance, NeverIllegal
  <2>. QED
    BY <1>1, <2>1, PTL
<1>. QED
  BY <1>2

=============================================================================
