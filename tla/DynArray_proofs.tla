-------------------------- MODULE DynArray_proofs --------------------------
(***************************************************************************)
(* Proofs about DynArray: chunks and strings are counted exactly, a sort   *)
(* stays in its range and sorts, and the arrays implement the lists of     *)
(* SharedLists.                                                            *)
(***************************************************************************)
EXTENDS DynArray, FiniteSetTheorems, SequenceTheorems, TLAPS

\* Replacing one member of a finite set changes its cardinality by what goes and
\* what comes.
LEMMA CountUpdate ==
  ASSUME NEW S, IsFiniteSet(S), NEW T, NEW u, NEW comes \in BOOLEAN,
         T = (S \ {u}) \cup (IF comes THEN {u} ELSE {})
  PROVE  /\ IsFiniteSet(T)
         /\ Cardinality(S) \in Nat /\ Cardinality(T) \in Nat
         /\ Cardinality(T) = Cardinality(S) - (IF u \in S THEN 1 ELSE 0)
                                            + (IF comes THEN 1 ELSE 0)
<1>1. /\ IsFiniteSet(S \ {u})
      /\ Cardinality(S \ {u}) = IF u \in S THEN Cardinality(S) - 1 ELSE Cardinality(S)
  BY FS_RemoveElement
<1>2. Cardinality(S) \in Nat /\ Cardinality(S \ {u}) \in Nat
  BY <1>1, FS_CardinalityType
<1>3. CASE comes
  <2>1. T = (S \ {u}) \cup {u}
    BY <1>3
  <2>2. IsFiniteSet(T) /\ Cardinality(T) = Cardinality(S \ {u}) + 1
    BY <1>1, <2>1, FS_AddElement
  <2>. QED
    BY <1>1, <1>2, <1>3, <2>2
<1>4. CASE ~comes
  <2>1. T = S \ {u}
    BY <1>4
  <2>. QED
    BY <1>1, <1>2, <1>4, <2>1
<1>. QED
  BY <1>3, <1>4

(* References held in the places of a finite set S: f[x] is what x holds.  *)

\* How often p is o
One(o, p) == IF o = p THEN 1 ELSE 0

Holding(S, f, o) == {x \in S : f[x] = o}

\* The number of places that hold o is natural; it is positive if one is known.
LEMMA HoldersCounted ==
  ASSUME NEW S, IsFiniteSet(S), NEW f, NEW o
  PROVE  /\ IsFiniteSet(Holding(S, f, o))
         /\ Cardinality(Holding(S, f, o)) \in Nat
         /\ \A x \in S : f[x] = o => Cardinality(Holding(S, f, o)) > 0
         /\ (\A x \in S : f[x] # o) => Cardinality(Holding(S, f, o)) = 0
<1>1. IsFiniteSet(Holding(S, f, o)) /\ Cardinality(Holding(S, f, o)) \in Nat
  BY FS_Subset, FS_CardinalityType DEF Holding
<1>2. Cardinality(Holding(S, f, o)) = 0 <=> Holding(S, f, o) = {}
  BY <1>1, FS_EmptySet
<1>3. (\E x \in S : f[x] = o) <=> Holding(S, f, o) # {}
  BY DEF Holding
<1>. QED
  BY <1>1, <1>2, <1>3

\* When one place holds something else, the numbers of holders change by one each.
LEMMA HoldingUpdate ==
  ASSUME NEW S, IsFiniteSet(S), NEW x \in S, NEW f, NEW g,
         \A y \in S \ {x} : g[y] = f[y],
         NEW o
  PROVE  Cardinality(Holding(S, g, o)) =
           Cardinality(Holding(S, f, o)) - One(o, f[x]) + One(o, g[x])
<1>. DEFINE H == Holding(S, f, o)
            HN == Holding(S, g, o)
<1>1. IsFiniteSet(H)
  BY HoldersCounted
<1>2. (g[x] = o) \in BOOLEAN
  OBVIOUS
<1>3. HN = (H \ {x}) \cup (IF g[x] = o THEN {x} ELSE {})
  BY DEF Holding
<1>4. x \in H <=> f[x] = o
  BY DEF Holding
<1>. HIDE DEF H, HN
<1>5. Cardinality(HN) = Cardinality(H) - (IF x \in H THEN 1 ELSE 0)
                                       + (IF g[x] = o THEN 1 ELSE 0)
  BY <1>1, <1>2, <1>3, CountUpdate
<1>6. One(o, f[x]) = (IF x \in H THEN 1 ELSE 0) /\ One(o, g[x]) = (IF g[x] = o THEN 1 ELSE 0)
  BY <1>4 DEF One
<1>. QED
  BY <1>5, <1>6 DEF H, HN

-----------------------------------------------------------------------------
(* How often an item occurs at some positions.                             *)

LEMMA OccurrencesNat ==
  ASSUME NEW x, NEW data, NEW D, IsFiniteSet(D)
  PROVE  /\ Occurrences(x, data, D) \in Nat
         /\ IsFiniteSet({i \in D : data[i] = x})
         /\ (\A i \in D : data[i] # x) => Occurrences(x, data, D) = 0
<1>. DEFINE H == Holding(D, data, x)
<1>1. /\ IsFiniteSet(H) /\ Cardinality(H) \in Nat
      /\ (\A i \in D : data[i] # x) => Cardinality(H) = 0
  BY HoldersCounted
<1>2. {i \in D : data[i] = x} = H /\ Occurrences(x, data, D) = Cardinality(H)
  BY DEF Holding, Occurrences
<1>. QED
  BY <1>1, <1>2

LEMMA OccurrencesSame ==
  ASSUME NEW x, NEW f, NEW g, NEW D, \A i \in D : f[i] = g[i]
  PROVE  Occurrences(x, f, D) = Occurrences(x, g, D)
<1>1. {i \in D : f[i] = x} = {i \in D : g[i] = x}
  OBVIOUS
<1>. QED
  BY <1>1 DEF Occurrences

LEMMA OccurrencesSplit ==
  ASSUME NEW x, NEW f, NEW D, NEW E, IsFiniteSet(D), IsFiniteSet(E), D \cap E = {}
  PROVE  Occurrences(x, f, D \cup E) = Occurrences(x, f, D) + Occurrences(x, f, E)
<1>. DEFINE P == {i \in D : f[i] = x}
            Q == {i \in E : f[i] = x}
<1>1. IsFiniteSet(P) /\ IsFiniteSet(Q)
  BY FS_Subset
<1>2. {i \in D \cup E : f[i] = x} = P \cup Q /\ P \cap Q = {}
  OBVIOUS
<1>. HIDE DEF P, Q
<1>3. Cardinality(P) \in Nat /\ Cardinality(Q) \in Nat
  BY <1>1, FS_CardinalityType
<1>4. Cardinality(P \cup Q) = Cardinality(P) + Cardinality(Q) - Cardinality(P \cap Q)
  BY <1>1, FS_Union
<1>5. Cardinality(P \cap Q) = 0
  BY <1>2, FS_EmptySet
<1>6. Cardinality(P \cup Q) = Cardinality(P) + Cardinality(Q)
  BY <1>3, <1>4, <1>5
<1>. QED
  BY <1>2, <1>6 DEF Occurrences, P, Q

\* At the positions that map p of D to E leads to, each once, g has what f has.
LEMMA OccurrencesMoved ==
  ASSUME NEW x, NEW f, NEW g, NEW D, NEW E, IsFiniteSet(D), NEW p \in Bijection(D, E),
         \A i \in D : g[p[i]] = f[i]
  PROVE  Occurrences(x, g, E) = Occurrences(x, f, D)
<1>. DEFINE P == {i \in D : f[i] = x}
            Q == {i \in E : g[i] = x}
            q == [i \in P |-> p[i]]
<1>1. /\ p \in [D -> E] /\ \A i, j \in D : p[i] = p[j] => i = j
      /\ \A k \in E : \E i \in D : p[i] = k
  BY DEF Bijection, Injection, Surjection, IsInjective
<1>2. IsFiniteSet(P)
  BY FS_Subset
<1>3. q \in [P -> Q]
  BY <1>1
<1>4. \A i, j \in P : q[i] = q[j] => i = j
  BY <1>1
<1>5. \A k \in Q : \E i \in P : q[i] = k
  BY <1>1
<1>. HIDE DEF P, Q, q
<1>6. q \in Bijection(P, Q)
  BY <1>3, <1>4, <1>5 DEF Bijection, Injection, Surjection, IsInjective
<1>7. Cardinality(Q) = Cardinality(P)
  BY <1>2, <1>6, FS_Bijection DEF ExistsBijection
<1>. QED
  BY <1>7 DEF Occurrences, P, Q

-----------------------------------------------------------------------------
(* What the chunks hold.                                                   *)

Chunk == [count : Nat, len : 0 .. MaxLen, capacity : Nat, data : [1 .. MaxLen -> Values]]

\* The places of the chunks in use with a string
Held(st, x) ==
  {d \in Stores \X (1 .. MaxLen) :
     st[d[1]].count > 0 /\ d[2] <= st[d[1]].len /\ st[d[1]].data[d[2]] = x}

\* A chunk's share of them
Uses(c, x) == IF c.count > 0 THEN Occurrences(x, c.data, 1 .. c.len) ELSE 0

LEMMA HeldFinite ==
  ASSUME NEW st, NEW x
  PROVE  IsFiniteSet(Held(st, x)) /\ Cardinality(Held(st, x)) \in Nat
<1>1. IsFiniteSet(Stores) /\ IsFiniteSet(1 .. MaxLen)
  BY DynArrayAssumption, FS_Interval
<1>2. IsFiniteSet(Stores \X (1 .. MaxLen))
  BY <1>1, FS_Product
<1>. QED
  BY <1>2, FS_Subset, FS_CardinalityType DEF Held

LEMMA UsesNat ==
  ASSUME NEW c \in Chunk, NEW x
  PROVE  Uses(c, x) \in Nat
<1>1. c.len \in Int
  BY DynArrayAssumption DEF Chunk
<1>2. IsFiniteSet(1 .. c.len)
  BY <1>1, FS_Interval
<1>. QED
  BY <1>2, OccurrencesNat DEF Uses

LEMMA HeldAt ==
  ASSUME NEW st \in [Stores -> Chunk], NEW s \in Stores, NEW x
  PROVE  Cardinality({d \in Held(st, x) : d[1] = s}) = Uses(st[s], x)
<1>. DEFINE c == st[s]
            B == {d \in Held(st, x) : d[1] = s}
            P == {i \in 1 .. c.len : c.data[i] = x}
            p == [i \in P |-> <<s, i>>]
<1>1. c \in Chunk /\ c.len \in 0 .. MaxLen /\ MaxLen \in Nat
  BY DynArrayAssumption DEF Chunk
<1>2. CASE c.count > 0
  <2>1. IsFiniteSet(P)
    <3>1. c.len \in Int
      BY <1>1
    <3>2. IsFiniteSet(1 .. c.len)
      BY <3>1, FS_Interval
    <3>. QED
      BY <3>2, FS_Subset
  <2>2. \A i \in P : i \in 1 .. MaxLen /\ i <= c.len
    BY <1>1
  <2>3. p \in [P -> B]
    <3>1. ASSUME NEW i \in P PROVE <<s, i>> \in B
      BY <1>2, <2>2 DEF Held
    <3>. QED
      BY <3>1
  <2>4. \A i, j \in P : p[i] = p[j] => i = j
    OBVIOUS
  <2>5. \A d \in B : \E i \in P : p[i] = d
    <3>1. ASSUME NEW d \in B PROVE \E i \in P : p[i] = d
      <4>1. /\ d \in Stores \X (1 .. MaxLen) /\ d[1] = s /\ d[2] \in 1 .. MaxLen
            /\ d[2] <= c.len /\ c.data[d[2]] = x
        BY DEF Held
      <4>2. d = <<s, d[2]>> /\ d[2] \in P
        BY <1>1, <4>1
      <4>. QED
        BY <4>2
    <3>. QED
      BY <3>1
  <2>. HIDE DEF P, B, p
  <2>6. p \in Bijection(P, B)
    BY <2>3, <2>4, <2>5 DEF Bijection, Injection, Surjection, IsInjective
  <2>7. Cardinality(B) = Cardinality(P)
    BY <2>1, <2>6, FS_Bijection DEF ExistsBijection
  <2>. QED
    BY <1>2, <2>7 DEF Uses, Occurrences, B, P
<1>3. CASE ~(c.count > 0)
  <2>1. B = {}
    BY <1>3 DEF Held
  <2>. QED
    BY <1>3, <2>1, FS_EmptySet DEF Uses
<1>. QED
  BY <1>2, <1>3

\* When one chunk changes, the places of a string change by its shares in it.
LEMMA HeldUpdate ==
  ASSUME NEW st \in [Stores -> Chunk], NEW sn \in [Stores -> Chunk], NEW s \in Stores,
         \A t \in Stores \ {s} : sn[t] = st[t], NEW x
  PROVE  Cardinality(Held(sn, x)) = Cardinality(Held(st, x)) - Uses(st[s], x) + Uses(sn[s], x)
<1>. DEFINE A == {d \in Held(st, x) : d[1] # s}
            B == {d \in Held(st, x) : d[1] = s}
            C == {d \in Held(sn, x) : d[1] = s}
<1>1. Held(st, x) = A \cup B /\ A \cap B = {}
  OBVIOUS
<1>2. Held(sn, x) = A \cup C /\ A \cap C = {}
  <2>1. ASSUME NEW d \in Stores \X (1 .. MaxLen), d[1] # s
        PROVE  d \in Held(sn, x) <=> d \in Held(st, x)
    <3>1. d[1] \in Stores \ {s}
      BY <2>1
    <3>. QED
      BY <3>1 DEF Held
  <2>2. Held(sn, x) \subseteq Stores \X (1 .. MaxLen) /\ Held(st, x) \subseteq Stores \X (1 .. MaxLen)
    BY DEF Held
  <2>. QED
    BY <2>1, <2>2
<1>3. IsFiniteSet(A) /\ IsFiniteSet(B) /\ IsFiniteSet(C)
  BY HeldFinite, FS_Subset
<1>4. Cardinality(B) = Uses(st[s], x) /\ Cardinality(C) = Uses(sn[s], x)
  BY HeldAt
<1>. HIDE DEF A, B, C
<1>5. Cardinality(A) \in Nat /\ Cardinality(B) \in Nat /\ Cardinality(C) \in Nat /\ Cardinality({}) = 0
  BY <1>3, FS_CardinalityType, FS_EmptySet
<1>6. Cardinality(A \cup B) = Cardinality(A) + Cardinality(B) - Cardinality(A \cap B)
  BY <1>3, FS_Union
<1>7. Cardinality(A \cup C) = Cardinality(A) + Cardinality(C) - Cardinality(A \cap C)
  BY <1>3, FS_Union
<1>8. Cardinality(Held(st, x)) = Cardinality(A) + Cardinality(B)
  <2>1. Cardinality(A \cap B) = 0
    BY <1>1, FS_EmptySet
  <2>2. Cardinality(A \cup B) = Cardinality(A) + Cardinality(B)
    BY <1>5, <1>6, <2>1
  <2>. QED
    BY <1>1, <2>2
<1>9. Cardinality(Held(sn, x)) = Cardinality(A) + Cardinality(C)
  <2>1. Cardinality(A \cap C) = 0
    BY <1>2, FS_EmptySet
  <2>2. Cardinality(A \cup C) = Cardinality(A) + Cardinality(C)
    BY <1>5, <1>7, <2>1
  <2>. QED
    BY <1>2, <2>2
<1>. QED
  BY <1>4, <1>5, <1>8, <1>9

-----------------------------------------------------------------------------
(* The invariant.                                                          *)

Typed ==
  /\ arr \in [Vars -> Stores \cup {Null}]
  /\ str \in Values
  /\ store \in [Stores -> Chunk]
  /\ \A s \in Stores : store[s].len <= store[s].capacity

Exact ==
  /\ \A s \in Stores : store[s].count = Cardinality(Holding(Vars, arr, s))
  /\ count \in [Strings -> Nat]
  /\ \A x \in Strings : count[x] = One(x, str) + Cardinality(Held(store, x))

\* A chunk that is not in use is as it was in the beginning.
Unused == \A s \in Stores : store[s].count = 0 => store[s] = NoStore

Storage == Typed /\ Exact /\ Unused

\* The place an item goes to and the address it is read from are in the array.  Nothing
\* happens to the array between the arguments are pushed and the function runs.
CallSound ==
  call # Null =>
    /\ call.arr \in Vars /\ call.at \in 1 .. Length(call.arr) + 1
    /\ Length(call.arr) < MaxLen
    /\ call.item \in Addresses(call.arr)
    /\ call.item # OfVar /\ call.item.at > call.at => ItemOfItself

-----------------------------------------------------------------------------
(* Assignments of arrays.                                                  *)

LEMMA NoStoreIsChunk ==
  NoStore \in Chunk /\ NoStore.count = 0 /\ NoStore.len = 0 /\ NoStore.capacity = 0
BY DynArrayAssumption DEF NoStore, Chunk, Values

LEMMA ChunkCounted ==
  ASSUME NEW c \in Chunk, NEW k \in Nat
  PROVE  LET d == [c EXCEPT !.count = k]
         IN  d \in Chunk /\ d.count = k /\ d.len = c.len /\ d.capacity = c.capacity /\ d.data = c.data
BY DEF Chunk

\* An operation has made s, which v is to refer to, counted it in stores, and its items in n.
Ahead(s, stores, n) ==
  /\ s \in Stores \cup {Null}
  /\ stores \in [Stores -> Chunk]
  /\ \A t \in Stores : stores[t].len <= stores[t].capacity
  /\ \A t \in Stores : stores[t].count = Cardinality(Holding(Vars, arr, t)) + One(t, s)
  /\ \A t \in Stores : stores[t].count = 0 => stores[t] = NoStore
  /\ n \in [Strings -> Nat]
  /\ \A x \in Strings : n[x] = One(x, str) + Cardinality(Held(stores, x))

\* What the release of the array that v had comes to
Released(v, stores, n) ==
  /\ store' \in [Stores -> Chunk]
  /\ \A t \in Stores : store'[t].len <= store'[t].capacity
  /\ \A t \in Stores : store'[t].count = stores[t].count - One(t, arr[v])
  /\ \A t \in Stores : store'[t].count = 0 => store'[t] = NoStore
  /\ count' \in [Strings -> Nat]
  /\ \A x \in Strings : count'[x] = One(x, str) + Cardinality(Held(store', x))

LEMMA ResultReleases ==
  ASSUME Typed, NEW v \in Vars, NEW s, NEW stores, NEW n,
         Ahead(s, stores, n), Result(v, s, stores, n)
  PROVE  Released(v, stores, n)
<1>. DEFINE a == arr[v]
<1>1. a \in Stores \cup {Null} /\ Null \notin Stores
  BY DynArrayAssumption DEF Typed
<1>2. CASE a = Null
  <2>1. store' = stores /\ count' = n
    BY <1>2 DEF Result
  <2>2. \A t \in Stores : One(t, a) = 0 /\ stores[t].count \in Nat
    BY <1>1, <1>2 DEF One, Ahead, Chunk
  <2>. QED
    BY <2>1, <2>2 DEF Ahead, Released
<1>3. CASE a # Null
  <2>. DEFINE c == stores[a]
  <2>1. a \in Stores /\ c \in Chunk /\ c.count \in Nat
    BY <1>1, <1>3 DEF Ahead, Chunk
  <2>2. c.count >= 1
    <3>1. Cardinality(Holding(Vars, arr, a)) > 0 /\ Cardinality(Holding(Vars, arr, a)) \in Nat
      BY HoldersCounted, DynArrayAssumption
    <3>2. One(a, s) \in Nat
      BY DEF One
    <3>. QED
      BY <2>1, <3>1, <3>2 DEF Ahead
  <2>3. \A t \in Stores : One(t, a) = IF t = a THEN 1 ELSE 0
    BY DEF One
  <2>4. \A t \in Stores : stores[t] \in Chunk /\ stores[t].count \in Nat /\ stores[t].len <= stores[t].capacity
    BY DEF Ahead, Chunk
  <2>5. CASE c.count > 1
    <3>. DEFINE d == [c EXCEPT !.count = c.count - 1]
    <3>1. store' = [stores EXCEPT ![a] = d] /\ count' = n
      BY <1>3, <2>5 DEF Result
    <3>2. c.count - 1 \in Nat
      BY <2>1, <2>5
    <3>3. d \in Chunk /\ d.count = c.count - 1 /\ d.len = c.len /\ d.capacity = c.capacity /\ d.data = c.data
      BY <2>1, <3>2, ChunkCounted
    <3>. HIDE DEF d
    <3>4. store' \in [Stores -> Chunk] /\ store'[a] = d /\ \A t \in Stores \ {a} : store'[t] = stores[t]
      BY <2>1, <3>1, <3>3 DEF Ahead
    <3>5. \A t \in Stores : store'[t].count = stores[t].count - One(t, a)
      BY <2>3, <2>4, <3>3, <3>4
    <3>6. \A t \in Stores : store'[t].len <= store'[t].capacity
      BY <2>4, <3>3, <3>4
    <3>7. \A t \in Stores : store'[t].count = 0 => store'[t] = NoStore
      BY <2>1, <2>5, <3>3, <3>4 DEF Ahead
    <3>8. ASSUME NEW x \in Strings PROVE count'[x] = One(x, str) + Cardinality(Held(store', x))
      <4>1. store'[a].count > 0 /\ stores[a].count > 0
        BY <2>1, <2>5, <3>3, <3>4
      <4>2. \A t \in Stores : /\ store'[t].count > 0 <=> stores[t].count > 0
                              /\ store'[t].len = stores[t].len /\ store'[t].data = stores[t].data
        BY <4>1, <3>3, <3>4
      <4>3. Held(store', x) = Held(stores, x)
        BY <4>2 DEF Held
      <4>. QED
        BY <3>1, <4>3 DEF Ahead
    <3>. QED
      BY <3>1, <3>4, <3>5, <3>6, <3>7, <3>8 DEF Ahead, Released
  <2>6. CASE ~(c.count > 1)
    <3>1. /\ store' = [stores EXCEPT ![a] = NoStore]
          /\ count' = Minus(n, c.data, 1 .. c.len)
      BY <1>3, <2>6 DEF Result
    <3>2. c.count = 1
      BY <2>1, <2>2, <2>6
    <3>3. store' \in [Stores -> Chunk] /\ store'[a] = NoStore /\ \A t \in Stores \ {a} : store'[t] = stores[t]
      BY <2>1, <3>1, NoStoreIsChunk DEF Ahead
    <3>4. \A t \in Stores : store'[t].count = stores[t].count - One(t, a)
      BY <2>3, <2>4, <3>2, <3>3, NoStoreIsChunk
    <3>5. \A t \in Stores : store'[t].len <= store'[t].capacity
      BY <2>4, <3>3, NoStoreIsChunk
    <3>6. \A t \in Stores : store'[t].count = 0 => store'[t] = NoStore
      BY <3>3 DEF Ahead
    <3>7. ASSUME NEW x \in Strings
          PROVE  count'[x] = One(x, str) + Cardinality(Held(store', x)) /\ count'[x] \in Nat
      <4>1. Cardinality(Held(store', x)) =
              Cardinality(Held(stores, x)) - Uses(stores[a], x) + Uses(store'[a], x)
        <5>1. stores \in [Stores -> Chunk]
          BY DEF Ahead
        <5>. QED
          BY <2>1, <3>3, <5>1, HeldUpdate
      <4>2. Uses(store'[a], x) = 0
        BY <3>3, NoStoreIsChunk DEF Uses
      <4>3. Uses(stores[a], x) = Occurrences(x, c.data, 1 .. c.len)
        BY <3>2 DEF Uses
      <4>4. count'[x] = n[x] - Occurrences(x, c.data, 1 .. c.len)
        BY <3>1 DEF Minus
      <4>5. Cardinality(Held(stores, x)) \in Nat /\ Cardinality(Held(store', x)) \in Nat
            /\ Uses(stores[a], x) \in Nat
        BY <2>1, HeldFinite, UsesNat
      <4>6. n[x] = One(x, str) + Cardinality(Held(stores, x)) /\ One(x, str) \in Nat
        BY DEF Ahead, One
      <4>. QED
        BY <4>1, <4>2, <4>3, <4>4, <4>5, <4>6
    <3>8. count' \in [Strings -> Nat]
      <4>1. count' = [x \in Strings |-> count'[x]]
        BY <3>1 DEF Minus
      <4>. QED
        BY <4>1, <3>7
    <3>. QED
      BY <3>3, <3>4, <3>5, <3>6, <3>7, <3>8 DEF Released
  <2>. QED
    BY <2>5, <2>6
<1>. QED
  BY <1>2, <1>3

LEMMA ResultSound ==
  ASSUME Typed, NEW v \in Vars, NEW s, NEW stores, NEW n,
         Ahead(s, stores, n), Result(v, s, stores, n), str' = str
  PROVE  Storage'
<1>1. Released(v, stores, n)
  BY ResultReleases
<1>2. arr' = [arr EXCEPT ![v] = s] /\ s \in Stores \cup {Null}
  BY DEF Result, Ahead
<1>3. arr' \in [Vars -> Stores \cup {Null}] /\ arr'[v] = s /\ \A y \in Vars \ {v} : arr'[y] = arr[y]
  BY <1>2 DEF Typed
<1>4. ASSUME NEW t \in Stores PROVE store'[t].count = Cardinality(Holding(Vars, arr', t))
  <2>1. Cardinality(Holding(Vars, arr', t)) =
          Cardinality(Holding(Vars, arr, t)) - One(t, arr[v]) + One(t, arr'[v])
    BY <1>3, HoldingUpdate, DynArrayAssumption
  <2>2. Cardinality(Holding(Vars, arr, t)) \in Nat /\ One(t, arr[v]) \in Nat /\ One(t, s) \in Nat
    BY HoldersCounted, DynArrayAssumption DEF One
  <2>3. store'[t].count = Cardinality(Holding(Vars, arr, t)) + One(t, s) - One(t, arr[v])
    <3>1. store'[t].count = stores[t].count - One(t, arr[v])
      BY <1>1 DEF Released
    <3>2. stores[t].count = Cardinality(Holding(Vars, arr, t)) + One(t, s)
      BY DEF Ahead
    <3>. QED
      BY <2>2, <3>1, <3>2
  <2>. QED
    BY <1>3, <2>1, <2>2, <2>3
<1>5. Typed'
  BY <1>1, <1>3 DEF Typed, Released
<1>6. Exact'
  BY <1>1, <1>4 DEF Exact, Released
<1>7. Unused'
  BY <1>1 DEF Unused, Released
<1>. QED
  BY <1>5, <1>6, <1>7 DEF Storage

-----------------------------------------------------------------------------
(* What the operations put in the chunks.                                  *)

\* A chunk in use, or one that is free, becomes c, and the strings are counted accordingly.
LEMMA AheadOf ==
  ASSUME Storage, NEW s \in Stores, NEW c \in Chunk, c.len <= c.capacity,
         c.count = store[s].count + 1,
         NEW n, n = [x \in Strings |-> n[x]],
         \A x \in Strings : n[x] = count[x] - Uses(store[s], x) + Uses(c, x)
  PROVE  Ahead(s, [store EXCEPT ![s] = c], n)
<1>. DEFINE st == [store EXCEPT ![s] = c]
<1>1. store \in [Stores -> Chunk] /\ store[s].count \in Nat /\ store[s] \in Chunk
  BY DEF Storage, Typed, Chunk
<1>2. st \in [Stores -> Chunk] /\ st[s] = c /\ \A t \in Stores \ {s} : st[t] = store[t]
  BY <1>1
<1>. HIDE DEF st
<1>3. \A t \in Stores : st[t].len <= st[t].capacity
  BY <1>2 DEF Storage, Typed
<1>4. ASSUME NEW t \in Stores PROVE st[t].count = Cardinality(Holding(Vars, arr, t)) + One(t, s)
  <2>1. store[t].count = Cardinality(Holding(Vars, arr, t)) /\ Cardinality(Holding(Vars, arr, t)) \in Nat
    BY HoldersCounted, DynArrayAssumption DEF Storage, Exact
  <2>2. CASE t = s
    BY <1>2, <2>1, <2>2 DEF One
  <2>3. CASE t # s
    BY <1>2, <2>1, <2>3 DEF One
  <2>. QED
    BY <2>2, <2>3
<1>5. \A t \in Stores : st[t].count = 0 => st[t] = NoStore
  <2>1. c.count # 0
    BY <1>1
  <2>. QED
    BY <1>2, <2>1 DEF Storage, Unused
<1>6. ASSUME NEW x \in Strings
      PROVE  n[x] = One(x, str) + Cardinality(Held(st, x)) /\ n[x] \in Nat
  <2>1. Cardinality(Held(st, x)) = Cardinality(Held(store, x)) - Uses(store[s], x) + Uses(st[s], x)
    BY <1>1, <1>2, HeldUpdate
  <2>2. Uses(store[s], x) \in Nat /\ Uses(c, x) \in Nat /\ One(x, str) \in Nat
    BY <1>1, UsesNat DEF One
  <2>3. Cardinality(Held(st, x)) \in Nat /\ Cardinality(Held(store, x)) \in Nat
    BY HeldFinite
  <2>4. count[x] = One(x, str) + Cardinality(Held(store, x))
    BY DEF Storage, Exact
  <2>5. n[x] = count[x] - Uses(store[s], x) + Uses(c, x)
    OBVIOUS
  <2>6. st[s] = c
    BY <1>2
  <2>. QED
    BY <2>1, <2>2, <2>3, <2>4, <2>5, <2>6
<1>7. n \in [Strings -> Nat]
  BY <1>6
<1>8. Ahead(s, st, n)
  BY <1>2, <1>3, <1>4, <1>5, <1>6, <1>7 DEF Ahead
<1>. QED
  BY <1>8 DEF st

LEMMA AheadOfNothing ==
  ASSUME Storage
  PROVE  Ahead(Null, store, count)
<1>1. \A t \in Stores : One(t, Null) = 0
  BY DynArrayAssumption DEF One
<1>2. \A t \in Stores : store[t].count \in Nat
  BY DEF Storage, Typed, Chunk
<1>. QED
  BY <1>1, <1>2 DEF Ahead, Storage, Typed, Exact, Unused

LEMMA DataTyped ==
  ASSUME Storage, NEW a \in Vars
  PROVE  /\ Length(a) \in 0 .. MaxLen
         /\ Data(a) \in [1 .. MaxLen -> Values]
         /\ arr[a] # Null =>
              /\ arr[a] \in Stores /\ store[arr[a]] \in Chunk /\ store[arr[a]].count \in Nat
              /\ store[arr[a]].count > 0
              /\ Length(a) = store[arr[a]].len /\ Data(a) = store[arr[a]].data
              /\ store[arr[a]].capacity \in Nat
         /\ arr[a] = Null => Length(a) = 0 /\ Data(a) = NoStore.data
<1>1. arr[a] \in Stores \cup {Null} /\ MaxLen \in Nat
  BY DynArrayAssumption DEF Storage, Typed
<1>2. CASE arr[a] = Null
  BY <1>1, <1>2, NoStoreIsChunk DEF Length, Data, Chunk
<1>3. CASE arr[a] # Null
  <2>1. arr[a] \in Stores /\ store[arr[a]] \in Chunk
    BY <1>1, <1>3 DEF Storage, Typed
  <2>2. store[arr[a]].count = Cardinality(Holding(Vars, arr, arr[a]))
    BY <2>1 DEF Storage, Exact
  <2>3. Cardinality(Holding(Vars, arr, arr[a])) > 0
    BY HoldersCounted, DynArrayAssumption
  <2>. QED
    BY <1>3, <2>1, <2>2, <2>3 DEF Length, Data, Chunk
<1>. QED
  BY <1>2, <1>3

LEMMA CapacityEnough ==
  ASSUME NEW len \in 0 .. MaxLen
  PROVE  Capacity(len) \in Nat /\ len <= Capacity(len)
BY DynArrayAssumption DEF Capacity

\* Every array that ResultNew makes: s was free and becomes c
Made(v, len, data, s, c, n) ==
  /\ store[s].count = 0
  /\ c.len = len /\ c.capacity = Capacity(len) /\ \A i \in 1 .. len : c.data[i] = data[i]
  /\ Ahead(s, [store EXCEPT ![s] = c], n)
  /\ Result(v, s, [store EXCEPT ![s] = c], n)

LEMMA NewAhead ==
  ASSUME Storage, NEW v \in Vars, NEW len \in 0 .. MaxLen, NEW data,
         \A i \in 1 .. len : data[i] \in Values,
         ResultNew(v, len, data)
  PROVE  \E s \in Stores, c \in Chunk : \E n : Made(v, len, data, s, c, n)
<1>. DEFINE kept == [i \in 1 .. MaxLen |-> IF i <= len THEN data[i] ELSE Null]
            c == [count |-> 1, len |-> len, capacity |-> Capacity(len), data |-> kept]
            n == Plus(count, data, 1 .. len)
<1>1. PICK s \in Stores : store[s].count = 0 /\ Result(v, s, [store EXCEPT ![s] = c], n)
  BY DEF ResultNew
<1>2. kept \in [1 .. MaxLen -> Values]
  <2>1. \A i \in 1 .. MaxLen : i <= len => i \in 1 .. len
    OBVIOUS
  <2>. QED
    BY <2>1 DEF Values
<1>3. /\ c \in Chunk /\ c.count = 1 /\ c.len = len /\ c.data = kept
      /\ c.capacity = Capacity(len) /\ c.len <= c.capacity
  BY <1>2, CapacityEnough DEF Chunk
<1>4. \A i \in 1 .. len : kept[i] = data[i]
  BY DynArrayAssumption
<1>5. ASSUME NEW x \in Strings PROVE n[x] = count[x] - Uses(store[s], x) + Uses(c, x)
  <2>1. Uses(store[s], x) = 0
    BY <1>1 DEF Uses
  <2>2. Uses(c, x) = Occurrences(x, kept, 1 .. len)
    BY <1>3 DEF Uses
  <2>3. Occurrences(x, kept, 1 .. len) = Occurrences(x, data, 1 .. len)
    BY <1>4, OccurrencesSame
  <2>4. n[x] = count[x] + Occurrences(x, data, 1 .. len)
    BY DEF Plus
  <2>5. count[x] \in Nat
    BY DEF Storage, Exact
  <2>. QED
    BY <2>1, <2>2, <2>3, <2>4, <2>5
<1>6. n = [x \in Strings |-> n[x]]
  BY DEF Plus
<1>. HIDE DEF n, c, kept
<1>7. Ahead(s, [store EXCEPT ![s] = c], n)
  BY <1>1, <1>3, <1>5, <1>6, AheadOf
<1>8. Made(v, len, data, s, c, n)
  BY <1>1, <1>3, <1>4, <1>7 DEF Made
<1>9. c \in Chunk
  BY <1>3
<1>. QED
  BY <1>8, <1>9

LEMMA NewSound ==
  ASSUME Storage, NEW v \in Vars, NEW len \in 0 .. MaxLen, NEW data,
         \A i \in 1 .. len : data[i] \in Values,
         ResultNew(v, len, data), str' = str
  PROVE  Storage'
<1>1. PICK s \in Stores, c \in Chunk : \E n : Made(v, len, data, s, c, n)
  BY NewAhead
<1>2. PICK n : Made(v, len, data, s, c, n)
  BY <1>1
<1>. QED
  BY <1>2, ResultSound DEF Storage, Made

\* Every chunk that is altered: its strings are counted for the items that come and go.
LEMMA AlteredAhead ==
  ASSUME Storage, NEW s \in Stores, store[s].count > 0,
         NEW len \in 0 .. MaxLen, len <= store[s].capacity,
         NEW data \in [1 .. MaxLen -> Values],
         NEW n, n = [x \in Strings |-> n[x]],
         \A x \in Strings :
           n[x] = count[x] - Occurrences(x, store[s].data, 1 .. store[s].len)
                  + Occurrences(x, data, 1 .. len)
  PROVE  Ahead(s, [store EXCEPT ![s] = Altered(store[s], len, data)], n)
<1>. DEFINE c == Altered(store[s], len, data)
<1>1. store[s] \in Chunk /\ store[s].count \in Nat
  BY DEF Storage, Typed, Chunk
<1>2. /\ c \in Chunk /\ c.count = store[s].count + 1 /\ c.len = len /\ c.data = data
      /\ c.capacity = store[s].capacity
  <2>1. store[s].count + 1 \in Nat
    BY <1>1
  <2>. QED
    BY <1>1, <2>1 DEF Altered, Chunk
<1>. HIDE DEF c
<1>3. \A x \in Strings : n[x] = count[x] - Uses(store[s], x) + Uses(c, x)
  <2>1. c.count > 0
    BY <1>1, <1>2
  <2>2. \A x : /\ Uses(store[s], x) = Occurrences(x, store[s].data, 1 .. store[s].len)
               /\ Uses(c, x) = Occurrences(x, data, 1 .. len)
    BY <1>2, <2>1 DEF Uses
  <2>. QED
    BY <2>2
<1>4. Ahead(s, [store EXCEPT ![s] = c], n)
  BY <1>2, <1>3, AheadOf
<1>. QED
  BY <1>4 DEF c

-----------------------------------------------------------------------------
(* What memmove does to the items.                                         *)

\* g has what f has, but for the item at one position.
LEMMA OccurrencesBut ==
  ASSUME NEW x, NEW f, NEW g, NEW at \in Nat, NEW L \in Nat, 1 <= at, at <= L,
         \A i \in Int : 1 <= i /\ i < at => g[i] = f[i],
         \A i \in Int : at <= i /\ i < L => g[i] = f[i + 1]
  PROVE  /\ Occurrences(x, f, 1 .. L) = Occurrences(x, g, 1 .. L - 1) + Occurrences(x, f, {at})
         /\ Occurrences(x, f, {at}) \in Nat /\ Occurrences(x, g, 1 .. L - 1) \in Nat
<1>. DEFINE A == 1 .. at - 1
            B == at .. L - 1
            C == at + 1 .. L
            p == [i \in B |-> i + 1]
<1>1. IsFiniteSet(A) /\ IsFiniteSet(B) /\ IsFiniteSet(C) /\ IsFiniteSet({at}) /\ IsFiniteSet(A \cup {at})
  <2>1. IsFiniteSet(A) /\ IsFiniteSet(B) /\ IsFiniteSet(C)
    BY FS_Interval
  <2>2. IsFiniteSet({at})
    BY FS_Singleton
  <2>. HIDE DEF A, B, C
  <2>. QED
    BY <2>1, <2>2, FS_Union
<1>2. /\ A \cup B = 1 .. L - 1 /\ A \cap B = {}
      /\ (A \cup {at}) \cup C = 1 .. L /\ (A \cup {at}) \cap C = {} /\ A \cap {at} = {}
  OBVIOUS
<1>3. (\A i \in A : g[i] = f[i]) /\ (\A i \in B : f[p[i]] = g[i])
  OBVIOUS
<1>4. p \in [B -> C] /\ \A i, j \in B : p[i] = p[j] => i = j
  OBVIOUS
<1>5. ASSUME NEW k \in C PROVE \E i \in B : p[i] = k
  <2>1. k - 1 \in B /\ p[k - 1] = k
    OBVIOUS
  <2>. QED
    BY <2>1
<1>. HIDE DEF A, B, C, p
<1>6. p \in Bijection(B, C)
  BY <1>4, <1>5 DEF Bijection, Injection, Surjection, IsInjective
<1>7. Occurrences(x, f, C) = Occurrences(x, g, B)
  BY <1>1, <1>3, <1>6, OccurrencesMoved
<1>8. Occurrences(x, g, A) = Occurrences(x, f, A)
  BY <1>3, OccurrencesSame
<1>9. Occurrences(x, g, A \cup B) = Occurrences(x, g, A) + Occurrences(x, g, B)
  BY <1>1, <1>2, OccurrencesSplit
<1>10. Occurrences(x, f, (A \cup {at}) \cup C) = Occurrences(x, f, A \cup {at}) + Occurrences(x, f, C)
  BY <1>1, <1>2, OccurrencesSplit
<1>11. Occurrences(x, f, A \cup {at}) = Occurrences(x, f, A) + Occurrences(x, f, {at})
  BY <1>1, <1>2, OccurrencesSplit
<1>12. /\ Occurrences(x, f, A) \in Nat /\ Occurrences(x, g, B) \in Nat
       /\ Occurrences(x, f, {at}) \in Nat
  BY <1>1, OccurrencesNat
<1>13. Occurrences(x, f, (A \cup {at}) \cup C) = Occurrences(x, g, A \cup B) + Occurrences(x, f, {at})
       /\ Occurrences(x, g, A \cup B) \in Nat
  BY <1>7, <1>8, <1>9, <1>10, <1>11, <1>12
<1>. QED
  BY <1>2, <1>12, <1>13

LEMMA DeletedTyped ==
  ASSUME NEW f \in [1 .. MaxLen -> Values], NEW L \in 0 .. MaxLen, NEW at \in 1 .. L
  PROVE  Deleted(f, L, at) \in [1 .. MaxLen -> Values]
<1>1. \A i \in 1 .. MaxLen : at <= i /\ i < L => i + 1 \in 1 .. MaxLen
  BY DynArrayAssumption
<1>. QED
  BY <1>1 DEF Deleted, Values

LEMMA DeletedCounts ==
  ASSUME NEW x, NEW f \in [1 .. MaxLen -> Values], NEW L \in 0 .. MaxLen, NEW at \in 1 .. L
  PROVE  Occurrences(x, Deleted(f, L, at), 1 .. L - 1) =
           Occurrences(x, f, 1 .. L) - Occurrences(x, f, {at})
<1>. DEFINE g == Deleted(f, L, at)
<1>1. \A i \in Int : 1 <= i /\ i < at => g[i] = f[i]
  BY DynArrayAssumption DEF Deleted
<1>2. \A i \in Int : at <= i /\ i < L => g[i] = f[i + 1]
  BY DynArrayAssumption DEF Deleted
<1>4. L \in Nat /\ at \in Nat /\ 1 <= at /\ at <= L
  BY DynArrayAssumption
<1>. HIDE DEF g
<1>5. /\ Occurrences(x, f, 1 .. L) = Occurrences(x, g, 1 .. L - 1) + Occurrences(x, f, {at})
      /\ Occurrences(x, f, {at}) \in Nat /\ Occurrences(x, g, 1 .. L - 1) \in Nat
  BY <1>1, <1>2, <1>4, OccurrencesBut, ZenonT(30)
<1>6. Occurrences(x, g, 1 .. L - 1) = Occurrences(x, f, 1 .. L) - Occurrences(x, f, {at})
  BY <1>5
<1>. QED
  BY <1>6 DEF g

LEMMA InsertedTyped ==
  ASSUME NEW f \in [1 .. MaxLen -> Values], NEW L \in 0 .. MaxLen, NEW at \in 1 .. L + 1, NEW y \in Values
  PROVE  Inserted(f, L, at, y) \in [1 .. MaxLen -> Values]
<1>1. \A i \in 1 .. MaxLen : at < i => i - 1 \in 1 .. MaxLen
  BY DynArrayAssumption
<1>. QED
  BY <1>1 DEF Inserted

LEMMA InsertedCounts ==
  ASSUME NEW x, NEW f \in [1 .. MaxLen -> Values], NEW L \in 0 .. MaxLen, L < MaxLen,
         NEW at \in 1 .. L + 1, NEW y \in Values
  PROVE  Occurrences(x, Inserted(f, L, at, y), 1 .. L + 1) =
           Occurrences(x, f, 1 .. L) + Occurrences(x, Inserted(f, L, at, y), {at})
<1>. DEFINE g == Inserted(f, L, at, y)
            l == L + 1
<1>1. \A i \in Int : 1 <= i /\ i < at => f[i] = g[i]
  BY DynArrayAssumption DEF Inserted
<1>2. \A i \in Int : at <= i /\ i < l => f[i] = g[i + 1]
  BY DynArrayAssumption DEF Inserted
<1>4. l \in Nat /\ at \in Nat /\ 1 <= at /\ at <= l /\ l - 1 = L
  BY DynArrayAssumption
<1>. HIDE DEF g, l
<1>5. /\ Occurrences(x, g, 1 .. l) = Occurrences(x, f, 1 .. l - 1) + Occurrences(x, g, {at})
      /\ Occurrences(x, g, {at}) \in Nat /\ Occurrences(x, f, 1 .. l - 1) \in Nat
  BY <1>1, <1>2, <1>4, OccurrencesBut, ZenonT(30)
<1>6. Occurrences(x, g, 1 .. l) = Occurrences(x, f, 1 .. L) + Occurrences(x, g, {at})
  BY <1>4, <1>5
<1>. QED
  BY <1>6 DEF g, l

LEMMA AppendedTyped ==
  ASSUME NEW f \in [1 .. MaxLen -> Values], NEW L \in 0 .. MaxLen,
         NEW h \in [1 .. MaxLen -> Values], NEW M \in 0 .. MaxLen, L + M <= MaxLen
  PROVE  Appended(f, L, h, M) \in [1 .. MaxLen -> Values]
<1>1. \A i \in 1 .. MaxLen : L < i /\ i <= L + M => i - L \in 1 .. MaxLen
  BY DynArrayAssumption
<1>. QED
  BY <1>1 DEF Appended

LEMMA AppendedCounts ==
  ASSUME NEW x, NEW f \in [1 .. MaxLen -> Values], NEW L \in 0 .. MaxLen,
         NEW h \in [1 .. MaxLen -> Values], NEW M \in 0 .. MaxLen, L + M <= MaxLen
  PROVE  Occurrences(x, Appended(f, L, h, M), 1 .. L + M) =
           Occurrences(x, f, 1 .. L) + Occurrences(x, Appended(f, L, h, M), L + 1 .. L + M)
<1>. DEFINE g == Appended(f, L, h, M)
            A == 1 .. L
            D == L + 1 .. L + M
<1>1. L \in Nat /\ M \in Nat
  BY DynArrayAssumption
<1>2. \A i \in A : g[i] = f[i]
  BY <1>1, DynArrayAssumption DEF Appended
<1>3. IsFiniteSet(A) /\ IsFiniteSet(D)
  BY <1>1, FS_Interval
<1>4. A \cup D = 1 .. L + M /\ A \cap D = {}
  BY <1>1
<1>. HIDE DEF g, A, D
<1>5. Occurrences(x, g, A) = Occurrences(x, f, A)
  BY <1>2, OccurrencesSame
<1>6. Occurrences(x, g, A \cup D) = Occurrences(x, g, A) + Occurrences(x, g, D)
  BY <1>3, <1>4, OccurrencesSplit
<1>7. Occurrences(x, g, 1 .. L + M) = Occurrences(x, f, A) + Occurrences(x, g, D)
  BY <1>4, <1>5, <1>6
<1>. QED
  BY <1>7 DEF g, A, D

-----------------------------------------------------------------------------
(* The operations on whole arrays.                                         *)

LEMMA AssignAhead ==
  ASSUME Storage, NEW v \in Vars, NEW a \in Vars, Assign(v, a), arr[a] # Null
  PROVE  LET s == arr[a]
             c == [store[s] EXCEPT !.count = store[s].count + 1]
         IN  /\ Ahead(s, [store EXCEPT ![s] = c], count)
             /\ Result(v, s, [store EXCEPT ![s] = c], count)
             /\ c.len = store[s].len /\ c.capacity = store[s].capacity /\ c.data = store[s].data
<1>. DEFINE s == arr[a]
            c == [store[s] EXCEPT !.count = store[s].count + 1]
<1>1. Result(v, s, [store EXCEPT ![s] = c], count)
  BY DEF Assign
<1>2. s \in Stores /\ store[s] \in Chunk /\ store[s].count \in Nat /\ store[s].count > 0
  BY DataTyped
<1>3. /\ c \in Chunk /\ c.count = store[s].count + 1 /\ c.len = store[s].len
      /\ c.capacity = store[s].capacity /\ c.data = store[s].data
  <2>1. store[s].count + 1 \in Nat
    BY <1>2
  <2>. QED
    BY <1>2, <2>1, ChunkCounted
<1>. HIDE DEF c
<1>4. ASSUME NEW x \in Strings PROVE count[x] = count[x] - Uses(store[s], x) + Uses(c, x)
  <2>1. c.count > 0
    BY <1>2, <1>3
  <2>2. Uses(c, x) = Uses(store[s], x)
    BY <1>2, <1>3, <2>1 DEF Uses
  <2>3. Uses(store[s], x) \in Nat /\ count[x] \in Nat
    BY <1>2, UsesNat DEF Storage, Exact
  <2>. QED
    BY <2>2, <2>3
<1>5. count = [x \in Strings |-> count[x]] /\ c.len <= c.capacity
  BY <1>2, <1>3 DEF Storage, Exact, Typed
<1>6. Ahead(s, [store EXCEPT ![s] = c], count)
  BY <1>2, <1>3, <1>4, <1>5, AheadOf
<1>. QED
  BY <1>1, <1>3, <1>6 DEF c

LEMMA AssignSound ==
  ASSUME Storage, NEW v \in Vars, NEW a \in Vars, Assign(v, a)
  PROVE  Storage'
<1>1. str' = str
  BY DEF Assign
<1>2. CASE arr[a] = Null
  <2>1. Result(v, Null, store, count)
    BY <1>2 DEF Assign
  <2>. QED
    BY <1>1, <2>1, AheadOfNothing, ResultSound DEF Storage
<1>3. CASE arr[a] # Null
  BY <1>1, <1>3, AssignAhead, ResultSound DEF Storage
<1>. QED
  BY <1>2, <1>3

LEMMA MakeSound ==
  ASSUME Storage, NEW v \in Vars, NEW len \in 0 .. MaxLen, Make(v, len)
  PROVE  Storage'
<1>1. \A i \in 1 .. len : NoStore.data[i] \in Values
  <2>1. \A i \in 1 .. len : i \in 1 .. MaxLen
    BY DynArrayAssumption
  <2>. QED
    BY <2>1 DEF NoStore, Values
<1>. QED
  BY <1>1, NewSound DEF Make

LEMMA SliceSound ==
  ASSUME Storage, NEW v \in Vars, NEW a \in Vars,
         NEW first \in 0 .. MaxLen, NEW last \in 0 .. MaxLen, Slice(v, a, first, last)
  PROVE  Storage'
<1>. DEFINE len == last - first
            data == [i \in 1 .. len |-> Data(a)[first + i]]
<1>1. first <= last /\ last <= Length(a) /\ ResultNew(v, len, data) /\ str' = str
  BY DEF Slice
<1>2. len \in 0 .. MaxLen
  BY <1>1, DynArrayAssumption
<1>3. \A i \in 1 .. len : data[i] \in Values
  <2>1. \A i \in 1 .. len : first + i \in 1 .. MaxLen
    BY <1>2, DynArrayAssumption
  <2>. QED
    BY <2>1, DataTyped
<1>. HIDE DEF len, data
<1>. QED
  BY <1>1, <1>2, <1>3, NewSound

LEMMA DeleteAhead ==
  ASSUME Storage, NEW v \in Vars, NEW a \in Vars, NEW at \in 1 .. MaxLen, Delete(v, a, at)
  PROVE  LET s == arr[a]
             c == Altered(store[s], Length(a) - 1, Deleted(Data(a), Length(a), at))
             n == Minus(count, Data(a), {at})
         IN  Ahead(s, [store EXCEPT ![s] = c], n) /\ Result(v, s, [store EXCEPT ![s] = c], n)
<1>. DEFINE s == arr[a]
            len == store[s].len
            data == store[s].data
            d == Deleted(data, len, at)
            n == Minus(count, data, {at})
<1>1. /\ s \in Stores /\ store[s] \in Chunk /\ store[s].count > 0
      /\ Length(a) = len /\ Data(a) = data
  BY DataTyped DEF Delete
<1>2. /\ len \in 0 .. MaxLen /\ data \in [1 .. MaxLen -> Values] /\ store[s].capacity \in Nat
      /\ len <= store[s].capacity
  BY <1>1 DEF Chunk, Storage, Typed
<1>3. at \in 1 .. len
  BY <1>1, <1>2, DynArrayAssumption DEF Delete
<1>4. Result(v, s, [store EXCEPT ![s] = Altered(store[s], len - 1, d)], n)
  BY <1>1 DEF Delete
<1>5. str' = str /\ len - 1 \in 0 .. MaxLen /\ len - 1 <= store[s].capacity
  BY <1>2, <1>3, DynArrayAssumption DEF Delete
<1>. HIDE DEF s, len, data
<1>6. d \in [1 .. MaxLen -> Values]
  BY <1>2, <1>3, DeletedTyped
<1>7. ASSUME NEW x \in Strings
      PROVE  n[x] = count[x] - Occurrences(x, data, 1 .. len) + Occurrences(x, d, 1 .. len - 1)
  <2>1. Occurrences(x, d, 1 .. len - 1) = Occurrences(x, data, 1 .. len) - Occurrences(x, data, {at})
    BY <1>2, <1>3, DeletedCounts
  <2>2. n[x] = count[x] - Occurrences(x, data, {at})
    BY DEF Minus
  <2>3. count[x] \in Nat
    BY DEF Storage, Exact
  <2>4. len \in Int /\ at \in Int
    BY <1>2, DynArrayAssumption
  <2>5. IsFiniteSet(1 .. len) /\ IsFiniteSet({at})
    <3>1. IsFiniteSet(1 .. len)
      BY <2>4, FS_Interval
    <3>2. IsFiniteSet({at})
      BY FS_Singleton
    <3>. QED
      BY <3>1, <3>2
  <2>6. Occurrences(x, data, 1 .. len) \in Nat /\ Occurrences(x, data, {at}) \in Nat
    BY <2>5, OccurrencesNat
  <2>. QED
    BY <2>1, <2>2, <2>3, <2>6
<1>8. n = [x \in Strings |-> n[x]]
  BY DEF Minus
<1>. HIDE DEF d, n
<1>9. Ahead(s, [store EXCEPT ![s] = Altered(store[s], len - 1, d)], n)
  BY <1>1, <1>5, <1>6, <1>7, <1>8, AlteredAhead DEF len, data
<1>. QED
  BY <1>1, <1>4, <1>9 DEF d, n, s

LEMMA DeleteSound ==
  ASSUME Storage, NEW v \in Vars, NEW a \in Vars, NEW at \in 1 .. MaxLen, Delete(v, a, at)
  PROVE  Storage'
BY DeleteAhead, ResultSound DEF Storage, Delete

-----------------------------------------------------------------------------
(* append() and insert().                                                  *)

LEMMA GrowAhead ==
  ASSUME Storage, NEW a \in Vars, arr[a] # Null,
         NEW len \in 0 .. MaxLen, NEW data \in [1 .. MaxLen -> Values], NEW D, IsFiniteSet(D),
         \A x : Occurrences(x, data, 1 .. len) =
                  Occurrences(x, Data(a), 1 .. Length(a)) + Occurrences(x, data, D),
         len <= store[arr[a]].capacity
  PROVE  Ahead(arr[a], [store EXCEPT ![arr[a]] = Altered(store[arr[a]], len, data)],
               Plus(count, data, D))
<1>. DEFINE s == arr[a]
            n == Plus(count, data, D)
<1>1. /\ s \in Stores /\ store[s].count > 0 /\ Length(a) = store[s].len
      /\ Data(a) = store[s].data
  BY DataTyped
<1>2. ASSUME NEW x \in Strings
      PROVE  n[x] = count[x] - Occurrences(x, store[s].data, 1 .. store[s].len)
                    + Occurrences(x, data, 1 .. len)
  <2>1. n[x] = count[x] + Occurrences(x, data, D)
    BY DEF Plus
  <2>2. Occurrences(x, data, 1 .. len) =
          Occurrences(x, store[s].data, 1 .. store[s].len) + Occurrences(x, data, D)
    BY <1>1
  <2>3. count[x] \in Nat
    BY DEF Storage, Exact
  <2>4. store[s].len \in Int
    BY <1>1, DataTyped, DynArrayAssumption
  <2>5. IsFiniteSet(1 .. store[s].len)
    BY <2>4, FS_Interval
  <2>6. Occurrences(x, store[s].data, 1 .. store[s].len) \in Nat /\ Occurrences(x, data, D) \in Nat
    BY <2>5, OccurrencesNat
  <2>. QED
    BY <2>1, <2>2, <2>3, <2>6
<1>3. n = [x \in Strings |-> n[x]]
  BY DEF Plus
<1>. HIDE DEF n
<1>4. Ahead(s, [store EXCEPT ![s] = Altered(store[s], len, data)], n)
  BY <1>1, <1>2, <1>3, AlteredAhead
<1>. QED
  BY <1>4 DEF n

LEMMA GrowSound ==
  ASSUME Storage, NEW v \in Vars, NEW a \in Vars,
         NEW len \in 0 .. MaxLen, NEW data \in [1 .. MaxLen -> Values], NEW D, IsFiniteSet(D),
         \A x : Occurrences(x, data, 1 .. len) =
                  Occurrences(x, Data(a), 1 .. Length(a)) + Occurrences(x, data, D),
         Grow(v, a, len, data, D), str' = str
  PROVE  Storage'
<1>1. CASE arr[a] = Null /\ len = 0
  <2>1. Result(v, Null, store, count)
    BY <1>1 DEF Grow
  <2>. QED
    BY <2>1, AheadOfNothing, ResultSound DEF Storage
<1>2. CASE arr[a] # Null /\ len <= store[arr[a]].capacity
  <2>1. Ahead(arr[a], [store EXCEPT ![arr[a]] = Altered(store[arr[a]], len, data)], Plus(count, data, D))
    BY <1>2, GrowAhead
  <2>2. Result(v, arr[a], [store EXCEPT ![arr[a]] = Altered(store[arr[a]], len, data)], Plus(count, data, D))
    BY <1>2 DEF Grow, ResultAltered
  <2>. QED
    BY <2>1, <2>2, ResultSound DEF Storage
<1>3. CASE ~(arr[a] = Null /\ len = 0) /\ ~(arr[a] # Null /\ len <= store[arr[a]].capacity)
  <2>1. ResultNew(v, len, data)
    BY <1>3 DEF Grow
  <2>2. \A i \in 1 .. len : data[i] \in Values
    <3>1. \A i \in 1 .. len : i \in 1 .. MaxLen
      BY DynArrayAssumption
    <3>. QED
      BY <3>1
  <2>. QED
    BY <2>1, <2>2, NewSound
<1>. QED
  BY <1>1, <1>2, <1>3

LEMMA AppendAllSound ==
  ASSUME Storage, NEW v \in Vars, NEW a \in Vars, NEW b \in Vars, AppendAll(v, a, b)
  PROVE  Storage'
<1>1. PICK L \in 0 .. MaxLen, M \in 0 .. MaxLen : L = Length(a) /\ M = Length(b)
  BY DataTyped
<1>2. PICK f \in [1 .. MaxLen -> Values], h \in [1 .. MaxLen -> Values] : f = Data(a) /\ h = Data(b)
  BY DataTyped
<1>3. PICK data : data = Appended(f, L, h, M)
  OBVIOUS
<1>4. /\ L \in Nat /\ M \in Nat /\ L + M <= MaxLen /\ L + M \in 0 .. MaxLen
      /\ Grow(v, a, L + M, data, L + 1 .. L + M) /\ str' = str
  BY <1>1, <1>2, <1>3, DynArrayAssumption DEF AppendAll
<1>5. data \in [1 .. MaxLen -> Values]
  BY <1>3, <1>4, AppendedTyped
<1>6. \A x : Occurrences(x, data, 1 .. L + M) =
               Occurrences(x, Data(a), 1 .. Length(a)) + Occurrences(x, data, L + 1 .. L + M)
  BY <1>1, <1>2, <1>3, <1>4, AppendedCounts
<1>7. PICK n \in 0 .. MaxLen : n = L + M
  BY <1>4
<1>8. PICK D : D = L + 1 .. L + M
  OBVIOUS
<1>9. IsFiniteSet(D)
  BY <1>4, <1>8, FS_Interval
<1>10. Grow(v, a, n, data, D)
  BY <1>4, <1>7, <1>8
<1>11. \A x : Occurrences(x, data, 1 .. n) =
                Occurrences(x, Data(a), 1 .. Length(a)) + Occurrences(x, data, D)
  BY <1>6, <1>7, <1>8
<1>. QED
  BY <1>4, <1>5, <1>9, <1>10, <1>11, GrowSound

\* The item that insert() puts in, be it read before or after the memmove
LEMMA ReadTyped ==
  ASSUME Storage, CallSound, call # Null
  PROVE  Read(call.arr, call.at, call.item) \in Values
<1>. DEFINE a == call.arr
            at == call.at
            L == Length(a)
            y == Read(a, at, call.item)
<1>1. a \in Vars /\ at \in 1 .. L + 1 /\ L < MaxLen /\ call.item \in Addresses(a)
  BY DEF CallSound
<1>2. L \in 0 .. MaxLen /\ Data(a) \in [1 .. MaxLen -> Values]
  BY <1>1, DataTyped
<1>3. CASE call.item = OfVar
  BY <1>3 DEF Read, At, OfVar, Storage, Typed
<1>4. CASE call.item # OfVar
  <2>1. PICK i \in 1 .. L : call.item = [store |-> arr[a], at |-> i]
    BY <1>1, <1>4 DEF Addresses
  <2>2. i \in 1 .. MaxLen /\ L # 0
    BY <1>2, DynArrayAssumption
  <2>3. arr[a] # Null /\ arr[a] \in Stores /\ Data(a) = store[arr[a]].data
    BY <1>1, <2>2, DataTyped
  <2>4. At(call.item) = Data(a)[i]
    BY <2>1, <2>3 DEF At
  <2>5. at \in Nat /\ at >= 1 /\ i \in Nat
    BY <1>1, <1>2, DynArrayAssumption
  <2>6. i > at => i - 1 \in 1 .. MaxLen
    BY <2>2, <2>5, DynArrayAssumption
  <2>7. y = Data(a)[i] \/ (i > at /\ y = Data(a)[i - 1])
    BY <1>4, <2>1, <2>4 DEF Read
  <2>. QED
    BY <1>2, <2>2, <2>6, <2>7
<1>. QED
  BY <1>3, <1>4

LEMMA InsertSound ==
  ASSUME Storage, CallSound, NEW v \in Vars, Insert(v)
  PROVE  Storage'
<1>. DEFINE a == call.arr
            at == call.at
            L == Length(a)
            y == Read(a, at, call.item)
            data == Inserted(Data(a), L, at, y)
<1>1. /\ a \in Vars /\ at \in 1 .. L + 1 /\ L < MaxLen /\ call.item \in Addresses(a)
      /\ Grow(v, a, L + 1, data, {at}) /\ str' = str
  BY DEF Insert, CallSound
<1>2. L \in 0 .. MaxLen /\ Data(a) \in [1 .. MaxLen -> Values]
  BY <1>1, DataTyped
<1>3. y \in Values
  BY ReadTyped DEF Insert
<1>. HIDE DEF y, L, a, at
<1>4. \A x : Occurrences(x, data, 1 .. L + 1) = Occurrences(x, Data(a), 1 .. L) + Occurrences(x, data, {at})
  BY <1>1, <1>2, <1>3, InsertedCounts
<1>5. data \in [1 .. MaxLen -> Values]
  BY <1>1, <1>2, <1>3, InsertedTyped
<1>6. L + 1 \in 0 .. MaxLen
  BY <1>1, <1>2, DynArrayAssumption
<1>7. IsFiniteSet({at})
  BY FS_Singleton
<1>. HIDE DEF data
<1>. QED
  BY <1>1, <1>4, <1>5, <1>6, <1>7, GrowSound DEF L

-----------------------------------------------------------------------------
(* Items.                                                                  *)

\* What Stored does to the counts
LEMMA StoredCounts ==
  ASSUME Storage, NEW old, NEW new, Stored(old, new)
  PROVE  /\ count' = [x \in Strings |-> count'[x]]
         /\ \A x \in Strings : count'[x] = count[x] + One(x, new) - One(x, old)
BY DEF Stored, One

\* The chunk s has other items, and str may be another.
LEMMA ItemsChanged ==
  ASSUME Storage, NEW s \in Stores, store[s].count > 0,
         NEW c \in Chunk, c.count = store[s].count, c.len = store[s].len,
         c.capacity = store[s].capacity,
         arr' = arr, store' = [store EXCEPT ![s] = c], str' \in Values,
         count' = [x \in Strings |-> count'[x]],
         \A x \in Strings : count'[x] = count[x] + One(x, str') - One(x, str)
                                        + Uses(c, x) - Uses(store[s], x)
  PROVE  Storage'
<1>1. store \in [Stores -> Chunk] /\ store[s] \in Chunk
  BY DEF Storage, Typed
<1>. DEFINE st == store'
<1>2. st \in [Stores -> Chunk] /\ st[s] = c /\ \A t \in Stores \ {s} : st[t] = store[t]
  BY <1>1
<1>3. \A t \in Stores : /\ store'[t].count = store[t].count
                        /\ store'[t].len = store[t].len /\ store'[t].capacity = store[t].capacity
  BY <1>2
<1>4. Typed'
  BY <1>2, <1>3 DEF Storage, Typed
<1>5. ASSUME NEW x \in Strings
      PROVE  count'[x] = One(x, str') + Cardinality(Held(store', x)) /\ count'[x] \in Nat
  <2>1. Cardinality(Held(store', x)) = Cardinality(Held(store, x)) - Uses(store[s], x) + Uses(store'[s], x)
    <3>. HIDE DEF st
    <3>1. Cardinality(Held(st, x)) = Cardinality(Held(store, x)) - Uses(store[s], x) + Uses(st[s], x)
      BY <1>1, <1>2, HeldUpdate
    <3>. QED
      BY <3>1 DEF st
  <2>2. Uses(store[s], x) \in Nat /\ Uses(c, x) \in Nat /\ One(x, str') \in Nat /\ One(x, str) \in Nat
    BY <1>1, UsesNat DEF One
  <2>3. Cardinality(Held(store', x)) \in Nat /\ Cardinality(Held(store, x)) \in Nat
    BY HeldFinite
  <2>4. count[x] = One(x, str) + Cardinality(Held(store, x)) /\ store'[s] = c
    BY <1>2 DEF Storage, Exact
  <2>5. count'[x] = count[x] + One(x, str') - One(x, str) + Uses(c, x) - Uses(store[s], x)
    OBVIOUS
  <2>. QED
    BY <2>1, <2>2, <2>3, <2>4, <2>5
<1>6. count' \in [Strings -> Nat]
  BY <1>5
<1>7. Exact'
  BY <1>3, <1>5, <1>6 DEF Storage, Exact
<1>8. Unused'
  <2>1. store'[s].count # 0
    BY <1>3
  <2>. QED
    BY <1>2, <1>3, <2>1 DEF Storage, Unused
<1>. QED
  BY <1>4, <1>7, <1>8 DEF Storage

LEMMA NewStringSound ==
  ASSUME Storage, NEW x \in Strings, NewString(x)
  PROVE  Storage'
<1>1. /\ arr' = arr /\ store' = store /\ str' \in Values
      /\ count' = [y \in Strings |-> count'[y]]
      /\ \A y \in Strings : count'[y] = count[y] + One(y, str') - One(y, str)
  BY StoredCounts DEF NewString, Values
<1>2. \A y \in Strings : count'[y] = One(y, str') + Cardinality(Held(store', y)) /\ count'[y] \in Nat
  <2>1. ASSUME NEW y \in Strings
        PROVE  count'[y] = One(y, str') + Cardinality(Held(store, y)) /\ count'[y] \in Nat
    <3>1. count[y] = One(y, str) + Cardinality(Held(store, y))
      BY DEF Storage, Exact
    <3>2. Cardinality(Held(store, y)) \in Nat /\ One(y, str') \in Nat /\ One(y, str) \in Nat
      BY HeldFinite DEF One
    <3>3. count'[y] = count[y] + One(y, str') - One(y, str)
      BY <1>1
    <3>. QED
      BY <3>1, <3>2, <3>3
  <2>. QED
    BY <1>1, <2>1
<1>3. count' \in [Strings -> Nat]
  BY <1>1, <1>2
<1>. QED
  BY <1>1, <1>2, <1>3 DEF Storage, Typed, Exact, Unused

LEMMA GetItemSound ==
  ASSUME Storage, NEW a \in Vars, NEW at \in 1 .. MaxLen, GetItem(a, at)
  PROVE  Storage'
<1>1. /\ arr' = arr /\ store' = store /\ str' \in Values
      /\ count' = [y \in Strings |-> count'[y]]
      /\ \A y \in Strings : count'[y] = count[y] + One(y, str') - One(y, str)
  BY StoredCounts, DataTyped DEF GetItem
<1>2. \A y \in Strings : count'[y] = One(y, str') + Cardinality(Held(store', y)) /\ count'[y] \in Nat
  <2>1. ASSUME NEW y \in Strings
        PROVE  count'[y] = One(y, str') + Cardinality(Held(store, y)) /\ count'[y] \in Nat
    <3>1. count[y] = One(y, str) + Cardinality(Held(store, y))
      BY DEF Storage, Exact
    <3>2. Cardinality(Held(store, y)) \in Nat /\ One(y, str') \in Nat /\ One(y, str) \in Nat
      BY HeldFinite DEF One
    <3>3. count'[y] = count[y] + One(y, str') - One(y, str)
      BY <1>1
    <3>. QED
      BY <3>1, <3>2, <3>3
  <2>. QED
    BY <1>1, <2>1
<1>3. count' \in [Strings -> Nat]
  BY <1>1, <1>2
<1>. QED
  BY <1>1, <1>2, <1>3 DEF Storage, Typed, Exact, Unused

\* A chunk with other items at the same positions
LEMMA ChunkFilled ==
  ASSUME NEW c \in Chunk, NEW data \in [1 .. MaxLen -> Values]
  PROVE  LET d == [c EXCEPT !.data = data]
         IN  /\ d \in Chunk /\ d.count = c.count /\ d.len = c.len /\ d.capacity = c.capacity
             /\ d.data = data
BY DEF Chunk

LEMMA SetItemSound ==
  ASSUME Storage, NEW a \in Vars, NEW at \in 1 .. MaxLen, SetItem(a, at)
  PROVE  Storage'
<1>. DEFINE s == arr[a]
            f == store[s].data
            L == store[s].len
            g == [f EXCEPT ![at] = str]
            c == [store[s] EXCEPT !.data = g]
<1>1. at <= Length(a) /\ arr' = arr /\ str' = str /\ Stored(Data(a)[at], str)
      /\ store' = [store EXCEPT ![arr[a]].data[at] = str]
  BY DEF SetItem
<1>2. /\ s \in Stores /\ store[s] \in Chunk /\ store[s].count > 0
      /\ Length(a) = L /\ Data(a) = f /\ L \in 0 .. MaxLen /\ f \in [1 .. MaxLen -> Values]
  <2>1. Length(a) # 0
    BY <1>1, DynArrayAssumption, DataTyped
  <2>. QED
    BY <2>1, DataTyped
<1>3. at \in 1 .. L /\ str \in Values
  BY <1>1, <1>2, DynArrayAssumption DEF Storage, Typed
<1>4. g \in [1 .. MaxLen -> Values] /\ g[at] = str /\ \A i \in 1 .. MaxLen \ {at} : g[i] = f[i]
  BY <1>2, <1>3
<1>5. store' = [store EXCEPT ![s] = c]
  BY <1>1
<1>6. /\ c \in Chunk /\ c.count = store[s].count /\ c.len = L /\ c.capacity = store[s].capacity
      /\ c.data = g
  <2>. HIDE DEF g
  <2>. QED
    BY <1>2, <1>4, ChunkFilled
<1>7. /\ count' = [x \in Strings |-> count'[x]]
      /\ \A x \in Strings : count'[x] = count[x] + One(x, str) - One(x, f[at])
  BY <1>1, <1>2, StoredCounts
<1>. HIDE DEF c, g
<1>8. ASSUME NEW x \in Strings
      PROVE  count'[x] = count[x] + One(x, str') - One(x, str) + Uses(c, x) - Uses(store[s], x)
  <2>1. Uses(c, x) = Occurrences(x, g, 1 .. L) /\ Uses(store[s], x) = Occurrences(x, f, 1 .. L)
    BY <1>2, <1>6 DEF Uses
  <2>2. /\ Occurrences(x, g, 1 .. L) = Cardinality(Holding(1 .. L, g, x))
        /\ Occurrences(x, f, 1 .. L) = Cardinality(Holding(1 .. L, f, x))
    BY DEF Occurrences, Holding
  <2>3. L \in Int
    BY <1>2, DynArrayAssumption
  <2>4. IsFiniteSet(1 .. L)
    BY <2>3, FS_Interval
  <2>5. \A i \in (1 .. L) \ {at} : g[i] = f[i]
    BY <1>2, <1>4, DynArrayAssumption
  <2>6. Cardinality(Holding(1 .. L, g, x)) = Cardinality(Holding(1 .. L, f, x)) - One(x, f[at]) + One(x, g[at])
    <3>. DEFINE D == 1 .. L
    <3>1. at \in D /\ IsFiniteSet(D) /\ \A i \in D \ {at} : g[i] = f[i]
      BY <1>3, <2>4, <2>5
    <3>. HIDE DEF D, f
    <3>2. PICK k \in D : k = at
      BY <3>1
    <3>3. IsFiniteSet(D) /\ \A i \in D \ {k} : g[i] = f[i]
      BY <3>1, <3>2
    <3>4. Cardinality(Holding(D, g, x)) = Cardinality(Holding(D, f, x)) - One(x, f[k]) + One(x, g[k])
      BY <3>3, HoldingUpdate
    <3>. QED
      BY <3>2, <3>4 DEF D
  <2>7. Cardinality(Holding(1 .. L, f, x)) \in Nat
    BY <2>4, HoldersCounted
  <2>8. One(x, f[at]) \in Nat /\ One(x, str) \in Nat /\ str' = str /\ count[x] \in Nat
    BY <1>1 DEF One, Storage, Exact
  <2>9. count'[x] = count[x] + One(x, str) - One(x, f[at]) /\ g[at] = str
    BY <1>4, <1>7
  <2>. QED
    BY <2>1, <2>2, <2>6, <2>7, <2>8, <2>9
<1>9. str' \in Values /\ arr' = arr
  BY <1>1, <1>3
<1>. QED
  BY <1>2, <1>5, <1>6, <1>7, <1>8, <1>9, ItemsChanged

-----------------------------------------------------------------------------
(* Swaps.                                                                  *)

LEMMA OccurrencesSwapped ==
  ASSUME NEW x, NEW D, IsFiniteSet(D), NEW i \in D, NEW j \in D, NEW f, NEW g,
         g[i] = f[j], g[j] = f[i], \A k \in D \ {i, j} : g[k] = f[k]
  PROVE  Occurrences(x, g, D) = Occurrences(x, f, D)
<1>. DEFINE p == [k \in D |-> IF k = i THEN j ELSE IF k = j THEN i ELSE k]
<1>1. p \in [D -> D] /\ \A k, l \in D : p[k] = p[l] => k = l
  OBVIOUS
<1>2. ASSUME NEW k \in D PROVE \E l \in D : p[l] = k
  <2>1. p[k] \in D /\ p[p[k]] = k
    OBVIOUS
  <2>. QED
    BY <2>1
<1>3. \A k \in D : g[p[k]] = f[k]
  OBVIOUS
<1>. HIDE DEF p
<1>4. p \in Bijection(D, D)
  BY <1>1, <1>2 DEF Bijection, Injection, Surjection, IsInjective
<1>. QED
  BY <1>3, <1>4, OccurrencesMoved

\* What qsortSwap leaves
Swapped(f, i, j) == [f EXCEPT ![i] = f[j], ![j] = f[i]]

LEMMA SwapSound ==
  ASSUME Storage, NEW s \in Stores, store[s].count > 0, s = sorting.store,
         NEW i \in 1 .. store[s].len, NEW j \in 1 .. store[s].len,
         Swap(i, j), arr' = arr, str' = str, count' = count
  PROVE  /\ Storage'
         /\ store' = [store EXCEPT ![s].data = Swapped(store[s].data, i, j)]
         /\ store'[s].data = Swapped(store[s].data, i, j) /\ store'[s].len = store[s].len
<1>. DEFINE f == store[s].data
            L == store[s].len
            g == Swapped(f, i, j)
            c == [store[s] EXCEPT !.data = g]
<1>1. store[s] \in Chunk /\ L \in 0 .. MaxLen /\ f \in [1 .. MaxLen -> Values] /\ store \in [Stores -> Chunk]
  BY DEF Storage, Typed, Chunk
<1>2. i \in 1 .. MaxLen /\ j \in 1 .. MaxLen
  BY <1>1, DynArrayAssumption
<1>3. /\ g \in [1 .. MaxLen -> Values] /\ g[i] = f[j] /\ g[j] = f[i]
      /\ \A k \in 1 .. MaxLen \ {i, j} : g[k] = f[k]
  BY <1>1, <1>2 DEF Swapped
<1>4. store' = [store EXCEPT ![s] = c] /\ store' = [store EXCEPT ![s].data = g]
  BY DEF Swap, Sorted, Swapped
<1>5. /\ c \in Chunk /\ c.count = store[s].count /\ c.len = L /\ c.capacity = store[s].capacity
      /\ c.data = g
  <2>. HIDE DEF g
  <2>. QED
    BY <1>1, <1>3, ChunkFilled
<1>. HIDE DEF c, g
<1>6. ASSUME NEW x \in Strings
      PROVE  count'[x] = count[x] + One(x, str') - One(x, str) + Uses(c, x) - Uses(store[s], x)
  <2>1. Uses(c, x) = Occurrences(x, g, 1 .. L) /\ Uses(store[s], x) = Occurrences(x, f, 1 .. L)
    BY <1>5 DEF Uses
  <2>2. L \in Int
    BY <1>1, DynArrayAssumption
  <2>3. IsFiniteSet(1 .. L)
    BY <2>2, FS_Interval
  <2>4. \A k \in (1 .. L) \ {i, j} : g[k] = f[k]
    BY <1>1, <1>3, DynArrayAssumption
  <2>5. Occurrences(x, g, 1 .. L) = Occurrences(x, f, 1 .. L)
    <3>. DEFINE D == 1 .. L
    <3>1. /\ i \in D /\ j \in D /\ IsFiniteSet(D) /\ \A k \in D \ {i, j} : g[k] = f[k]
          /\ g[i] = f[j] /\ g[j] = f[i]
      BY <1>3, <2>3, <2>4
    <3>. HIDE DEF D, f
    <3>2. PICK k \in D, l \in D : k = i /\ l = j
      BY <3>1
    <3>3. /\ IsFiniteSet(D) /\ \A m \in D \ {k, l} : g[m] = f[m]
          /\ g[k] = f[l] /\ g[l] = f[k]
      BY <3>1, <3>2
    <3>4. Occurrences(x, g, D) = Occurrences(x, f, D)
      BY <3>3, OccurrencesSwapped
    <3>. QED
      BY <3>4 DEF D
  <2>6. Occurrences(x, f, 1 .. L) \in Nat /\ count[x] \in Nat /\ One(x, str) \in Nat
    BY <2>3, OccurrencesNat DEF Storage, Exact, One
  <2>. QED
    BY <2>1, <2>5, <2>6
<1>7. count' = [x \in Strings |-> count'[x]] /\ str' \in Values
  BY DEF Storage, Exact, Typed
<1>8. Storage'
  BY <1>4, <1>5, <1>6, <1>7, ItemsChanged
<1>9. store'[s] = c
  BY <1>1, <1>4
<1>. QED
  BY <1>4, <1>5, <1>8, <1>9 DEF g

-----------------------------------------------------------------------------
(* The ranges a sort has left, in an array of n items.                     *)

RangesIn(r, n) ==
  /\ r \in Seq(Piece)
  /\ \A a \in 1 .. Len(r) : 1 <= r[a].first /\ r[a].first < r[a].last /\ r[a].last <= n
  /\ \A a, b \in 1 .. Len(r) : a < b => r[a].last < r[b].first

Covers(r, p, q) == \E a \in 1 .. Len(r) : r[a].first <= p /\ q <= r[a].last

LEMMA CoversConcat ==
  ASSUME NEW r \in Seq(Piece), NEW s \in Seq(Piece), NEW p, NEW q
  PROVE  Covers(r \o s, p, q) <=> Covers(r, p, q) \/ Covers(s, p, q)
<1>. DEFINE t == r \o s
<1>1. /\ Len(t) = Len(r) + Len(s) /\ Len(r) \in Nat /\ Len(s) \in Nat
      /\ \A a \in 1 .. Len(r) : t[a] = r[a]
      /\ \A b \in 1 .. Len(s) : t[Len(r) + b] = s[b]
  BY ConcatProperties, LenProperties
<1>. HIDE DEF t
<1>2. ASSUME NEW a \in 1 .. Len(r), r[a].first <= p, q <= r[a].last
      PROVE  Covers(t, p, q)
  <2>1. a \in 1 .. Len(t) /\ t[a] = r[a]
    BY <1>1
  <2>. QED
    BY <1>2, <2>1 DEF Covers
<1>3. ASSUME NEW b \in 1 .. Len(s), s[b].first <= p, q <= s[b].last
      PROVE  Covers(t, p, q)
  <2>1. Len(r) + b \in 1 .. Len(t) /\ t[Len(r) + b] = s[b]
    BY <1>1
  <2>. QED
    BY <1>3, <2>1 DEF Covers
<1>4. ASSUME NEW c \in 1 .. Len(t), t[c].first <= p, q <= t[c].last
      PROVE  Covers(r, p, q) \/ Covers(s, p, q)
  <2>1. CASE c <= Len(r)
    <3>1. c \in 1 .. Len(r) /\ t[c] = r[c]
      BY <1>1, <2>1
    <3>. QED
      BY <1>4, <3>1 DEF Covers
  <2>2. CASE ~(c <= Len(r))
    <3>1. c - Len(r) \in 1 .. Len(s) /\ t[c] = s[c - Len(r)]
      <4>1. c - Len(r) \in 1 .. Len(s) /\ Len(r) + (c - Len(r)) = c
        BY <1>1, <2>2
      <4>. QED
        BY <1>1, <4>1
    <3>. QED
      BY <1>4, <3>1 DEF Covers
  <2>. QED
    BY <2>1, <2>2
<1>. QED
  BY <1>2, <1>3, <1>4 DEF Covers, t

LEMMA RangesConcat ==
  ASSUME NEW n, NEW r, NEW s, RangesIn(r, n), RangesIn(s, n),
         \A a \in 1 .. Len(r), b \in 1 .. Len(s) : r[a].last < s[b].first
  PROVE  RangesIn(r \o s, n)
<1>. DEFINE t == r \o s
<1>0. r \in Seq(Piece) /\ s \in Seq(Piece)
  BY DEF RangesIn
<1>1. /\ t \in Seq(Piece) /\ Len(t) = Len(r) + Len(s) /\ Len(r) \in Nat /\ Len(s) \in Nat
      /\ \A a \in 1 .. Len(r) : t[a] = r[a]
      /\ \A b \in 1 .. Len(s) : t[Len(r) + b] = s[b]
  BY <1>0, ConcatProperties, LenProperties
<1>. HIDE DEF t
<1>2. \A c \in 1 .. Len(t) :
        \/ c \in 1 .. Len(r) /\ t[c] = r[c]
        \/ c - Len(r) \in 1 .. Len(s) /\ t[c] = s[c - Len(r)]
  <2>1. ASSUME NEW c \in 1 .. Len(t), ~(c <= Len(r))
        PROVE  c - Len(r) \in 1 .. Len(s) /\ t[c] = s[c - Len(r)]
    <3>1. c - Len(r) \in 1 .. Len(s) /\ Len(r) + (c - Len(r)) = c
      BY <1>1, <2>1
    <3>. QED
      BY <1>1, <3>1
  <2>. QED
    BY <1>1, <2>1
<1>3. ASSUME NEW c \in 1 .. Len(t)
      PROVE  1 <= t[c].first /\ t[c].first < t[c].last /\ t[c].last <= n
  BY <1>2 DEF RangesIn
<1>4. ASSUME NEW c \in 1 .. Len(t), NEW d \in 1 .. Len(t), c < d
      PROVE  t[c].last < t[d].first
  <2>1. CASE d \in 1 .. Len(r) /\ t[d] = r[d]
    <3>1. c \in 1 .. Len(r) /\ t[c] = r[c]
      BY <1>1, <1>4, <2>1
    <3>. QED
      BY <1>4, <2>1, <3>1 DEF RangesIn
  <2>2. CASE d - Len(r) \in 1 .. Len(s) /\ t[d] = s[d - Len(r)]
    <3>1. CASE c \in 1 .. Len(r) /\ t[c] = r[c]
      BY <2>2, <3>1
    <3>2. CASE c - Len(r) \in 1 .. Len(s) /\ t[c] = s[c - Len(r)]
      <4>1. c - Len(r) < d - Len(r)
        BY <1>1, <1>4
      <4>. QED
        BY <2>2, <3>2, <4>1 DEF RangesIn
    <3>. QED
      BY <1>2, <3>1, <3>2
  <2>. QED
    BY <1>2, <2>1, <2>2
<1>. QED
  BY <1>1, <1>3, <1>4 DEF RangesIn, t

LEMMA RangeOfSound ==
  ASSUME NEW n \in Int, NEW first \in Int, NEW last \in Int, 1 <= first, last <= n
  PROVE  /\ RangesIn(RangeOf(first, last), n)
         /\ \A a \in 1 .. Len(RangeOf(first, last)) :
              RangeOf(first, last)[a].first = first /\ RangeOf(first, last)[a].last = last
         /\ \A p, q : first < last /\ first <= p /\ q <= last => Covers(RangeOf(first, last), p, q)
<1>. DEFINE k == [first |-> first, last |-> last]
<1>1. k \in Piece /\ k.first = first /\ k.last = last
  BY DEF Piece
<1>. HIDE DEF k
<1>2. CASE first < last
  <2>1. RangeOf(first, last) = <<k>>
    BY <1>2 DEF RangeOf, k
  <2>2. <<k>> \in Seq(Piece) /\ Len(<<k>>) = 1 /\ <<k>>[1] = k
    BY <1>1
  <2>3. \A a \in 1 .. 1 : a = 1
    OBVIOUS
  <2>. QED
    BY <1>1, <1>2, <2>1, <2>2, <2>3 DEF RangesIn, Covers
<1>3. CASE ~(first < last)
  <2>1. RangeOf(first, last) = <<>>
    BY <1>3 DEF RangeOf
  <2>2. <<>> \in Seq(Piece) /\ Len(<<>>) = 0 /\ 1 .. 0 = {}
    BY EmptySeq
  <2>. QED
    BY <1>3, <2>1, <2>2 DEF RangesIn
<1>. QED
  BY <1>2, <1>3

LEMMA RangesTail ==
  ASSUME NEW n, NEW r, RangesIn(r, n), r # <<>>
  PROVE  /\ RangesIn(Tail(r), n)
         /\ \A b \in 1 .. Len(Tail(r)) : r[1].last < Tail(r)[b].first
         /\ \A p, q : Covers(r, p, q) => (r[1].first <= p /\ q <= r[1].last) \/ Covers(Tail(r), p, q)
<1>. DEFINE t == Tail(r)
<1>1. r \in Seq(Piece) /\ Len(r) \in Nat /\ Len(r) # 0 /\ 1 \in 1 .. Len(r)
  <2>1. r \in Seq(Piece)
    BY DEF RangesIn
  <2>2. Len(r) \in Nat /\ Len(r) # 0
    BY <2>1, LenProperties, EmptySeq
  <2>. QED
    BY <2>1, <2>2
<1>2. t \in Seq(Piece) /\ Len(t) = Len(r) - 1 /\ \A b \in 1 .. Len(t) : t[b] = r[b + 1]
  BY <1>1, HeadTailProperties
<1>. HIDE DEF t
<1>3. \A b \in 1 .. Len(t) : b + 1 \in 1 .. Len(r) /\ 1 < b + 1
  BY <1>1, <1>2
<1>4. RangesIn(t, n)
  <2>1. \A b \in 1 .. Len(t) : 1 <= t[b].first /\ t[b].first < t[b].last /\ t[b].last <= n
    BY <1>2, <1>3 DEF RangesIn
  <2>2. ASSUME NEW a \in 1 .. Len(t), NEW b \in 1 .. Len(t), a < b
        PROVE  t[a].last < t[b].first
    <3>1. a + 1 < b + 1 /\ a + 1 \in 1 .. Len(r) /\ b + 1 \in 1 .. Len(r)
      BY <1>1, <1>3, <2>2
    <3>2. t[a] = r[a + 1] /\ t[b] = r[b + 1]
      BY <1>2
    <3>. QED
      BY <3>1, <3>2 DEF RangesIn
  <2>. QED
    BY <1>2, <2>1, <2>2 DEF RangesIn
<1>5. \A b \in 1 .. Len(t) : r[1].last < t[b].first
  BY <1>1, <1>2, <1>3 DEF RangesIn
<1>6. ASSUME NEW p, NEW q, NEW a \in 1 .. Len(r), r[a].first <= p, q <= r[a].last
      PROVE  (r[1].first <= p /\ q <= r[1].last) \/ Covers(t, p, q)
  <2>1. CASE a = 1
    BY <1>6, <2>1
  <2>2. CASE a # 1
    <3>1. a - 1 \in 1 .. Len(t) /\ a - 1 + 1 = a
      BY <1>1, <1>2, <2>2
    <3>2. t[a - 1] = r[a]
      BY <1>2, <3>1
    <3>. QED
      BY <1>6, <3>1, <3>2 DEF Covers
  <2>. QED
    BY <2>1, <2>2
<1>. QED
  BY <1>4, <1>5, <1>6 DEF Covers, t

-----------------------------------------------------------------------------
(* The order of the items: k has their ranks.                              *)

\* Of two positions that no range covers, the first has not the greater rank.
OrderedBut(k, r, n) ==
  \A p, q \in 1 .. n : p < q => k[p] <= k[q] \/ Covers(r, p, q)

LEMMA SwapKeepsOrder ==
  ASSUME NEW n \in Nat, NEW k \in [1 .. n -> Int], NEW r, RangesIn(r, n), r # <<>>,
         OrderedBut(k, r, n),
         NEW i \in r[1].first .. r[1].last, NEW j \in r[1].first .. r[1].last
  PROVE  OrderedBut(Swapped(k, i, j), r, n)
<1>. DEFINE m == Swapped(k, i, j)
            f == r[1].first
            l == r[1].last
<1>1. /\ r \in Seq(Piece) /\ Len(r) \in Nat /\ 1 \in 1 .. Len(r) /\ r[1] \in Piece
      /\ f \in Int /\ l \in Int /\ 1 <= f /\ l <= n /\ f < l
  <2>1. r \in Seq(Piece)
    BY DEF RangesIn
  <2>2. Len(r) \in Nat /\ Len(r) # 0
    BY <2>1, LenProperties, EmptySeq
  <2>3. 1 \in 1 .. Len(r)
    BY <2>2
  <2>4. r[1] \in Piece
    BY <2>1, <2>3, ElementOfSeq
  <2>. QED
    BY <2>1, <2>2, <2>3, <2>4 DEF RangesIn, Piece
<1>2. ASSUME NEW p \in 1 .. n, NEW q \in 1 .. n, p < q,
             (p < f /\ f <= q /\ q <= l) \/ (f <= p /\ p <= l /\ l < q)
      PROVE  ~Covers(r, p, q)
  <2>1. ASSUME NEW a \in 1 .. Len(r), r[a].first <= p, q <= r[a].last PROVE FALSE
    <3>1. r[a] \in Piece
      BY <1>1, ElementOfSeq
    <3>2. r[a].first \in Int /\ r[a].last \in Int
      BY <3>1 DEF Piece
    <3>3. CASE a = 1
      BY <1>1, <1>2, <2>1, <3>3
    <3>4. CASE a # 1
      <4>1. 1 < a
        BY <1>1, <3>4
      <4>2. l < r[a].first
        BY <1>1, <4>1 DEF RangesIn
      <4>. QED
        BY <1>1, <1>2, <2>1, <3>2, <4>2, SMTT(20)
    <3>. QED
      BY <3>3, <3>4
  <2>. QED
    BY <2>1 DEF Covers
<1>3. i \in 1 .. n /\ j \in 1 .. n
  BY <1>1
<1>4. /\ m \in [1 .. n -> Int]
      /\ m[i] = k[j] /\ m[j] = k[i] /\ \A p \in 1 .. n : p # i /\ p # j => m[p] = k[p]
  BY <1>3 DEF Swapped
<1>. HIDE DEF m, f, l
<1>5. i \in f .. l /\ j \in f .. l
  BY DEF f, l
<1>6. \A p \in 1 .. n : p < f \/ l < p => m[p] = k[p]
  BY <1>1, <1>4, <1>5
<1>7. ASSUME NEW p \in f .. l PROVE \E o \in f .. l : m[p] = k[o]
  <2>1. p \in 1 .. n
    BY <1>1
  <2>. QED
    BY <1>4, <1>5, <2>1
<1>8. ASSUME NEW p \in 1 .. n, NEW q \in 1 .. n, p < q
      PROVE  m[p] <= m[q] \/ Covers(r, p, q)
  <2>1. CASE f <= p /\ q <= l
    BY <1>1, <2>1 DEF Covers, f, l
  <2>2. CASE f <= p /\ p <= l /\ l < q
    <3>1. PICK o \in f .. l : m[p] = k[o]
      BY <1>7, <1>1, <2>2, SMTT(20)
    <3>2. o \in 1 .. n /\ o < q /\ f <= o /\ o <= l
      BY <1>1, <2>2
    <3>3. ~Covers(r, o, q)
      BY <1>2, <2>2, <3>2
    <3>4. k[o] <= k[q]
      BY <3>2, <3>3 DEF OrderedBut
    <3>. QED
      BY <1>6, <2>2, <3>1, <3>4
  <2>3. CASE p < f /\ f <= q /\ q <= l
    <3>1. PICK o \in f .. l : m[q] = k[o]
      BY <1>7, <1>1, <2>3
    <3>2. o \in 1 .. n /\ p < o /\ f <= o /\ o <= l
      BY <1>1, <2>3
    <3>3. ~Covers(r, p, o)
      BY <1>2, <2>3, <3>2
    <3>4. k[p] <= k[o]
      BY <3>2, <3>3 DEF OrderedBut
    <3>. QED
      BY <1>6, <2>3, <3>1, <3>4
  <2>4. CASE (p < f \/ l < p) /\ (q < f \/ l < q)
    BY <1>6, <1>8, <2>4 DEF OrderedBut
  <2>. QED
    BY <1>1, <1>8, <2>1, <2>2, <2>3, <2>4
<1>. QED
  BY <1>8 DEF OrderedBut, m

\* The partition of a range ends: what is left of it, with the pivot in its place
LEMMA SplitKeepsOrder ==
  ASSUME NEW n \in Nat, NEW k \in [1 .. n -> Int], NEW r, RangesIn(r, n), r # <<>>,
         OrderedBut(k, r, n),
         NEW f \in Int, f = r[1].first, NEW l \in Int, l = r[1].last,
         NEW j \in f .. l, k[j] <= k[f],
         \A p \in f .. l : p < j => k[p] <= k[f],
         \A p \in f .. l : j < p => k[f] < k[p]
  PROVE  LET t == RangeOf(f, j - 1) \o RangeOf(j + 1, l) \o Tail(r)
         IN  RangesIn(t, n) /\ OrderedBut(Swapped(k, f, j), t, n)
<1>. DEFINE m == Swapped(k, f, j)
            b == RangeOf(f, j - 1)
            c == RangeOf(j + 1, l)
            e == Tail(r)
            t == b \o c \o e
<1>1. /\ 1 <= f /\ l <= n /\ f < l /\ j \in Int
      /\ RangesIn(e, n) /\ \A a \in 1 .. Len(e) : l < e[a].first
      /\ \A p, q : Covers(r, p, q) => (f <= p /\ q <= l) \/ Covers(e, p, q)
  <2>1. r \in Seq(Piece)
    BY DEF RangesIn
  <2>2. Len(r) \in Nat /\ Len(r) # 0
    BY <2>1, LenProperties, EmptySeq
  <2>3. 1 \in 1 .. Len(r)
    BY <2>2
  <2>4. 1 <= f /\ l <= n /\ f < l
    BY <2>3 DEF RangesIn
  <2>5. j \in Int
    OBVIOUS
  <2>6. RangesIn(e, n) /\ \A a \in 1 .. Len(e) : r[1].last < e[a].first
    BY RangesTail
  <2>7. \A p, q : Covers(r, p, q) => (r[1].first <= p /\ q <= r[1].last) \/ Covers(e, p, q)
    BY RangesTail
  <2>. QED
    BY <2>4, <2>5, <2>6, <2>7
<1>2. /\ RangesIn(b, n) /\ \A a \in 1 .. Len(b) : b[a].first = f /\ b[a].last = j - 1
      /\ \A p, q : f < j - 1 /\ f <= p /\ q <= j - 1 => Covers(b, p, q)
  <2>1. j - 1 \in Int /\ j - 1 <= n
    BY <1>1
  <2>. QED
    BY <1>1, <2>1, RangeOfSound
<1>3. /\ RangesIn(c, n) /\ \A a \in 1 .. Len(c) : c[a].first = j + 1 /\ c[a].last = l
      /\ \A p, q : j + 1 < l /\ j + 1 <= p /\ q <= l => Covers(c, p, q)
  <2>1. j + 1 \in Int /\ 1 <= j + 1
    BY <1>1
  <2>. QED
    BY <1>1, <2>1, RangeOfSound
<1>. HIDE DEF b, c, e, m
<1>4. RangesIn(b \o c, n)
  <2>1. \A a \in 1 .. Len(b), d \in 1 .. Len(c) : b[a].last < c[d].first
    BY <1>1, <1>2, <1>3
  <2>. QED
    BY <1>2, <1>3, <2>1, RangesConcat
<1>5. b \in Seq(Piece) /\ c \in Seq(Piece) /\ e \in Seq(Piece) /\ b \o c \in Seq(Piece)
  BY <1>1, <1>2, <1>3, <1>4 DEF RangesIn
<1>6. \A a \in 1 .. Len(b \o c) : (b \o c)[a].last <= l
  <2>. DEFINE bc == b \o c
  <2>1. /\ Len(bc) = Len(b) + Len(c) /\ Len(b) \in Nat /\ Len(c) \in Nat
        /\ \A a \in 1 .. Len(b) : bc[a] = b[a]
        /\ \A d \in 1 .. Len(c) : bc[Len(b) + d] = c[d]
    BY <1>5, ConcatProperties, LenProperties
  <2>. HIDE DEF bc
  <2>2. ASSUME NEW a \in 1 .. Len(bc) PROVE bc[a].last <= l
    <3>1. CASE a <= Len(b)
      <4>1. a \in 1 .. Len(b)
        BY <2>1, <3>1
      <4>2. bc[a] = b[a] /\ b[a].last = j - 1
        BY <1>2, <2>1, <4>1
      <4>3. j - 1 <= l
        OBVIOUS
      <4>. QED
        BY <4>2, <4>3
    <3>2. CASE ~(a <= Len(b))
      <4>1. a - Len(b) \in 1 .. Len(c) /\ Len(b) + (a - Len(b)) = a
        BY <2>1, <3>2
      <4>2. bc[a] = c[a - Len(b)]
        BY <2>1, <4>1
      <4>3. c[a - Len(b)].last = l
        BY <1>3, <4>1
      <4>4. bc[a].last = l
        BY <4>2, <4>3
      <4>. QED
        BY <4>4
    <3>. QED
      BY <3>1, <3>2
  <2>. QED
    BY <2>2 DEF bc
<1>7. RangesIn(t, n)
  <2>. DEFINE bc == b \o c
  <2>1. RangesIn(bc, n) /\ \A a \in 1 .. Len(bc) : bc[a].last <= l /\ bc[a].last \in Int
    <3>1. \A a \in 1 .. Len(bc) : bc[a] \in Piece
      BY <1>5, ElementOfSeq
    <3>. QED
      BY <1>4, <1>6, <3>1 DEF Piece
  <2>2. \A a \in 1 .. Len(e) : e[a].first \in Int
    <3>1. \A a \in 1 .. Len(e) : e[a] \in Piece
      BY <1>5, ElementOfSeq
    <3>. QED
      BY <3>1 DEF Piece
  <2>. HIDE DEF bc
  <2>3. ASSUME NEW a \in 1 .. Len(bc), NEW d \in 1 .. Len(e)
        PROVE  bc[a].last < e[d].first
    <3>1. bc[a].last <= l /\ bc[a].last \in Int
      BY <2>1
    <3>2. l < e[d].first /\ e[d].first \in Int
      BY <1>1, <2>2
    <3>. QED
      BY <3>1, <3>2
  <2>4. RangesIn(bc \o e, n)
    BY <1>1, <2>1, <2>3, RangesConcat
  <2>. QED
    BY <2>4 DEF bc
<1>8. ASSUME NEW p, NEW q, Covers(b, p, q) \/ Covers(c, p, q) \/ Covers(e, p, q)
      PROVE  Covers(t, p, q)
  BY <1>5, <1>8, CoversConcat
<1>9. OrderedBut(m, r, n)
  BY <1>1, SwapKeepsOrder, SMTT(20) DEF m
<1>10. f \in 1 .. n /\ j \in 1 .. n
  BY <1>1
<1>11. /\ m \in [1 .. n -> Int] /\ m[f] = k[j] /\ m[j] = k[f]
       /\ \A p \in 1 .. n : p # f /\ p # j => m[p] = k[p]
  BY <1>10 DEF m, Swapped
<1>12. ASSUME NEW p \in f .. l, p <= j PROVE m[p] <= k[f]
  <2>1. p \in 1 .. n /\ k[f] \in Int /\ k[p] \in Int
    BY <1>1, <1>10
  <2>2. CASE p = j
    BY <1>11, <2>1, <2>2
  <2>3. CASE p = f /\ p # j
    BY <1>11, <2>3
  <2>4. CASE p # f /\ p # j
    <3>1. p < j /\ m[p] = k[p]
      BY <1>1, <1>11, <1>12, <2>1, <2>4
    <3>. QED
      BY <3>1
  <2>. QED
    BY <2>2, <2>3, <2>4
<1>13. ASSUME NEW p \in f .. l, j <= p PROVE k[f] <= m[p]
  <2>1. p \in 1 .. n /\ k[f] \in Int /\ k[p] \in Int
    BY <1>1, <1>10
  <2>2. CASE p = j
    BY <1>11, <2>1, <2>2
  <2>3. CASE p # j
    <3>1. j < p /\ p # f
      BY <1>1, <1>13, <2>3
    <3>2. m[p] = k[p] /\ k[f] < k[p]
      BY <1>11, <2>1, <2>3, <3>1
    <3>. QED
      BY <2>1, <3>2
  <2>. QED
    BY <2>2, <2>3
<1>14. ASSUME NEW p \in 1 .. n, NEW q \in 1 .. n, p < q
       PROVE  m[p] <= m[q] \/ Covers(t, p, q)
  <2>1. CASE f <= p /\ q <= l
    <3>1. CASE q < j
      BY <1>2, <1>8, <1>14, <2>1, <3>1
    <3>2. CASE j < p
      BY <1>3, <1>8, <1>14, <2>1, <3>2, SMTT(20)
    <3>3. CASE p <= j /\ j <= q
      <4>1. p \in f .. l /\ q \in f .. l
        BY <1>14, <2>1
      <4>2. m[p] <= k[f] /\ k[f] <= m[q]
        BY <1>12, <1>13, <3>3, <4>1
      <4>3. m[p] \in Int /\ m[q] \in Int /\ k[f] \in Int
        BY <1>10, <1>11
      <4>. QED
        BY <4>2, <4>3
    <3>. QED
      BY <3>1, <3>2, <3>3
  <2>2. CASE ~(f <= p /\ q <= l)
    <3>1. m[p] <= m[q] \/ Covers(r, p, q)
      BY <1>9, <1>14 DEF OrderedBut
    <3>2. Covers(r, p, q) => Covers(e, p, q)
      BY <1>1, <2>2
    <3>. QED
      BY <1>8, <3>1, <3>2
  <2>. QED
    BY <2>1, <2>2
<1>. QED
  BY <1>7, <1>14 DEF OrderedBut, b, c, e, m

-----------------------------------------------------------------------------
(* Where a sort is.                                                        *)

\* Everything before i is at most the pivot, and everything after j is above it.
Partitioning(so, k, n) ==
  /\ so \in Sorts
  /\ RangesIn(so.ranges, n) /\ so.ranges # <<>>
  /\ OrderedBut(k, so.ranges, n)
  /\ so.i \in so.ranges[1].first .. so.ranges[1].last
  /\ so.j \in so.ranges[1].first .. so.ranges[1].last
  /\ \A p \in so.ranges[1].first .. so.ranges[1].last :
       /\ p < so.i => k[p] <= k[so.ranges[1].first]
       /\ so.j < p => k[so.ranges[1].first] < k[p]
  /\ so.scans = "j" => so.i = so.ranges[1].last \/ k[so.ranges[1].first] < k[so.i]

LEMMA FirstRange ==
  ASSUME NEW r, NEW n \in Nat, RangesIn(r, n), r # <<>>
  PROVE  /\ r[1].first \in Int /\ r[1].last \in Int /\ r \in Seq(Piece)
         /\ 1 <= r[1].first /\ r[1].first < r[1].last /\ r[1].last <= n
<1>1. r \in Seq(Piece)
  BY DEF RangesIn
<1>2. Len(r) \in Nat /\ Len(r) # 0
  BY <1>1, LenProperties, EmptySeq
<1>3. 1 \in 1 .. Len(r)
  BY <1>2
<1>4. r[1] \in Piece
  BY <1>1, <1>3, ElementOfSeq
<1>. QED
  BY <1>1, <1>3, <1>4 DEF RangesIn, Piece

LEMMA PartitionStarts ==
  ASSUME NEW s \in Stores, NEW r, NEW n \in Nat, RangesIn(r, n), r # <<>>,
         NEW k, OrderedBut(k, r, n)
  PROVE  Partitioning(Partition(s, r), k, n)
<1>. DEFINE f == r[1].first
            l == r[1].last
            so == [store |-> s, ranges |-> r, i |-> f, j |-> l, scans |-> "i"]
<1>1. f \in Int /\ l \in Int /\ f < l /\ r \in Seq(Piece)
  BY FirstRange
<1>2. Partition(s, r) = so
  BY DEF Partition
<1>3. /\ so \in Sorts /\ so.ranges = r /\ so.i = f /\ so.j = l /\ so.scans = "i"
  BY <1>1 DEF Sorts
<1>. HIDE DEF so
<1>4. f \in f .. l /\ l \in f .. l /\ \A p \in f .. l : ~(p < f) /\ ~(l < p)
  BY <1>1
<1>. QED
  BY <1>2, <1>3, <1>4 DEF Partitioning

LEMMA ScanUpKept ==
  ASSUME NEW n \in Nat, NEW k \in [1 .. n -> Int], NEW so, Partitioning(so, k, n),
         NEW f, f = so.ranges[1].first, NEW l, l = so.ranges[1].last
  PROVE  /\ k[so.i] <= k[f] /\ so.i < l => Partitioning([so EXCEPT !.i = so.i + 1], k, n)
         /\ ~(k[so.i] <= k[f] /\ so.i < l) => Partitioning([so EXCEPT !.scans = "j"], k, n)
<1>1. /\ so \in Sorts /\ so.i \in f .. l /\ so.j \in f .. l
      /\ \A p \in f .. l : (p < so.i => k[p] <= k[f]) /\ (so.j < p => k[f] < k[p])
      /\ f \in Int /\ l \in Int /\ 1 <= f /\ l <= n
  BY FirstRange DEF Partitioning
<1>2. ASSUME k[so.i] <= k[f], so.i < l
      PROVE  Partitioning([so EXCEPT !.i = so.i + 1], k, n)
  <2>. DEFINE sn == [so EXCEPT !.i = so.i + 1]
  <2>1. so.i + 1 \in f .. l /\ so.i + 1 \in Int
    BY <1>1, <1>2
  <2>2. /\ sn \in Sorts /\ sn.ranges = so.ranges /\ sn.i = so.i + 1 /\ sn.j = so.j /\ sn.scans = so.scans
    BY <1>1, <2>1 DEF Sorts
  <2>. HIDE DEF sn
  <2>3. \A p \in f .. l : p < so.i + 1 => k[p] <= k[f]
    <3>1. \A p \in f .. l : p < so.i + 1 => p < so.i \/ p = so.i
      BY <1>1
    <3>. QED
      BY <1>1, <1>2, <3>1
  <2>4. so.scans = "j" => so.i + 1 = l \/ k[f] < k[so.i + 1]
    <3>1. k[f] \in Int /\ k[so.i] \in Int
      BY <1>1
    <3>2. so.scans = "j" => FALSE
      BY <1>1, <1>2, <3>1 DEF Partitioning
    <3>. QED
      BY <3>2
  <2>. QED
    BY <1>1, <2>1, <2>2, <2>3, <2>4 DEF Partitioning, sn
<1>3. ASSUME ~(k[so.i] <= k[f] /\ so.i < l)
      PROVE  Partitioning([so EXCEPT !.scans = "j"], k, n)
  <2>. DEFINE sn == [so EXCEPT !.scans = "j"]
  <2>1. /\ sn \in Sorts /\ sn.ranges = so.ranges /\ sn.i = so.i /\ sn.j = so.j /\ sn.scans = "j"
    BY <1>1 DEF Sorts
  <2>. HIDE DEF sn
  <2>2. so.i = l \/ k[f] < k[so.i]
    <3>1. k[f] \in Int /\ k[so.i] \in Int /\ so.i \in Int
      BY <1>1
    <3>. QED
      BY <1>1, <1>3, <3>1
  <2>. QED
    BY <1>1, <2>1, <2>2 DEF Partitioning, sn
<1>. QED
  BY <1>2, <1>3

LEMMA ScanDownKept ==
  ASSUME NEW n \in Nat, NEW k \in [1 .. n -> Int], NEW so, Partitioning(so, k, n),
         NEW f, f = so.ranges[1].first, k[f] < k[so.j], f < so.j
  PROVE  Partitioning([so EXCEPT !.j = so.j - 1], k, n)
<1>. DEFINE l == so.ranges[1].last
            sn == [so EXCEPT !.j = so.j - 1]
<1>1. /\ so \in Sorts /\ so.i \in f .. l /\ so.j \in f .. l
      /\ \A p \in f .. l : (p < so.i => k[p] <= k[f]) /\ (so.j < p => k[f] < k[p])
      /\ f \in Int /\ l \in Int /\ 1 <= f /\ l <= n
  BY FirstRange DEF Partitioning
<1>2. so.j - 1 \in f .. l /\ so.j - 1 \in Int
  BY <1>1
<1>3. /\ sn \in Sorts /\ sn.ranges = so.ranges /\ sn.i = so.i /\ sn.j = so.j - 1 /\ sn.scans = so.scans
  BY <1>1, <1>2 DEF Sorts
<1>. HIDE DEF sn
<1>4. \A p \in f .. l : so.j - 1 < p => k[f] < k[p]
  <2>1. \A p \in f .. l : so.j - 1 < p => so.j < p \/ p = so.j
    BY <1>1
  <2>. QED
    BY <1>1, <2>1
<1>. QED
  BY <1>1, <1>2, <1>3, <1>4 DEF Partitioning, sn

LEMMA SwapKept ==
  ASSUME NEW n \in Nat, NEW k \in [1 .. n -> Int], NEW so, Partitioning(so, k, n),
         NEW f, f = so.ranges[1].first, so.scans = "j",
         ~(k[f] < k[so.j] /\ f < so.j), so.i < so.j
  PROVE  Partitioning([so EXCEPT !.scans = "i"], Swapped(k, so.i, so.j), n)
<1>. DEFINE l == so.ranges[1].last
            sn == [so EXCEPT !.scans = "i"]
            m == Swapped(k, so.i, so.j)
<1>1. /\ so \in Sorts /\ so.i \in f .. l /\ so.j \in f .. l
      /\ \A p \in f .. l : (p < so.i => k[p] <= k[f]) /\ (so.j < p => k[f] < k[p])
      /\ f \in Int /\ l \in Int /\ 1 <= f /\ l <= n
  BY FirstRange DEF Partitioning
<1>2. /\ sn \in Sorts /\ sn.ranges = so.ranges /\ sn.i = so.i /\ sn.j = so.j /\ sn.scans = "i"
  BY <1>1 DEF Sorts
<1>3. OrderedBut(m, so.ranges, n)
  BY SwapKeepsOrder DEF Partitioning
<1>4. so.i # f /\ so.j # f
  <2>1. so.i # l /\ k[f] \in Int
    BY <1>1
  <2>2. k[f] < k[so.i]
    BY <2>1 DEF Partitioning
  <2>. QED
    BY <1>1, <2>1, <2>2
<1>5. so.i \in 1 .. n /\ so.j \in 1 .. n
  BY <1>1
<1>6. /\ m[f] = k[f]
      /\ \A p \in f .. l : p < so.i => m[p] = k[p]
      /\ \A p \in f .. l : so.j < p => m[p] = k[p]
  <2>1. \A p \in 1 .. n : p # so.i /\ p # so.j => m[p] = k[p]
    BY <1>5 DEF Swapped
  <2>2. \A p \in f .. l : p \in 1 .. n
    BY <1>1
  <2>3. \A p \in f .. l : p < so.i \/ so.j < p => p # so.i /\ p # so.j
    BY <1>1
  <2>4. f \in 1 .. n
    BY <1>1
  <2>. QED
    BY <1>4, <2>1, <2>2, <2>3, <2>4
<1>. HIDE DEF sn, m
<1>7. \A p \in f .. l : (p < so.i => m[p] <= m[f]) /\ (so.j < p => m[f] < m[p])
  BY <1>1, <1>6
<1>. QED
  BY <1>1, <1>2, <1>3, <1>7 DEF Partitioning, sn, m

LEMMA SplitKept ==
  ASSUME NEW n \in Nat, NEW k \in [1 .. n -> Int], NEW so, Partitioning(so, k, n),
         NEW f, f = so.ranges[1].first, NEW l, l = so.ranges[1].last,
         ~(k[f] < k[so.j] /\ f < so.j), ~(so.i < so.j)
  PROVE  LET t == RangeOf(f, so.j - 1) \o RangeOf(so.j + 1, l) \o Tail(so.ranges)
         IN  RangesIn(t, n) /\ OrderedBut(Swapped(k, f, so.j), t, n)
<1>1. /\ so.i \in f .. l /\ so.j \in f .. l
      /\ \A p \in f .. l : (p < so.i => k[p] <= k[f]) /\ (so.j < p => k[f] < k[p])
      /\ f \in Int /\ l \in Int /\ 1 <= f /\ l <= n
      /\ RangesIn(so.ranges, n) /\ so.ranges # <<>> /\ OrderedBut(k, so.ranges, n)
  BY FirstRange DEF Partitioning
<1>2. k[so.j] <= k[f]
  <2>1. k[f] \in Int /\ k[so.j] \in Int
    BY <1>1
  <2>2. CASE f < so.j
    BY <2>1, <2>2
  <2>3. CASE ~(f < so.j)
    BY <1>1, <2>1, <2>3
  <2>. QED
    BY <2>2, <2>3
<1>3. \A p \in f .. l : p < so.j => k[p] <= k[f]
  <2>1. so.i \in Int /\ so.j \in Int
    BY <1>1
  <2>2. \A p \in f .. l : p \in Int /\ (p < so.j => p < so.i)
    BY <2>1
  <2>3. \A p \in f .. l : p < so.i => k[p] <= k[f]
    BY <1>1
  <2>. QED
    BY <2>2, <2>3
<1>4. \A p \in f .. l : so.j < p => k[f] < k[p]
  BY <1>1
<1>. QED
  BY <1>1, <1>2, <1>3, <1>4, SplitKeepsOrder

-----------------------------------------------------------------------------
(* The steps of a sort.                                                    *)

Ranks(data, n) == [p \in 1 .. n |-> Rank(data[p])]

\* Nothing but the sort happens to the items while it goes on.
SortSound ==
  sorting # Null =>
    /\ call = Null
    /\ store[sorting.store].count > 0
    /\ Partitioning(sorting, Ranks(store[sorting.store].data, store[sorting.store].len),
                    store[sorting.store].len)

LEMMA RanksTyped ==
  ASSUME NEW c \in Chunk
  PROVE  /\ c.len \in Nat /\ c.len <= MaxLen
         /\ Ranks(c.data, c.len) \in [1 .. c.len -> Int]
         /\ \A p \in 1 .. c.len : Ranks(c.data, c.len)[p] = Rank(c.data[p])
<1>1. c.len \in 0 .. MaxLen /\ c.data \in [1 .. MaxLen -> Values] /\ MaxLen \in Nat
  BY DynArrayAssumption DEF Chunk
<1>2. \A p \in 1 .. c.len : p \in 1 .. MaxLen
  BY <1>1
<1>3. \A p \in 1 .. c.len : Rank(c.data[p]) \in Int
  BY <1>1, <1>2, DynArrayAssumption DEF Values
<1>. QED
  BY <1>1, <1>3 DEF Ranks

LEMMA RanksSwapped ==
  ASSUME NEW D, NEW data \in [1 .. MaxLen -> D], NEW n \in 0 .. MaxLen,
         NEW i \in 1 .. n, NEW j \in 1 .. n
  PROVE  Ranks(Swapped(data, i, j), n) = Swapped(Ranks(data, n), i, j)
<1>. DEFINE g == Swapped(data, i, j)
            k == Ranks(data, n)
<1>1. i \in 1 .. MaxLen /\ j \in 1 .. MaxLen /\ \A p \in 1 .. n : p \in 1 .. MaxLen
  BY DynArrayAssumption
<1>2. \A p \in 1 .. n : g[p] = IF p = j THEN data[i] ELSE IF p = i THEN data[j] ELSE data[p]
  BY <1>1 DEF Swapped
<1>3. Swapped(k, i, j) = [p \in 1 .. n |-> IF p = j THEN k[i] ELSE IF p = i THEN k[j] ELSE k[p]]
  BY DEF Swapped, Ranks
<1>4. \A p \in 1 .. n : k[p] = Rank(data[p])
  BY DEF Ranks
<1>. HIDE DEF g, k
<1>5. ASSUME NEW p \in 1 .. n
      PROVE  Rank(g[p]) = IF p = j THEN k[i] ELSE IF p = i THEN k[j] ELSE k[p]
  <2>1. CASE p = j
    BY <1>2, <1>4, <2>1
  <2>2. CASE p # j /\ p = i
    BY <1>2, <1>4, <2>2
  <2>3. CASE p # j /\ p # i
    BY <1>2, <1>4, <2>3
  <2>. QED
    BY <2>1, <2>2, <2>3
<1>. QED
  BY <1>3, <1>5 DEF Ranks, g, k

\* What a sort that goes on knows of the array
LEMMA SortingTyped ==
  ASSUME Storage, SortSound, sorting # Null
  PROVE  LET s == sorting.store
             n == store[s].len
             k == Ranks(store[s].data, n)
         IN  /\ s \in Stores /\ sorting \in Sorts /\ call = Null
             /\ store[s] \in Chunk /\ store[s].count > 0
             /\ n \in Nat /\ n \in 0 .. MaxLen /\ store[s].data \in [1 .. MaxLen -> Values]
             /\ k \in [1 .. n -> Int] /\ Partitioning(sorting, k, n)
             /\ sorting.i \in 1 .. n /\ sorting.j \in 1 .. n
             /\ FirstOf \in 1 .. n /\ LastOf \in 1 .. n
             /\ \A p, q \in 1 .. n : Compare(p, q) = k[p] - k[q]
<1>. DEFINE s == sorting.store
            n == store[s].len
            k == Ranks(store[s].data, n)
<1>1. call = Null /\ store[s].count > 0 /\ Partitioning(sorting, k, n)
  BY DEF SortSound
<1>2. sorting \in Sorts /\ s \in Stores
  BY <1>1 DEF Partitioning, Sorts
<1>3. store[s] \in Chunk
  BY <1>2 DEF Storage, Typed
<1>4. /\ n \in Nat /\ n <= MaxLen /\ k \in [1 .. n -> Int]
      /\ \A p \in 1 .. n : k[p] = Rank(store[s].data[p])
  BY <1>3, RanksTyped
<1>5. n \in 0 .. MaxLen /\ store[s].data \in [1 .. MaxLen -> Values]
  BY <1>3 DEF Chunk
<1>6. \A p, q \in 1 .. n : Compare(p, q) = k[p] - k[q]
  BY <1>4 DEF Compare, Sorted
<1>. HIDE DEF k, n
<1>7. /\ FirstOf \in Int /\ LastOf \in Int /\ 1 <= FirstOf /\ FirstOf < LastOf /\ LastOf <= n
      /\ sorting.i \in FirstOf .. LastOf /\ sorting.j \in FirstOf .. LastOf
  BY <1>1, <1>4, FirstRange DEF Partitioning, FirstOf, LastOf
<1>8. /\ sorting.i \in 1 .. n /\ sorting.j \in 1 .. n
      /\ FirstOf \in 1 .. n /\ LastOf \in 1 .. n
  BY <1>4, <1>7
<1>. QED
  BY <1>1, <1>2, <1>3, <1>4, <1>5, <1>6, <1>8 DEF k, n

LEMMA SortBegins ==
  ASSUME Storage, NEW a \in Vars, Sort(a)
  PROVE  SortSound'
<1>. DEFINE s == arr[a]
            n == store[s].len
            r == RangeOf(1, n)
            k == Ranks(store[s].data, n)
<1>1. call' = call /\ store' = store /\ sorting = Null /\ (sorting # Null => CompareAlters) /\ call = Null
  BY DEF Sort, Running
<1>2. CASE s = Null
  BY <1>2 DEF Sort, SortSound
<1>3. CASE s # Null
  <2>1. s \in Stores /\ store[s] \in Chunk /\ store[s].count > 0 /\ Length(a) = n
    BY <1>3, DataTyped
  <2>2. sorting' = Partition(s, r)
    BY <1>3, <2>1 DEF Sort
  <2>3. n \in Nat /\ n \in Int
    BY <2>1, RanksTyped
  <2>4. RangesIn(r, n) /\ \A p, q : 1 < n /\ 1 <= p /\ q <= n => Covers(r, p, q)
    BY <2>3, RangeOfSound
  <2>5. CASE r = <<>>
    BY <2>2, <2>5 DEF Partition, SortSound
  <2>6. CASE r # <<>>
    <3>1. OrderedBut(k, r, n)
      <4>1. \A p, q \in 1 .. n : p < q => 1 < n /\ 1 <= p /\ q <= n
        BY <2>3
      <4>. QED
        BY <2>4, <4>1 DEF OrderedBut
    <3>. HIDE DEF k, n, r
    <3>2. Partitioning(sorting', k, n)
      BY <2>1, <2>2, <2>3, <2>4, <2>6, <3>1, PartitionStarts
    <3>3. sorting'.store = s
      BY <2>2, <2>6 DEF Partition
    <3>. QED
      BY <1>1, <2>1, <3>2, <3>3 DEF SortSound, k, n
  <2>. QED
    BY <2>5, <2>6
<1>. QED
  BY <1>2, <1>3

LEMMA ScanUpSound ==
  ASSUME Storage, SortSound, ScanUp
  PROVE  SortSound'
<1>. DEFINE s == sorting.store
            n == store[s].len
            k == Ranks(store[s].data, n)
            up == [sorting EXCEPT !.i = sorting.i + 1]
            stop == [sorting EXCEPT !.scans = "j"]
<1>1. sorting # Null /\ call' = call /\ store' = store
  BY DEF ScanUp
<1>2. /\ sorting \in Sorts /\ call = Null /\ store[s].count > 0
      /\ n \in Nat /\ k \in [1 .. n -> Int] /\ Partitioning(sorting, k, n)
      /\ sorting.i \in 1 .. n /\ FirstOf \in 1 .. n
      /\ Compare(sorting.i, FirstOf) = k[sorting.i] - k[FirstOf]
  BY <1>1, SortingTyped
<1>3. Compare(sorting.i, FirstOf) <= 0 <=> k[sorting.i] <= k[FirstOf]
  <2>1. k[sorting.i] \in Int /\ k[FirstOf] \in Int
    BY <1>2
  <2>. QED
    BY <1>2, <2>1
<1>4. /\ k[sorting.i] <= k[FirstOf] /\ sorting.i < LastOf => sorting' = up
      /\ ~(k[sorting.i] <= k[FirstOf] /\ sorting.i < LastOf) => sorting' = stop
  BY <1>3 DEF ScanUp
<1>5. up.store = s /\ stop.store = s
  BY <1>2 DEF Sorts
<1>. HIDE DEF k, n, up, stop
<1>6. /\ k[sorting.i] <= k[FirstOf] /\ sorting.i < LastOf => Partitioning(up, k, n)
      /\ ~(k[sorting.i] <= k[FirstOf] /\ sorting.i < LastOf) => Partitioning(stop, k, n)
  BY <1>2, ScanUpKept DEF FirstOf, LastOf, up, stop
<1>7. Partitioning(sorting', k, n) /\ sorting'.store = s
  BY <1>4, <1>5, <1>6
<1>. QED
  BY <1>1, <1>2, <1>7 DEF SortSound, k, n

LEMMA ScanDownSound ==
  ASSUME Storage, SortSound, ScanDown
  PROVE  SortSound'
<1>. DEFINE s == sorting.store
            n == store[s].len
            k == Ranks(store[s].data, n)
            down == [sorting EXCEPT !.j = sorting.j - 1]
<1>1. /\ sorting # Null /\ call' = call /\ store' = store /\ sorting' = down
      /\ Compare(sorting.j, FirstOf) > 0 /\ sorting.j > FirstOf
  BY DEF ScanDown
<1>2. /\ sorting \in Sorts /\ call = Null /\ store[s].count > 0
      /\ n \in Nat /\ k \in [1 .. n -> Int] /\ Partitioning(sorting, k, n)
      /\ sorting.j \in 1 .. n /\ FirstOf \in 1 .. n
      /\ Compare(sorting.j, FirstOf) = k[sorting.j] - k[FirstOf]
  BY <1>1, SortingTyped
<1>3. k[FirstOf] < k[sorting.j] /\ FirstOf < sorting.j
  <2>1. k[sorting.j] \in Int /\ k[FirstOf] \in Int
    BY <1>2
  <2>. QED
    BY <1>1, <1>2, <2>1
<1>5. down.store = s
  BY <1>2 DEF Sorts
<1>. HIDE DEF k, n
<1>6. Partitioning(down, k, n)
  BY <1>2, <1>3, ScanDownKept DEF FirstOf
<1>. HIDE DEF down
<1>. QED
  BY <1>1, <1>2, <1>5, <1>6 DEF SortSound, k, n

LEMMA SwapOrSplitSound ==
  ASSUME Storage, SortSound, SwapOrSplit
  PROVE  Storage' /\ SortSound'
<1>. DEFINE s == sorting.store
            n == store[s].len
            k == Ranks(store[s].data, n)
            f == FirstOf
            i == sorting.i
            j == sorting.j
<1>1. /\ sorting # Null /\ call' = call /\ arr' = arr /\ str' = str /\ count' = count
      /\ sorting.scans = "j"
      /\ ~(Compare(j, f) > 0 /\ j > f)
  BY DEF SwapOrSplit
<1>2. /\ s \in Stores /\ sorting \in Sorts /\ call = Null
      /\ store[s] \in Chunk /\ store[s].count > 0
      /\ n \in Nat /\ n \in 0 .. MaxLen /\ store[s].data \in [1 .. MaxLen -> Values]
      /\ k \in [1 .. n -> Int] /\ Partitioning(sorting, k, n)
      /\ i \in 1 .. n /\ j \in 1 .. n /\ f \in 1 .. n
      /\ Compare(j, f) = k[j] - k[f]
  BY <1>1, SortingTyped
<1>3. ~(k[f] < k[j] /\ f < j)
  <2>1. k[j] \in Int /\ k[f] \in Int
    BY <1>2
  <2>. QED
    BY <1>1, <1>2, <2>1
<1>4. CASE i < j
  <2>. DEFINE on == [sorting EXCEPT !.scans = "i"]
              g == Swapped(store[s].data, i, j)
  <2>1. Swap(i, j) /\ sorting' = on
    BY <1>4 DEF SwapOrSplit
  <2>2. Storage' /\ store' = [store EXCEPT ![s].data = g] /\ store'[s].data = g /\ store'[s].len = n
    BY <1>1, <1>2, <2>1, SwapSound, SMTT(20)
  <2>3. Ranks(g, n) = Swapped(k, i, j)
    BY <1>2, RanksSwapped
  <2>4. on.store = s
    BY <1>2 DEF Sorts
  <2>5. store'[s].count = store[s].count
    BY <1>2, <2>2 DEF Storage, Typed, Chunk
  <2>. HIDE DEF k, n, g
  <2>6. Partitioning(on, Swapped(k, i, j), n)
    BY <1>1, <1>2, <1>3, <1>4, SwapKept DEF FirstOf
  <2>. HIDE DEF on
  <2>7. Partitioning(on, Ranks(store'[s].data, store'[s].len), store'[s].len)
    BY <2>2, <2>3, <2>6
  <2>. QED
    BY <1>1, <1>2, <2>1, <2>2, <2>4, <2>5, <2>7 DEF SortSound
<1>5. CASE ~(i < j)
  <2>. DEFINE t == RangeOf(f, j - 1) \o RangeOf(j + 1, LastOf) \o Tail(sorting.ranges)
              g == Swapped(store[s].data, f, j)
  <2>1. Swap(f, j) /\ sorting' = Partition(s, t)
    BY <1>5 DEF SwapOrSplit
  <2>2. Storage' /\ store' = [store EXCEPT ![s].data = g] /\ store'[s].data = g /\ store'[s].len = n
    <3>1. f \in 1 .. store[s].len /\ j \in 1 .. store[s].len /\ Swap(f, j)
      BY <1>2, <2>1
    <3>. HIDE DEF f, j
    <3>. QED
      BY <1>1, <1>2, <3>1, SwapSound
  <2>3. Ranks(g, n) = Swapped(k, f, j)
    BY <1>2, RanksSwapped
  <2>4. store'[s].count = store[s].count
    BY <1>2, <2>2 DEF Storage, Typed, Chunk
  <2>. HIDE DEF k, n, g
  <2>5. RangesIn(t, n) /\ OrderedBut(Swapped(k, f, j), t, n)
    BY <1>1, <1>2, <1>3, <1>5, SplitKept DEF FirstOf, LastOf
  <2>6. CASE t = <<>>
    BY <2>1, <2>2, <2>6 DEF Partition, SortSound
  <2>7. CASE t # <<>>
    <3>. HIDE DEF t, f, j
    <3>1. Partitioning(sorting', Swapped(k, f, j), n)
      BY <1>2, <2>1, <2>5, <2>7, PartitionStarts
    <3>2. sorting'.store = s
      BY <2>1, <2>7 DEF Partition
    <3>3. Partitioning(sorting', Ranks(store'[s].data, store'[s].len), store'[s].len)
      BY <2>2, <2>3, <3>1
    <3>. QED
      BY <1>1, <1>2, <2>2, <2>4, <3>2, <3>3 DEF SortSound
  <2>. QED
    BY <2>6, <2>7
<1>. QED
  BY <1>4, <1>5

-----------------------------------------------------------------------------
(* The invariant holds.                                                    *)

IInv == Storage /\ CallSound /\ SortSound

LEMMA InitSound ==
  ASSUME Init
  PROVE  IInv
<1>1. Typed
  BY NoStoreIsChunk DEF Init, Typed, Values
<1>2. \A v \in Vars : arr[v] = Null
  BY DEF Init
<1>3. ASSUME NEW s \in Stores PROVE Cardinality(Holding(Vars, arr, s)) = 0
  <2>1. \A v \in Vars : arr[v] # s
    BY <1>2, DynArrayAssumption
  <2>. QED
    BY <2>1, HoldersCounted, DynArrayAssumption
<1>4. ASSUME NEW x \in Strings PROVE One(x, str) = 0 /\ Cardinality(Held(store, x)) = 0
  <2>1. x # str
    BY DynArrayAssumption DEF Init
  <2>2. Held(store, x) = {}
    BY NoStoreIsChunk DEF Held, Init
  <2>. QED
    BY <2>1, <2>2, FS_EmptySet DEF One
<1>5. Exact
  BY <1>3, <1>4, NoStoreIsChunk DEF Exact, Init
<1>. QED
  BY <1>1, <1>5 DEF IInv, Storage, Unused, CallSound, SortSound, Init

LEMMA PushArgsSound ==
  ASSUME Storage, NEW a \in Vars, NEW at \in 1 .. MaxLen, NEW item \in Addresses(a),
         PushArgs(a, at, item)
  PROVE  CallSound'
<1>. DEFINE c == [arr |-> a, at |-> at, item |-> item]
<1>1. /\ call' = c /\ arr' = arr /\ store' = store
      /\ at <= Length(a) + 1 /\ Length(a) < MaxLen
      /\ item # OfVar /\ item.at > at => ItemOfItself
  BY DEF PushArgs
<1>2. c.arr = a /\ c.at = at /\ c.item = item
  OBVIOUS
<1>3. Length(a)' = Length(a) /\ Addresses(a)' = Addresses(a)
  BY <1>1 DEF Length, Addresses
<1>4. at \in 1 .. Length(a) + 1
  BY <1>1, DynArrayAssumption, DataTyped
<1>. HIDE DEF c
<1>5. Length(a)' \in Int /\ at \in 1 .. Length(a)' + 1 /\ Length(a)' < MaxLen /\ item \in Addresses(a)'
  BY <1>1, <1>3, <1>4, DataTyped, DynArrayAssumption
<1>. QED
  BY <1>1, <1>2, <1>5 DEF CallSound

LEMMA NextSound ==
  ASSUME IInv, ~CompareAlters, [Next]_vars
  PROVE  IInv'
<1>0. Storage /\ CallSound /\ SortSound
  BY DEF IInv
<1>1. ASSUME Running, UNCHANGED <<call, sorting>>, Storage' PROVE IInv'
  BY <1>1 DEF Running, IInv, CallSound, SortSound
<1>2. ASSUME NEW v \in Vars, NEW a \in Vars, Assign(v, a) PROVE IInv'
  BY <1>0, <1>1, <1>2, AssignSound DEF Assign
<1>3. ASSUME NEW v \in Vars, NEW len \in 0 .. MaxLen, Make(v, len) PROVE IInv'
  BY <1>0, <1>1, <1>3, MakeSound DEF Make
<1>4. ASSUME NEW v \in Vars, NEW a \in Vars, NEW first \in 0 .. MaxLen, NEW last \in 0 .. MaxLen,
             Slice(v, a, first, last)
      PROVE  IInv'
  BY <1>0, <1>1, <1>4, SliceSound DEF Slice
<1>5. ASSUME NEW v \in Vars, NEW a \in Vars, NEW at \in 1 .. MaxLen, Delete(v, a, at) PROVE IInv'
  BY <1>0, <1>1, <1>5, DeleteSound DEF Delete
<1>6. ASSUME NEW v \in Vars, NEW a \in Vars, NEW b \in Vars, AppendAll(v, a, b) PROVE IInv'
  BY <1>0, <1>1, <1>6, AppendAllSound DEF AppendAll
<1>7. ASSUME NEW x \in Strings, NewString(x) PROVE IInv'
  BY <1>0, <1>1, <1>7, NewStringSound DEF NewString
<1>8. ASSUME NEW a \in Vars, NEW at \in 1 .. MaxLen, GetItem(a, at) PROVE IInv'
  BY <1>0, <1>1, <1>8, GetItemSound DEF GetItem
<1>9. ASSUME NEW a \in Vars, NEW at \in 1 .. MaxLen, SetItem(a, at) PROVE IInv'
  BY <1>0, <1>1, <1>9, SetItemSound DEF SetItem
<1>10. ASSUME NEW a \in Vars, NEW at \in 1 .. MaxLen, NEW item \in Addresses(a), PushArgs(a, at, item)
       PROVE  IInv'
  <2>1. UNCHANGED <<arr, str, store, count, sorting>> /\ sorting = Null
    BY <1>10 DEF PushArgs, Running
  <2>2. Storage'
    BY <1>0, <2>1 DEF Storage, Typed, Exact, Unused
  <2>3. CallSound'
    BY <1>0, <1>10, PushArgsSound
  <2>. QED
    BY <2>1, <2>2, <2>3 DEF IInv, SortSound
<1>11. ASSUME NEW v \in Vars, Insert(v) PROVE IInv'
  <2>1. Storage'
    BY <1>0, <1>11, InsertSound
  <2>2. sorting' = Null /\ call' = Null
    BY <1>0, <1>11 DEF Insert, SortSound
  <2>. QED
    BY <2>1, <2>2 DEF IInv, CallSound, SortSound
<1>12. ASSUME NEW a \in Vars, Sort(a) PROVE IInv'
  <2>1. UNCHANGED <<arr, str, store, count, call>> /\ call = Null
    BY <1>12 DEF Sort, Running
  <2>2. Storage'
    BY <1>0, <2>1 DEF Storage, Typed, Exact, Unused
  <2>3. SortSound'
    BY <1>0, <1>12, SortBegins
  <2>. QED
    BY <2>1, <2>2, <2>3 DEF IInv, CallSound
<1>13. ASSUME SortStep PROVE IInv'
  <2>1. call = Null /\ call' = call
    BY <1>13 DEF SortStep, ScanUp, ScanDown, SwapOrSplit
  <2>2. CASE ScanUp
    <3>1. UNCHANGED <<arr, str, store, count>>
      BY <2>2 DEF ScanUp
    <3>2. Storage'
      BY <1>0, <3>1 DEF Storage, Typed, Exact, Unused
    <3>3. SortSound'
      BY <1>0, <2>2, ScanUpSound
    <3>. QED
      BY <2>1, <3>2, <3>3 DEF IInv, CallSound
  <2>3. CASE ScanDown
    <3>1. UNCHANGED <<arr, str, store, count>>
      BY <2>3 DEF ScanDown
    <3>2. Storage'
      BY <1>0, <3>1 DEF Storage, Typed, Exact, Unused
    <3>3. SortSound'
      BY <1>0, <2>3, ScanDownSound
    <3>. QED
      BY <2>1, <3>2, <3>3 DEF IInv, CallSound
  <2>4. CASE SwapOrSplit
    <3>1. Storage' /\ SortSound'
      BY <1>0, <2>4, SwapOrSplitSound
    <3>. QED
      BY <2>1, <3>1 DEF IInv, CallSound
  <2>. QED
    BY <1>13, <2>2, <2>3, <2>4 DEF SortStep
<1>14. ASSUME UNCHANGED vars PROVE IInv'
  <2>1. UNCHANGED <<arr, str, store, count, call, sorting>>
    BY <1>14 DEF vars
  <2>2. Storage'
    BY <1>0, <2>1 DEF Storage, Typed, Exact, Unused
  <2>3. CallSound'
    <3>1. \A a : Length(a)' = Length(a) /\ Addresses(a)' = Addresses(a)
      BY <2>1 DEF Length, Addresses
    <3>. QED
      BY <1>0, <2>1, <3>1 DEF CallSound
  <2>4. SortSound'
    BY <1>0, <2>1 DEF SortSound
  <2>. QED
    BY <2>2, <2>3, <2>4 DEF IInv
<1>. QED
  BY <1>2, <1>3, <1>4, <1>5, <1>6, <1>7, <1>8, <1>9, <1>10, <1>11, <1>12, <1>13, <1>14 DEF Next

LEMMA StorageFollows ==
  ASSUME IInv
  PROVE  StorageSound
<1>1. /\ Typed /\ Exact /\ Unused /\ CallSound /\ SortSound
  BY DEF IInv, Storage
<1>2. ASSUME NEW s \in Stores
      PROVE  /\ DOMAIN store[s] = {"count", "len", "capacity", "data"}
             /\ store[s].count \in Nat
             /\ store[s].len \in 0 .. MaxLen /\ store[s].len <= store[s].capacity
             /\ store[s].data \in [1 .. MaxLen -> Values]
  <2>1. store[s] \in Chunk /\ store[s].len <= store[s].capacity
    BY <1>1 DEF Typed
  <2>2. DOMAIN store[s] = {"count", "len", "capacity", "data"}
    BY <2>1 DEF Chunk
  <2>. QED
    BY <2>1, <2>2 DEF Chunk
<1>3. call # Null => call.arr \in Vars /\ call.at \in 1 .. MaxLen
  <2>1. ASSUME call # Null PROVE call.at \in 1 .. MaxLen
    <3>1. /\ call.arr \in Vars /\ call.at \in 1 .. Length(call.arr) + 1
          /\ Length(call.arr) < MaxLen
      BY <1>1, <2>1 DEF CallSound
    <3>2. Length(call.arr) \in 0 .. MaxLen
      BY <3>1, DataTyped DEF IInv
    <3>. QED
      BY <3>1, <3>2, DynArrayAssumption
  <2>. QED
    BY <1>1, <2>1 DEF CallSound
<1>4. sorting # Null =>
        /\ FirstOf <= sorting.i /\ sorting.i <= LastOf
        /\ FirstOf <= sorting.j /\ sorting.j <= LastOf
  <2>1. ASSUME sorting # Null
        PROVE  /\ FirstOf \in Int /\ LastOf \in Int
               /\ sorting.i \in FirstOf .. LastOf /\ sorting.j \in FirstOf .. LastOf
    <3>. DEFINE n == store[sorting.store].len
                k == Ranks(store[sorting.store].data, n)
    <3>1. Partitioning(sorting, k, n) /\ n \in Nat
      BY <1>1, <2>1, SortingTyped DEF IInv
    <3>. HIDE DEF n, k
    <3>. QED
      BY <3>1, FirstRange DEF Partitioning, FirstOf, LastOf
  <2>. QED
    BY <2>1
<1>5. TypeOK
  BY <1>1, <1>2, <1>3, <1>4 DEF TypeOK, Typed, Exact
<1>6. CountsExact
  <2>1. ASSUME NEW s \in Stores PROVE store[s].count = Cardinality({v \in Vars : arr[v] = s})
    BY <1>1 DEF Exact, Holding
  <2>2. ASSUME NEW x \in Strings
        PROVE  count[x] = (IF str = x THEN 1 ELSE 0)
                  + Cardinality({d \in Stores \X (1 .. MaxLen) :
                      store[d[1]].count > 0 /\ d[2] <= store[d[1]].len /\ store[d[1]].data[d[2]] = x})
    <3>1. One(x, str) = IF str = x THEN 1 ELSE 0
      BY DEF One
    <3>2. count[x] = One(x, str) + Cardinality(Held(store, x))
      BY <1>1 DEF Exact
    <3>. QED
      BY <3>1, <3>2 DEF Held
  <2>. QED
    BY <2>1, <2>2 DEF CountsExact
<1>. QED
  BY <1>5, <1>6 DEF StorageSound

\* Unless a comparison alters the array it is called for, the storage of dynamic arrays is
\* sound: a chunk is counted by the variables that refer to it, a string by str and by the
\* items of the chunks in use, whatever is appended, inserted, deleted, overwritten, sorted
\* or shared (chunk->refCnt), and a sort stays in its range (qsortPartition).
THEOREM ArraysSound == ~CompareAlters => (Spec => []StorageSound)
<1>. SUFFICES ASSUME ~CompareAlters PROVE Spec => []StorageSound
  OBVIOUS
<1>1. Init => IInv
  BY InitSound
<1>2. IInv /\ [Next]_vars => IInv'
  BY NextSound
<1>3. IInv => StorageSound
  BY StorageFollows
<1>. QED
  BY <1>1, <1>2, <1>3, PTL DEF Spec

-----------------------------------------------------------------------------
(* The lists the arrays are.  Items, capacities and what is being sorted   *)
(* are those of the chunks.                                                *)

\* The items of a chunk, as a list
ItemsOf(c) == [i \in 1 .. c.len |-> c.data[i]]

LEMMA PutDone ==
  ASSUME NEW v \in Vars, NEW r, NEW l, NEW k,
         arr' = [arr EXCEPT ![v] = r], sorting = Null, sorting' = Null,
         \A q \in Stores :
           LET kept == q = r \/ \E w \in Vars \ {v} : arr[w] = q
           IN  /\ ItemsOf(store'[q]) = IF q = r THEN l ELSE IF kept THEN ItemsOf(store[q]) ELSE <<>>
               /\ store'[q].capacity = IF q = r THEN k ELSE IF kept THEN store[q].capacity ELSE 0
  PROVE  Lists!Put(v, r, l, k)
<1>. DEFINE kept == {r} \cup {arr[w] : w \in Vars \ {v}}
<1>1. ASSUME NEW q \in Stores
      PROVE  /\ [i \in 1 .. store'[q].len |-> store'[q].data[i]] =
                  IF q = r THEN l ELSE IF q \in kept THEN [i \in 1 .. store[q].len |-> store[q].data[i]] ELSE <<>>
             /\ store'[q].capacity = IF q = r THEN k ELSE IF q \in kept THEN store[q].capacity ELSE 0
  BY DEF ItemsOf
<1>. QED
  BY <1>1 DEF Lists!Put

LEMMA ItemsAre ==
  ASSUME Storage, NEW a \in Vars
  PROVE  /\ Lists!Items(a) = [i \in 1 .. Length(a) |-> Data(a)[i]]
         /\ Lists!Cap(a) = IF arr[a] = Null THEN 0 ELSE store[arr[a]].capacity
<1>1. CASE arr[a] = Null
  <2>1. 1 .. Length(a) = {}
    BY <1>1 DEF Length
  <2>2. [i \in 1 .. Length(a) |-> Data(a)[i]] = <<>>
    BY <2>1
  <2>. QED
    BY <1>1, <2>2 DEF Lists!Items, Lists!Cap
<1>2. CASE arr[a] # Null
  <2>1. arr[a] \in Stores
    BY <1>2, DataTyped
  <2>. QED
    BY <1>2, <2>1 DEF Lists!Items, Lists!Cap, Length, Data
<1>. QED
  BY <1>1, <1>2

LEMMA EmptyItems == ItemsOf(NoStore) = <<>>
<1>1. 1 .. NoStore.len = {}
  BY NoStoreIsChunk
<1>. QED
  BY <1>1 DEF ItemsOf

\* A release leaves a chunk as it was, but for the count, or as if it had never been used.
LEMMA ResultKeeps ==
  ASSUME Typed, NEW v \in Vars, NEW s, NEW stores, NEW n,
         Ahead(s, stores, n), Result(v, s, stores, n), NEW t \in Stores
  PROVE  \/ store'[t] = NoStore
         \/ ItemsOf(store'[t]) = ItemsOf(stores[t]) /\ store'[t].capacity = stores[t].capacity
<1>1. stores \in [Stores -> Chunk] /\ stores[t] \in Chunk /\ arr[v] \in Stores \cup {Null}
  BY DEF Ahead, Typed
<1>2. CASE store' = stores
  BY <1>2
<1>3. CASE arr[v] # Null /\ store' = [stores EXCEPT ![arr[v]].count = @ - 1]
  <2>1. store'[t] = stores[t] \/ store'[t] = [stores[t] EXCEPT !.count = @ - 1]
    BY <1>1, <1>3
  <2>2. /\ [stores[t] EXCEPT !.count = @ - 1].len = stores[t].len
        /\ [stores[t] EXCEPT !.count = @ - 1].data = stores[t].data
        /\ [stores[t] EXCEPT !.count = @ - 1].capacity = stores[t].capacity
    BY <1>1 DEF Chunk
  <2>. QED
    BY <2>1, <2>2 DEF ItemsOf
<1>4. CASE arr[v] # Null /\ store' = [stores EXCEPT ![arr[v]] = NoStore]
  <2>1. store'[t] = stores[t] \/ store'[t] = NoStore
    BY <1>1, <1>4
  <2>. QED
    BY <2>1 DEF ItemsOf
<1>. QED
  BY <1>2, <1>3, <1>4 DEF Result

\* An operation that is done with Result puts the list of its result in v.
LEMMA ResultPuts ==
  ASSUME Storage, NEW v \in Vars, NEW s, NEW stores, NEW n,
         Ahead(s, stores, n), Result(v, s, stores, n), str' = str,
         \A t \in Stores \ {s} : stores[t] = store[t],
         NEW l, NEW k, s \in Stores => ItemsOf(stores[s]) = l /\ stores[s].capacity = k,
         sorting = Null, sorting' = Null
  PROVE  Lists!Put(v, s, l, k)
<1>1. Storage'
  BY ResultSound DEF Storage
<1>2. arr' = [arr EXCEPT ![v] = s] /\ arr \in [Vars -> Stores \cup {Null}]
  BY DEF Result, Storage, Typed
<1>3. arr'[v] = s /\ \A w \in Vars \ {v} : arr'[w] = arr[w]
  BY <1>2
<1>4. ASSUME NEW q \in Stores
      PROVE  LET kept == q = s \/ \E w \in Vars \ {v} : arr[w] = q
             IN  /\ ItemsOf(store'[q]) = IF q = s THEN l ELSE IF kept THEN ItemsOf(store[q]) ELSE <<>>
                 /\ store'[q].capacity = IF q = s THEN k ELSE IF kept THEN store[q].capacity ELSE 0
  <2>1. store'[q].count = Cardinality(Holding(Vars, arr', q))
    BY <1>1 DEF Storage, Exact
  <2>2. (\E w \in Vars : arr'[w] = q) <=> store'[q].count # 0
    <3>. DEFINE f == arr'
    <3>1. /\ Cardinality(Holding(Vars, f, q)) \in Nat
          /\ \A w \in Vars : f[w] = q => Cardinality(Holding(Vars, f, q)) > 0
          /\ (\A w \in Vars : f[w] # q) => Cardinality(Holding(Vars, f, q)) = 0
      BY HoldersCounted, DynArrayAssumption
    <3>. QED
      BY <2>1, <3>1
  <2>3. CASE q = s \/ \E w \in Vars \ {v} : arr[w] = q
    <3>1. store'[q] # NoStore
      BY <1>3, <2>2, <2>3, NoStoreIsChunk
    <3>2. ItemsOf(store'[q]) = ItemsOf(stores[q]) /\ store'[q].capacity = stores[q].capacity
      BY <3>1, ResultKeeps DEF Storage
    <3>. QED
      BY <2>3, <3>2
  <2>4. CASE ~(q = s \/ \E w \in Vars \ {v} : arr[w] = q)
    <3>1. \A w \in Vars : arr'[w] # q
      BY <1>3, <2>4
    <3>2. store'[q] = NoStore
      BY <1>1, <2>2, <3>1 DEF Storage, Unused
    <3>. QED
      BY <2>4, <3>2, EmptyItems, NoStoreIsChunk
  <2>. QED
    BY <2>3, <2>4
<1>. QED
  BY <1>2, <1>4, PutDone

-----------------------------------------------------------------------------
(* The lists that variables refer to.                                      *)

LEMMA ItemsTyped ==
  ASSUME Storage, NEW a \in Vars
  PROVE  /\ Lists!Items(a) \in Seq(Values) /\ Len(Lists!Items(a)) = Length(a)
         /\ \A i \in 1 .. Length(a) : Lists!Items(a)[i] = Data(a)[i]
<1>1. Lists!Items(a) = [i \in 1 .. Length(a) |-> Data(a)[i]]
  BY ItemsAre
<1>2. Length(a) \in Nat /\ \A i \in 1 .. Length(a) : Data(a)[i] \in Values
  <2>1. Length(a) \in 0 .. MaxLen /\ Data(a) \in [1 .. MaxLen -> Values]
    BY DataTyped
  <2>. QED
    BY <2>1, DynArrayAssumption
<1>. HIDE DEF Values
<1>. QED
  BY <1>1, <1>2

\* The list of the first n items of f
LEMMA ListOf ==
  ASSUME NEW n \in Nat, NEW f, \A i \in 1 .. n : f[i] \in Values
  PROVE  /\ [i \in 1 .. n |-> f[i]] \in Seq(Values)
         /\ Len([i \in 1 .. n |-> f[i]]) = n
OBVIOUS

LEMMA NewPuts ==
  ASSUME Storage, NEW v \in Vars, NEW len \in 0 .. MaxLen, NEW data,
         \A i \in 1 .. len : data[i] \in Values,
         ResultNew(v, len, data), str' = str, sorting = Null, sorting' = Null
  PROVE  Lists!PutNew(v, [i \in 1 .. len |-> data[i]])
<1>. DEFINE l == [i \in 1 .. len |-> data[i]]
<1>1. PICK s \in Stores, c \in Chunk : \E n : Made(v, len, data, s, c, n)
  BY NewAhead
<1>2. PICK n : Made(v, len, data, s, c, n)
  BY <1>1
<1>. DEFINE st == [store EXCEPT ![s] = c]
<1>3. st[s] = c /\ \A t \in Stores \ {s} : st[t] = store[t]
  BY DEF Storage, Typed
<1>4. ItemsOf(c) = l
  BY <1>2 DEF ItemsOf, Made
<1>5. Len(l) = len
  <2>1. len \in Nat
    BY DynArrayAssumption
  <2>. QED
    BY <2>1, ListOf
<1>6. Ahead(s, st, n) /\ Result(v, s, st, n) /\ ItemsOf(st[s]) = l /\ st[s].capacity = Capacity(len)
  BY <1>2, <1>3, <1>4 DEF Made
<1>. HIDE DEF l, st
<1>7. Lists!Put(v, s, l, Capacity(len))
  BY <1>3, <1>6, ResultPuts
<1>8. s \notin {arr[w] : w \in Vars}
  BY <1>2, DataTyped, DynArrayAssumption DEF Made
<1>9. Lists!PutNew(v, l)
  BY <1>5, <1>7, <1>8 DEF Lists!PutNew
<1>. QED
  BY <1>9 DEF l

LEMMA AlteredPuts ==
  ASSUME Storage, NEW v \in Vars, NEW s \in Stores, NEW len \in 0 .. MaxLen,
         NEW data, NEW n, str' = str, sorting = Null, sorting' = Null,
         NEW st, st = [store EXCEPT ![s] = Altered(store[s], len, data)],
         Ahead(s, st, n), Result(v, s, st, n), NEW k, k = store[s].capacity
  PROVE  Lists!Put(v, s, [i \in 1 .. len |-> data[i]], k)
<1>. DEFINE c == Altered(store[s], len, data)
<1>. PICK l : l = [i \in 1 .. len |-> data[i]]
  OBVIOUS
<1>1. c.len = len /\ c.data = data /\ c.capacity = k
  BY DEF Altered
<1>2. st[s] = c /\ \A t \in Stores \ {s} : st[t] = store[t]
  BY DEF Storage, Typed
<1>3. ItemsOf(c) = l
  BY <1>1 DEF ItemsOf
<1>4. ItemsOf(st[s]) = l /\ st[s].capacity = k
  BY <1>1, <1>2, <1>3
<1>5. \A t \in Stores \ {s} : st[t] = store[t]
  BY <1>2
<1>6. Lists!Put(v, s, l, k)
  BY <1>4, <1>5, ResultPuts
<1>. QED
  BY <1>6

LEMMA NothingPuts ==
  ASSUME Storage, NEW v \in Vars, str' = str, sorting = Null, sorting' = Null,
         Result(v, Null, store, count), NEW l, NEW k
  PROVE  Lists!Put(v, Null, l, k)
<1>1. Null \notin Stores
  BY DynArrayAssumption
<1>. QED
  BY <1>1, AheadOfNothing, ResultPuts

LEMMA AssignShares ==
  ASSUME Storage, NEW v \in Vars, NEW a \in Vars, Assign(v, a), sorting = Null
  PROVE  Lists!Assign(v, a)
<1>1. call = Null /\ call' = Null /\ sorting' = Null /\ str' = str
  BY DEF Assign, Running
<1>2. Lists!Put(v, arr[a], Lists!Items(a), Lists!Cap(a))
  <2>1. CASE arr[a] = Null
    <3>1. Result(v, Null, store, count)
      BY <2>1 DEF Assign
    <3>2. PICK l, k : l = Lists!Items(a) /\ k = Lists!Cap(a)
      OBVIOUS
    <3>3. Lists!Put(v, Null, l, k)
      BY <1>1, <3>1, NothingPuts
    <3>. QED
      BY <2>1, <3>2, <3>3 DEF Lists!Put
  <2>2. CASE arr[a] # Null
    <3>0. PICK s : s = arr[a]
      OBVIOUS
    <3>. DEFINE c == [store[s] EXCEPT !.count = store[s].count + 1]
    <3>1. PICK st : st = [store EXCEPT ![s] = c]
      OBVIOUS
    <3>2. PICK l, k, n : l = Lists!Items(a) /\ k = Lists!Cap(a) /\ n = count
      OBVIOUS
    <3>3. /\ Ahead(s, st, n) /\ Result(v, s, st, n)
          /\ c.len = store[s].len /\ c.capacity = store[s].capacity /\ c.data = store[s].data
      BY <2>2, <3>0, <3>1, <3>2, AssignAhead
    <3>4. s \in Stores /\ store \in [Stores -> Chunk]
      BY <2>2, <3>0, DataTyped DEF Storage, Typed
    <3>5. st[s] = c /\ \A t \in Stores \ {s} : st[t] = store[t]
      BY <3>1, <3>4
    <3>6. ItemsOf(c) = l /\ c.capacity = k
      <4>1. /\ l = [i \in 1 .. Length(a) |-> Data(a)[i]] /\ k = store[s].capacity
            /\ Length(a) = store[s].len /\ Data(a) = store[s].data
        BY <2>2, <3>0, <3>2, ItemsAre, DataTyped
      <4>. HIDE DEF c
      <4>. QED
        BY <3>3, <4>1 DEF ItemsOf
    <3>7. ItemsOf(st[s]) = l /\ st[s].capacity = k
      BY <3>5, <3>6
    <3>8. \A t \in Stores \ {s} : st[t] = store[t]
      BY <3>5
    <3>9. Lists!Put(v, s, l, k)
      BY <1>1, <3>3, <3>7, <3>8, ResultPuts
    <3>. QED
      BY <3>0, <3>2, <3>9 DEF Lists!Put
  <2>. QED
    BY <2>1, <2>2
<1>. QED
  BY <1>1, <1>2 DEF Lists!Assign

LEMMA MakeMakes ==
  ASSUME Storage, NEW v \in Vars, NEW len \in 0 .. MaxLen, Make(v, len), sorting = Null
  PROVE  Lists!Make(v, len)
<1>1. call = Null /\ call' = Null /\ sorting' = Null /\ str' = str
  BY DEF Make, Running
<1>2. \A i \in 1 .. len : NoStore.data[i] = Null
  <2>1. \A i \in 1 .. len : i \in 1 .. MaxLen
    BY DynArrayAssumption
  <2>. QED
    BY <2>1 DEF NoStore
<1>3. Lists!PutNew(v, [i \in 1 .. len |-> NoStore.data[i]])
  <2>1. \A i \in 1 .. len : NoStore.data[i] \in Values
    BY <1>2 DEF Values
  <2>2. ResultNew(v, len, NoStore.data)
    BY DEF Make
  <2>. QED
    BY <1>1, <2>1, <2>2, NewPuts
<1>4. [i \in 1 .. len |-> NoStore.data[i]] = [i \in 1 .. len |-> Null]
  BY <1>2
<1>. QED
  BY <1>1, <1>3, <1>4 DEF Lists!Make

LEMMA SliceCopies ==
  ASSUME Storage, NEW v \in Vars, NEW a \in Vars,
         NEW first \in 0 .. MaxLen, NEW last \in 0 .. MaxLen, Slice(v, a, first, last), sorting = Null
  PROVE  Lists!Slice(v, a, first, last)
<1>. DEFINE len == last - first
            data == [i \in 1 .. len |-> Data(a)[first + i]]
            l == Lists!Items(a)
<1>1. call = Null /\ call' = Null /\ sorting' = Null /\ str' = str
  BY DEF Slice, Running
<1>2. first <= last /\ last <= Length(a) /\ ResultNew(v, len, data) /\ first \in Nat /\ last \in Nat
  BY DynArrayAssumption DEF Slice
<1>3. /\ l \in Seq(Values) /\ Len(l) = Length(a) /\ \A i \in 1 .. Length(a) : l[i] = Data(a)[i]
      /\ Length(a) \in 0 .. MaxLen /\ Length(a) \in Nat
  BY ItemsTyped, DataTyped, DynArrayAssumption
<1>4. len \in 0 .. MaxLen /\ len \in Nat /\ \A i \in 1 .. len : first + i \in 1 .. Length(a)
  BY <1>2, <1>3, DynArrayAssumption
<1>. HIDE DEF l
<1>5. /\ SubSeq(l, first + 1, last) \in Seq(Values)
      /\ Len(SubSeq(l, first + 1, last)) = len
      /\ \A i \in 1 .. len : SubSeq(l, first + 1, last)[i] = l[first + i]
  <2>1. first + 1 \in Int /\ last \in Int /\ last - (first + 1) + 1 = len
    BY <1>2
  <2>2. \A i \in first + 1 .. last : l[i] \in Values
    <3>1. \A i \in first + 1 .. last : i \in 1 .. Len(l)
      BY <1>2, <1>3
    <3>. QED
      BY <1>3, <3>1, ElementOfSeq
  <2>3. /\ SubSeq(l, first + 1, last) \in Seq(Values)
        /\ Len(SubSeq(l, first + 1, last)) = IF first + 1 <= last THEN len ELSE 0
        /\ \A i \in 1 .. len : SubSeq(l, first + 1, last)[i] = l[first + 1 + i - 1]
    BY <2>1, <2>2, SubSeqProperties
  <2>4. \A i \in 1 .. len : first + 1 + i - 1 = first + i
    BY <1>2
  <2>5. (IF first + 1 <= last THEN len ELSE 0) = len
    BY <1>2
  <2>. QED
    BY <2>3, <2>4, <2>5
<1>6. \A i \in 1 .. len : data[i] = l[first + i] /\ data[i] \in Values
  <2>1. \A i \in 1 .. len : l[first + i] = Data(a)[first + i] /\ l[first + i] \in Values
    BY <1>3, <1>4, ElementOfSeq
  <2>. QED
    BY <2>1
<1>7. [i \in 1 .. len |-> data[i]] = SubSeq(l, first + 1, last)
  <2>. HIDE DEF data, len
  <2>1. [i \in 1 .. len |-> data[i]] \in Seq(Values) /\ Len([i \in 1 .. len |-> data[i]]) = len
    BY <1>4, <1>6, ListOf
  <2>2. \A i \in 1 .. len : [j \in 1 .. len |-> data[j]][i] = SubSeq(l, first + 1, last)[i]
    BY <1>5, <1>6
  <2>. QED
    BY <1>5, <2>1, <2>2, SeqEqual
<1>8. PICK d : d = data
  OBVIOUS
<1>. HIDE DEF data, len
<1>9. ResultNew(v, len, d) /\ \A i \in 1 .. len : d[i] \in Values
  BY <1>2, <1>6, <1>8
<1>10. Lists!PutNew(v, [i \in 1 .. len |-> d[i]])
  BY <1>1, <1>4, <1>9, NewPuts
<1>11. [i \in 1 .. len |-> d[i]] = SubSeq(l, first + 1, last)
  BY <1>7, <1>8
<1>12. Lists!PutNew(v, SubSeq(l, first + 1, last))
  BY <1>10, <1>11 DEF Lists!Put, Lists!PutNew
<1>. QED
  BY <1>1, <1>2, <1>3, <1>12 DEF Lists!Slice, l

-----------------------------------------------------------------------------
(* Lists with an item removed or inserted.                                 *)

LEMMA SubSeqIs ==
  ASSUME NEW S, NEW l \in Seq(S), NEW m \in 1 .. Len(l) + 1, NEW n \in m - 1 .. Len(l)
  PROVE  /\ SubSeq(l, m, n) \in Seq(S) /\ Len(SubSeq(l, m, n)) = n - m + 1
         /\ \A i \in 1 .. n - m + 1 : SubSeq(l, m, n)[i] = l[m + i - 1]
<1>1. Len(l) \in Nat /\ m \in Int /\ n \in Int
  <2>1. Len(l) \in Nat
    BY LenProperties
  <2>. QED
    BY <2>1
<1>2. \A i \in m .. n : l[i] \in S
  <2>1. \A i \in m .. n : i \in 1 .. Len(l)
    BY <1>1
  <2>. QED
    BY <2>1, ElementOfSeq
<1>3. /\ SubSeq(l, m, n) \in Seq(S)
      /\ Len(SubSeq(l, m, n)) = IF m <= n THEN n - m + 1 ELSE 0
      /\ \A i \in 1 .. n - m + 1 : SubSeq(l, m, n)[i] = l[m + i - 1]
  BY <1>1, <1>2, SubSeqProperties
<1>4. (IF m <= n THEN n - m + 1 ELSE 0) = n - m + 1
  BY <1>1
<1>. QED
  BY <1>3, <1>4

LEMMA RemovedIs ==
  ASSUME NEW S, NEW l \in Seq(S), NEW at \in 1 .. Len(l)
  PROVE  /\ RemoveAt(l, at) \in Seq(S) /\ Len(RemoveAt(l, at)) = Len(l) - 1
         /\ \A i \in 1 .. Len(l) - 1 : RemoveAt(l, at)[i] = IF i < at THEN l[i] ELSE l[i + 1]
<1>. DEFINE f == SubSeq(l, 1, at - 1)
            g == SubSeq(l, at + 1, Len(l))
<1>1. Len(l) \in Nat /\ at \in Nat /\ 1 <= at /\ at <= Len(l)
  <2>1. Len(l) \in Nat
    BY LenProperties
  <2>. QED
    BY <2>1
<1>2. f \in Seq(S) /\ Len(f) = at - 1 /\ \A i \in 1 .. at - 1 : f[i] = l[i]
  <2>1. 1 \in 1 .. Len(l) + 1 /\ at - 1 \in 1 - 1 .. Len(l) /\ at - 1 - 1 + 1 = at - 1
    BY <1>1
  <2>2. f \in Seq(S) /\ Len(f) = at - 1 - 1 + 1 /\ \A i \in 1 .. at - 1 - 1 + 1 : f[i] = l[1 + i - 1]
    BY <2>1, SubSeqIs
  <2>3. \A i \in 1 .. at - 1 : 1 + i - 1 = i
    BY <1>1
  <2>. QED
    BY <2>1, <2>2, <2>3
<1>3. g \in Seq(S) /\ Len(g) = Len(l) - at /\ \A i \in 1 .. Len(l) - at : g[i] = l[at + i]
  <2>1. at + 1 \in 1 .. Len(l) + 1 /\ Len(l) \in (at + 1) - 1 .. Len(l) /\ Len(l) - (at + 1) + 1 = Len(l) - at
    BY <1>1
  <2>2. /\ g \in Seq(S) /\ Len(g) = Len(l) - (at + 1) + 1
        /\ \A i \in 1 .. Len(l) - (at + 1) + 1 : g[i] = l[at + 1 + i - 1]
    BY <2>1, SubSeqIs
  <2>3. \A i \in 1 .. Len(l) - at : at + 1 + i - 1 = at + i
    BY <1>1
  <2>. QED
    BY <2>1, <2>2, <2>3
<1>4. RemoveAt(l, at) = f \o g
  BY DEF RemoveAt
<1>. HIDE DEF f, g
<1>5. /\ f \o g \in Seq(S) /\ Len(f \o g) = Len(f) + Len(g)
      /\ \A i \in 1 .. Len(f) + Len(g) : (f \o g)[i] = IF i <= Len(f) THEN f[i] ELSE g[i - Len(f)]
  BY <1>2, <1>3, ConcatProperties
<1>6. Len(f) + Len(g) = Len(l) - 1
  BY <1>1, <1>2, <1>3
<1>7. ASSUME NEW i \in 1 .. Len(l) - 1 PROVE (f \o g)[i] = IF i < at THEN l[i] ELSE l[i + 1]
  <2>1. CASE i < at
    <3>1. i \in 1 .. at - 1 /\ i <= Len(f)
      BY <1>1, <1>2, <2>1
    <3>. QED
      BY <1>2, <1>5, <1>6, <2>1, <3>1
  <2>2. CASE ~(i < at)
    <3>1. ~(i <= Len(f)) /\ i - Len(f) \in 1 .. Len(l) - at /\ at + (i - Len(f)) = i + 1
      BY <1>1, <1>2, <2>2
    <3>. QED
      BY <1>3, <1>5, <1>6, <2>2, <3>1
  <2>. QED
    BY <2>1, <2>2
<1>. QED
  BY <1>4, <1>5, <1>6, <1>7

LEMMA InsertedIs ==
  ASSUME NEW S, NEW l \in Seq(S), NEW at \in 1 .. Len(l) + 1, NEW e \in S
  PROVE  /\ InsertAt(l, at, e) \in Seq(S) /\ Len(InsertAt(l, at, e)) = Len(l) + 1
         /\ \A i \in 1 .. Len(l) + 1 :
              InsertAt(l, at, e)[i] = IF i < at THEN l[i] ELSE IF i = at THEN e ELSE l[i - 1]
<1>. DEFINE f == SubSeq(l, 1, at - 1)
            h == <<e>>
            g == SubSeq(l, at, Len(l))
<1>1. Len(l) \in Nat /\ at \in Nat /\ 1 <= at /\ at <= Len(l) + 1
  <2>1. Len(l) \in Nat
    BY LenProperties
  <2>. QED
    BY <2>1
<1>2. f \in Seq(S) /\ Len(f) = at - 1 /\ \A i \in 1 .. at - 1 : f[i] = l[i]
  <2>1. 1 \in 1 .. Len(l) + 1 /\ at - 1 \in 1 - 1 .. Len(l) /\ at - 1 - 1 + 1 = at - 1
    BY <1>1
  <2>2. f \in Seq(S) /\ Len(f) = at - 1 - 1 + 1 /\ \A i \in 1 .. at - 1 - 1 + 1 : f[i] = l[1 + i - 1]
    BY <2>1, SubSeqIs
  <2>3. \A i \in 1 .. at - 1 : 1 + i - 1 = i
    BY <1>1
  <2>. QED
    BY <2>1, <2>2, <2>3
<1>3. g \in Seq(S) /\ Len(g) = Len(l) - at + 1 /\ \A i \in 1 .. Len(l) - at + 1 : g[i] = l[at + i - 1]
  <2>1. at \in 1 .. Len(l) + 1 /\ Len(l) \in at - 1 .. Len(l)
    BY <1>1
  <2>. QED
    BY <2>1, SubSeqIs
<1>4. h \in Seq(S) /\ Len(h) = 1 /\ h[1] = e
  OBVIOUS
<1>5. InsertAt(l, at, e) = f \o h \o g
  BY DEF InsertAt
<1>. HIDE DEF f, g, h
<1>6. /\ f \o h \in Seq(S) /\ Len(f \o h) = Len(f) + Len(h)
      /\ \A i \in 1 .. Len(f) + Len(h) : (f \o h)[i] = IF i <= Len(f) THEN f[i] ELSE h[i - Len(f)]
  BY <1>2, <1>4, ConcatProperties
<1>. DEFINE fh == f \o h
<1>7. fh \in Seq(S) /\ Len(fh) = at /\ fh[at] = e /\ \A i \in 1 .. at - 1 : fh[i] = l[i]
  <2>1. Len(f) + Len(h) = at
    BY <1>1, <1>2, <1>4
  <2>2. at \in 1 .. at /\ ~(at <= Len(f)) /\ at - Len(f) = 1
    BY <1>1, <1>2
  <2>3. \A i \in 1 .. at - 1 : i \in 1 .. at /\ i <= Len(f)
    BY <1>1, <1>2
  <2>. QED
    BY <1>2, <1>4, <1>6, <2>1, <2>2, <2>3
<1>. HIDE DEF fh
<1>8. /\ fh \o g \in Seq(S) /\ Len(fh \o g) = Len(fh) + Len(g)
      /\ \A i \in 1 .. Len(fh) + Len(g) : (fh \o g)[i] = IF i <= Len(fh) THEN fh[i] ELSE g[i - Len(fh)]
  BY <1>3, <1>7, ConcatProperties
<1>9. Len(fh) + Len(g) = Len(l) + 1
  BY <1>1, <1>3, <1>7
<1>10. ASSUME NEW i \in 1 .. Len(l) + 1
       PROVE  (fh \o g)[i] = IF i < at THEN l[i] ELSE IF i = at THEN e ELSE l[i - 1]
  <2>1. CASE i < at
    <3>1. i \in 1 .. at - 1 /\ i <= Len(fh)
      BY <1>1, <1>7, <2>1
    <3>. QED
      BY <1>7, <1>8, <1>9, <2>1, <3>1
  <2>2. CASE i = at
    <3>1. i <= Len(fh) /\ ~(i < at)
      BY <1>1, <1>7, <2>2
    <3>. QED
      BY <1>7, <1>8, <1>9, <2>2, <3>1
  <2>3. CASE ~(i < at) /\ i # at
    <3>1. ~(i <= Len(fh)) /\ i - Len(fh) \in 1 .. Len(l) - at + 1 /\ at + (i - Len(fh)) - 1 = i - 1
      BY <1>1, <1>7, <2>3
    <3>. QED
      BY <1>3, <1>8, <1>9, <2>3, <3>1
  <2>. QED
    BY <2>1, <2>2, <2>3
<1>. QED
  BY <1>5, <1>8, <1>9, <1>10 DEF fh

-----------------------------------------------------------------------------
(* The operations alter lists as they should.                              *)

\* A list is what is given by its length and its items.
LEMMA ListIs ==
  ASSUME NEW n \in Nat, NEW f, NEW l \in Seq(Values), Len(l) = n, \A i \in 1 .. n : l[i] = f[i]
  PROVE  [i \in 1 .. n |-> f[i]] = l
<1>1. l = [i \in 1 .. n |-> l[i]]
  BY LenProperties
<1>. QED
  BY <1>1

LEMMA DeleteRemoves ==
  ASSUME Storage, NEW v \in Vars, NEW a \in Vars, NEW at \in 1 .. MaxLen, Delete(v, a, at), sorting = Null
  PROVE  Lists!Delete(v, a, at - 1)
<1>1. call = Null /\ call' = Null /\ sorting' = Null /\ str' = str /\ arr[a] # Null /\ at <= Length(a)
  BY DEF Delete, Running
<1>2. /\ Length(a) \in 0 .. MaxLen /\ Data(a) \in [1 .. MaxLen -> Values]
      /\ arr[a] \in Stores /\ Lists!Cap(a) = store[arr[a]].capacity
  BY <1>1, DataTyped, ItemsAre
<1>3. PICK s, k, l, d : /\ s = arr[a] /\ k = Lists!Cap(a) /\ l = Lists!Items(a)
                        /\ d = Deleted(Data(a), Length(a), at)
  OBVIOUS
<1>4. PICK L \in 0 .. MaxLen : L = Length(a)
  BY <1>2
<1>5. PICK n : n = Minus(count, Data(a), {at})
  OBVIOUS
<1>6. PICK st : st = [store EXCEPT ![s] = Altered(store[s], L - 1, d)]
  OBVIOUS
<1>7. L \in Nat /\ L - 1 \in 0 .. MaxLen /\ L - 1 \in Nat /\ at \in 1 .. L /\ at - 1 + 1 = at /\ at - 1 < L
  BY <1>1, <1>4, DynArrayAssumption
<1>8. Ahead(s, st, n) /\ Result(v, s, st, n)
  BY <1>3, <1>4, <1>5, <1>6, DeleteAhead
<1>9. Lists!Put(v, s, [i \in 1 .. L - 1 |-> d[i]], k)
  <2>1. s \in Stores /\ k = store[s].capacity
    BY <1>2, <1>3
  <2>2. PICK m \in 0 .. MaxLen : m = L - 1
    BY <1>7
  <2>3. Lists!Put(v, s, [i \in 1 .. m |-> d[i]], k)
    BY <1>1, <1>6, <1>8, <2>1, <2>2, AlteredPuts
  <2>. QED
    BY <2>2, <2>3
<1>10. l \in Seq(Values) /\ Len(l) = L /\ \A i \in 1 .. L : l[i] = Data(a)[i]
  BY <1>3, <1>4, ItemsTyped
<1>11. /\ RemoveAt(l, at) \in Seq(Values) /\ Len(RemoveAt(l, at)) = L - 1
       /\ \A i \in 1 .. L - 1 : RemoveAt(l, at)[i] = IF i < at THEN l[i] ELSE l[i + 1]
  BY <1>7, <1>10, RemovedIs
<1>12. \A i \in 1 .. L - 1 : RemoveAt(l, at)[i] = d[i]
  <2>1. ASSUME NEW i \in 1 .. L - 1
        PROVE  d[i] = IF i < at THEN Data(a)[i] ELSE Data(a)[i + 1]
    <3>1. i \in 1 .. MaxLen /\ i < L /\ i # L
      BY <1>7, DynArrayAssumption
    <3>. QED
      BY <1>3, <1>4, <1>7, <3>1 DEF Deleted
  <2>2. \A i \in 1 .. L - 1 : i \in 1 .. L /\ i + 1 \in 1 .. L
    BY <1>7
  <2>. QED
    BY <1>10, <1>11, <2>1, <2>2
<1>13. [i \in 1 .. L - 1 |-> d[i]] = RemoveAt(l, at)
  BY <1>7, <1>11, <1>12, ListIs
<1>14. Lists!Put(v, arr[a], Lists!RemoveAt(Lists!Items(a), at - 1 + 1), Lists!Cap(a))
  <2>1. Lists!RemoveAt(Lists!Items(a), at - 1 + 1) = RemoveAt(l, at)
    BY <1>3, <1>7 DEF Lists!RemoveAt, RemoveAt
  <2>. QED
    BY <1>3, <1>9, <1>13, <2>1 DEF Lists!Put
<1>15. Len(Lists!Items(a)) = L
  BY <1>3, <1>10
<1>. QED
  BY <1>1, <1>7, <1>14, <1>15 DEF Lists!Delete, Lists!Put

\* append() and insert() leave the list l, in the same chunk or in another one.
LEMMA GrowPuts ==
  ASSUME Storage, NEW v \in Vars, NEW a \in Vars,
         NEW len \in 0 .. MaxLen, NEW data \in [1 .. MaxLen -> Values], NEW D, IsFiniteSet(D),
         \A x : Occurrences(x, data, 1 .. len) =
                  Occurrences(x, Data(a), 1 .. Length(a)) + Occurrences(x, data, D),
         Grow(v, a, len, data, D), str' = str, sorting = Null, sorting' = Null,
         NEW l \in Seq(Values), Len(l) = len, \A i \in 1 .. len : l[i] = data[i]
  PROVE  Lists!PutGrown(v, a, l)
<1>0. len \in Nat
  BY DynArrayAssumption
<1>1. [i \in 1 .. len |-> data[i]] = l
  BY <1>0, ListIs
<1>2. Lists!Cap(a) = IF arr[a] = Null THEN 0 ELSE store[arr[a]].capacity
  BY ItemsAre
<1>3. CASE arr[a] = Null /\ len = 0
  <2>1. Result(v, Null, store, count)
    BY <1>3 DEF Grow
  <2>2. PICK k : k = Lists!Cap(a)
    OBVIOUS
  <2>3. Lists!Put(v, Null, l, k)
    BY <2>1, NothingPuts
  <2>4. Lists!Put(v, arr[a], l, Lists!Cap(a))
    BY <1>3, <2>2, <2>3 DEF Lists!Put
  <2>. QED
    BY <1>2, <1>3, <2>4 DEF Lists!PutGrown
<1>4. CASE arr[a] # Null /\ len <= store[arr[a]].capacity
  <2>1. PICK s, k, n : s = arr[a] /\ k = Lists!Cap(a) /\ n = Plus(count, data, D)
    OBVIOUS
  <2>2. PICK st : st = [store EXCEPT ![s] = Altered(store[s], len, data)]
    OBVIOUS
  <2>3. Ahead(s, st, n)
    BY <1>4, <2>1, <2>2, GrowAhead
  <2>4. Result(v, s, st, n)
    BY <1>4, <2>1, <2>2 DEF Grow, ResultAltered
  <2>5. s \in Stores /\ k = store[s].capacity
    BY <1>2, <1>4, <2>1, DataTyped
  <2>6. Lists!Put(v, s, [i \in 1 .. len |-> data[i]], k)
    BY <2>2, <2>3, <2>4, <2>5, AlteredPuts
  <2>7. Lists!Put(v, arr[a], l, Lists!Cap(a))
    BY <1>1, <2>1, <2>6 DEF Lists!Put
  <2>. QED
    BY <1>2, <1>4, <2>7 DEF Lists!PutGrown
<1>5. CASE ~(arr[a] = Null /\ len = 0) /\ ~(arr[a] # Null /\ len <= store[arr[a]].capacity)
  <2>1. ResultNew(v, len, data)
    BY <1>5 DEF Grow
  <2>2. \A i \in 1 .. len : data[i] \in Values
    <3>1. \A i \in 1 .. len : i \in 1 .. MaxLen
      BY DynArrayAssumption
    <3>. QED
      BY <3>1
  <2>3. Lists!PutNew(v, [i \in 1 .. len |-> data[i]])
    BY <2>1, <2>2, NewPuts
  <2>4. Lists!PutNew(v, l)
    BY <1>1, <2>3
  <2>5. ~(Len(l) <= Lists!Cap(a))
    BY <1>0, <1>2, <1>5
  <2>. QED
    BY <2>4, <2>5 DEF Lists!PutGrown
<1>. QED
  BY <1>3, <1>4, <1>5

LEMMA AppendAllAppends ==
  ASSUME Storage, NEW v \in Vars, NEW a \in Vars, NEW b \in Vars, AppendAll(v, a, b), sorting = Null
  PROVE  Lists!AppendAll(v, a, b)
<1>1. call = Null /\ call' = Null /\ sorting' = Null /\ str' = str
  BY DEF AppendAll, Running
<1>2. PICK L \in 0 .. MaxLen, M \in 0 .. MaxLen : L = Length(a) /\ M = Length(b)
  BY DataTyped
<1>3. PICK f \in [1 .. MaxLen -> Values], h \in [1 .. MaxLen -> Values] : f = Data(a) /\ h = Data(b)
  BY DataTyped
<1>4. PICK l, m : l = Lists!Items(a) /\ m = Lists!Items(b)
  OBVIOUS
<1>5. PICK data : data = Appended(f, L, h, M)
  OBVIOUS
<1>6. /\ L \in Nat /\ M \in Nat /\ L + M <= MaxLen /\ L + M \in 0 .. MaxLen
      /\ Grow(v, a, L + M, data, L + 1 .. L + M)
  BY <1>2, <1>3, <1>5, DynArrayAssumption DEF AppendAll
<1>7. /\ l \in Seq(Values) /\ Len(l) = L /\ \A i \in 1 .. L : l[i] = f[i]
      /\ m \in Seq(Values) /\ Len(m) = M /\ \A i \in 1 .. M : m[i] = h[i]
  BY <1>2, <1>3, <1>4, ItemsTyped
<1>8. /\ l \o m \in Seq(Values) /\ Len(l \o m) = L + M
      /\ \A i \in 1 .. L + M : (l \o m)[i] = IF i <= L THEN l[i] ELSE m[i - L]
  BY <1>7, ConcatProperties
<1>9. ASSUME NEW i \in 1 .. L + M PROVE (l \o m)[i] = data[i]
  <2>1. i \in 1 .. MaxLen
    BY <1>6, DynArrayAssumption
  <2>2. data[i] = IF L < i /\ i <= L + M THEN h[i - L] ELSE f[i]
    BY <1>5, <2>1 DEF Appended
  <2>3. CASE i <= L
    <3>1. i \in 1 .. L /\ ~(L < i)
      BY <1>6, <2>3
    <3>. QED
      BY <1>7, <1>8, <2>2, <2>3, <3>1
  <2>4. CASE ~(i <= L)
    <3>1. i - L \in 1 .. M /\ L < i /\ i <= L + M
      BY <1>6, <2>4
    <3>. QED
      BY <1>7, <1>8, <2>2, <2>4, <3>1
  <2>. QED
    BY <2>3, <2>4
<1>10. data \in [1 .. MaxLen -> Values]
  BY <1>5, <1>6, AppendedTyped
<1>11. \A x : Occurrences(x, data, 1 .. L + M) =
                Occurrences(x, Data(a), 1 .. Length(a)) + Occurrences(x, data, L + 1 .. L + M)
  BY <1>2, <1>3, <1>5, <1>6, AppendedCounts
<1>12. Lists!PutGrown(v, a, l \o m)
  <2>1. PICK n \in 0 .. MaxLen : n = L + M
    BY <1>6
  <2>2. PICK D : D = L + 1 .. L + M
    OBVIOUS
  <2>3. IsFiniteSet(D)
    BY <1>6, <2>2, FS_Interval
  <2>4. PICK k \in Seq(Values) : k = l \o m
    BY <1>8
  <2>5. Grow(v, a, n, data, D)
    BY <1>6, <2>1, <2>2
  <2>6. Len(k) = n /\ \A i \in 1 .. n : k[i] = data[i]
    BY <1>8, <1>9, <2>1, <2>4
  <2>7. \A x : Occurrences(x, data, 1 .. n) =
                 Occurrences(x, Data(a), 1 .. Length(a)) + Occurrences(x, data, D)
    BY <1>11, <2>1, <2>2
  <2>8. Lists!PutGrown(v, a, k)
    BY <1>1, <1>10, <2>3, <2>5, <2>6, <2>7, GrowPuts
  <2>. QED
    BY <2>4, <2>8
<1>13. Lists!PutGrown(v, a, Lists!Items(a) \o Lists!Items(b))
  BY <1>4, <1>12 DEF Lists!PutGrown, Lists!PutNew, Lists!Put
<1>. QED
  BY <1>1, <1>13 DEF Lists!AppendAll

LEMMA InsertReturns ==
  ASSUME Storage, CallSound, NEW v \in Vars, Insert(v), sorting = Null, ~ItemOfItself
  PROVE  Lists!Return(v)
<1>1. call # Null /\ call' = Null /\ sorting' = Null /\ str' = str
  BY DEF Insert
<1>2. PICK a \in Vars : a = call.arr
  BY <1>1 DEF CallSound
<1>3. PICK L \in 0 .. MaxLen : L = Length(a)
  BY DataTyped
<1>4. PICK at \in 1 .. L + 1 : at = call.at
  BY <1>1, <1>2, <1>3 DEF CallSound
<1>5. PICK y \in Values : y = Read(a, at, call.item)
  BY <1>1, <1>2, <1>4, ReadTyped
<1>6. PICK f \in [1 .. MaxLen -> Values] : f = Data(a)
  BY DataTyped
<1>7. PICK data : data = Inserted(f, L, at, y)
  OBVIOUS
<1>8. L \in Nat /\ at \in Nat /\ L < MaxLen /\ L + 1 \in 0 .. MaxLen
  BY <1>1, <1>2, <1>3, DynArrayAssumption DEF CallSound
<1>9. Grow(v, a, L + 1, data, {at})
  BY <1>2, <1>3, <1>4, <1>5, <1>6, <1>7 DEF Insert
\* The item has not moved: it is not in the part of the array that does.
<1>10. y = At(call.item)
  BY <1>1, <1>2, <1>4, <1>5 DEF CallSound, Read
<1>11. PICK l : l = Lists!Items(a)
  OBVIOUS
<1>12. l \in Seq(Values) /\ Len(l) = L /\ \A i \in 1 .. L : l[i] = f[i]
  BY <1>3, <1>6, <1>11, ItemsTyped
<1>. l \in Seq(Values)
  BY <1>12
<1>13. /\ InsertAt(l, at, y) \in Seq(Values) /\ Len(InsertAt(l, at, y)) = L + 1
       /\ \A i \in 1 .. L + 1 :
            InsertAt(l, at, y)[i] = IF i < at THEN l[i] ELSE IF i = at THEN y ELSE l[i - 1]
  <2>1. PICK p \in 1 .. Len(l) + 1 : p = at
    BY <1>12
  <2>2. /\ InsertAt(l, p, y) \in Seq(Values) /\ Len(InsertAt(l, p, y)) = Len(l) + 1
        /\ \A i \in 1 .. Len(l) + 1 :
             InsertAt(l, p, y)[i] = IF i < p THEN l[i] ELSE IF i = p THEN y ELSE l[i - 1]
    BY InsertedIs
  <2>. QED
    BY <1>12, <2>1, <2>2
<1>14. ASSUME NEW i \in 1 .. L + 1 PROVE InsertAt(l, at, y)[i] = data[i]
  <2>1. i \in 1 .. MaxLen
    BY <1>8, DynArrayAssumption
  <2>2. data[i] = IF i = at THEN y ELSE IF at < i /\ i <= L + 1 THEN f[i - 1] ELSE f[i]
    BY <1>7, <2>1 DEF Inserted
  <2>3. CASE i < at
    <3>1. i \in 1 .. L /\ i # at /\ ~(at < i)
      BY <1>8, <2>3
    <3>. QED
      BY <1>12, <1>13, <2>2, <2>3, <3>1
  <2>4. CASE i = at
    <3>1. ~(i < at)
      BY <1>8, <2>4
    <3>. QED
      BY <1>13, <2>2, <2>4, <3>1
  <2>5. CASE ~(i < at) /\ i # at
    <3>1. i - 1 \in 1 .. L /\ at < i /\ i <= L + 1
      BY <1>8, <2>5
    <3>. QED
      BY <1>12, <1>13, <2>2, <2>5, <3>1
  <2>. QED
    BY <2>3, <2>4, <2>5
<1>15. data \in [1 .. MaxLen -> Values]
  BY <1>7, InsertedTyped
<1>16. \A x : Occurrences(x, data, 1 .. L + 1) =
                Occurrences(x, Data(a), 1 .. Length(a)) + Occurrences(x, data, {at})
  BY <1>3, <1>6, <1>7, <1>8, InsertedCounts
<1>17. Lists!PutGrown(v, a, InsertAt(l, at, y))
  <2>1. PICK n \in 0 .. MaxLen : n = L + 1
    BY <1>8
  <2>2. PICK D : D = {at}
    OBVIOUS
  <2>3. IsFiniteSet(D)
    BY <2>2, FS_Singleton
  <2>4. PICK k \in Seq(Values) : k = InsertAt(l, at, y)
    BY <1>13
  <2>5. Grow(v, a, n, data, D)
    BY <1>9, <2>1, <2>2
  <2>6. Len(k) = n /\ \A i \in 1 .. n : k[i] = data[i]
    BY <1>13, <1>14, <2>1, <2>4
  <2>7. \A x : Occurrences(x, data, 1 .. n) =
                 Occurrences(x, Data(a), 1 .. Length(a)) + Occurrences(x, data, D)
    BY <1>16, <2>1, <2>2
  <2>8. Lists!PutGrown(v, a, k)
    BY <1>1, <1>15, <2>3, <2>5, <2>6, <2>7, GrowPuts
  <2>. QED
    BY <2>4, <2>8
<1>. DEFINE c == IF call = Null THEN Null
                 ELSE [arr |-> call.arr, index |-> call.at - 1, item |-> At(call.item)]
<1>18. c.arr = a /\ c.index + 1 = at /\ c.item = y /\ c \in [arr : Vars, index : 0 .. MaxLen, item : Values]
  <2>1. call.at - 1 \in 0 .. MaxLen /\ call.at - 1 + 1 = at
    BY <1>4, <1>8, DynArrayAssumption
  <2>. QED
    BY <1>1, <1>2, <1>4, <1>10, <2>1
<1>19. c # Null
  BY <1>18, NullAssumption
<1>. HIDE DEF c
<1>20. Lists!PutGrown(v, c.arr, Lists!InsertAt(Lists!Items(c.arr), c.index + 1, c.item))
  <2>1. Lists!InsertAt(Lists!Items(c.arr), c.index + 1, c.item) = InsertAt(l, at, y)
    BY <1>11, <1>18 DEF Lists!InsertAt, InsertAt
  <2>. QED
    BY <1>17, <1>18, <2>1 DEF Lists!PutGrown, Lists!PutNew, Lists!Put
<1>. QED
  BY <1>1, <1>19, <1>20 DEF Lists!Return, c, Lists!PutGrown, Lists!PutNew, Lists!Put

-----------------------------------------------------------------------------
(* Items set, calls and sorts.                                             *)

\* What changes neither the arrays nor what is sorted, nobody sees.
LEMMA NothingSeen ==
  ASSUME arr' = arr, store' = store, call = Null, call' = Null,
         sorting = Null <=> sorting' = Null, sorting # Null => sorting'.store = sorting.store
  PROVE  UNCHANGED Lists!vars
<1>1. (IF sorting' = Null THEN Null ELSE sorting'.store) = (IF sorting = Null THEN Null ELSE sorting.store)
  OBVIOUS
<1>. QED
  BY <1>1 DEF Lists!vars

LEMMA PushCalls ==
  ASSUME Storage, NEW a \in Vars, NEW at \in 1 .. MaxLen, NEW item \in Addresses(a),
         PushArgs(a, at, item), sorting = Null
  PROVE  \/ UNCHANGED Lists!vars
         \/ \E i \in 0 .. MaxLen, x \in Values : Lists!Call([arr |-> a, index |-> i, item |-> x])
<1>1. /\ call = Null /\ arr' = arr /\ str' = str /\ store' = store /\ sorting' = sorting
      /\ call' = [arr |-> a, at |-> at, item |-> item]
  BY DEF PushArgs, Running
<1>2. PICK x : x = At(item)
  OBVIOUS
<1>3. x \in Values
  <2>1. CASE item = OfVar
    BY <1>2, <2>1 DEF At, OfVar, Storage, Typed
  <2>2. CASE item # OfVar
    <3>1. PICK i \in 1 .. Length(a) : item = [store |-> arr[a], at |-> i]
      BY <2>2 DEF Addresses
    <3>2. Length(a) # 0 /\ i \in 1 .. MaxLen
      BY DataTyped, DynArrayAssumption
    <3>3. /\ arr[a] # Null /\ Data(a) = store[arr[a]].data /\ Data(a) \in [1 .. MaxLen -> Values]
      BY <3>2, DataTyped
    <3>. QED
      BY <1>2, <3>1, <3>2, <3>3 DEF At
  <2>. QED
    BY <2>1, <2>2
<1>4. CASE call' = Null
  BY <1>1, <1>4, NothingSeen
<1>5. CASE call' # Null
  <2>1. call'.arr = a /\ call'.at = at /\ call'.item = item
    BY <1>1
  <2>2. At(call.item)' = x
    BY <1>1, <1>2, <2>1 DEF At
  <2>3. [arr |-> call'.arr, index |-> call'.at - 1, item |-> At(call.item)'] =
          [arr |-> a, index |-> at - 1, item |-> x]
    BY <2>1, <2>2
  <2>4. Lists!Call([arr |-> a, index |-> at - 1, item |-> x])
    BY <1>1, <1>5, <2>3 DEF Lists!Call
  <2>5. at - 1 \in 0 .. MaxLen
    BY DynArrayAssumption
  <2>. QED
    BY <1>3, <2>4, <2>5
<1>. QED
  BY <1>4, <1>5

LEMMA SortCalled ==
  ASSUME Storage, NEW a \in Vars, Sort(a)
  PROVE  UNCHANGED Lists!vars \/ Lists!SortBegin(a)
<1>1. call = Null /\ call' = Null /\ arr' = arr /\ store' = store /\ sorting = Null
  BY DEF Sort, Running
<1>2. CASE sorting' = Null
  BY <1>1, <1>2, NothingSeen
<1>3. CASE sorting' # Null
  <2>1. arr[a] # Null /\ sorting'.store = arr[a]
    BY <1>3 DEF Sort, Partition
  <2>. QED
    BY <1>1, <1>3, <2>1 DEF Lists!SortBegin
<1>. QED
  BY <1>2, <1>3

LEMMA ReplacedIs ==
  ASSUME NEW f, NEW n \in Nat, NEW at \in 1 .. n, NEW e
  PROVE  ReplaceAt([i \in 1 .. n |-> f[i]], at, e) = [i \in 1 .. n |-> IF i = at THEN e ELSE f[i]]
BY DEF ReplaceAt

LEMMA SetSets ==
  ASSUME Storage, NEW a \in Vars, NEW at \in 1 .. MaxLen, SetItem(a, at), sorting = Null
  PROVE  Lists!Set(a, at - 1, str)
<1>1. /\ call = Null /\ call' = Null /\ sorting' = Null /\ arr' = arr /\ at <= Length(a)
      /\ store' = [store EXCEPT ![arr[a]].data[at] = str]
  BY DEF SetItem, Running
<1>2. PICK s : s = arr[a]
  OBVIOUS
<1>3. PICK x : x = str
  OBVIOUS
<1>4. /\ s \in Stores /\ s # Null /\ store[s] \in Chunk /\ store \in [Stores -> Chunk]
      /\ Length(a) = store[s].len
  <2>1. Length(a) # 0
    BY <1>1, DataTyped, DynArrayAssumption
  <2>. QED
    BY <1>2, <2>1, DataTyped, DynArrayAssumption DEF Storage, Typed
<1>5. PICK n : n = store[s].len
  OBVIOUS
<1>6. n \in Nat /\ n <= MaxLen /\ at \in 1 .. n /\ at - 1 < n /\ at - 1 + 1 = at /\ MaxLen \in Nat
  BY <1>1, <1>4, <1>5, DynArrayAssumption DEF Chunk
<1>7. /\ store'[s].len = n /\ store'[s].capacity = store[s].capacity
      /\ \A i \in 1 .. n : store'[s].data[i] = IF i = at THEN x ELSE store[s].data[i]
      /\ \A t \in Stores \ {s} : store'[t] = store[t]
  <2>. DEFINE c == [store[s] EXCEPT !.data[at] = x]
  <2>1. store'[s] = c /\ \A t \in Stores \ {s} : store'[t] = store[t]
    BY <1>1, <1>2, <1>3, <1>4
  <2>2. /\ c.len = n /\ c.capacity = store[s].capacity
        /\ \A i \in 1 .. MaxLen : c.data[i] = IF i = at THEN x ELSE store[s].data[i]
    BY <1>4, <1>5 DEF Chunk
  <2>3. \A i \in 1 .. n : i \in 1 .. MaxLen
    BY <1>6
  <2>. HIDE DEF c
  <2>. QED
    BY <2>1, <2>2, <2>3
<1>. DEFINE l == [t \in Stores |-> [i \in 1 .. store[t].len |-> store[t].data[i]]]
            m == [t \in Stores |-> [i \in 1 .. store'[t].len |-> store'[t].data[i]]]
<1>8. m = [l EXCEPT ![s] = ReplaceAt(l[s], at, x)]
  <2>1. l[s] = [i \in 1 .. n |-> store[s].data[i]]
    BY <1>4, <1>5
  <2>2. ReplaceAt(l[s], at, x) = [i \in 1 .. n |-> IF i = at THEN x ELSE store[s].data[i]]
    <3>1. PICK f : f = store[s].data
      OBVIOUS
    <3>2. l[s] = [i \in 1 .. n |-> f[i]]
      BY <2>1, <3>1
    <3>3. ReplaceAt([i \in 1 .. n |-> f[i]], at, x) = [i \in 1 .. n |-> IF i = at THEN x ELSE f[i]]
      BY <1>6, ReplacedIs
    <3>. HIDE DEF l
    <3>. QED
      BY <3>1, <3>2, <3>3
  <2>3. m[s] = [i \in 1 .. n |-> IF i = at THEN x ELSE store[s].data[i]]
    BY <1>4, <1>7
  <2>4. \A t \in Stores \ {s} : m[t] = l[t]
    BY <1>7
  <2>5. DOMAIN m = Stores /\ DOMAIN l = Stores /\ m = [t \in Stores |-> m[t]]
    OBVIOUS
  <2>6. l = [t \in Stores |-> l[t]]
    OBVIOUS
  <2>. HIDE DEF l, m
  <2>. QED
    BY <2>2, <2>3, <2>4, <2>5, <2>6
<1>9. Lists!ReplaceAt(l[s], at, x) = ReplaceAt(l[s], at, x)
  BY DEF Lists!ReplaceAt, ReplaceAt
<1>10. [t \in Stores |-> store'[t].capacity] = [t \in Stores |-> store[t].capacity]
  BY <1>7
<1>11. Len(Lists!Items(a)) = n
  BY <1>4, <1>5, ItemsTyped
<1>12. m = [l EXCEPT ![arr[a]] = Lists!ReplaceAt(l[arr[a]], at - 1 + 1, str)]
  <2>. HIDE DEF l, m
  <2>. QED
    BY <1>2, <1>3, <1>6, <1>8, <1>9
<1>. QED
  BY <1>1, <1>2, <1>4, <1>6, <1>10, <1>11, <1>12 DEF Lists!Set

\* Two items of the array that is being sorted are swapped, and if that ends the sort, they
\* are in order.
LEMMA SwapPermutes ==
  ASSUME Storage, NEW s \in Stores, NEW n \in 0 .. MaxLen, n = store[s].len,
         NEW i \in 1 .. n, NEW j \in 1 .. n,
         store' = [store EXCEPT ![s].data = Swapped(store[s].data, i, j)],
         arr' = arr, call = Null, call' = Null, sorting # Null, sorting.store = s,
         \/ sorting' # Null /\ sorting'.store = s
         \/ sorting' = Null /\ OrderedBut(Ranks(store'[s].data, n), <<>>, n)
  PROVE  Lists!SortStep
<1>. DEFINE l == [t \in Stores |-> [k \in 1 .. store[t].len |-> store[t].data[k]]]
            m == [t \in Stores |-> [k \in 1 .. store'[t].len |-> store'[t].data[k]]]
            p == [k \in 1 .. n |-> IF k = i THEN j ELSE IF k = j THEN i ELSE k]
<1>1. PICK f \in [1 .. MaxLen -> Values], g \in [1 .. MaxLen -> Values] :
         f = store[s].data /\ g = Swapped(f, i, j)
  <2>1. store[s].data \in [1 .. MaxLen -> Values]
    BY DEF Storage, Typed, Chunk
  <2>2. i \in 1 .. MaxLen /\ j \in 1 .. MaxLen
    BY DynArrayAssumption
  <2>3. Swapped(store[s].data, i, j) \in [1 .. MaxLen -> Values]
    BY <2>1, <2>2 DEF Swapped
  <2>. QED
    BY <2>1, <2>3
<1>2. n \in Nat /\ n <= MaxLen /\ \A k \in 1 .. n : k \in 1 .. MaxLen
  BY DynArrayAssumption
<1>3. /\ store'[s].data = g /\ store'[s].len = n /\ store'[s].capacity = store[s].capacity
      /\ \A t \in Stores \ {s} : store'[t] = store[t]
  <2>. DEFINE c == [store[s] EXCEPT !.data = g]
  <2>1. store[s] \in Chunk /\ store \in [Stores -> Chunk]
    BY DEF Storage, Typed
  <2>2. store' = [store EXCEPT ![s] = c]
    BY <1>1
  <2>3. c.len = n /\ c.data = g /\ c.capacity = store[s].capacity
    BY <2>1, ChunkFilled
  <2>. HIDE DEF c
  <2>. QED
    BY <2>1, <2>2, <2>3
<1>4. \A k \in 1 .. n : g[k] = f[p[k]]
  <2>1. \A k \in 1 .. MaxLen : g[k] = IF k = j THEN f[i] ELSE IF k = i THEN f[j] ELSE f[k]
    BY <1>1 DEF Swapped
  <2>. QED
    BY <1>2, <2>1
<1>5. p \in [1 .. n -> 1 .. n] /\ \A k, q \in 1 .. n : p[k] = p[q] => k = q
  OBVIOUS
<1>. HIDE DEF p
<1>6. l[s] = [k \in 1 .. n |-> f[k]] /\ m[s] = [k \in 1 .. n |-> g[k]]
  BY <1>1, <1>3
<1>7. DOMAIN l[s] = 1 .. n /\ DOMAIN p = 1 .. n
  BY <1>5, <1>6
<1>8. m = [l EXCEPT ![s] = [k \in DOMAIN l[s] |-> l[s][p[k]]]]
  <2>1. [k \in DOMAIN l[s] |-> l[s][p[k]]] = m[s]
    <3>. HIDE DEF l, m
    <3>. QED
      BY <1>4, <1>5, <1>6, <1>7
  <2>2. \A t \in Stores \ {s} : m[t] = l[t]
    BY <1>3
  <2>3. l = [t \in Stores |-> l[t]]
    OBVIOUS
  <2>4. m = [t \in Stores |-> m[t]]
    OBVIOUS
  <2>. HIDE DEF l, m
  <2>. QED
    BY <2>1, <2>2, <2>3, <2>4
<1>9. [t \in Stores |-> store'[t].capacity] = [t \in Stores |-> store[t].capacity]
  BY <1>3
<1>10. sorting' = Null => \A k, q \in 1 .. Len(m[s]) : k < q => Rank(m[s][k]) <= Rank(m[s][q])
  <2>1. Len(m[s]) = n /\ \A k \in 1 .. n : m[s][k] = g[k]
    <3>. HIDE DEF m
    <3>. QED
      BY <1>2, <1>6
  <2>2. \A k, q \in 1 .. n : ~Covers(<<>>, k, q)
    BY DEF Covers
  <2>3. \A k \in 1 .. n : Ranks(g, n)[k] = Rank(g[k])
    BY DEF Ranks
  <2>. HIDE DEF m
  <2>. QED
    BY <1>3, <2>1, <2>2, <2>3 DEF OrderedBut
<1>11. s # Null
  BY DynArrayAssumption
<1>12. sorting' = Null => Lists!InOrder(m[s])
  <2>. HIDE DEF m
  <2>. QED
    BY <1>10 DEF Lists!InOrder
<1>13. \E q \in [DOMAIN l[s] -> DOMAIN l[s]] :
          /\ \A b, c \in DOMAIN q : q[b] = q[c] => b = c
          /\ m = [l EXCEPT ![s] = [k \in DOMAIN l[s] |-> l[s][q[k]]]]
  <2>1. p \in [DOMAIN l[s] -> DOMAIN l[s]]
    BY <1>5, <1>7
  <2>2. \A b, c \in DOMAIN p : p[b] = p[c] => b = c
    BY <1>5, <1>7
  <2>. HIDE DEF l, m
  <2>. WITNESS p \in [DOMAIN l[s] -> DOMAIN l[s]]
  <2>. QED
    BY <1>8, <2>2
<1>. DEFINE now == IF sorting = Null THEN Null ELSE sorting.store
            next == IF sorting' = Null THEN Null ELSE sorting'.store
<1>14. now = s /\ now # Null /\ (next = s \/ (next = Null /\ Lists!InOrder(m[s])))
  BY <1>11, <1>12
<1>. HIDE DEF l, m
<1>15. /\ now # Null
       /\ \E q \in [DOMAIN l[now] -> DOMAIN l[now]] :
            /\ \A b, c \in DOMAIN q : q[b] = q[c] => b = c
            /\ m = [l EXCEPT ![now] = [k \in DOMAIN l[now] |-> l[now][q[k]]]]
       /\ next = now \/ (next = Null /\ Lists!InOrder(m[now]))
  <2>. HIDE DEF now, next
  <2>1. \E q \in [DOMAIN l[now] -> DOMAIN l[now]] :
          /\ \A b, c \in DOMAIN q : q[b] = q[c] => b = c
          /\ m = [l EXCEPT ![now] = [k \in DOMAIN l[now] |-> l[now][q[k]]]]
    <3>1. l[now] = l[s]
      BY <1>14
    <3>2. PICK q \in [DOMAIN l[s] -> DOMAIN l[s]] :
            /\ \A b, c \in DOMAIN q : q[b] = q[c] => b = c
            /\ m = [l EXCEPT ![s] = [k \in DOMAIN l[s] |-> l[s][q[k]]]]
      BY <1>13
    <3>3. m = [l EXCEPT ![now] = [k \in DOMAIN l[now] |-> l[now][q[k]]]]
      BY <1>14, <3>1, <3>2
    <3>4. q \in [DOMAIN l[now] -> DOMAIN l[now]]
      BY <3>1, <3>2
    <3>. QED
      BY <3>2, <3>3, <3>4
  <2>2. next = now \/ (next = Null /\ Lists!InOrder(m[now]))
    BY <1>14 DEF Lists!InOrder
  <2>. QED
    BY <1>14, <2>1, <2>2
<1>. QED
  BY <1>9, <1>15 DEF Lists!SortStep, Lists!InOrder, l, m

LEMMA SwapOrSplitSorts ==
  ASSUME Storage, SortSound, SwapOrSplit
  PROVE  Lists!SortStep
<1>. DEFINE so == sorting
            k == Ranks(store[so.store].data, store[so.store].len)
<1>1. /\ sorting # Null /\ call = Null /\ call' = Null /\ arr' = arr /\ sorting.scans = "j"
      /\ ~(Compare(sorting.j, FirstOf) > 0 /\ sorting.j > FirstOf)
  BY DEF SwapOrSplit
<1>2. PICK s \in Stores : s = sorting.store
  BY <1>1, SortingTyped
<1>3. PICK n \in 0 .. MaxLen : n = store[s].len
  BY <1>2 DEF Storage, Typed, Chunk
<1>4. PICK i \in 1 .. n, j \in 1 .. n, f \in 1 .. n : i = sorting.i /\ j = sorting.j /\ f = FirstOf
  BY <1>1, <1>2, <1>3, SortingTyped
<1>5. CASE i < j
  <2>1. Swap(i, j) /\ sorting' = [sorting EXCEPT !.scans = "i"]
    BY <1>4, <1>5 DEF SwapOrSplit
  <2>2. sorting \in Sorts
    BY <1>1, SortingTyped
  <2>3. sorting' \in Sorts /\ sorting'.store = s
    BY <1>2, <2>1, <2>2 DEF Sorts
  <2>4. sorting' # Null
    BY <2>3, NullAssumption
  <2>5. store' = [store EXCEPT ![s].data = Swapped(store[s].data, i, j)]
    BY <1>2, <2>1 DEF Swap, Sorted, Swapped
  <2>. QED
    BY <1>1, <1>2, <1>3, <2>3, <2>4, <2>5, SwapPermutes
<1>6. CASE ~(i < j)
  <2>1. PICK t : t = RangeOf(FirstOf, sorting.j - 1) \o RangeOf(sorting.j + 1, LastOf) \o Tail(sorting.ranges)
    OBVIOUS
  <2>2. Swap(f, j) /\ sorting' = Partition(s, t)
    BY <1>2, <1>4, <1>6, <2>1 DEF SwapOrSplit
  <2>3. store' = [store EXCEPT ![s].data = Swapped(store[s].data, f, j)]
    BY <1>2, <2>2 DEF Swap, Sorted, Swapped
  <2>4. CASE sorting' # Null
    <3>1. sorting'.store = s
      BY <2>2, <2>4 DEF Partition
    <3>. QED
      BY <1>1, <1>2, <1>3, <2>3, <2>4, <3>1, SwapPermutes
  <2>5. CASE sorting' = Null
    <3>1. /\ k \in [1 .. n -> Int] /\ Partitioning(sorting, k, n) /\ n \in Nat
          /\ store[s].data \in [1 .. MaxLen -> Values]
          /\ Compare(j, f) = k[j] - k[f] /\ k = Ranks(store[s].data, n)
      BY <1>1, <1>2, <1>3, <1>4, SortingTyped
    <3>. HIDE DEF k
    <3>2. ~(k[f] < k[j] /\ f < j)
      <4>1. k[j] \in Int /\ k[f] \in Int
        BY <3>1
      <4>. QED
        BY <1>1, <1>4, <3>1, <4>1
    <3>3. RangesIn(t, n) /\ OrderedBut(Swapped(k, f, j), t, n)
      BY <1>1, <1>4, <1>6, <2>1, <3>1, <3>2, SplitKept DEF FirstOf, LastOf
    <3>4. t = <<>>
      <4>1. SUFFICES ASSUME t # <<>> PROVE FALSE
        OBVIOUS
      <4>2. Partitioning(Partition(s, t), Swapped(k, f, j), n)
        BY <3>1, <3>3, <4>1, PartitionStarts
      <4>3. Partition(s, t) \in Sorts
        BY <4>2 DEF Partitioning
      <4>. QED
        BY <2>2, <2>5, <4>3, NullAssumption
    <3>5. store'[s].data = Swapped(store[s].data, f, j)
      BY <2>3 DEF Storage, Typed, Chunk
    <3>6. Ranks(store'[s].data, n) = Swapped(k, f, j)
      BY <3>1, <3>5, RanksSwapped, ZenonT(30)
    <3>7. OrderedBut(Ranks(store'[s].data, n), <<>>, n)
      BY <3>3, <3>4, <3>6
    <3>. QED
      BY <1>1, <1>2, <1>3, <2>3, <2>5, <3>7, SwapPermutes
  <2>. QED
    BY <2>4, <2>5
<1>. QED
  BY <1>5, <1>6

-----------------------------------------------------------------------------
(* The refinement.                                                         *)

LEMMA InitShared ==
  ASSUME Init
  PROVE  Lists!Init
<1>1. ASSUME NEW s \in Stores
      PROVE  [i \in 1 .. store[s].len |-> store[s].data[i]] = <<>> /\ store[s].capacity = 0
  <2>1. store[s] = NoStore
    BY DEF Init
  <2>2. ItemsOf(NoStore) = <<>> /\ NoStore.capacity = 0
    BY EmptyItems, NoStoreIsChunk
  <2>. HIDE DEF NoStore
  <2>. QED
    BY <2>1, <2>2 DEF ItemsOf
<1>2. [s \in Stores |-> [i \in 1 .. store[s].len |-> store[s].data[i]]] = [s \in Stores |-> <<>>]
  BY <1>1
<1>3. [s \in Stores |-> store[s].capacity] = [s \in Stores |-> 0]
  BY <1>1
<1>. QED
  BY <1>2, <1>3 DEF Init, Lists!Init

LEMMA NextShared ==
  ASSUME IInv, ~CompareAlters, ~ItemOfItself, [Next]_vars
  PROVE  [Lists!Next]_(Lists!vars)
<1>0. Storage /\ CallSound /\ SortSound
  BY DEF IInv
<1>1. Running => call = Null /\ sorting = Null
  BY DEF Running
<1>2. \A at \in 1 .. MaxLen : at - 1 \in 0 .. MaxLen
  BY DynArrayAssumption
<1>3. ASSUME NEW v \in Vars, NEW a \in Vars, Assign(v, a) PROVE Lists!Next
  <2>1. Lists!Assign(v, a)
    BY <1>0, <1>1, <1>3, AssignShares DEF Assign
  <2>. QED
    BY <2>1 DEF Lists!Next
<1>4. ASSUME NEW v \in Vars, NEW len \in 0 .. MaxLen, Make(v, len) PROVE Lists!Next
  <2>1. Lists!Make(v, len)
    BY <1>0, <1>1, <1>4, MakeMakes DEF Make
  <2>. QED
    BY <2>1 DEF Lists!Next
<1>5. ASSUME NEW v \in Vars, NEW a \in Vars, NEW first \in 0 .. MaxLen, NEW last \in 0 .. MaxLen,
             Slice(v, a, first, last)
      PROVE  Lists!Next
  <2>1. Lists!Slice(v, a, first, last)
    BY <1>0, <1>1, <1>5, SliceCopies DEF Slice
  <2>. QED
    BY <2>1 DEF Lists!Next
<1>6. ASSUME NEW v \in Vars, NEW a \in Vars, NEW at \in 1 .. MaxLen, Delete(v, a, at) PROVE Lists!Next
  <2>1. Lists!Delete(v, a, at - 1)
    BY <1>0, <1>1, <1>6, DeleteRemoves DEF Delete
  <2>2. PICK i \in 0 .. MaxLen : i = at - 1
    BY <1>2
  <2>. QED
    BY <2>1, <2>2 DEF Lists!Next
<1>7. ASSUME NEW v \in Vars, NEW a \in Vars, NEW b \in Vars, AppendAll(v, a, b) PROVE Lists!Next
  <2>1. Lists!AppendAll(v, a, b)
    BY <1>0, <1>1, <1>7, AppendAllAppends DEF AppendAll
  <2>. QED
    BY <2>1 DEF Lists!Next
<1>8. ASSUME NEW x \in Strings, NewString(x) PROVE UNCHANGED Lists!vars
  BY <1>1, <1>8, NothingSeen DEF NewString
<1>9. ASSUME NEW a \in Vars, NEW at \in 1 .. MaxLen, GetItem(a, at) PROVE UNCHANGED Lists!vars
  BY <1>1, <1>9, NothingSeen DEF GetItem
<1>10. ASSUME NEW a \in Vars, NEW at \in 1 .. MaxLen, SetItem(a, at) PROVE Lists!Next
  <2>1. Lists!Set(a, at - 1, str)
    BY <1>0, <1>1, <1>10, SetSets DEF SetItem
  <2>2. PICK i \in 0 .. MaxLen, x \in Values : i = at - 1 /\ x = str
    BY <1>0, <1>2 DEF Storage, Typed
  <2>3. Lists!Set(a, i, x)
    BY <2>1, <2>2 DEF Lists!Set
  <2>. QED
    BY <2>3 DEF Lists!Next
<1>11. ASSUME NEW a \in Vars, NEW at \in 1 .. MaxLen, NEW item \in Addresses(a), PushArgs(a, at, item)
       PROVE  Lists!Next \/ UNCHANGED Lists!vars
  <2>1. \/ UNCHANGED Lists!vars
        \/ \E i \in 0 .. MaxLen, x \in Values : Lists!Call([arr |-> a, index |-> i, item |-> x])
    BY <1>0, <1>1, <1>11, PushCalls DEF PushArgs
  <2>. QED
    BY <2>1 DEF Lists!Next
<1>12. ASSUME NEW v \in Vars, Insert(v) PROVE Lists!Next
  <2>1. sorting = Null
    BY <1>0, <1>12 DEF Insert, SortSound
  <2>2. Lists!Return(v)
    BY <1>0, <1>12, <2>1, InsertReturns
  <2>. QED
    BY <2>2 DEF Lists!Next
<1>13. ASSUME NEW a \in Vars, Sort(a) PROVE Lists!Next \/ UNCHANGED Lists!vars
  <2>1. UNCHANGED Lists!vars \/ Lists!SortBegin(a)
    BY <1>0, <1>13, SortCalled
  <2>. QED
    BY <2>1 DEF Lists!Next
<1>14. ASSUME SortStep PROVE Lists!Next \/ UNCHANGED Lists!vars
  <2>1. CASE ScanUp \/ ScanDown
    <3>1. arr' = arr /\ store' = store /\ call = Null /\ call' = Null /\ sorting # Null
      BY <2>1 DEF ScanUp, ScanDown
    <3>2. sorting \in Sorts
      BY <1>0, <3>1, SortingTyped
    <3>3. sorting.i \in Int /\ sorting.j \in Int
      BY <3>2 DEF Sorts
    <3>4. \/ sorting' = [sorting EXCEPT !.i = sorting.i + 1]
          \/ sorting' = [sorting EXCEPT !.j = sorting.j - 1]
          \/ sorting' = [sorting EXCEPT !.scans = "j"]
      BY <2>1 DEF ScanUp, ScanDown
    <3>5. sorting' \in Sorts /\ sorting'.store = sorting.store
      BY <3>2, <3>3, <3>4 DEF Sorts
    <3>6. sorting' # Null
      BY <3>5, NullAssumption
    <3>. QED
      BY <3>1, <3>5, <3>6, NothingSeen
  <2>2. CASE SwapOrSplit
    <3>1. Lists!SortStep
      BY <1>0, <2>2, SwapOrSplitSorts
    <3>. QED
      BY <3>1 DEF Lists!Next
  <2>. QED
    BY <1>14, <2>1, <2>2 DEF SortStep
<1>15. ASSUME UNCHANGED vars PROVE UNCHANGED Lists!vars
  BY <1>15 DEF vars, Lists!vars, At
<1>. QED
  BY <1>3, <1>4, <1>5, <1>6, <1>7, <1>8, <1>9, <1>10, <1>11, <1>12, <1>13, <1>14, <1>15 DEF Next

\* Unless a comparison alters the array it is called for, or an item of an array is inserted
\* in front of itself, dynamic arrays are what lang.md says they are: lists that assignment
\* shares, which append, insert and delete alter for all who share them and which grow into
\* another list only when the capacity is used up, make, slice and copy never share, and sort
\* permutes until they are in order.
THEOREM ArraysShare == ~CompareAlters /\ ~ItemOfItself => (Spec => ListSpec)
<1>. SUFFICES ASSUME ~CompareAlters, ~ItemOfItself PROVE Spec => ListSpec
  OBVIOUS
<1>1. Init => IInv
  BY InitSound
<1>2. IInv /\ [Next]_vars => IInv'
  BY NextSound
<1>3. Init => Lists!Init
  BY InitShared
<1>4. IInv /\ [Next]_vars => [Lists!Next]_(Lists!vars)
  BY NextShared
<1>. QED
  BY <1>1, <1>2, <1>3, <1>4, PTL DEF Spec, ListSpec, Lists!Spec

=============================================================================
