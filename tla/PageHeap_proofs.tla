-------------------------- MODULE PageHeap_proofs --------------------------
(***************************************************************************)
(* Proofs about PageHeap for every number of blocks, variables, fibers and *)
(* slots and all sizes.  The inductive invariant relates the counts in the *)
(* chunk and page headers to the variables of the program: only because    *)
(* they agree does a page whose count reaches zero hold no variable's      *)
(* object, and only because of the scan no temporary's.                    *)
(***************************************************************************)
EXTENDS PageHeap, FiniteSetTheorems, WellFoundedInduction, SequenceTheorems, TLAPS

\* A finite family of finite sets has a minimal one.
LEMMA MinimalSet ==
  ASSUME NEW S, IsFiniteSet(S), NEW F \in SUBSET (SUBSET S), F # {}
  PROVE  \E x \in F : \A y \in F : y \subseteq x => y = x
<1>1. IsWellFoundedOn(StrictSubsetOrdering(S), SUBSET S)
  BY FS_StrictSubsetOrderingWellFounded, FS_FiniteSubsetsOfFinite
<1>2. PICK x \in F : \A y \in F : ~(<<y, x>> \in StrictSubsetOrdering(S))
  BY <1>1, WFMin
<1>. QED
  BY <1>2 DEF StrictSubsetOrdering

\* Replacing one member of a finite set changes its cardinality by what goes and
\* what comes.
LEMMA CountUpdate ==
  ASSUME NEW S, IsFiniteSet(S), NEW T, NEW u, NEW comes \in BOOLEAN,
         T = (S \ {u}) \cup (IF comes THEN {u} ELSE {})
  PROVE  /\ IsFiniteSet(T)
         /\ Cardinality(S) \in Nat /\ Cardinality(T) \in Nat
         /\ Cardinality(T) = Cardinality(S) - (IF u \in S THEN 1 ELSE 0)
                                            + (IF comes THEN 1 ELSE 0)
<1>1. /\ IsFiniteSet(S \ {u})
      /\ Cardinality(S \ {u}) = IF u \in S THEN Cardinality(S) - 1 ELSE Cardinality(S)
  BY FS_RemoveElement
<1>2. Cardinality(S) \in Nat /\ Cardinality(S \ {u}) \in Nat
  BY <1>1, FS_CardinalityType
<1>3. CASE comes
  <2>1. T = (S \ {u}) \cup {u}
    BY <1>3
  <2>2. IsFiniteSet(T) /\ Cardinality(T) = Cardinality(S \ {u}) + 1
    BY <1>1, <2>1, FS_AddElement
  <2>. QED
    BY <1>1, <1>2, <1>3, <2>2
<1>4. CASE ~comes
  <2>1. T = S \ {u}
    BY <1>4
  <2>. QED
    BY <1>1, <1>2, <1>4, <2>1
<1>. QED
  BY <1>3, <1>4

-----------------------------------------------------------------------------
(* Counting.                                                               *)

\* Do variable u's pointers before and after lead to the page at b, or chunk c of it?
Into(p, b) == p # Null /\ p.b = b
At(p, b, c) == p # Null /\ p.b = b /\ p.c = c

\* rn is r after q is stored in variable u
Stored(r, u, q, rn) == rn = [r EXCEPT ![u] = q]

\* These numbers are natural.
LEMMA HoldersFinite ==
  \A r, b, c : /\ IsFiniteSet(PageHolders(r, b)) /\ Cardinality(PageHolders(r, b)) \in Nat
              /\ IsFiniteSet(Holders(r, b, c)) /\ Cardinality(Holders(r, b, c)) \in Nat
<1>. SUFFICES ASSUME NEW r, NEW b, NEW c
              PROVE  IsFiniteSet(PageHolders(r, b)) /\ IsFiniteSet(Holders(r, b, c))
  BY FS_CardinalityType
<1>1. PageHolders(r, b) \subseteq Vars /\ Holders(r, b, c) \subseteq Vars
  BY DEF PageHolders, Holders
<1>. QED
  BY <1>1, ProgramAssumption, FS_Subset

\* The number of variables that point into a page after one assignment.
LEMMA PageHolderCounts ==
  ASSUME NEW r \in [Vars -> Ptr \cup {Null}], NEW u \in Vars, NEW q, NEW b,
         NEW rn, Stored(r, u, q, rn)
  PROVE  /\ Cardinality(PageHolders(r, b)) \in Nat
         /\ Cardinality(PageHolders(rn, b)) =
              Cardinality(PageHolders(r, b)) - (IF Into(r[u], b) THEN 1 ELSE 0)
                                             + (IF Into(q, b) THEN 1 ELSE 0)
<1>. DEFINE H == PageHolders(r, b)
            HN == PageHolders(rn, b)
<1>1. IsFiniteSet(H)
  BY HoldersFinite
<1>2. Into(q, b) \in BOOLEAN
  BY DEF Into
<1>3. HN = (H \ {u}) \cup (IF Into(q, b) THEN {u} ELSE {})
  BY DEF PageHolders, Into, Stored
<1>4. u \in H <=> Into(r[u], b)
  BY DEF PageHolders, Into
<1>. HIDE DEF H, HN
<1>5. /\ Cardinality(H) \in Nat
      /\ Cardinality(HN) = Cardinality(H) - (IF u \in H THEN 1 ELSE 0)
                                          + (IF Into(q, b) THEN 1 ELSE 0)
  BY <1>1, <1>2, <1>3, CountUpdate
<1>. QED
  BY <1>4, <1>5 DEF H, HN

\* The number of variables that point to a chunk after one assignment.
LEMMA HolderCounts ==
  ASSUME NEW r \in [Vars -> Ptr \cup {Null}], NEW u \in Vars, NEW q, NEW b, NEW c,
         NEW rn, Stored(r, u, q, rn)
  PROVE  /\ Cardinality(Holders(r, b, c)) \in Nat
         /\ Cardinality(Holders(rn, b, c)) =
              Cardinality(Holders(r, b, c)) - (IF At(r[u], b, c) THEN 1 ELSE 0)
                                            + (IF At(q, b, c) THEN 1 ELSE 0)
<1>. DEFINE H == Holders(r, b, c)
            HN == Holders(rn, b, c)
<1>1. IsFiniteSet(H)
  BY HoldersFinite
<1>2. At(q, b, c) \in BOOLEAN
  BY DEF At
<1>3. HN = (H \ {u}) \cup (IF At(q, b, c) THEN {u} ELSE {})
  BY DEF Holders, At, Stored
<1>4. u \in H <=> At(r[u], b, c)
  BY DEF Holders, At
<1>. HIDE DEF H, HN
<1>5. /\ Cardinality(H) \in Nat
      /\ Cardinality(HN) = Cardinality(H) - (IF u \in H THEN 1 ELSE 0)
                                          + (IF At(q, b, c) THEN 1 ELSE 0)
  BY <1>1, <1>2, <1>3, CountUpdate
<1>. QED
  BY <1>4, <1>5 DEF H, HN

-----------------------------------------------------------------------------
(* What a count update does to the headers.                                *)

\* Two page tables agree on everything but counts and callbacks
SameShape(pg, pn) ==
  \A b \in Blocks :
    /\ pn[b].id = pg[b].id
    /\ pn[b].numChunks = pg[b].numChunks
    /\ pn[b].chunkSize = pg[b].chunkSize
    /\ Len(pn[b].chunks) = Len(pg[b].chunks)
    /\ DOMAIN pn[b].chunks = DOMAIN pg[b].chunks
    /\ \A c \in DOMAIN pg[b].chunks : pn[b].chunks[c].obj = pg[b].chunks[c].obj

\* The counts of pn are those of pg with d added for pointer p
CountsMove(pg, pn, p, d) ==
  \A b \in Blocks :
    /\ pn[b].refCnt = pg[b].refCnt + (IF p.b = b THEN d ELSE 0)
    /\ \A c \in DOMAIN pg[b].chunks :
         pn[b].chunks[c].refCnt =
           pg[b].chunks[c].refCnt + (IF p.b = b /\ p.c = c THEN d ELSE 0)

\* Headers with some fields replaced are headers.
LEMMA PageUpdate ==
  ASSUME NEW r \in Page, NEW n \in Int, NEW f \in Int, NEW cs \in Seq(Chunk)
  PROVE  /\ [r EXCEPT !.refCnt = n, !.chunks = cs] \in Page
         /\ [r EXCEPT !.refCnt = n, !.numOnFree = f, !.chunks = cs] \in Page
BY DEF Page

LEMMA PageFields ==
  ASSUME NEW r \in Page
  PROVE  r.refCnt \in Int /\ r.numOnFree \in Int /\ r.chunks \in Seq(Chunk)
BY DEF Page

LEMMA ChunkUpdate ==
  ASSUME NEW k \in Chunk, NEW n \in Int
  PROVE  /\ [k EXCEPT !.refCnt = n] \in Chunk
         /\ [k EXCEPT !.refCnt = n].obj = k.obj
         /\ [k EXCEPT !.refCnt = n].refCnt = n
BY DEF Chunk

LEMMA ChunkFields ==
  ASSUME NEW k \in Chunk
  PROVE  k.refCnt \in Int /\ k.calls \in Nat
BY DEF Chunk

LEMMA IncrementedPage ==
  ASSUME NEW pg \in [Blocks -> Page], NEW p \in Ptr, p.c \in DOMAIN pg[p.b].chunks
  PROVE  /\ Incremented(pg, p) \in [Blocks -> Page]
         /\ SameShape(pg, Incremented(pg, p))
         /\ CountsMove(pg, Incremented(pg, p), p, 1)
<1>. DEFINE b0 == p.b
            ck == pg[b0].chunks
            cn == [ck EXCEPT ![p.c].refCnt = @ + 1]
            pn == Incremented(pg, p)
<1>1. b0 \in Blocks /\ pg[b0] \in Page /\ ck \in Seq(Chunk)
  BY DEF Ptr, Page
<1>2. ck[p.c] \in Chunk
  BY <1>1
<1>3. /\ cn \in Seq(Chunk) /\ DOMAIN cn = DOMAIN ck /\ Len(cn) = Len(ck)
      /\ \A c \in DOMAIN ck : /\ cn[c].obj = ck[c].obj
                              /\ cn[c].refCnt = ck[c].refCnt + (IF p.c = c THEN 1 ELSE 0)
  <2>. DEFINE hd == [ck[p.c] EXCEPT !.refCnt = @ + 1]
  <2>0. ck[p.c].refCnt + 1 \in Int
    BY <1>2, ChunkFields
  <2>1. hd \in Chunk /\ hd.obj = ck[p.c].obj /\ hd.refCnt = ck[p.c].refCnt + 1
    BY <1>2, <2>0, ChunkUpdate
  <2>2. cn = [ck EXCEPT ![p.c] = hd]
    OBVIOUS
  <2>. HIDE DEF hd, cn
  <2>3. cn \in Seq(Chunk) /\ Len(cn) = Len(ck)
    BY <1>1, <2>1, <2>2, ExceptSeq
  <2>4. DOMAIN cn = DOMAIN ck /\ \A c \in DOMAIN ck : cn[c] = IF c = p.c THEN hd ELSE ck[c]
    BY <1>1, <2>2
  <2>5. \A c \in DOMAIN ck : ck[c] \in Chunk
    BY <1>1, ElementOfSeq
  <2>6. \A c \in DOMAIN ck : ck[c].refCnt \in Int
    BY <2>5 DEF Chunk
  <2>. QED
    BY <2>1, <2>3, <2>4, <2>6
<1>4. pn = [pg EXCEPT ![b0] = [pg[b0] EXCEPT !.refCnt = @ + 1, !.chunks = cn]]
  BY <1>1, NullAssumption DEF Incremented, Page
<1>. HIDE DEF cn
<1>5. [pg[b0] EXCEPT !.refCnt = @ + 1, !.chunks = cn] \in Page
  <2>1. pg[b0].refCnt + 1 \in Int
    BY <1>1, PageFields
  <2>. QED
    BY <1>1, <1>3, <2>1, PageUpdate
<1>6. pn \in [Blocks -> Page]
  BY <1>1, <1>4, <1>5
<1>7. /\ pn[b0].id = pg[b0].id /\ pn[b0].numChunks = pg[b0].numChunks
      /\ pn[b0].chunkSize = pg[b0].chunkSize
      /\ pn[b0].refCnt = pg[b0].refCnt + 1 /\ pn[b0].chunks = cn
  BY <1>1, <1>4 DEF Page
<1>8. \A b \in Blocks \ {b0} : pn[b] = pg[b]
  BY <1>1, <1>4
<1>. HIDE DEF pn
<1>8a. \A b \in Blocks : /\ pg[b].refCnt \in Int
                         /\ \A c \in DOMAIN pg[b].chunks : pg[b].chunks[c].refCnt \in Int
  <2>1. \A b \in Blocks : pg[b].refCnt \in Int /\ pg[b].chunks \in Seq(Chunk)
    BY DEF Page
  <2>2. \A b \in Blocks : \A c \in DOMAIN pg[b].chunks : pg[b].chunks[c] \in Chunk
    BY <2>1, ElementOfSeq
  <2>. QED
    BY <2>1, <2>2 DEF Chunk
<1>9. SameShape(pg, pn)
  BY <1>1, <1>3, <1>7, <1>8 DEF SameShape
<1>10. CountsMove(pg, pn, p, 1)
  BY <1>1, <1>3, <1>7, <1>8, <1>8a DEF CountsMove
<1>. QED
  BY <1>6, <1>9, <1>10 DEF pn

LEMMA DecrementedPage ==
  ASSUME NEW pg \in [Blocks -> Page], NEW p \in Ptr, p.c \in DOMAIN pg[p.b].chunks
  PROVE  /\ Decremented(pg, p) \in [Blocks -> Page]
         /\ SameShape(pg, Decremented(pg, p))
         /\ CountsMove(pg, Decremented(pg, p), p, -1)
<1>. DEFINE b0 == p.b
            ck == pg[b0].chunks
            last == ChunkAt(pg, p).refCnt = 1 /\ ChunkAt(pg, p).onFree
            cn == [ck EXCEPT ![p.c] = [ck[p.c] EXCEPT !.refCnt = @ - 1,
                                                      !.calls = IF last THEN @ + 1 ELSE @]]
            nf == IF last THEN pg[b0].numOnFree - 1 ELSE pg[b0].numOnFree
            pn == Decremented(pg, p)
<1>1. b0 \in Blocks /\ pg[b0] \in Page /\ ck \in Seq(Chunk)
  BY DEF Ptr, Page
<1>2. ck[p.c] \in Chunk
  BY <1>1
<1>. HIDE DEF last
<1>3. /\ cn \in Seq(Chunk) /\ DOMAIN cn = DOMAIN ck /\ Len(cn) = Len(ck)
      /\ \A c \in DOMAIN ck : /\ cn[c].obj = ck[c].obj
                              /\ cn[c].refCnt = ck[c].refCnt + (IF p.c = c THEN -1 ELSE 0)
  <2>. DEFINE hd == [ck[p.c] EXCEPT !.refCnt = @ - 1, !.calls = IF last THEN @ + 1 ELSE @]
  <2>1. hd \in Chunk /\ hd.obj = ck[p.c].obj /\ hd.refCnt = ck[p.c].refCnt + (-1)
    <3>. DEFINE n == ck[p.c].refCnt - 1
                m == IF last THEN ck[p.c].calls + 1 ELSE ck[p.c].calls
    <3>1. n \in Int /\ m \in Nat /\ ck[p.c].refCnt \in Int
      BY <1>2, ChunkFields
    <3>2. hd = [ck[p.c] EXCEPT !.refCnt = n, !.calls = m]
      OBVIOUS
    <3>. HIDE DEF n, m, hd
    <3>. DEFINE k == ck[p.c]
    <3>. HIDE DEF k
    <3>3. k \in Chunk /\ hd = [k EXCEPT !.refCnt = n, !.calls = m]
      BY <1>2, <3>2 DEF k
    <3>4. hd \in Chunk /\ hd.obj = k.obj /\ hd.refCnt = n
      BY <3>1, <3>3 DEF Chunk
    <3>. QED
      BY <3>1, <3>4 DEF n, k
  <2>2. cn = [ck EXCEPT ![p.c] = hd]
    OBVIOUS
  <2>. HIDE DEF hd, cn
  <2>3. cn \in Seq(Chunk) /\ Len(cn) = Len(ck)
    BY <1>1, <2>1, <2>2, ExceptSeq
  <2>4. DOMAIN cn = DOMAIN ck /\ \A c \in DOMAIN ck : cn[c] = IF c = p.c THEN hd ELSE ck[c]
    BY <1>1, <2>2
  <2>5. \A c \in DOMAIN ck : ck[c] \in Chunk
    BY <1>1, ElementOfSeq
  <2>6. \A c \in DOMAIN ck : ck[c].refCnt \in Int
    BY <2>5 DEF Chunk
  <2>. QED
    BY <2>1, <2>3, <2>4, <2>6
<1>4. pn = [pg EXCEPT ![b0] = [pg[b0] EXCEPT !.refCnt = @ - 1, !.numOnFree = nf, !.chunks = cn]]
  BY <1>1 DEF Decremented, ChunkAt, Page, last
<1>. HIDE DEF cn
<1>5. [pg[b0] EXCEPT !.refCnt = @ - 1, !.numOnFree = nf, !.chunks = cn] \in Page
  <2>1. pg[b0].refCnt - 1 \in Int /\ nf \in Int
    BY <1>1, PageFields
  <2>. HIDE DEF nf
  <2>. QED
    BY <1>1, <1>3, <2>1, PageUpdate
<1>6. pn \in [Blocks -> Page]
  BY <1>1, <1>4, <1>5
<1>7. /\ pn[b0].id = pg[b0].id /\ pn[b0].numChunks = pg[b0].numChunks
      /\ pn[b0].chunkSize = pg[b0].chunkSize
      /\ pn[b0].refCnt = pg[b0].refCnt + (-1) /\ pn[b0].chunks = cn
  BY <1>1, <1>4 DEF Page
<1>8. \A b \in Blocks \ {b0} : pn[b] = pg[b]
  BY <1>1, <1>4
<1>. HIDE DEF pn
<1>8a. \A b \in Blocks : /\ pg[b].refCnt \in Int
                         /\ \A c \in DOMAIN pg[b].chunks : pg[b].chunks[c].refCnt \in Int
  <2>1. \A b \in Blocks : pg[b].refCnt \in Int /\ pg[b].chunks \in Seq(Chunk)
    BY DEF Page
  <2>2. \A b \in Blocks : \A c \in DOMAIN pg[b].chunks : pg[b].chunks[c] \in Chunk
    BY <2>1, ElementOfSeq
  <2>. QED
    BY <2>1, <2>2 DEF Chunk
<1>9. SameShape(pg, pn)
  BY <1>1, <1>3, <1>7, <1>8 DEF SameShape
<1>10. CountsMove(pg, pn, p, -1)
  BY <1>1, <1>3, <1>7, <1>8, <1>8a DEF CountsMove
<1>. QED
  BY <1>6, <1>9, <1>10 DEF pn


-----------------------------------------------------------------------------
(* The inductive invariant.                                                *)

\* The bounds are zero only as long as there has been no page
BoundsKnown == lowest = 0 \/ highest = 0 => live = {}

\* Page ids are never used twice,
IdsUnique ==
  \A b \in live : /\ page[b].id < freeId
                  /\ \A x \in live : page[x].id = page[b].id => x = b

\* and every chunk is an allocation of its own.
ObjsUnique ==
  \A b \in live : \A c \in DOMAIN page[b].chunks :
    /\ page[b].chunks[c].obj < nextObj
    /\ \A x \in live : \A y \in DOMAIN page[x].chunks :
         page[x].chunks[y].obj = page[b].chunks[c].obj => x = b /\ y = c

\* The page a weak pointer names, and no other, has the object it was made from,
\* at the place it names.
WeakLeads ==
  \A w \in Weaks : weak[w] # Null =>
    /\ weak[w].id < freeId /\ weak[w].obj < nextObj
    /\ \A b \in live :
         /\ page[b].id = weak[w].id => /\ weak[w].c \in DOMAIN page[b].chunks
                                      /\ page[b].chunks[weak[w].c].obj = weak[w].obj
         /\ \A c \in DOMAIN page[b].chunks :
              page[b].chunks[c].obj = weak[w].obj => page[b].id = weak[w].id /\ c = weak[w].c

Identity == IdsUnique /\ ObjsUnique /\ WeakLeads

Inv ==
  /\ TypeOK
  /\ Identity
  /\ BoundsKnown
  /\ CountsExact
  /\ RefsIntact
  /\ CachesCurrent
  /\ status # "freed" => ListsDisjoint

\* A variable's pointer is always found by pageFind, in a chunk that is alive.
LEMMA VarFound ==
  ASSUME Inv, status = "running", NEW v \in Vars, ref[v] # Null
  PROVE  /\ ref[v] \in Ptr /\ ref[v].b \in live
         /\ ref[v].c \in DOMAIN page[ref[v].b].chunks
         /\ Found(ref[v]) /\ ~IsDangling(ref[v])
<1>1. /\ ref[v] \in Ptr /\ ref[v].b \in live
      /\ ref[v].c \in DOMAIN page[ref[v].b].chunks
      /\ Found(ref[v])
  BY DEF Inv, TypeOK, RefsIntact, Intact, CachesCurrent, Found
<1>2. page[ref[v].b].chunks[ref[v].c].refCnt = Cardinality(Holders(ref, ref[v].b, ref[v].c))
  BY <1>1 DEF Inv, CountsExact
<1>3. v \in Holders(ref, ref[v].b, ref[v].c) /\ IsFiniteSet(Holders(ref, ref[v].b, ref[v].c))
  BY ProgramAssumption, FS_Subset DEF Holders
<1>4. Cardinality(Holders(ref, ref[v].b, ref[v].c)) \in Nat \ {0}
  BY <1>3, FS_EmptySet, FS_CardinalityType
<1>. QED
  BY <1>1, <1>2, <1>4 DEF IsDangling, ChunkAt

\* Unlinking a page keeps the three lists disjoint, and a page that a temporary of
\* the chain may refer to is not given back.
LEMMA PageRemoveLists ==
  ASSUME TypeOK, ListsDisjoint, NEW b \in live, NEW pg, PageRemove(pg, b), cap' = cap
  PROVE  /\ live' = live \ {b}
         /\ blacklisted' \subseteq Blocks /\ recycled' \in Seq(Blocks)
         /\ lastAccessed' \in (live \ {b}) \cup {NoPage}
         /\ ListsDisjoint'
         /\ \A x \in live \cup blacklisted :
              PageMayBeReferencedByTemporaries(x) => x \in live' \cup blacklisted'
<1>1. /\ live' = live \ {b} /\ lastAccessed' \in (live \ {b}) \cup {NoPage}
      /\ b \in Blocks /\ b \notin blacklisted
      /\ \A i \in DOMAIN recycled : recycled[i] # b
  BY DEF PageRemove, Heads, TypeOK, ListsDisjoint
<1>2. CASE PageMayBeReferencedByTemporaries(b)
  <2>1. PICK q \in Orders(Released) : recycled' = q \o recycled
    BY <1>2 DEF PageRemove, MoveToBlacklisted
  <2>2. blacklisted' = (blacklisted \ Released) \cup {b}
    BY <1>2 DEF PageRemove, MoveToBlacklisted
  <2>3. Released \subseteq blacklisted /\ IsFiniteSet(Released)
    <3>1. Released \subseteq blacklisted
      BY DEF Released
    <3>2. Released \subseteq Blocks
      BY <3>1 DEF TypeOK
    <3>. QED
      BY <3>1, <3>2, BlocksAssumption, FS_Subset
  <2>. DEFINE n == Cardinality(Released)
              m == Len(recycled)
  <2>4. n \in Nat /\ m \in Nat /\ q \in [1..n -> Released] /\ recycled \in [1..m -> Blocks]
    BY <2>3, FS_CardinalityType DEF Orders, TypeOK
  <2>5. /\ \A i \in 1..n : q[i] \in Released
        /\ \A x \in Released : \E i \in 1..n : q[i] = x
        /\ \A i, j \in 1..n : q[i] = q[j] => i = j
    BY <2>4 DEF Orders
  <2>. HIDE DEF n, m
  <2>6. /\ recycled' \in Seq(Blocks) /\ DOMAIN recycled' = 1..(n + m)
        /\ \A i \in 1..(n + m) : recycled'[i] = IF i <= n THEN q[i] ELSE recycled[i - n]
    <3>1. q \in Seq(Blocks) /\ Len(q) = n
      BY <2>3, <2>4 DEF TypeOK
    <3>2. recycled \in Seq(Blocks) /\ Len(recycled) = m
      BY DEF TypeOK, m
    <3>3. /\ q \o recycled \in Seq(Blocks) /\ Len(q \o recycled) = n + m
          /\ \A i \in 1..(n + m) :
               (q \o recycled)[i] = IF i <= n THEN q[i] ELSE recycled[i - n]
      BY <3>1, <3>2, ConcatProperties
    <3>. QED
      BY <2>1, <3>3
  <2>7. DOMAIN recycled = 1..m
    BY DEF TypeOK, m
  <2>8. \A x \in Blocks :
          (\E i \in DOMAIN recycled' : recycled'[i] = x)
            <=> x \in Released \/ \E i \in DOMAIN recycled : recycled[i] = x
    <3>1. \A i \in 1..n : i \in 1..(n + m) /\ recycled'[i] = q[i]
      BY <2>4, <2>6
    <3>2. \A i \in 1..m : i + n \in 1..(n + m) /\ recycled'[i + n] = recycled[i]
      BY <2>4, <2>6
    <3>3. \A i \in 1..(n + m) : (i \in 1..n /\ recycled'[i] = q[i])
                               \/ (i - n \in 1..m /\ recycled'[i] = recycled[i - n])
      BY <2>4, <2>6
    <3>. QED
      BY <2>5, <2>6, <2>7, <3>1, <3>2, <3>3
  <2>9. \A i, j \in DOMAIN recycled' : recycled'[i] = recycled'[j] => i = j
    <3>1. \A i \in 1..n : q[i] \in blacklisted
      BY <2>3, <2>5
    <3>2. \A i \in 1..m : recycled[i] \notin blacklisted
      BY <2>7 DEF ListsDisjoint
    <3>3. \A i, j \in 1..m : recycled[i] = recycled[j] => i = j
      BY <2>7 DEF ListsDisjoint
    <3>4. \A i \in 1..(n + m) : i <= n => i \in 1..n
      BY <2>4
    <3>5. \A i \in 1..(n + m) : ~(i <= n) => i - n \in 1..m
      BY <2>4
    <3>. QED
      BY <2>4, <2>5, <2>6, <3>1, <3>2, <3>3, <3>4, <3>5
  <2>10. \A i \in DOMAIN recycled' : recycled'[i] \notin live' \cup blacklisted'
    BY <1>1, <2>2, <2>3, <2>6, <2>8 DEF ListsDisjoint, TypeOK
  <2>11. live' \cap blacklisted' = {}
    BY <1>1, <2>2 DEF ListsDisjoint
  <2>12. \A x \in Blocks : x \in live' \cup blacklisted' \/ x \in Released
                             <=> x \in live \cup blacklisted
    BY <1>1, <2>2, <2>3
  <2>13. ListsDisjoint'
    BY <2>8, <2>9, <2>10, <2>11, <2>12 DEF ListsDisjoint
  <2>14. \A x \in live \cup blacklisted :
           PageMayBeReferencedByTemporaries(x) => x \in live' \cup blacklisted'
    BY <1>1, <2>2 DEF Released
  <2>. QED
    BY <1>1, <2>2, <2>6, <2>13, <2>14 DEF TypeOK
<1>3. CASE ~PageMayBeReferencedByTemporaries(b)
  <2>1. recycled' = <<b>> \o recycled /\ blacklisted' = blacklisted
    BY <1>3 DEF PageRemove, MoveToRecycled
  <2>. DEFINE m == Len(recycled)
  <2>2. m \in Nat /\ recycled \in Seq(Blocks) /\ DOMAIN recycled = 1..m
    BY DEF TypeOK
  <2>3. /\ recycled' \in Seq(Blocks) /\ DOMAIN recycled' = 1..(m + 1)
        /\ \A i \in 1..(m + 1) : recycled'[i] = IF i = 1 THEN b ELSE recycled[i - 1]
    BY <1>1, <2>1, <2>2
  <2>. HIDE DEF m
  <2>4. \A i \in 1..m : i + 1 \in 1..(m + 1) /\ recycled'[i + 1] = recycled[i]
    BY <2>2, <2>3
  <2>5. \A i \in 1..(m + 1) : i # 1 => i - 1 \in 1..m
    BY <2>2
  <2>6. 1 \in 1..(m + 1) /\ recycled'[1] = b
    BY <2>2, <2>3
  <2>7. \A x \in Blocks :
          (\E i \in DOMAIN recycled' : recycled'[i] = x)
            <=> x = b \/ \E i \in DOMAIN recycled : recycled[i] = x
    <3>1. ASSUME NEW i \in 1..(m + 1), i # 1
          PROVE  i - 1 \in 1..m /\ recycled'[i] = recycled[i - 1]
      BY <2>2, <2>3, <3>1
    <3>2. ASSUME NEW i \in DOMAIN recycled'
          PROVE  recycled'[i] = b \/ \E j \in DOMAIN recycled : recycled[j] = recycled'[i]
      BY <2>2, <2>3, <2>6, <3>1
    <3>3. \A j \in DOMAIN recycled : \E i \in DOMAIN recycled' : recycled'[i] = recycled[j]
      BY <2>2, <2>3, <2>4
    <3>. QED
      BY <2>3, <2>6, <3>2, <3>3
  <2>8. \A i, j \in DOMAIN recycled' : recycled'[i] = recycled'[j] => i = j
    <3>1. \A i \in 1..(m + 1) : i # 1 => recycled'[i] = recycled[i - 1] /\ recycled'[i] # b
      BY <1>1, <2>2, <2>3, <2>5
    <3>2. \A i, j \in 1..m : recycled[i] = recycled[j] => i = j
      BY <2>2 DEF ListsDisjoint
    <3>3. \A i, j \in 1..(m + 1) : i # 1 /\ j # 1 /\ i - 1 = j - 1 => i = j
      BY <2>2
    <3>. QED
      BY <2>3, <2>5, <2>6, <3>1, <3>2, <3>3
  <2>9. \A i \in DOMAIN recycled' : recycled'[i] \notin live' \cup blacklisted'
    BY <1>1, <2>1, <2>2, <2>3, <2>5 DEF ListsDisjoint
  <2>10. ListsDisjoint'
    BY <1>1, <2>1, <2>7, <2>8, <2>9 DEF ListsDisjoint
  <2>. QED
    BY <1>1, <1>3, <2>1, <2>3, <2>10 DEF TypeOK
<1>. QED
  BY <1>2, <1>3

-----------------------------------------------------------------------------
(* Storing a pointer, or null, in a variable.                              *)

\* The counts of pg are those of the variables r, with q counted as well
CountsAre(pg, r, q) ==
  \A b \in live :
    /\ pg[b].refCnt = Cardinality(PageHolders(r, b)) + (IF Into(q, b) THEN 1 ELSE 0)
    /\ \A c \in DOMAIN pg[b].chunks :
         pg[b].chunks[c].refCnt =
           Cardinality(Holders(r, b, c)) + (IF At(q, b, c) THEN 1 ELSE 0)

\* The pointers an assignment may store
Storable(q) == q # Null => q \in Ptr /\ q.b \in live /\ Intact(q)

\* Counting the right side of an assignment.
LEMMA IncrementCounts ==
  ASSUME TypeOK, CountsExact, NEW q, Storable(q)
  PROVE  /\ Incremented(page, q) \in [Blocks -> Page]
         /\ SameShape(page, Incremented(page, q))
         /\ CountsAre(Incremented(page, q), ref, q)
<1>0. /\ page \in [Blocks -> Page] /\ live \subseteq Blocks
      /\ ref \in [Vars -> Ptr \cup {Null}]
  BY DEF TypeOK
<1>1. \A b, c : Cardinality(PageHolders(ref, b)) \in Nat /\ Cardinality(Holders(ref, b, c)) \in Nat
  BY HoldersFinite
<1>2. CASE q = Null
  <2>1. Incremented(page, q) = page
    BY <1>2 DEF Incremented
  <2>2. SameShape(page, page)
    BY DEF SameShape
  <2>3. CountsAre(page, ref, q)
    BY <1>1, <1>2 DEF CountsAre, CountsExact, Into, At
  <2>. QED
    BY <1>0, <2>1, <2>2, <2>3
<1>3. CASE q # Null
  <2>1. q \in Ptr /\ q.c \in DOMAIN page[q.b].chunks
    BY <1>3 DEF Storable, Intact
  <2>. DEFINE pn == Incremented(page, q)
  <2>2. /\ pn \in [Blocks -> Page] /\ SameShape(page, pn) /\ CountsMove(page, pn, q, 1)
    BY <1>0, <2>1, IncrementedPage
  <2>. HIDE DEF pn
  <2>3. ASSUME NEW b \in live
        PROVE  pn[b].refCnt = Cardinality(PageHolders(ref, b)) + (IF Into(q, b) THEN 1 ELSE 0)
    BY <1>0, <1>3, <2>2 DEF CountsMove, CountsExact, Into
  <2>4. ASSUME NEW b \in live, NEW c \in DOMAIN pn[b].chunks
        PROVE  pn[b].chunks[c].refCnt =
                 Cardinality(Holders(ref, b, c)) + (IF At(q, b, c) THEN 1 ELSE 0)
    BY <1>0, <1>3, <2>2 DEF CountsMove, CountsExact, SameShape, At
  <2>. QED
    BY <2>2, <2>3, <2>4 DEF CountsAre, pn
<1>. QED
  BY <1>2, <1>3

\* Releasing the left side makes the counts those of the variables again.
LEMMA DecrementCounts ==
  ASSUME TypeOK, NEW u \in Vars, NEW q, NEW pg \in [Blocks -> Page],
         SameShape(page, pg), CountsAre(pg, ref, q),
         NEW dec \in [Blocks -> Page], SameShape(pg, dec),
         IF ref[u] # Null THEN CountsMove(pg, dec, ref[u], -1) ELSE dec = pg,
         NEW rn, Stored(ref, u, q, rn)
  PROVE  CountsAre(dec, rn, Null)
<1>. SUFFICES ASSUME NEW b \in live
              PROVE  /\ dec[b].refCnt = Cardinality(PageHolders(rn, b)) + 0
                     /\ \A c \in DOMAIN dec[b].chunks :
                          dec[b].chunks[c].refCnt = Cardinality(Holders(rn, b, c)) + 0
  BY DEF CountsAre, Into, At
<1>0. b \in Blocks /\ ref \in [Vars -> Ptr \cup {Null}]
  BY DEF TypeOK
<1>1. dec[b].refCnt = pg[b].refCnt + (IF Into(ref[u], b) THEN -1 ELSE 0)
  <2>1. pg[b].refCnt \in Int
    BY <1>0, PageFields
  <2>. QED
    BY <1>0, <2>1 DEF CountsMove, Into
<1>2. /\ Cardinality(PageHolders(ref, b)) \in Nat
      /\ Cardinality(PageHolders(rn, b)) =
              Cardinality(PageHolders(ref, b)) - (IF Into(ref[u], b) THEN 1 ELSE 0)
                                               + (IF Into(q, b) THEN 1 ELSE 0)
  BY <1>0, PageHolderCounts
<1>3. pg[b].refCnt = Cardinality(PageHolders(ref, b)) + (IF Into(q, b) THEN 1 ELSE 0)
  BY DEF CountsAre
<1>4. ASSUME NEW c \in DOMAIN dec[b].chunks
      PROVE  dec[b].chunks[c].refCnt = Cardinality(Holders(rn, b, c)) + 0
  <2>1. c \in DOMAIN pg[b].chunks
    BY <1>0 DEF SameShape
  <2>2. pg[b].chunks[c] \in Chunk
    BY <1>0, <2>1, PageFields, ElementOfSeq
  <2>3. pg[b].chunks[c].refCnt \in Int
    BY <2>2, ChunkFields
  <2>4. dec[b].chunks[c].refCnt =
                  pg[b].chunks[c].refCnt + (IF At(ref[u], b, c) THEN -1 ELSE 0)
    BY <1>0, <2>1, <2>3 DEF CountsMove, At
  <2>5. pg[b].chunks[c].refCnt = Cardinality(Holders(ref, b, c)) + (IF At(q, b, c) THEN 1 ELSE 0)
    BY <2>1 DEF CountsAre
  <2>6. /\ Cardinality(Holders(ref, b, c)) \in Nat
        /\ Cardinality(Holders(rn, b, c)) =
              Cardinality(Holders(ref, b, c)) - (IF At(ref[u], b, c) THEN 1 ELSE 0)
                                              + (IF At(q, b, c) THEN 1 ELSE 0)
    BY <1>0, HolderCounts
  <2>. QED
    BY <2>4, <2>5, <2>6
<1>. QED
  BY <1>1, <1>2, <1>3, <1>4


\* What an assignment does to variables, headers and lists together.
StoreEffect(u, q) ==
  /\ ref' = [ref EXCEPT ![u] = q]
  /\ IF ref[u] # Null
     THEN DecRef(Incremented(page, q), ref[u])
     ELSE /\ page' = Incremented(page, q)
          /\ lastAccessed' \in live \cup {NoPage}
          /\ UNCHANGED lists
  /\ UNCHANGED <<dims, weak, temp, cur, nextObj, status>>

\* The headers after an assignment count the variables after it.
LEMMA StoreCounts ==
  ASSUME Inv, status = "running", NEW u \in Vars, NEW q, Storable(q), StoreEffect(u, q)
  PROVE  /\ page' \in [Blocks -> Page] /\ SameShape(page, page')
         /\ ref' \in [Vars -> Ptr \cup {Null}]
         /\ CountsAre(page', ref', Null)
         /\ \/ /\ UNCHANGED lists /\ lastAccessed' \in live \cup {NoPage}
               /\ ref[u] # Null => page'[ref[u].b].refCnt # 0
            \/ ref[u] # Null /\ page'[ref[u].b].refCnt = 0 /\ PageRemove(page', ref[u].b)
<1>. DEFINE pg == Incremented(page, q)
<1>1. /\ pg \in [Blocks -> Page] /\ SameShape(page, pg) /\ CountsAre(pg, ref, q)
  BY IncrementCounts DEF Inv
<1>2. Stored(ref, u, q, ref') /\ ref' \in [Vars -> Ptr \cup {Null}]
  BY DEF Stored, StoreEffect, Storable, Inv, TypeOK
<1>. HIDE DEF pg
<1>3. CASE ref[u] = Null
  <2>1. page' = pg /\ UNCHANGED lists /\ lastAccessed' \in live \cup {NoPage}
    BY <1>3 DEF StoreEffect, pg
  <2>2. SameShape(pg, pg)
    BY DEF SameShape
  <2>3. CountsAre(page', ref', Null)
    BY <1>1, <1>2, <1>3, <2>1, <2>2, DecrementCounts DEF Inv
  <2>. QED
    BY <1>1, <1>2, <1>3, <2>1, <2>3
<1>4. CASE ref[u] # Null
  <2>1. ref[u] \in Ptr /\ ref[u].b \in live /\ ref[u].c \in DOMAIN page[ref[u].b].chunks
    BY <1>4, VarFound
  <2>2. ref[u].c \in DOMAIN pg[ref[u].b].chunks
    BY <1>1, <2>1 DEF SameShape, Ptr
  <2>. DEFINE dec == Decremented(pg, ref[u])
  <2>3. dec \in [Blocks -> Page] /\ SameShape(pg, dec) /\ CountsMove(pg, dec, ref[u], -1)
    BY <1>1, <2>1, <2>2, DecrementedPage
  <2>4. /\ page' = dec
        /\ IF dec[ref[u].b].refCnt = 0 THEN PageRemove(dec, ref[u].b)
           ELSE lastAccessed' = ref[u].b /\ UNCHANGED lists
    BY <1>4 DEF StoreEffect, DecRef, pg
  <2>. HIDE DEF dec
  <2>5. CountsAre(dec, ref', Null)
    BY <1>1, <1>2, <1>4, <2>3, DecrementCounts DEF Inv
  <2>6. SameShape(page, dec)
    BY <1>1, <2>3 DEF SameShape
  <2>. QED
    BY <1>2, <1>4, <2>1, <2>3, <2>4, <2>5, <2>6
<1>. QED
  BY <1>3, <1>4

\* A page that the changed variable did not point into keeps a positive count.
LEMMA StorePositive ==
  ASSUME Inv, NEW u \in Vars, NEW q, NEW rn, Stored(ref, u, q, rn), NEW b \in live,
         ~Into(ref[u], b)
  PROVE  Cardinality(PageHolders(rn, b)) > 0
<1>1. /\ Cardinality(PageHolders(ref, b)) \in Nat
      /\ Cardinality(PageHolders(rn, b)) =
              Cardinality(PageHolders(ref, b)) - (IF Into(ref[u], b) THEN 1 ELSE 0)
                                               + (IF Into(q, b) THEN 1 ELSE 0)
  <2>1. ref \in [Vars -> Ptr \cup {Null}]
    BY DEF Inv, TypeOK
  <2>. QED
    BY <2>1, PageHolderCounts
<1>2. Cardinality(PageHolders(ref, b)) > 0
  BY DEF Inv, CountsExact
<1>. QED
  BY <1>1, <1>2

\* Steps that change no header but for counts and callbacks keep ids and objects.
LEMMA IdentityShape ==
  ASSUME Identity, SameShape(page, page'), live \subseteq Blocks, live' \subseteq live,
         freeId' = freeId, nextObj' = nextObj, weak' = weak
  PROVE  Identity'
<1>1. IdsUnique'
  BY DEF Identity, IdsUnique, SameShape
<1>2. ObjsUnique'
  BY DEF Identity, ObjsUnique, SameShape
<1>3. WeakLeads'
  BY DEF Identity, WeakLeads, SameShape
<1>. QED
  BY <1>1, <1>2, <1>3 DEF Identity

\* An assignment preserves the invariant, and gives no page back that a temporary
\* of the chain may refer to.
LEMMA StoreStep ==
  ASSUME Inv, status = "running", NEW u \in Vars, NEW q, Storable(q), StoreEffect(u, q)
  PROVE  /\ Inv' /\ SameShape(page, page')
         /\ \A x \in live \cup blacklisted :
              PageMayBeReferencedByTemporaries(x) => x \in live' \cup blacklisted'
<1>1. /\ page' \in [Blocks -> Page] /\ SameShape(page, page')
      /\ ref' \in [Vars -> Ptr \cup {Null}]
      /\ CountsAre(page', ref', Null)
  BY StoreCounts
<1>2. Stored(ref, u, q, ref') /\ UNCHANGED <<dims, weak, temp, cur, nextObj, status>>
  BY DEF StoreEffect, Stored
<1>3. \A v \in Vars : ref'[v] # Null => ref'[v] \in Ptr /\ ref'[v].b \in live /\ Intact(ref'[v])
  BY <1>1, <1>2 DEF Stored, Storable, Inv, RefsIntact, TypeOK
<1>4. \A p \in Ptr : Intact(p) => Intact(p)'
  BY <1>1, <1>2 DEF Intact, SameShape, Ptr, dims
<1>5. ASSUME NEW b \in live
      PROVE  /\ page'[b].refCnt = Cardinality(PageHolders(ref', b))
             /\ page'[b].refCnt \in Nat
             /\ \A c \in DOMAIN page'[b].chunks :
                  page'[b].chunks[c].refCnt = Cardinality(Holders(ref', b, c))
             /\ Len(page'[b].chunks) <= page'[b].numChunks
  <2>1. \A c : /\ Cardinality(PageHolders(ref', b)) \in Nat
               /\ Cardinality(Holders(ref', b, c)) \in Nat
    BY HoldersFinite
  <2>2. b \in Blocks /\ Len(page[b].chunks) <= page[b].numChunks
    BY DEF Inv, TypeOK
  <2>. QED
    BY <1>1, <2>1, <2>2 DEF CountsAre, Into, At, SameShape
<1>6. CASE /\ UNCHANGED lists /\ lastAccessed' \in live \cup {NoPage}
           /\ ref[u] # Null => page'[ref[u].b].refCnt # 0
  <2>1. live' = live /\ blacklisted' = blacklisted /\ recycled' = recycled
    BY <1>6 DEF lists
  <2>2. \A b \in live : page'[b].refCnt > 0
    <3>1. ASSUME NEW b \in live PROVE page'[b].refCnt > 0
      <4>1. CASE Into(ref[u], b)
        BY <1>5, <1>6, <4>1 DEF Into
      <4>2. CASE ~Into(ref[u], b)
        BY <1>2, <1>5, <4>2, StorePositive
      <4>. QED
        BY <4>1, <4>2
    <3>. QED
      BY <3>1
  <2>3. CountsExact'
    BY <1>5, <2>1, <2>2 DEF CountsExact
  <2>4. TypeOK'
    BY <1>1, <1>2, <1>5, <1>6, <2>1 DEF Inv, TypeOK, dims
  <2>5. RefsIntact'
    BY <1>2, <1>3, <1>4, <2>1 DEF Inv, RefsIntact
  <2>6. CachesCurrent' /\ ListsDisjoint'
    BY <1>2, <1>6, <2>1 DEF Inv, CachesCurrent, ListsDisjoint, OutOfBounds, dims
  <2>7. BoundsKnown'
    BY <1>2, <2>1 DEF Inv, BoundsKnown, dims
  <2>8. Identity'
    BY <1>1, <1>2, <2>1, IdentityShape DEF Inv, TypeOK, dims
  <2>. QED
    BY <1>1, <2>1, <2>3, <2>4, <2>5, <2>6, <2>7, <2>8 DEF Inv
<1>7. CASE ref[u] # Null /\ page'[ref[u].b].refCnt = 0 /\ PageRemove(page', ref[u].b)
  <2>. DEFINE b0 == ref[u].b
  <2>1. b0 \in live
    BY <1>7, VarFound
  <2>2. /\ live' = live \ {b0}
        /\ blacklisted' \subseteq Blocks /\ recycled' \in Seq(Blocks)
        /\ lastAccessed' \in (live \ {b0}) \cup {NoPage}
        /\ ListsDisjoint'
        /\ \A x \in live \cup blacklisted :
              PageMayBeReferencedByTemporaries(x) => x \in live' \cup blacklisted'
    BY <1>2, <1>7, <2>1, PageRemoveLists DEF Inv, dims
  <2>3. \A b \in live' : page'[b].refCnt > 0
    BY <1>2, <1>5, <2>2, StorePositive DEF Into
  <2>4. CountsExact'
    BY <1>5, <2>2, <2>3 DEF CountsExact
  <2>5. TypeOK'
    BY <1>1, <1>2, <1>5, <2>2 DEF Inv, TypeOK, dims
  <2>6. PageHolders(ref', b0) = {}
    BY <1>5, <1>7, <2>1, HoldersFinite, FS_EmptySet
  <2>7. RefsIntact'
    BY <1>2, <1>3, <1>4, <2>2, <2>6 DEF Inv, RefsIntact, PageHolders
  <2>8. CachesCurrent'
    BY <1>2, <2>2 DEF Inv, CachesCurrent, OutOfBounds, dims
  <2>9. BoundsKnown'
    BY <1>2, <2>2 DEF Inv, BoundsKnown, dims
  <2>10. Identity'
    BY <1>1, <1>2, <2>2, IdentityShape DEF Inv, TypeOK, dims
  <2>. QED
    BY <1>1, <2>2, <2>4, <2>5, <2>7, <2>8, <2>9, <2>10 DEF Inv
<1>8. \/ /\ UNCHANGED lists /\ lastAccessed' \in live \cup {NoPage}
         /\ ref[u] # Null => page'[ref[u].b].refCnt # 0
      \/ ref[u] # Null /\ page'[ref[u].b].refCnt = 0 /\ PageRemove(page', ref[u].b)
  BY StoreCounts
<1>. QED
  BY <1>6, <1>7, <1>8


-----------------------------------------------------------------------------
(* Allocating a chunk.                                                     *)

\* The header of a page after a chunk has been added.
LEMMA AddedChunk ==
  ASSUME NEW pg \in [Blocks -> Page], NEW b \in Blocks, NEW v, NEW onFree,
         NewChunk(onFree) \in Chunk, AddChunk(pg, b, v, onFree)
  PROVE  /\ page' \in [Blocks -> Page]
         /\ \A x \in Blocks \ {b} : page'[x] = pg[x]
         /\ page'[b].refCnt = pg[b].refCnt + 1
         /\ page'[b].id = pg[b].id /\ page'[b].numChunks = pg[b].numChunks
         /\ page'[b].chunks = Append(pg[b].chunks, NewChunk(onFree))
         /\ page'[b].numOnFree = IF onFree THEN pg[b].numOnFree + 1 ELSE pg[b].numOnFree
<1>. DEFINE nf == IF onFree THEN pg[b].numOnFree + 1 ELSE pg[b].numOnFree
            n == pg[b].refCnt + 1
            cs == Append(pg[b].chunks, NewChunk(onFree))
            pb == [pg[b] EXCEPT !.refCnt = n, !.numOnFree = nf, !.chunks = cs]
<1>2. pg[b] \in Page /\ n \in Int /\ nf \in Int /\ pg[b].chunks \in Seq(Chunk)
  BY PageFields
<1>3. cs \in Seq(Chunk)
  BY <1>2
<1>4. page' = [pg EXCEPT ![b] = pb]
  BY <1>2 DEF AddChunk, Page
<1>. HIDE DEF nf, n, cs
<1>5. pb \in Page
  BY <1>2, <1>3, PageUpdate
<1>6. /\ pb.refCnt = n /\ pb.id = pg[b].id /\ pb.numChunks = pg[b].numChunks /\ pb.chunks = cs
      /\ pb.numOnFree = nf
  BY <1>2 DEF Page
<1>. HIDE DEF pb
<1>7. /\ page' \in [Blocks -> Page] /\ page'[b] = pb
      /\ \A x \in Blocks \ {b} : page'[x] = pg[x]
  BY <1>4, <1>5
<1>. QED
  BY <1>6, <1>7 DEF n, cs, nf

\* A chunk that is added has an object of its own, in a page with an old id or a
\* fresh one.
LEMMA IdentityAdd ==
  ASSUME TypeOK, Identity, NEW pg \in [Blocks -> Page], NEW b \in Blocks, NEW v,
         NEW onFree \in BOOLEAN, AddChunk(pg, b, v, onFree),
         \A x \in Blocks \ {b} : pg[x] = page[x],
         \/ b \in live /\ pg[b] = page[b] /\ freeId' = freeId
         \/ b \notin live /\ pg[b].chunks = <<>> /\ pg[b].id = freeId /\ freeId' = freeId + 1,
         live' = live \cup {b}
  PROVE  Identity'
<1>. DEFINE ck == pg[b].chunks
            cn == page'[b].chunks
<1>0. /\ nextObj \in Nat /\ freeId \in Nat /\ page \in [Blocks -> Page] /\ live \subseteq Blocks
      /\ weak \in [Weaks -> Weak \cup {Null}]
      /\ nextObj' = nextObj + 1 /\ weak' = weak
  BY DEF TypeOK, AddChunk
<1>1. /\ \A x \in Blocks \ {b} : page'[x] = page[x]
      /\ page'[b].id = pg[b].id /\ pg[b].id \in Nat
      /\ cn = Append(ck, NewChunk(onFree)) /\ NewChunk(onFree).obj = nextObj
  <2>1. NewChunk(onFree) \in Chunk /\ NewChunk(onFree).obj = nextObj
    BY <1>0 DEF NewChunk, Chunk
  <2>2. \A x \in Blocks \ {b} : page'[x] = pg[x]
    BY <2>1, AddedChunk
  <2>3. page'[b].id = pg[b].id /\ cn = Append(ck, NewChunk(onFree))
    BY <2>1, AddedChunk
  <2>4. pg[b].id \in Nat
    BY DEF Page
  <2>. QED
    BY <2>1, <2>2, <2>3, <2>4
<1>2. ck \in Seq(Chunk)
  BY PageFields
<1>. HIDE DEF ck, cn
<1>3. /\ Len(ck) \in Nat /\ DOMAIN ck = 1..Len(ck) /\ DOMAIN cn = DOMAIN ck \cup {Len(ck) + 1}
      /\ Len(ck) + 1 \notin DOMAIN ck
      /\ \A c \in DOMAIN ck : cn[c] = ck[c]
      /\ cn[Len(ck) + 1].obj = nextObj
  BY <1>1, <1>2
<1>4. \A x \in live : page[x].id \in Nat
  BY <1>0 DEF Page
<1>5. IdsUnique'
  BY <1>0, <1>1, <1>4 DEF Identity, IdsUnique
<1>6. \A x \in live : \A y \in DOMAIN page[x].chunks : page[x].chunks[y].obj \in Nat
  <2>1. ASSUME NEW x \in live, NEW y \in DOMAIN page[x].chunks
        PROVE  page[x].chunks[y].obj \in Nat
    <3>1. page[x].chunks[y] \in Chunk
      BY <1>0, PageFields, ElementOfSeq
    <3>. QED
      BY <3>1 DEF Chunk
  <2>. QED
    BY <2>1
\* The chunks of the listed pages are the old ones and the new one
<1>7. ASSUME NEW x \in live', NEW y \in DOMAIN page'[x].chunks
      PROVE  \/ x = b /\ y = Len(ck) + 1 /\ page'[x].chunks[y].obj = nextObj
             \/ /\ x \in live /\ y \in DOMAIN page[x].chunks
                /\ page'[x].chunks[y].obj = page[x].chunks[y].obj
                /\ page'[x].id = page[x].id
  <2>1. CASE x = b
    <3>1. y \in DOMAIN cn
      BY <1>7, <2>1 DEF cn
    <3>2. CASE y \in DOMAIN ck
      <4>1. ck # <<>>
        BY <1>3, <3>2
      <4>2. b \in live /\ pg[b] = page[b]
        BY <4>1 DEF ck
      <4>. QED
        BY <1>1, <1>3, <2>1, <3>2, <4>2 DEF ck, cn
    <3>. QED
      BY <1>3, <2>1, <3>1, <3>2 DEF cn
  <2>2. CASE x # b
    BY <1>0, <1>1, <2>2
  <2>. QED
    BY <2>1, <2>2
<1>8. ObjsUnique'
  <2>1. ASSUME NEW x \in live', NEW y \in DOMAIN page'[x].chunks
        PROVE  page'[x].chunks[y].obj < nextObj'
    BY <1>0, <1>6, <1>7 DEF Identity, ObjsUnique
  <2>2. ASSUME NEW x \in live', NEW y \in DOMAIN page'[x].chunks,
               NEW z \in live', NEW t \in DOMAIN page'[z].chunks,
               page'[z].chunks[t].obj = page'[x].chunks[y].obj
        PROVE  z = x /\ t = y
    <3>1. \/ x = b /\ y = Len(ck) + 1 /\ page'[x].chunks[y].obj = nextObj
          \/ /\ x \in live /\ y \in DOMAIN page[x].chunks
             /\ page'[x].chunks[y].obj = page[x].chunks[y].obj
             /\ page[x].chunks[y].obj < nextObj /\ page[x].chunks[y].obj \in Nat
      BY <1>6, <1>7 DEF Identity, ObjsUnique
    <3>2. \/ z = b /\ t = Len(ck) + 1 /\ page'[z].chunks[t].obj = nextObj
          \/ /\ z \in live /\ t \in DOMAIN page[z].chunks
             /\ page'[z].chunks[t].obj = page[z].chunks[t].obj
             /\ page[z].chunks[t].obj < nextObj /\ page[z].chunks[t].obj \in Nat
      BY <1>6, <1>7 DEF Identity, ObjsUnique
    <3>. QED
      BY <1>0, <2>2, <3>1, <3>2 DEF Identity, ObjsUnique
  <2>. QED
    BY <2>1, <2>2 DEF ObjsUnique
<1>9. WeakLeads'
  <2>1. SUFFICES ASSUME NEW w \in Weaks, weak[w] # Null
                 PROVE  /\ weak[w].id < freeId' /\ weak[w].obj < nextObj'
                        /\ \A x \in live' :
                             /\ page'[x].id = weak[w].id =>
                                  /\ weak[w].c \in DOMAIN page'[x].chunks
                                  /\ page'[x].chunks[weak[w].c].obj = weak[w].obj
                             /\ \A c \in DOMAIN page'[x].chunks :
                                  page'[x].chunks[c].obj = weak[w].obj =>
                                    page'[x].id = weak[w].id /\ c = weak[w].c
    BY <1>0 DEF WeakLeads
  <2>. DEFINE k == weak[w]
  <2>2. k \in Weak
    BY <1>0, <2>1
  <2>3. k.id \in Nat /\ k.obj \in Nat
    BY <2>2 DEF Weak
  <2>. HIDE DEF k
  <2>4. /\ k.id < freeId /\ k.obj < nextObj
        /\ \A x \in live :
             /\ page[x].id = k.id => /\ k.c \in DOMAIN page[x].chunks
                                     /\ page[x].chunks[k.c].obj = k.obj
             /\ \A c \in DOMAIN page[x].chunks :
                  page[x].chunks[c].obj = k.obj => page[x].id = k.id /\ c = k.c
    BY <2>1 DEF Identity, WeakLeads, k
  <2>5. k.id < freeId' /\ k.obj < nextObj'
    BY <1>0, <2>3, <2>4
  <2>6. ASSUME NEW x \in live', page'[x].id = k.id
        PROVE  k.c \in DOMAIN page'[x].chunks /\ page'[x].chunks[k.c].obj = k.obj
    <3>1. CASE x = b
      <4>1. b \in live /\ pg[b] = page[b]
        BY <1>0, <1>1, <2>3, <2>4, <2>6, <3>1
      <4>2. k.c \in DOMAIN ck /\ ck[k.c].obj = k.obj
        BY <1>1, <2>4, <2>6, <3>1, <4>1 DEF ck
      <4>. QED
        BY <1>3, <3>1, <4>2 DEF cn
    <3>2. CASE x # b
      BY <1>0, <1>1, <2>4, <2>6, <3>2
    <3>. QED
      BY <3>1, <3>2
  <2>7. ASSUME NEW x \in live', NEW c \in DOMAIN page'[x].chunks, page'[x].chunks[c].obj = k.obj
        PROVE  page'[x].id = k.id /\ c = k.c
    <3>1. page'[x].chunks[c].obj # nextObj
      BY <1>0, <2>3, <2>4, <2>7
    <3>2. /\ x \in live /\ c \in DOMAIN page[x].chunks
          /\ page'[x].chunks[c].obj = page[x].chunks[c].obj
          /\ page'[x].id = page[x].id
      BY <1>7, <3>1
    <3>. QED
      BY <2>4, <2>7, <3>2
  <2>. QED
    BY <2>5, <2>6, <2>7 DEF k
<1>. QED
  BY <1>5, <1>8, <1>9 DEF Identity

\* The same as HolderCounts, of a variable that was null.
LEMMA FirstHolderCounts ==
  ASSUME NEW r \in [Vars -> Ptr \cup {Null}], NEW u \in Vars, r[u] = Null,
         NEW q, q # Null, NEW rn, Stored(r, u, q, rn)
  PROVE  \A b, c :
           /\ Cardinality(Holders(r, b, c)) \in Nat
           /\ Cardinality(Holders(rn, b, c)) =
                Cardinality(Holders(r, b, c)) + (IF At(q, b, c) THEN 1 ELSE 0)
<1>. TAKE b, c
<1>1. /\ Cardinality(Holders(r, b, c)) \in Nat
      /\ Cardinality(Holders(rn, b, c)) =
              Cardinality(Holders(r, b, c)) - (IF At(r[u], b, c) THEN 1 ELSE 0)
                                            + (IF At(q, b, c) THEN 1 ELSE 0)
  BY HolderCounts
<1>. QED
  BY <1>1 DEF At

\* A chunk is added to a listed page, or to a page that becomes listed with it.
LEMMA AddChunkStep ==
  ASSUME Inv, status = "running",
         NEW pg \in [Blocks -> Page], NEW b \in Blocks,
         NEW v \in Vars, ref[v] = Null, NEW onFree \in BOOLEAN,
         AddChunk(pg, b, v, onFree),
         \A x \in Blocks \ {b} : pg[x] = page[x],
         \/ b \in live /\ pg[b] = page[b]
         \/ b \notin live \cup blacklisted /\ pg[b].chunks = <<>> /\ pg[b].refCnt = 0,
         Len(pg[b].chunks) < pg[b].numChunks,
         live' = live \cup {b}, cap' \in [Blocks -> Nat], cap'[b] # 0,
         \A x \in live \cup blacklisted : cap'[x] = cap[x]
  PROVE  /\ page' \in [Blocks -> Page] /\ ref' \in [Vars -> Ptr \cup {Null}]
         /\ \A x \in live' : Len(page'[x].chunks) <= page'[x].numChunks
         /\ CountsExact' /\ RefsIntact'
         /\ \A p \in Ptr : p.b \in live \cup blacklisted /\ Intact(p) => Intact(p)'
<1>. DEFINE ck == pg[b].chunks
            cn == page'[b].chunks
            q == [b |-> b, c |-> Len(ck) + 1, obj |-> nextObj]
<1>0. /\ nextObj \in Nat /\ ref \in [Vars -> Ptr \cup {Null}] /\ page \in [Blocks -> Page]
      /\ live \subseteq Blocks /\ blacklisted \subseteq Blocks /\ cap \in [Blocks -> Nat]
  BY DEF Inv, TypeOK
<1>1. /\ page' \in [Blocks -> Page]
      /\ \A x \in Blocks \ {b} : page'[x] = page[x]
      /\ page'[b].refCnt = pg[b].refCnt + 1
      /\ page'[b].numChunks = pg[b].numChunks
      /\ cn = Append(ck, NewChunk(onFree))
      /\ NewChunk(onFree).refCnt = 1 /\ NewChunk(onFree).obj = nextObj
  <2>1. NewChunk(onFree) \in Chunk /\ NewChunk(onFree).refCnt = 1 /\ NewChunk(onFree).obj = nextObj
    BY <1>0 DEF NewChunk, Chunk
  <2>2. \A x \in Blocks \ {b} : page'[x] = pg[x]
    BY <2>1, AddedChunk
  <2>3. page' \in [Blocks -> Page] /\ page'[b].refCnt = pg[b].refCnt + 1
    BY <2>1, AddedChunk
  <2>4. page'[b].numChunks = pg[b].numChunks /\ cn = Append(ck, NewChunk(onFree))
    BY <2>1, AddedChunk
  <2>. QED
    BY <2>1, <2>2, <2>3, <2>4
<1>2. ck \in Seq(Chunk) /\ pg[b].refCnt \in Int /\ Len(ck) \in Nat /\ pg[b].numChunks \in Nat
  BY PageFields DEF Page
<1>3. q \in Ptr /\ ref' = [ref EXCEPT ![v] = q] /\ status' = status /\ nextObj' = nextObj + 1
      /\ q.b = b /\ q.c = Len(ck) + 1 /\ q.obj = nextObj
  BY <1>0, <1>2 DEF AddChunk, Ptr
<1>. HIDE DEF ck, cn, q
<1>4. /\ Len(cn) = Len(ck) + 1 /\ DOMAIN ck = 1..Len(ck) /\ DOMAIN cn = 1..(Len(ck) + 1)
      /\ \A c \in DOMAIN ck : cn[c] = ck[c]
      /\ cn[Len(ck) + 1] = NewChunk(onFree)
  BY <1>1, <1>2
<1>5. ref' \in [Vars -> Ptr \cup {Null}] /\ Stored(ref, v, q, ref') /\ q # Null
  BY <1>0, <1>3, NullAssumption DEF Stored
<1>6. \A x \in live' : Len(page'[x].chunks) <= page'[x].numChunks
  BY <1>0, <1>1, <1>2, <1>4 DEF ck, cn, Inv, TypeOK
<1>7. \A p \in Ptr : p.b \in live \cup blacklisted /\ Intact(p) => Intact(p)'
  <2>1. ASSUME NEW p \in Ptr, p.b \in live \cup blacklisted, Intact(p)
        PROVE  Intact(p)'
    <3>0. cap'[p.b] # 0
      BY <1>0, <2>1 DEF Intact
    <3>1. CASE p.b # b
      BY <1>1, <2>1, <3>0, <3>1 DEF Intact, Ptr
    <3>2. CASE p.b = b
      <4>1. page[b].chunks = ck
        BY <2>1, <3>2 DEF ck
      <4>2. p.c \in DOMAIN ck /\ ck[p.c].obj = p.obj
        BY <2>1, <3>2, <4>1 DEF Intact
      <4>3. p.c \in DOMAIN cn /\ cn[p.c].obj = p.obj
        BY <1>2, <1>4, <4>2
      <4>. QED
        BY <3>0, <3>2, <4>3 DEF Intact, cn
    <3>. QED
      BY <3>1, <3>2
  <2>. QED
    BY <2>1
<1>8. RefsIntact'
  <2>1. ASSUME NEW x \in Vars, ref'[x] # Null
        PROVE  (ref[x].b \in live /\ Intact(ref[x]))'
    <3>1. CASE x = v
      <4>1. ref'[x] = q
        BY <1>0, <1>3, <3>1
      <4>2. Len(ck) + 1 \in DOMAIN cn /\ cn[Len(ck) + 1].obj = nextObj
        BY <1>1, <1>2, <1>4
      <4>. QED
        BY <1>3, <4>1, <4>2 DEF Intact, cn
    <3>2. CASE x # v
      <4>1. ref'[x] = ref[x] /\ ref[x] \in Ptr /\ ref[x].b \in live /\ Intact(ref[x])
        BY <1>0, <1>3, <2>1, <3>2 DEF Inv, RefsIntact
      <4>2. PICK p \in Ptr : p = ref[x]
        BY <4>1
      <4>3. Intact(p)' /\ p.b \in live'
        BY <1>7, <4>1, <4>2
      <4>. QED
        BY <4>1, <4>2, <4>3 DEF Intact
    <3>. QED
      BY <3>1, <3>2
  <2>2. status' = "running"
    BY <1>3
  <2>. QED
    BY <2>1, <2>2 DEF RefsIntact
<1>9. ASSUME NEW x \in live'
      PROVE  page'[x].refCnt = Cardinality(PageHolders(ref', x)) /\ page'[x].refCnt > 0
  <2>1. x \in Blocks /\ ~Into(ref[v], x) /\ (Into(q, x) <=> x = b)
    BY <1>0, <1>3, <1>5 DEF Into
  <2>2. /\ Cardinality(PageHolders(ref, x)) \in Nat
        /\ Cardinality(PageHolders(ref', x)) =
             Cardinality(PageHolders(ref, x)) + (IF x = b THEN 1 ELSE 0)
    BY <1>0, <1>5, <2>1, PageHolderCounts, SMTT(20)
  <2>3. CASE x \in live
    <3>1. page[x].refCnt = Cardinality(PageHolders(ref, x)) /\ page[x].refCnt > 0
      BY <2>3 DEF Inv, CountsExact
    <3>2. pg[x] = page[x]
      BY <2>1, <2>3
    <3>. QED
      BY <1>1, <2>1, <2>2, <3>1, <3>2
  <2>4. CASE x \notin live
    <3>1. x = b /\ pg[b].refCnt = 0
      BY <2>4
    <3>2. PageHolders(ref, x) = {}
      BY <2>4 DEF PageHolders, Inv, RefsIntact
    <3>3. Cardinality(PageHolders(ref, x)) = 0
      BY <3>2, FS_EmptySet
    <3>. QED
      BY <1>1, <2>2, <3>1, <3>3
  <2>. QED
    BY <2>3, <2>4
<1>9a. \A x, c : /\ Cardinality(Holders(ref, x, c)) \in Nat
                  /\ Cardinality(Holders(ref', x, c)) =
                       Cardinality(Holders(ref, x, c)) + (IF At(q, x, c) THEN 1 ELSE 0)
  <2>1. v \in Vars /\ ref[v] = Null /\ ref \in [Vars -> Ptr \cup {Null}]
    BY <1>0
  <2>. QED
    BY ONLY <2>1, <1>5, FirstHolderCounts
<1>10. ASSUME NEW x \in live', NEW c \in DOMAIN page'[x].chunks
       PROVE  page'[x].chunks[c].refCnt = Cardinality(Holders(ref', x, c))
  <2>1. x \in Blocks /\ ~At(ref[v], x, c) /\ (At(q, x, c) <=> x = b /\ c = Len(ck) + 1)
    BY <1>0, <1>3, <1>5 DEF At
  <2>2. /\ Cardinality(Holders(ref, x, c)) \in Nat
        /\ Cardinality(Holders(ref', x, c)) =
             Cardinality(Holders(ref, x, c)) + (IF x = b /\ c = Len(ck) + 1 THEN 1 ELSE 0)
    BY <1>9a, <2>1
  <2>3. CASE x = b /\ c = Len(ck) + 1
    <3>1. Holders(ref, b, Len(ck) + 1) = {}
      <4>1. ASSUME NEW y \in Holders(ref, b, Len(ck) + 1) PROVE FALSE
        <5>1. b \in live /\ Len(ck) + 1 \in DOMAIN page[b].chunks
          BY <4>1 DEF Holders, Inv, RefsIntact, Intact
        <5>2. page[b].chunks = ck
          BY <5>1 DEF ck
        <5>. QED
          BY <1>2, <1>4, <5>1, <5>2
      <4>. QED
        BY <4>1
    <3>2. Cardinality(Holders(ref, b, Len(ck) + 1)) = 0
      BY <3>1, FS_EmptySet
    <3>3. page'[x].chunks[c].refCnt = 1
      BY <1>1, <1>4, <2>3 DEF cn
    <3>. QED
      BY <2>2, <2>3, <3>2, <3>3
  <2>4. CASE ~(x = b /\ c = Len(ck) + 1)
    <3>1. x \in live /\ c \in DOMAIN page[x].chunks /\ page'[x].chunks[c] = page[x].chunks[c]
      <4>1. CASE x = b
        <5>1. c \in DOMAIN cn
          BY <1>10, <4>1 DEF cn
        <5>2. c \in DOMAIN ck /\ cn[c] = ck[c]
          BY <1>2, <1>4, <2>4, <4>1, <5>1
        <5>3. ck # <<>>
          BY <1>2, <5>2
        <5>4. b \in live /\ page[b].chunks = ck
          BY <5>3 DEF ck
        <5>. QED
          BY <4>1, <5>2, <5>4 DEF cn
      <4>2. CASE x # b
        BY <1>1, <1>10, <2>1, <4>2
      <4>. QED
        BY <4>1, <4>2
    <3>2. page[x].chunks[c].refCnt = Cardinality(Holders(ref, x, c))
      BY <3>1 DEF Inv, CountsExact
    <3>. QED
      BY <2>2, <2>4, <3>1, <3>2
  <2>. QED
    BY <2>3, <2>4
<1>11. CountsExact'
  BY <1>9, <1>10 DEF CountsExact
<1>. QED
  BY <1>1, <1>5, <1>6, <1>7, <1>8, <1>11

\* A new page holds at least one chunk, and has none yet.
LEMMA NewPageFields ==
  ASSUME freeId \in Nat, NEW size \in ChunkSizes
  PROVE  /\ NewPage(size) \in Page
         /\ NewPage(size).chunks = <<>> /\ NewPage(size).refCnt = 0
         /\ NewPage(size).id = freeId
         /\ NewPage(size).numChunks = ChunksPerPage(size)
         /\ ChunksPerPage(size) \in Nat \ {0} /\ size \in Nat \ {0}
         /\ ChunksPerPage(size) * size \in Nat \ {0}
<1>1. size \in Nat \ {0} /\ PageSize \in Nat \ {0}
  BY SizesAssumption
<1>2. PageSize \div size \in Nat
  BY <1>1
<1>3. ChunksPerPage(size) \in Nat \ {0}
  BY <1>2 DEF ChunksPerPage
<1>. DEFINE n == ChunksPerPage(size)
<1>. HIDE DEF n
<1>4. n \in Nat \ {0}
  BY <1>3 DEF n
<1>5. n * size \in Nat \ {0}
  BY <1>1, <1>4
<1>6. EmptyPage \in Page /\ EmptyPage.chunks = <<>> /\ EmptyPage.refCnt = 0
  BY DEF EmptyPage, Page
<1>7. /\ NewPage(size) \in Page
      /\ NewPage(size).chunks = <<>> /\ NewPage(size).refCnt = 0
      /\ NewPage(size).id = freeId /\ NewPage(size).numChunks = n
  <2>. DEFINE e == EmptyPage
  <2>1. NewPage(size) = [e EXCEPT !.id = freeId, !.numChunks = n, !.chunkSize = size]
    BY DEF NewPage, n
  <2>2. e \in Page /\ e.chunks = <<>> /\ e.refCnt = 0
    BY <1>6
  <2>. HIDE DEF e
  <2>. QED
    BY <1>1, <1>4, <2>1, <2>2 DEF Page
<1>. QED
  BY <1>1, <1>4, <1>5, <1>7 DEF n

\* Pointers into listed pages keep their objects
KeepsObjects ==
  \A p \in Ptr : p.b \in live \cup blacklisted /\ Intact(p)
    => (p.b \in live \cup blacklisted)' /\ Intact(p)'

\* What pageAdd does, wherever the memory comes from.
LEMMA PageAddStep ==
  ASSUME Inv, status = "running", NEW b \in Blocks, b \notin live \cup blacklisted,
         NEW v \in Vars, ref[v] = Null, NEW size \in ChunkSizes, NEW onFree \in BOOLEAN,
         PageAdd(b, v, size, onFree),
         cap' \in [Blocks -> Nat], cap'[b] # 0,
         \A x \in live \cup blacklisted : cap'[x] = cap[x],
         recycled' \in Seq(Blocks), ListsDisjoint'
  PROVE  Inv' /\ KeepsObjects
<1>. DEFINE pg == [page EXCEPT ![b] = NewPage(size)]
<1>1. TypeOK /\ status # "freed"
  BY DEF Inv
<1>2. /\ pg \in [Blocks -> Page] /\ pg[b].chunks = <<>> /\ pg[b].refCnt = 0
      /\ pg[b].id = freeId
      /\ Len(pg[b].chunks) < pg[b].numChunks
      /\ \A x \in Blocks \ {b} : pg[x] = page[x]
  <2>1. freeId \in Nat /\ page \in [Blocks -> Page]
    BY <1>1 DEF TypeOK
  <2>2. /\ NewPage(size) \in Page
        /\ NewPage(size).chunks = <<>> /\ NewPage(size).refCnt = 0
        /\ NewPage(size).id = freeId
        /\ NewPage(size).numChunks = ChunksPerPage(size)
        /\ ChunksPerPage(size) \in Nat \ {0}
    BY <2>1, NewPageFields
  <2>3. pg[b] = NewPage(size)
    BY <2>1
  <2>. QED
    BY <2>1, <2>2, <2>3
<1>3. /\ AddChunk(pg, b, v, onFree) /\ live' = live \cup {b} /\ freeId' = freeId + 1
      /\ lowest' = IF lowest = 0 \/ lowest > b THEN b ELSE lowest
      /\ highest' = IF highest = 0 \/ highest < b + 1 THEN b + 1 ELSE highest
  BY DEF PageAdd
<1>. HIDE DEF pg
<1>4. /\ page' \in [Blocks -> Page] /\ ref' \in [Vars -> Ptr \cup {Null}]
      /\ \A x \in live' : Len(page'[x].chunks) <= page'[x].numChunks
      /\ CountsExact' /\ RefsIntact'
      /\ \A p \in Ptr : p.b \in live \cup blacklisted /\ Intact(p) => Intact(p)'
  BY <1>2, <1>3, AddChunkStep
<1>5. /\ lastAccessed' = b /\ nextObj' = nextObj + 1 /\ blacklisted' = blacklisted
      /\ UNCHANGED <<weak, temp, cur, status>>
  BY <1>3 DEF AddChunk
<1>6. b \in Nat \ {0} /\ lowest \in Nat /\ highest \in Nat /\ live \subseteq Nat
  BY <1>1, BlocksAssumption DEF TypeOK
<1>7. TypeOK'
  BY <1>1, <1>3, <1>4, <1>5, <1>6 DEF TypeOK
<1>8. BoundsKnown'
  BY <1>3, <1>6 DEF BoundsKnown
<1>9. CachesCurrent'
  <2>1. ASSUME NEW x \in live'
        PROVE  ~(lowest' # 0 /\ x < lowest') /\ ~(highest' # 0 /\ x >= highest')
    <3>1. CASE x = b
      BY <1>3, <1>6, <3>1
    <3>2. CASE x # b
      <4>1. x \in live /\ x \in Nat
        BY <1>3, <1>6, <3>2
      <4>2. lowest # 0 /\ highest # 0 /\ ~(x < lowest) /\ ~(x >= highest)
        BY <1>1, <4>1 DEF Inv, BoundsKnown, CachesCurrent, OutOfBounds
      <4>. QED
        BY <1>3, <1>6, <4>1, <4>2
    <3>. QED
      BY <3>1, <3>2
  <2>. QED
    BY <1>3, <1>5, <2>1 DEF CachesCurrent, OutOfBounds
<1>10. Identity'
  BY <1>1, <1>2, <1>3, IdentityAdd DEF Inv
<1>. QED
  BY <1>3, <1>4, <1>5, <1>7, <1>8, <1>9, <1>10 DEF Inv, KeepsObjects

LEMMA AllocInPageStep ==
  ASSUME Inv, NEW v \in Vars, NEW size \in ChunkSizes, NEW onFree \in BOOLEAN,
         CanAlloc(v), AllocInPage(v, size, onFree)
  PROVE  Inv' /\ KeepsObjects
<1>1. PICK b \in BestFits(size) : AddChunk(page, b, v, onFree)
  BY DEF AllocInPage
<1>2. /\ b \in live /\ Len(page[b].chunks) < page[b].numChunks
      /\ status = "running" /\ ref[v] = Null
  BY <1>1 DEF BestFits, Fitting, CanAlloc
<1>3. TypeOK /\ ListsDisjoint
  BY <1>2 DEF Inv
<1>4. /\ b \in Blocks /\ cap[b] # 0 /\ page \in [Blocks -> Page] /\ cap \in [Blocks -> Nat]
  BY <1>2, <1>3 DEF TypeOK, ListsDisjoint
<1>5. /\ live' = live \cup {b} /\ cap' = cap
      /\ UNCHANGED <<live, recycled, blacklisted, lowest, highest, freeId, cap>>
      /\ lastAccessed' = b /\ nextObj' = nextObj + 1 /\ UNCHANGED <<weak, temp, cur, status>>
  BY <1>1, <1>2 DEF AllocInPage, AddChunk, dims
<1>6. /\ page' \in [Blocks -> Page] /\ ref' \in [Vars -> Ptr \cup {Null}]
      /\ \A x \in live' : Len(page'[x].chunks) <= page'[x].numChunks
      /\ CountsExact' /\ RefsIntact'
      /\ \A p \in Ptr : p.b \in live \cup blacklisted /\ Intact(p) => Intact(p)'
  BY <1>1, <1>2, <1>4, <1>5, AddChunkStep
<1>7. TypeOK'
  BY <1>3, <1>4, <1>5, <1>6 DEF TypeOK
<1>8. BoundsKnown' /\ CachesCurrent' /\ ListsDisjoint'
  BY <1>2, <1>3, <1>5 DEF Inv, BoundsKnown, CachesCurrent, ListsDisjoint, OutOfBounds
<1>9. Identity'
  BY <1>1, <1>2, <1>3, <1>4, <1>5, IdentityAdd DEF Inv
<1>. QED
  BY <1>5, <1>6, <1>7, <1>8, <1>9 DEF Inv, KeepsObjects

LEMMA AllocRecycledStep ==
  ASSUME Inv, NEW v \in Vars, NEW size \in ChunkSizes, NEW onFree \in BOOLEAN,
         CanAlloc(v), AllocRecycled(v, size, onFree)
  PROVE  Inv' /\ KeepsObjects
<1>1. PICK i \in BigEnough(size) :
         /\ PageAdd(recycled[i], v, size, onFree)
         /\ recycled' = SubSeq(recycled, i + 1, Len(recycled))
         /\ cap' = [b \in Blocks |-> IF b \in Popped(i - 1) THEN 0 ELSE cap[b]]
  BY DEF AllocRecycled
<1>2. TypeOK /\ ListsDisjoint /\ status = "running" /\ ref[v] = Null
  BY DEF Inv, CanAlloc
<1>. DEFINE n == Len(recycled)
            b0 == recycled[i]
<1>3. n \in Nat /\ recycled \in [1..n -> Blocks] /\ i \in 1..n
  BY <1>1, <1>2 DEF BigEnough, TypeOK
<1>. HIDE DEF n
<1>4. /\ b0 \in Blocks
      /\ \A j \in 1..n : recycled[j] \notin live \cup blacklisted
      /\ \A j, k \in 1..n : recycled[j] = recycled[k] => j = k
  BY <1>2, <1>3 DEF ListsDisjoint
<1>5. /\ recycled' \in Seq(Blocks) /\ DOMAIN recycled' = 1..(n - i)
      /\ \A j \in 1..(n - i) : recycled'[j] = recycled[j + i]
  BY <1>1, <1>2, <1>3 DEF TypeOK, n
<1>6. live' = live \cup {b0} /\ blacklisted' = blacklisted
  BY <1>1 DEF PageAdd, AddChunk
<1>7. \A x \in Blocks : x \in Popped(i - 1) <=> \E j \in 1..(i - 1) : recycled[j] = x
  BY DEF Popped
<1>8. /\ cap' \in [Blocks -> Nat] /\ cap'[b0] # 0
      /\ \A x \in live \cup blacklisted : cap'[x] = cap[x]
  <2>1. b0 \notin Popped(i - 1) /\ \A x \in live \cup blacklisted : x \notin Popped(i - 1)
    BY <1>2, <1>3, <1>4, <1>7 DEF TypeOK
  <2>2. cap[b0] # 0
    BY <1>2, <1>3, <1>4 DEF ListsDisjoint
  <2>. QED
    BY <1>1, <1>2, <1>4, <2>1, <2>2 DEF TypeOK
<1>9. ListsDisjoint'
  <2>1. live' \cap blacklisted' = {}
    BY <1>2, <1>3, <1>4, <1>6 DEF ListsDisjoint
  <2>2. \A j \in 1..(n - i) : j + i \in 1..n /\ j + i # i
    BY <1>3
  <2>3. \A j \in DOMAIN recycled' : recycled'[j] \notin live' \cup blacklisted'
    BY <1>3, <1>4, <1>5, <1>6, <2>2
  <2>4. \A j, k \in DOMAIN recycled' : recycled'[j] = recycled'[k] => j = k
    <3>1. \A j, k \in 1..(n - i) : j + i = k + i => j = k
      BY <1>3
    <3>. QED
      BY <1>4, <1>5, <2>2, <3>1
  <2>5. ASSUME NEW x \in Blocks
        PROVE  cap'[x] # 0 <=> \/ x \in live' \cup blacklisted'
                               \/ \E j \in DOMAIN recycled' : recycled'[j] = x
    <3>1. cap[x] # 0 <=> \/ x \in live \cup blacklisted
                         \/ \E j \in 1..n : recycled[j] = x
      BY <1>2, <1>3 DEF ListsDisjoint
    <3>2. cap'[x] = IF x \in Popped(i - 1) THEN 0 ELSE cap[x]
      BY <1>1
    <3>3. CASE \E j \in 1..n : recycled[j] = x
      <4>1. PICK j \in 1..n : recycled[j] = x
        BY <3>3
      <4>2. x \in Popped(i - 1) <=> j < i
        <5>1. \A k \in 1..(i - 1) : k \in 1..n
          BY <1>3
        <5>2. j < i => j \in 1..(i - 1)
          BY <1>3
        <5>. QED
          BY <1>3, <1>4, <1>7, <4>1, <5>1, <5>2
      <4>3. (\E k \in DOMAIN recycled' : recycled'[k] = x) <=> j > i
        <5>1. j > i => j - i \in 1..(n - i) /\ (j - i) + i = j
          BY <1>3
        <5>2. \A k \in 1..(n - i) : k + i \in 1..n /\ k + i > i
          BY <1>3
        <5>. QED
          BY <1>4, <1>5, <4>1, <5>1, <5>2
      <4>4. x \in live' \cup blacklisted' <=> j = i
        BY <1>3, <1>4, <1>6, <4>1
      <4>. QED
        BY <1>3, <3>1, <3>2, <3>3, <4>2, <4>3, <4>4
    <3>4. CASE ~\E j \in 1..n : recycled[j] = x
      <4>1. x # b0 /\ x \notin Popped(i - 1)
        BY <1>3, <1>7, <3>4
      <4>2. ~\E k \in DOMAIN recycled' : recycled'[k] = x
        BY <1>5, <2>2, <3>4
      <4>. QED
        BY <1>6, <3>1, <3>2, <3>4, <4>1, <4>2
    <3>. QED
      BY <3>3, <3>4
  <2>. QED
    BY <2>1, <2>3, <2>4, <2>5 DEF ListsDisjoint
<1>10. b0 \notin live \cup blacklisted
  BY <1>3, <1>4
<1>. HIDE DEF b0
<1>11. PageAdd(b0, v, size, onFree)
  BY <1>1 DEF b0
<1>. QED
  BY <1>2, <1>4, <1>5, <1>8, <1>9, <1>10, <1>11, PageAddStep

LEMMA AllocFreshStep ==
  ASSUME Inv, NEW v \in Vars, NEW size \in ChunkSizes, NEW onFree \in BOOLEAN,
         CanAlloc(v), AllocFresh(v, size, onFree)
  PROVE  Inv' /\ KeepsObjects
<1>. DEFINE all == Popped(Len(recycled))
<1>1. PICK b \in {x \in Blocks : cap[x] = 0} \cup all :
         /\ PageAdd(b, v, size, onFree)
         /\ cap' = [x \in Blocks |-> IF x = b THEN ChunksPerPage(size) * size
                                     ELSE IF x \in all THEN 0 ELSE cap[x]]
  BY DEF AllocFresh
<1>2. TypeOK /\ ListsDisjoint /\ status = "running" /\ ref[v] = Null
  BY DEF Inv, CanAlloc
<1>3. /\ all \subseteq Blocks
      /\ \A x \in Blocks : x \in all <=> \E i \in DOMAIN recycled : recycled[i] = x
  BY <1>2 DEF Popped, TypeOK
<1>. HIDE DEF all
<1>4. b \in Blocks /\ b \notin live \cup blacklisted
  BY <1>2, <1>3 DEF ListsDisjoint, TypeOK
<1>5. ChunksPerPage(size) * size \in Nat \ {0}
  BY <1>2, NewPageFields DEF TypeOK
<1>6. /\ recycled' = <<>> /\ live' = live \cup {b} /\ blacklisted' = blacklisted
  BY <1>1 DEF AllocFresh, PageAdd, AddChunk
<1>7. /\ cap' \in [Blocks -> Nat] /\ cap'[b] # 0
      /\ \A x \in live \cup blacklisted : cap'[x] = cap[x]
  BY <1>1, <1>2, <1>3, <1>4, <1>5 DEF TypeOK, ListsDisjoint
<1>8. ListsDisjoint'
  <2>1. live' \cap blacklisted' = {} /\ recycled' \in Seq(Blocks) /\ DOMAIN recycled' = {}
    BY <1>2, <1>4, <1>6 DEF ListsDisjoint
  <2>2. ASSUME NEW x \in Blocks
        PROVE  cap'[x] # 0 <=> x \in live' \cup blacklisted'
    BY <1>1, <1>2, <1>3, <1>4, <1>6, <1>7 DEF ListsDisjoint
  <2>. QED
    BY <2>1, <2>2 DEF ListsDisjoint
<1>9. recycled' \in Seq(Blocks)
  BY <1>6
<1>. QED
  BY <1>1, <1>2, <1>4, <1>7, <1>8, <1>9, PageAddStep

-----------------------------------------------------------------------------
(* The invariant holds.                                                    *)

\* pageFree leaves well-formed headers behind.
LEMMA FinalizedPage ==
  ASSUME NEW p \in Page
  PROVE  Finalize(p) \in Page
<1>. DEFINE called == {c \in Unfinalized(p) :
                         Cardinality({d \in Unfinalized(p) : d < c}) < p.numOnFree}
            n == Len(p.chunks)
            k == p.numOnFree - Cardinality(called)
            cs == [c \in DOMAIN p.chunks |->
                     IF c \in called THEN [p.chunks[c] EXCEPT !.calls = @ + 1]
                     ELSE p.chunks[c]]
<1>1. p.chunks \in Seq(Chunk) /\ p.numOnFree \in Int
  BY PageFields
<1>2. n \in Nat /\ DOMAIN p.chunks = 1..n /\ \A c \in 1..n : p.chunks[c] \in Chunk
  BY <1>1
<1>3. called \subseteq 1..n
  BY <1>2 DEF Unfinalized
<1>. HIDE DEF called, n
<1>4. k \in Int
  <2>1. IsFiniteSet(1..n)
    BY <1>2, FS_Interval
  <2>2. Cardinality(called) \in Nat
    BY <1>3, <2>1, FS_Subset, FS_CardinalityType
  <2>. QED
    BY <1>1, <2>2
<1>5. cs \in Seq(Chunk)
  <2>1. \A x \in Chunk : [x EXCEPT !.calls = @ + 1] \in Chunk
    BY DEF Chunk
  <2>2. cs \in [1..n -> Chunk]
    BY <1>2, <2>1
  <2>. QED
    BY <1>2, <2>2
<1>6. Finalize(p) = [p EXCEPT !.chunks = cs, !.numOnFree = k]
  BY DEF Finalize, called
<1>. HIDE DEF cs, k
<1>. QED
  BY <1>4, <1>5, <1>6 DEF Page

LEMMA InvInit == Init => Inv
<1>. SUFFICES ASSUME Init PROVE Inv
  OBVIOUS
<1>1. EmptyPage \in Page
  BY DEF EmptyPage, Page
<1>2. TypeOK
  BY <1>1, FibersAssumption DEF Init, TypeOK
<1>3. BoundsKnown /\ CountsExact /\ RefsIntact /\ CachesCurrent /\ ListsDisjoint
  BY DEF Init, BoundsKnown, CountsExact, RefsIntact, CachesCurrent, ListsDisjoint
<1>4. Identity
  BY DEF Init, Identity, IdsUnique, ObjsUnique, WeakLeads
<1>. QED
  BY <1>2, <1>3, <1>4 DEF Inv

\* The copy of a variable, and its release, are stores of a pointer that is intact.
LEMMA AssignIsStore ==
  ASSUME Inv, NEW u \in Vars, NEW v \in Vars, Assign(u, v)
  PROVE  status = "running" /\ Storable(ref[v]) /\ StoreEffect(u, ref[v])
<1>1. status = "running" /\ ref[v] # Null
  BY DEF Assign
<1>2. /\ ref[v] \in Ptr /\ ref[v].b \in live /\ Found(ref[v]) /\ ~IsDangling(ref[v])
      /\ Intact(ref[v])
  BY <1>1, VarFound DEF Inv, RefsIntact
<1>3. ref[u] # Null => Found(ref[u])
  BY <1>1, VarFound
<1>4. /\ ref' = [ref EXCEPT ![u] = ref[v]]
      /\ UNCHANGED <<dims, weak, temp, cur, nextObj, status>>
      /\ IF ref[u] # Null
         THEN DecRef(Incremented(page, ref[v]), ref[u])
         ELSE /\ page' = Incremented(page, ref[v])
              /\ lastAccessed' = ref[v].b
              /\ UNCHANGED lists
  BY <1>1, <1>2, <1>3 DEF Assign
<1>. QED
  BY <1>1, <1>2, <1>4 DEF Storable, StoreEffect

LEMMA CollectIsStore ==
  ASSUME Inv, NEW v \in Vars, Collect(v)
  PROVE  status = "running" /\ Storable(Null) /\ StoreEffect(v, Null)
<1>1. status = "running" /\ ref[v] # Null
  BY DEF Collect
<1>2. Found(ref[v]) /\ ~IsDangling(ref[v])
  BY <1>1, VarFound
<1>3. Incremented(page, Null) = page
  BY DEF Incremented
<1>. QED
  BY <1>1, <1>2, <1>3 DEF Collect, Storable, StoreEffect

\* Steps that leave the heap alone but for lastAccessed.
LEMMA QuietStep ==
  ASSUME Inv,
         UNCHANGED <<page, lists, dims, ref, nextObj, status>>,
         \/ lastAccessed' = lastAccessed
         \/ lastAccessed' \in live,
         weak' \in [Weaks -> Weak \cup {Null}],
         \/ weak' = weak
         \/ WeakLeads',
         temp' \in [Fibers -> [Slots -> Ptr \cup {Null}]],
         cur' \in Fibers
  PROVE  Inv'
<1>1. TypeOK'
  BY DEF Inv, TypeOK, lists, dims
<1>2. CountsExact' /\ BoundsKnown'
  BY DEF Inv, CountsExact, BoundsKnown, lists, dims
<1>3. RefsIntact'
  BY DEF Inv, RefsIntact, Intact, lists, dims
<1>4. CachesCurrent'
  BY DEF Inv, CachesCurrent, OutOfBounds, lists, dims
<1>5. status' # "freed" => ListsDisjoint'
  BY DEF Inv, ListsDisjoint, lists, dims
<1>6. Identity'
  BY DEF Inv, Identity, IdsUnique, ObjsUnique, WeakLeads, lists, dims
<1>. QED
  BY <1>1, <1>2, <1>3, <1>4, <1>5, <1>6 DEF Inv

\* What a weak pointer leads to is its object, in a listed page.
LEMMA StrengthenedIntact ==
  ASSUME Inv, status = "running", NEW w \in Weaks, weak[w] # Null,
         NEW p \in Strengthened(weak[w])
  PROVE  /\ p \in Ptr /\ p.b \in live /\ Intact(p)
         /\ page[p.b].id = weak[w].id /\ p.c = weak[w].c /\ p.obj = weak[w].obj
         /\ page[p.b].chunks[p.c].refCnt # 0
<1>. DEFINE k == weak[w]
<1>1. k \in Weak /\ page \in [Blocks -> Page] /\ live \subseteq Blocks
  BY DEF Inv, TypeOK
<1>2. PICK b \in live :
         /\ p = [b |-> b, c |-> k.c, obj |-> page[b].chunks[k.c].obj]
         /\ page[b].id = k.id /\ page[b].chunks[k.c].refCnt # 0
  BY DEF Strengthened
<1>3. k.c \in DOMAIN page[b].chunks /\ page[b].chunks[k.c].obj = k.obj
  BY <1>2 DEF Inv, Identity, WeakLeads
<1>4. k.c \in Nat \ {0} /\ k.obj \in Nat
  BY <1>1 DEF Weak
<1>5. cap[b] # 0
  BY <1>1, <1>2 DEF Inv, ListsDisjoint
<1>. HIDE DEF k
<1>6. p.b = b /\ p.c = k.c /\ p.obj = k.obj /\ p \in Ptr
  BY <1>1, <1>2, <1>3, <1>4 DEF Ptr
<1>. QED
  BY <1>2, <1>3, <1>5, <1>6 DEF Intact, k

LEMMA InvFree ==
  ASSUME Inv, Free
  PROVE  Inv'
<1>1. /\ page' = [b \in Blocks |-> IF b \in live THEN Finalize(page[b]) ELSE page[b]]
      /\ live' = {} /\ recycled' = <<>> /\ blacklisted' = {}
      /\ cap' = [b \in Blocks |-> 0] /\ status' = "freed"
      /\ UNCHANGED <<lastAccessed, lowest, highest, freeId, ref, weak, temp, cur, nextObj>>
  BY DEF Free, prog
<1>2. page' \in [Blocks -> Page]
  BY <1>1, FinalizedPage DEF Inv, TypeOK
<1>3. TypeOK'
  BY <1>1, <1>2 DEF Inv, TypeOK
<1>4. CountsExact' /\ BoundsKnown' /\ RefsIntact' /\ CachesCurrent'
  BY <1>1 DEF CountsExact, BoundsKnown, RefsIntact, CachesCurrent
<1>5. Identity'
  BY <1>1 DEF Inv, Identity, IdsUnique, ObjsUnique, WeakLeads
<1>. QED
  BY <1>1, <1>3, <1>4, <1>5 DEF Inv

LEMMA InvNext == Inv /\ [Next]_vars => Inv'
<1>. SUFFICES ASSUME Inv, [Next]_vars PROVE Inv'
  OBVIOUS
<1>0. TypeOK
  BY DEF Inv
<1>1. ASSUME NEW v \in Vars, NEW size \in ChunkSizes, NEW onFree \in FinalizerChoices,
             Alloc(v, size, onFree)
      PROVE  Inv'
  <2>1. onFree \in BOOLEAN
    BY ProgramAssumption
  <2>2. CanAlloc(v)
    BY <1>1 DEF Alloc
  <2>3. CASE AllocInPage(v, size, onFree)
    BY <2>1, <2>2, <2>3, AllocInPageStep
  <2>4. CASE AllocRecycled(v, size, onFree)
    BY <2>1, <2>2, <2>4, AllocRecycledStep
  <2>5. CASE AllocFresh(v, size, onFree)
    BY <2>1, <2>2, <2>5, AllocFreshStep
  <2>. QED
    BY <1>1, <2>3, <2>4, <2>5 DEF Alloc
<1>2. ASSUME NEW u \in Vars, NEW v \in Vars, Assign(u, v)
      PROVE  Inv'
  BY <1>2, AssignIsStore, StoreStep
<1>3. ASSUME NEW v \in Vars, Collect(v)
      PROVE  Inv'
  BY <1>3, CollectIsStore, StoreStep
<1>4. ASSUME NEW s \in Slots, NEW v \in Vars, Load(s, v)
      PROVE  Inv'
  BY <1>0, <1>4, QuietStep DEF Load, TypeOK
<1>5. ASSUME NEW s \in Slots, Drop(s)
      PROVE  Inv'
  BY <1>0, <1>5, QuietStep DEF Drop, TypeOK
<1>6. ASSUME NEW w \in Weaks, NEW v \in Vars, Weaken(w, v)
      PROVE  Inv'
  <2>1. ref[v] \in Ptr /\ ref[v].b \in live /\ ~IsDangling(ref[v])
    BY <1>6, VarFound DEF Weaken
  <2>2. page[ref[v].b].id \in Nat
    BY <1>0, <2>1 DEF TypeOK, Page
  <2>3. [id |-> page[ref[v].b].id, c |-> ref[v].c, obj |-> ref[v].obj] \in Weak
    BY <2>1, <2>2 DEF Weak, Ptr
  <2>4. /\ weak' \in [Weaks -> Weak \cup {Null}] /\ lastAccessed' \in live
        /\ UNCHANGED <<page, lists, dims, ref, temp, cur, nextObj, status>>
    BY <1>0, <1>6, <2>1, <2>3 DEF Weaken, TypeOK
  <2>. DEFINE b0 == ref[v].b
              k == [id |-> page[b0].id, c |-> ref[v].c, obj |-> ref[v].obj]
  <2>5. /\ k.id = page[b0].id /\ k.c \in DOMAIN page[b0].chunks
        /\ page[b0].chunks[k.c].obj = k.obj
    BY <1>6, <2>1 DEF Inv, RefsIntact, Intact, Weaken
  <2>6. weak' = [weak EXCEPT ![w] = k]
    BY <1>6, <2>1 DEF Weaken
  <2>. HIDE DEF k, b0
  <2>7. b0 \in live
    BY <2>1 DEF b0
  <2>8. /\ k.id < freeId /\ k.obj < nextObj
        /\ \A x \in live :
             /\ page[x].id = k.id => x = b0
             /\ \A c \in DOMAIN page[x].chunks :
                  page[x].chunks[c].obj = k.obj => x = b0 /\ c = k.c
    BY <2>5, <2>7 DEF Inv, Identity, IdsUnique, ObjsUnique
  <2>9. WeakLeads'
    <3>1. UNCHANGED <<page, live, freeId, nextObj>>
      BY <2>4 DEF lists, dims
    <3>2. \A x \in Weaks : weak'[x] = IF x = w THEN k ELSE weak[x]
      BY <1>0, <2>6 DEF TypeOK
    <3>3. WeakLeads
      BY DEF Inv, Identity
    <3>. QED
      BY <2>5, <2>7, <2>8, <3>1, <3>2, <3>3 DEF WeakLeads
  <2>. QED
    BY <1>0, <2>4, <2>9, QuietStep DEF TypeOK
<1>7. ASSUME NEW s \in Slots, NEW w \in Weaks, Strengthen(s, w)
      PROVE  Inv'
  <2>1. PICK p \in Strengthened(weak[w]) : temp' = [temp EXCEPT ![cur][s] = p]
    BY <1>7 DEF Strengthen
  <2>2. p \in Ptr
    BY <1>7, <2>1, StrengthenedIntact DEF Strengthen
  <2>. QED
    BY <1>0, <1>7, <2>1, <2>2, QuietStep DEF Strengthen, TypeOK
<1>8. ASSUME NEW f \in Fibers, Resume(f)
      PROVE  Inv'
  BY <1>0, <1>8, QuietStep DEF Resume, TypeOK
<1>9. CASE Free
  BY <1>9, InvFree
<1>10. CASE UNCHANGED vars
  BY <1>0, <1>10, QuietStep DEF vars, prog, TypeOK
<1>. QED
  BY <1>1, <1>2, <1>3, <1>4, <1>5, <1>6, <1>7, <1>8, <1>9, <1>10 DEF Next

\* The inductive invariant.
THEOREM Invariant == Spec => []Inv
<1>1. Init => Inv
  BY InvInit
<1>2. Inv /\ [Next]_vars => Inv'
  BY InvNext
<1>. QED
  BY <1>1, <1>2, PTL DEF Spec

\* The heap and the program always have the shape of the C declarations, and no
\* page holds more chunks than it has room for.
THEOREM TypeCorrect == Spec => []TypeOK
<1>1. Inv => TypeOK
  BY DEF Inv
<1>. QED
  BY <1>1, Invariant, PTL

\* chunkRefCnt keeps the count of every chunk and of every page equal to the
\* number of variables that point there, and no page without one stays listed.
THEOREM CountsCorrect == Spec => []CountsExact
<1>1. Inv => CountsExact
  BY DEF Inv
<1>. QED
  BY <1>1, Invariant, PTL

\* The "Dangling pointer" error is never raised, and every variable's object is in
\* memory until the variable lets it go.
THEOREM NeverDangling == Spec => []RefsIntact
<1>1. Inv => RefsIntact
  BY DEF Inv
<1>. QED
  BY <1>1, Invariant, PTL

\* The lookups of pageFind miss no listed page and see no unlisted one.
THEOREM CachesCorrect == Spec => []CachesCurrent
<1>1. Inv => CachesCurrent
  BY DEF Inv
<1>. QED
  BY <1>1, Invariant, PTL

-----------------------------------------------------------------------------
(* Weak pointers.                                                          *)

LEMMA InvWeakExact == Inv => WeakExact
<1>. SUFFICES ASSUME Inv, status = "running", NEW w \in Weaks, weak[w] # Null
              PROVE  /\ Strengthened(weak[w]) # {}
                          <=> \E v \in Vars : ref[v] # Null /\ ref[v].obj = weak[w].obj
                     /\ \A p \in Strengthened(weak[w]) : p.obj = weak[w].obj
  BY DEF WeakExact
<1>1. ASSUME NEW p \in Strengthened(weak[w])
      PROVE  \E v \in Vars : ref[v] # Null /\ ref[v].obj = weak[w].obj
  <2>1. /\ p.b \in live /\ p.c \in DOMAIN page[p.b].chunks /\ p.obj = weak[w].obj
        /\ page[p.b].chunks[p.c].obj = p.obj /\ page[p.b].chunks[p.c].refCnt # 0
    BY StrengthenedIntact DEF Intact
  <2>2. Cardinality(Holders(ref, p.b, p.c)) # 0
    BY <2>1 DEF Inv, CountsExact
  <2>3. PICK v \in Vars : ref[v] # Null /\ ref[v].b = p.b /\ ref[v].c = p.c
    BY <2>2, FS_EmptySet DEF Holders
  <2>4. page[p.b].chunks[p.c].obj = ref[v].obj
    BY <2>3 DEF Inv, RefsIntact, Intact
  <2>. QED
    BY <2>1, <2>3, <2>4
<1>2. ASSUME NEW v \in Vars, ref[v] # Null, ref[v].obj = weak[w].obj
      PROVE  Strengthened(weak[w]) # {}
  <2>. DEFINE b == ref[v].b
              c == ref[v].c
  <2>1. /\ b \in live /\ c \in DOMAIN page[b].chunks
        /\ page[b].chunks[c].obj = weak[w].obj
    BY <1>2 DEF Inv, RefsIntact, Intact
  <2>2. page[b].id = weak[w].id /\ c = weak[w].c
    BY <2>1 DEF Inv, Identity, WeakLeads
  <2>3. page[b].chunks[c].refCnt # 0
    <3>1. page[b].chunks[c].refCnt = Cardinality(Holders(ref, b, c))
      BY <2>1 DEF Inv, CountsExact
    <3>2. v \in Holders(ref, b, c)
      BY <1>2 DEF Holders
    <3>3. IsFiniteSet(Holders(ref, b, c))
      BY HoldersFinite
    <3>. QED
      BY <3>1, <3>2, <3>3, FS_EmptySet
  <2>. HIDE DEF b, c
  <2>4. b \in {x \in live : page[x].id = weak[w].id /\ page[x].chunks[weak[w].c].refCnt # 0}
    BY <2>1, <2>2, <2>3
  <2>. QED
    BY <2>4 DEF Strengthened
<1>3. \A p \in Strengthened(weak[w]) : p.obj = weak[w].obj
  BY StrengthenedIntact
<1>. QED
  BY <1>1, <1>2, <1>3

\* Weakening and strengthening give the object back as long as a variable holds
\* it, and null from then on, whatever has become of the memory.
THEOREM WeakCorrect == Spec => []WeakExact
<1>. QED
  BY InvWeakExact, Invariant, PTL

-----------------------------------------------------------------------------
(* Temporaries, in programs that leave no fiber off the chain with one.     *)

TempsKept ==
  status = "running" =>
    \A f \in Fibers, s \in Slots : temp[f][s] # Null =>
      /\ f \in Chain[cur]
      /\ temp[f][s].b \in live \cup blacklisted /\ Intact(temp[f][s])

\* A step that leaves the temporaries alone and takes no page of theirs away.
LEMMA TempsStay ==
  ASSUME Inv, TempsKept, status = "running", UNCHANGED <<temp, cur>>,
         \A f \in Fibers, s \in Slots : \A p \in Ptr :
           p = temp[f][s] /\ f \in Chain[cur] /\ p.b \in live \cup blacklisted /\ Intact(p)
             => (p.b \in live \cup blacklisted)' /\ Intact(p)'
  PROVE  TempsKept'
<1>1. ASSUME NEW f \in Fibers, NEW s \in Slots, temp[f][s] # Null
      PROVE  f \in Chain[cur] /\ (temp[f][s].b \in live \cup blacklisted /\ Intact(temp[f][s]))'
  <2>1. /\ f \in Chain[cur] /\ temp[f][s] \in Ptr
        /\ temp[f][s].b \in live \cup blacklisted /\ Intact(temp[f][s])
    BY <1>1 DEF TempsKept, Inv, TypeOK
  <2>2. PICK p \in Ptr : p = temp[f][s]
    BY <2>1
  <2>3. (p.b \in live \cup blacklisted)' /\ Intact(p)'
    BY <2>1, <2>2
  <2>. QED
    BY <2>1, <2>2, <2>3 DEF Intact
<1>. QED
  BY <1>1 DEF TempsKept

LEMMA ChainFacts ==
  \A f \in Fibers : /\ f \in Chain[f]
                    /\ f # Root => Parent[f] \in Fibers /\ Chain[f] = {f} \cup Chain[Parent[f]]
BY FibersAssumption

LEMMA TempsNext ==
  ASSUME TempsAcrossYield = FALSE, Inv, TempsKept, Inv', [Next]_vars
  PROVE  TempsKept'
<1>0. TypeOK
  BY DEF Inv
<1>1. ASSUME NEW v \in Vars, NEW size \in ChunkSizes, NEW onFree \in FinalizerChoices,
             Alloc(v, size, onFree)
      PROVE  TempsKept'
  <2>1. onFree \in BOOLEAN
    BY ProgramAssumption
  <2>2. CanAlloc(v) /\ status = "running"
    BY <1>1 DEF Alloc, CanAlloc
  <2>3. KeepsObjects
    <3>1. CASE AllocInPage(v, size, onFree)
      BY <2>1, <2>2, <3>1, AllocInPageStep
    <3>2. CASE AllocRecycled(v, size, onFree)
      BY <2>1, <2>2, <3>2, AllocRecycledStep
    <3>3. CASE AllocFresh(v, size, onFree)
      BY <2>1, <2>2, <3>3, AllocFreshStep
    <3>. QED
      BY <1>1, <3>1, <3>2, <3>3 DEF Alloc
  <2>4. UNCHANGED <<temp, cur>>
    BY <1>1 DEF Alloc, AllocInPage, AllocRecycled, AllocFresh, PageAdd, AddChunk
  <2>. QED
    BY <2>2, <2>3, <2>4, TempsStay DEF KeepsObjects
<1>2. ASSUME NEW u \in Vars, NEW q, status = "running", Storable(q), StoreEffect(u, q)
      PROVE  TempsKept'
  <2>1. /\ SameShape(page, page')
        /\ \A x \in live \cup blacklisted :
              PageMayBeReferencedByTemporaries(x) => x \in live' \cup blacklisted'
    BY <1>2, StoreStep
  <2>2. cap' = cap /\ UNCHANGED <<temp, cur>>
    BY <1>2 DEF StoreEffect, dims
  <2>3. ASSUME NEW f \in Fibers, NEW s \in Slots, NEW p \in Ptr,
               p = temp[f][s], f \in Chain[cur], p.b \in live \cup blacklisted, Intact(p)
        PROVE  (p.b \in live \cup blacklisted)' /\ Intact(p)'
    <3>1. PageMayBeReferencedByTemporaries(p.b)
      BY <2>3, NullAssumption DEF PageMayBeReferencedByTemporaries
    <3>2. Intact(p)'
      BY <2>1, <2>2, <2>3 DEF Intact, SameShape, Ptr
    <3>. QED
      BY <2>1, <2>3, <3>1, <3>2
  <2>. QED
    BY <1>2, <2>2, <2>3, TempsStay
<1>3. ASSUME NEW u \in Vars, NEW v \in Vars, Assign(u, v)
      PROVE  TempsKept'
  BY <1>2, <1>3, AssignIsStore
<1>4. ASSUME NEW v \in Vars, Collect(v)
      PROVE  TempsKept'
  BY <1>2, <1>4, CollectIsStore
<1>5. ASSUME NEW s \in Slots, NEW p \in Ptr, status = "running",
             p.b \in live, Intact(p),
             temp' = [temp EXCEPT ![cur][s] = p],
             UNCHANGED <<page, lists, dims, cur>>
      PROVE  TempsKept'
  BY <1>0, <1>5, ChainFacts, SMTT(20) DEF TempsKept, TypeOK, Intact, lists, dims
<1>6. ASSUME NEW s \in Slots, NEW v \in Vars, Load(s, v)
      PROVE  TempsKept'
  <2>1. ref[v] \in Ptr /\ ref[v].b \in live /\ Intact(ref[v])
    BY <1>0, <1>6 DEF Load, TypeOK, Inv, RefsIntact
  <2>. QED
    BY <1>5, <1>6, <2>1 DEF Load
<1>7. ASSUME NEW s \in Slots, Drop(s)
      PROVE  TempsKept'
  BY <1>0, <1>7, SMTT(20) DEF Drop, TempsKept, TypeOK, Intact, lists, dims
<1>8. ASSUME NEW w \in Weaks, NEW v \in Vars, Weaken(w, v)
      PROVE  TempsKept'
  <2>1. ~IsDangling(ref[v])
    BY <1>8, VarFound DEF Weaken
  <2>. QED
    BY <1>8, <2>1, SMTT(20) DEF Weaken, TempsKept, Intact, lists, dims
<1>9. ASSUME NEW s \in Slots, NEW w \in Weaks, Strengthen(s, w)
      PROVE  TempsKept'
  <2>1. PICK p \in Strengthened(weak[w]) : temp' = [temp EXCEPT ![cur][s] = p]
    BY <1>9 DEF Strengthen
  <2>2. p \in Ptr /\ p.b \in live /\ Intact(p)
    BY <1>9, <2>1, StrengthenedIntact DEF Strengthen
  <2>. QED
    BY <1>5, <1>9, <2>1, <2>2 DEF Strengthen
<1>10. ASSUME NEW f \in Fibers, Resume(f)
       PROVE  TempsKept'
  <2>1. ASSUME NEW g \in Fibers, NEW s \in Slots, temp[g][s] # Null, g \in Chain[cur]
        PROVE  g \in Chain[f]
    BY <1>10, <2>1 DEF Resume
  <2>2. /\ status = "running" /\ cur' = f
        /\ UNCHANGED <<page, live, blacklisted, cap, temp, status>>
    BY <1>10 DEF Resume, lists, dims
  <2>. QED
    BY <2>1, <2>2 DEF TempsKept, Intact
<1>11. CASE Free
  BY <1>11 DEF Free, TempsKept
<1>12. CASE UNCHANGED vars
  BY <1>12 DEF vars, prog, lists, dims, TempsKept, Intact
<1>. QED
  BY <1>1, <1>3, <1>4, <1>6, <1>7, <1>8, <1>9, <1>10, <1>11, <1>12 DEF Next

\* The scan and the blacklist keep what the temporaries of the running fiber and of
\* its ancestors point to out of the memory that is handed out again.
THEOREM TempsProtected ==
  ASSUME TempsAcrossYield = FALSE
  PROVE  Spec => []ChainTempsProtected
<1>1. Init => TempsKept
  BY FibersAssumption DEF Init, TempsKept
<1>2. Inv /\ TempsKept /\ Inv' /\ [Next]_vars => TempsKept'
  BY TempsNext
<1>3. Inv /\ TempsKept => ChainTempsProtected
  BY FibersAssumption DEF Inv, TypeOK, TempsKept, ChainTempsProtected
<1>. QED
  BY <1>1, <1>2, <1>3, Invariant, PTL DEF Spec

-----------------------------------------------------------------------------
(* The callbacks.                                                          *)

\* A header counts the callbacks still due, and those of dead chunks have run.
CallbacksDue(p) ==
  /\ p.numOnFree = Cardinality(Unfinalized(p))
  /\ \A c \in DOMAIN p.chunks :
       p.chunks[c].calls = IF p.chunks[c].onFree /\ p.chunks[c].refCnt = 0 THEN 1 ELSE 0

\* The chunks a page still has callbacks for are finitely many.
LEMMA UnfinalizedFinite ==
  ASSUME NEW p \in Page
  PROVE  IsFiniteSet(Unfinalized(p)) /\ Cardinality(Unfinalized(p)) \in Nat
<1>1. p.chunks \in Seq(Chunk)
  BY PageFields
<1>2. DOMAIN p.chunks = 1..Len(p.chunks) /\ Len(p.chunks) \in Nat
  BY <1>1
<1>3. IsFiniteSet(1..Len(p.chunks))
  BY <1>2, FS_Interval
<1>4. Unfinalized(p) \subseteq 1..Len(p.chunks)
  BY <1>2 DEF Unfinalized
<1>. QED
  BY <1>3, <1>4, FS_Subset, FS_CardinalityType

\* Header pn is header p with the count of chunk c, k before, moved to n, the callback being
\* taken off the account when the count has dropped to zero
ChunkMoved(p, pn, c, n) ==
  LET done == n = 0 /\ p.chunks[c].onFree
  IN  /\ DOMAIN pn.chunks = DOMAIN p.chunks
      /\ \A d \in DOMAIN p.chunks \ {c} : pn.chunks[d] = p.chunks[d]
      /\ pn.chunks[c].onFree = p.chunks[c].onFree
      /\ pn.chunks[c].refCnt = n
      /\ pn.chunks[c].calls = p.chunks[c].calls + (IF done THEN 1 ELSE 0)
      /\ pn.numOnFree = p.numOnFree - (IF done THEN 1 ELSE 0)

\* The account stays right when the count of a chunk that was alive moves.
LEMMA MovedCallbacks ==
  ASSUME NEW p \in Page, NEW pn \in Page, NEW c \in DOMAIN p.chunks, NEW n \in Int,
         p.chunks[c].refCnt # 0, CallbacksDue(p), ChunkMoved(p, pn, c, n)
  PROVE  CallbacksDue(pn)
<1>. DEFINE U == Unfinalized(p)
            done == n = 0 /\ p.chunks[c].onFree
<1>1. IsFiniteSet(U) /\ Cardinality(U) \in Nat /\ p.chunks \in Seq(Chunk)
  BY UnfinalizedFinite, PageFields
<1>2. p.chunks[c] \in Chunk
  BY <1>1, ElementOfSeq
<1>3. p.chunks[c].calls = 0
  BY DEF CallbacksDue
<1>4. \A d \in DOMAIN pn.chunks :
        pn.chunks[d].calls = IF pn.chunks[d].onFree /\ pn.chunks[d].refCnt = 0 THEN 1 ELSE 0
  <2>1. ASSUME NEW d \in DOMAIN pn.chunks
        PROVE  pn.chunks[d].calls = IF pn.chunks[d].onFree /\ pn.chunks[d].refCnt = 0 THEN 1 ELSE 0
    <3>1. CASE d = c
      BY <1>3, <3>1 DEF ChunkMoved
    <3>2. CASE d # c
      BY <3>2 DEF ChunkMoved, CallbacksDue
    <3>. QED
      BY <3>1, <3>2
  <2>. QED
    BY <2>1
<1>5. CASE done
  <2>1. Unfinalized(pn) = U \ {c} /\ c \in U
    BY <1>5 DEF ChunkMoved, Unfinalized
  <2>. HIDE DEF U
  <2>2. Cardinality(U \ {c}) = Cardinality(U) - 1
    BY <1>1, <2>1, FS_RemoveElement
  <2>3. p.numOnFree = Cardinality(U) /\ pn.numOnFree = p.numOnFree - 1
    BY <1>5 DEF ChunkMoved, CallbacksDue, U
  <2>. QED
    BY <1>1, <1>4, <2>1, <2>2, <2>3 DEF CallbacksDue
<1>6. CASE ~done
  <2>1. Unfinalized(pn) = U
    BY <1>6 DEF ChunkMoved, Unfinalized
  <2>2. p.numOnFree = Cardinality(U) /\ pn.numOnFree = p.numOnFree - 0
    BY <1>6 DEF ChunkMoved, CallbacksDue
  <2>. QED
    BY <1>1, <1>4, <2>1, <2>2 DEF CallbacksDue
<1>. QED
  BY <1>5, <1>6

\* Counting a pointer and releasing one move the count of the chunk they lead to.
LEMMA IncrementedMoves ==
  ASSUME NEW pg \in [Blocks -> Page], NEW p \in Ptr, p.c \in DOMAIN pg[p.b].chunks,
         pg[p.b].chunks[p.c].refCnt > 0
  PROVE  /\ ChunkMoved(pg[p.b], Incremented(pg, p)[p.b], p.c, pg[p.b].chunks[p.c].refCnt + 1)
         /\ \A b \in Blocks \ {p.b} : Incremented(pg, p)[b] = pg[b]
<1>. DEFINE b0 == p.b
            ck == pg[b0].chunks
            k == ck[p.c]
            cn == [ck EXCEPT ![p.c] = [k EXCEPT !.refCnt = @ + 1]]
            pn == Incremented(pg, p)
<1>1. b0 \in Blocks /\ pg[b0] \in Page /\ ck \in Seq(Chunk) /\ k \in Chunk /\ pg[b0].numOnFree \in Int
  BY DEF Ptr, Page
<1>2. k.refCnt \in Int /\ k.calls \in Nat /\ k.refCnt + 1 # 0 /\ k.refCnt + 1 \in Int
  BY <1>1, ChunkFields
<1>3. pn = [pg EXCEPT ![b0] = [pg[b0] EXCEPT !.refCnt = @ + 1, !.chunks = cn]]
  BY <1>1, NullAssumption DEF Incremented, Page
<1>. HIDE DEF k
<1>4. /\ [k EXCEPT !.refCnt = @ + 1].refCnt = k.refCnt + 1
      /\ [k EXCEPT !.refCnt = @ + 1].onFree = k.onFree
      /\ [k EXCEPT !.refCnt = @ + 1].calls = k.calls
  BY <1>1 DEF Chunk
<1>5. /\ DOMAIN cn = DOMAIN ck /\ \A d \in DOMAIN ck \ {p.c} : cn[d] = ck[d]
      /\ cn[p.c].onFree = k.onFree /\ cn[p.c].refCnt = k.refCnt + 1 /\ cn[p.c].calls = k.calls
  BY <1>1, <1>4
<1>. HIDE DEF cn
<1>6. pn[b0].chunks = cn /\ pn[b0].numOnFree = pg[b0].numOnFree /\ \A b \in Blocks \ {b0} : pn[b] = pg[b]
  BY <1>1, <1>3 DEF Page
<1>. HIDE DEF pn
<1>. QED
  BY <1>1, <1>2, <1>5, <1>6, SMTT(20) DEF ChunkMoved, pn, k

LEMMA DecrementedMoves ==
  ASSUME NEW pg \in [Blocks -> Page], NEW p \in Ptr, p.c \in DOMAIN pg[p.b].chunks
  PROVE  /\ ChunkMoved(pg[p.b], Decremented(pg, p)[p.b], p.c, pg[p.b].chunks[p.c].refCnt - 1)
         /\ \A b \in Blocks \ {p.b} : Decremented(pg, p)[b] = pg[b]
<1>. DEFINE b0 == p.b
            ck == pg[b0].chunks
            k == ck[p.c]
            done == k.refCnt - 1 = 0 /\ k.onFree
            m == k.calls + (IF done THEN 1 ELSE 0)
            nf == pg[b0].numOnFree - (IF done THEN 1 ELSE 0)
            hd == [k EXCEPT !.refCnt = @ - 1, !.calls = m]
            cn == [ck EXCEPT ![p.c] = hd]
            pn == Decremented(pg, p)
<1>1. b0 \in Blocks /\ pg[b0] \in Page /\ ck \in Seq(Chunk) /\ k \in Chunk /\ pg[b0].numOnFree \in Int
  BY DEF Ptr, Page
<1>2. k.refCnt \in Int /\ k.calls \in Nat
  BY <1>1, ChunkFields
<1>3. pn = [pg EXCEPT ![b0] = [pg[b0] EXCEPT !.refCnt = @ - 1, !.numOnFree = nf, !.chunks = cn]]
  <2>. DEFINE last == k.refCnt = 1 /\ k.onFree
  <2>1. last <=> done
    BY <1>2
  <2>2. m = (IF last THEN k.calls + 1 ELSE k.calls) /\ nf = (IF last THEN pg[b0].numOnFree - 1 ELSE pg[b0].numOnFree)
    BY <1>1, <1>2, <2>1
  <2>3. k = ChunkAt(pg, p)
    BY DEF ChunkAt
  <2>. HIDE DEF m, nf
  <2>4. pn = [pg EXCEPT ![b0].refCnt = @ - 1, ![b0].numOnFree = nf, ![b0].chunks[p.c] = hd]
    BY <1>1, <2>2, <2>3 DEF Decremented, Page
  <2>. HIDE DEF hd
  <2>. QED
    BY <1>1, <2>4 DEF Page
<1>4. hd.refCnt = k.refCnt - 1 /\ hd.onFree = k.onFree /\ hd.calls = m
  <2>. HIDE DEF m, k
  <2>. QED
    BY <1>1 DEF Chunk
<1>. HIDE DEF hd
<1>5. /\ DOMAIN cn = DOMAIN ck /\ \A d \in DOMAIN ck \ {p.c} : cn[d] = ck[d]
      /\ cn[p.c] = hd
  BY <1>1
<1>6. cn[p.c].onFree = k.onFree /\ cn[p.c].refCnt = k.refCnt - 1 /\ cn[p.c].calls = m
  BY <1>4, <1>5
<1>. HIDE DEF cn, nf
<1>7. pn[b0].chunks = cn /\ pn[b0].numOnFree = nf /\ \A b \in Blocks \ {b0} : pn[b] = pg[b]
  BY <1>1, <1>3 DEF Page
<1>. HIDE DEF pn
<1>8. ChunkMoved(pg[b0], pn[b0], p.c, k.refCnt - 1)
  BY <1>5, <1>6, <1>7 DEF ChunkMoved, nf
<1>. QED
  BY <1>7, <1>8 DEF pn

\* While the heap is in use the accounts of all pages are right, and the chunks of the
\* pages that are not listed are dead.
Accounts ==
  \A b \in Blocks :
    /\ CallbacksDue(page[b])
    /\ b \notin live => \A c \in DOMAIN page[b].chunks : page[b].chunks[c].refCnt = 0

\* Storing a pointer to a chunk that is alive keeps the accounts right.
LEMMA StoreAccounts ==
  ASSUME Inv, Accounts, status = "running", NEW u \in Vars, NEW q, Storable(q), StoreEffect(u, q),
         q # Null => page[q.b].chunks[q.c].refCnt > 0
  PROVE  Accounts'
<1>. DEFINE pg == Incremented(page, q)
<1>1. /\ pg \in [Blocks -> Page] /\ SameShape(page, pg) /\ CountsAre(pg, ref, q)
  BY IncrementCounts DEF Inv
<1>2. page \in [Blocks -> Page] /\ live \subseteq Blocks
  BY DEF Inv, TypeOK
<1>3. /\ \A b \in Blocks : CallbacksDue(pg[b])
      /\ \A b \in Blocks \ live : pg[b] = page[b]
  <2>1. CASE q = Null
    BY <2>1 DEF Accounts, Incremented
  <2>2. CASE q # Null
    <3>. DEFINE k == page[q.b].chunks[q.c]
    <3>1. q \in Ptr /\ q.b \in live /\ q.c \in DOMAIN page[q.b].chunks /\ k.refCnt > 0
      BY <2>2 DEF Storable, Intact
    <3>2. /\ ChunkMoved(page[q.b], pg[q.b], q.c, k.refCnt + 1)
          /\ \A b \in Blocks \ {q.b} : pg[b] = page[b]
      BY <1>2, <3>1, IncrementedMoves
    <3>3. k \in Chunk
      BY <1>2, <3>1, PageFields, ElementOfSeq
    <3>4. k.refCnt \in Int /\ k.refCnt # 0 /\ k.refCnt + 1 \in Int
      BY <3>1, <3>3, ChunkFields
    <3>. HIDE DEF pg
    <3>5. CallbacksDue(pg[q.b])
      BY <1>1, <1>2, <3>1, <3>2, <3>4, MovedCallbacks, SMTT(20) DEF Accounts
    <3>. QED
      BY <1>2, <3>1, <3>2, <3>5 DEF Accounts
  <2>. QED
    BY <2>1, <2>2
<1>4. /\ page' \in [Blocks -> Page] /\ SameShape(page, page') /\ CountsAre(page', ref', Null)
      /\ \/ live' = live
         \/ ref[u] # Null /\ page'[ref[u].b].refCnt = 0 /\ live' = live \ {ref[u].b}
  BY StoreCounts DEF lists, PageRemove
<1>. HIDE DEF pg
<1>5. /\ \A b \in Blocks : CallbacksDue(page'[b])
      /\ \A b \in Blocks \ live : page'[b] = page[b]
  <2>1. CASE ref[u] = Null
    <3>1. page' = pg
      BY <2>1 DEF StoreEffect, pg
    <3>. QED
      BY <1>3, <3>1
  <2>2. CASE ref[u] # Null
    <3>. DEFINE p == ref[u]
                k == pg[p.b].chunks[p.c]
    <3>1. p \in Ptr /\ p.b \in live /\ p.c \in DOMAIN pg[p.b].chunks
      BY <1>1, <2>2, VarFound DEF SameShape, Ptr
    <3>2. page' = Decremented(pg, p)
      BY <2>2 DEF StoreEffect, DecRef, pg
    <3>3. k \in Chunk
      BY <1>1, <1>2, <3>1, PageFields, ElementOfSeq
    <3>4. k.refCnt # 0
      <4>1. k.refCnt = Cardinality(Holders(ref, p.b, p.c)) + (IF At(q, p.b, p.c) THEN 1 ELSE 0)
        BY <1>1, <3>1 DEF CountsAre
      <4>2. IsFiniteSet(Holders(ref, p.b, p.c)) /\ Cardinality(Holders(ref, p.b, p.c)) \in Nat
        BY HoldersFinite
      <4>3. u \in Holders(ref, p.b, p.c)
        BY <2>2 DEF Holders
      <4>4. Cardinality(Holders(ref, p.b, p.c)) # 0
        BY <4>2, <4>3, FS_EmptySet
      <4>. QED
        BY <4>1, <4>2, <4>4
    <3>. HIDE DEF p
    <3>5. /\ ChunkMoved(pg[p.b], page'[p.b], p.c, k.refCnt - 1)
          /\ \A b \in Blocks \ {p.b} : page'[b] = pg[b]
      BY <1>1, <3>1, <3>2, DecrementedMoves
    <3>6. k.refCnt - 1 \in Int
      BY <3>3, ChunkFields
    <3>7. CallbacksDue(page'[p.b])
      BY <1>1, <1>2, <1>3, <1>4, <3>1, <3>4, <3>5, <3>6, MovedCallbacks
    <3>. QED
      BY <1>2, <1>3, <3>1, <3>5, <3>7
  <2>. QED
    BY <2>1, <2>2
<1>6. ASSUME NEW b \in Blocks \ live', NEW c \in DOMAIN page'[b].chunks
      PROVE  page'[b].chunks[c].refCnt = 0
  <2>1. CASE b \notin live
    BY <1>5, <1>6, <2>1 DEF Accounts
  <2>2. CASE b \in live
    <3>1. page'[b].refCnt = 0
      BY <1>4, <1>6, <2>2
    <3>2. /\ page'[b].refCnt = Cardinality(PageHolders(ref', b)) + 0
          /\ page'[b].chunks[c].refCnt = Cardinality(Holders(ref', b, c)) + 0
      BY <1>4, <1>6, <2>2 DEF CountsAre, Into, At
    <3>3. /\ IsFiniteSet(PageHolders(ref', b)) /\ Cardinality(PageHolders(ref', b)) \in Nat
          /\ IsFiniteSet(Holders(ref', b, c))
      BY HoldersFinite
    <3>4. PageHolders(ref', b) = {}
      BY <3>1, <3>2, <3>3, FS_EmptySet
    <3>5. Holders(ref', b, c) = {}
      BY <3>4 DEF PageHolders, Holders
    <3>. QED
      BY <3>2, <3>5, FS_EmptySet
  <2>. QED
    BY <2>1, <2>2
<1>. QED
  BY <1>5, <1>6 DEF Accounts

\* A chunk that is added is alive, and its callback is due.
LEMMA AddedCallbacks ==
  ASSUME NEW p \in Page, NEW pn \in Page, CallbacksDue(p), NEW k \in Chunk, k.refCnt = 1, k.calls = 0,
         pn.chunks = Append(p.chunks, k),
         pn.numOnFree = IF k.onFree THEN p.numOnFree + 1 ELSE p.numOnFree
  PROVE  CallbacksDue(pn)
<1>. DEFINE U == Unfinalized(p)
            n == Len(p.chunks)
<1>1. IsFiniteSet(U) /\ Cardinality(U) \in Nat /\ p.chunks \in Seq(Chunk)
  BY UnfinalizedFinite, PageFields
<1>2. n \in Nat /\ DOMAIN p.chunks = 1..n /\ DOMAIN pn.chunks = 1..(n + 1)
  BY <1>1
<1>3. /\ \A c \in 1..n : pn.chunks[c] = p.chunks[c]
      /\ pn.chunks[n + 1] = k
  BY <1>1
<1>. HIDE DEF n
<1>4. \A c \in DOMAIN pn.chunks :
        pn.chunks[c].calls = IF pn.chunks[c].onFree /\ pn.chunks[c].refCnt = 0 THEN 1 ELSE 0
  <2>1. ASSUME NEW c \in DOMAIN pn.chunks
        PROVE  pn.chunks[c].calls = IF pn.chunks[c].onFree /\ pn.chunks[c].refCnt = 0 THEN 1 ELSE 0
    <3>1. CASE c = n + 1
      BY <1>3, <3>1
    <3>2. CASE c # n + 1
      <4>1. c \in 1..n
        BY <1>2, <3>2
      <4>. QED
        BY <1>2, <1>3, <4>1 DEF CallbacksDue
    <3>. QED
      BY <3>1, <3>2
  <2>. QED
    BY <2>1
<1>5. /\ n + 1 \in DOMAIN pn.chunks /\ n + 1 \notin 1..n
      /\ \A c : c \in DOMAIN pn.chunks <=> c \in 1..n \/ c = n + 1
  BY <1>2
<1>6. CASE k.onFree
  <2>1. Unfinalized(pn) = U \cup {n + 1} /\ n + 1 \notin U
    BY <1>2, <1>3, <1>5, <1>6 DEF Unfinalized
  <2>. HIDE DEF U
  <2>2. Cardinality(U \cup {n + 1}) = Cardinality(U) + 1
    BY <1>1, <2>1, FS_AddElement
  <2>3. p.numOnFree = Cardinality(U) /\ pn.numOnFree = p.numOnFree + 1
    BY <1>6 DEF CallbacksDue, U
  <2>. QED
    BY <1>1, <1>4, <2>1, <2>2, <2>3 DEF CallbacksDue
<1>7. CASE ~k.onFree
  <2>1. Unfinalized(pn) = U
    BY <1>2, <1>3, <1>5, <1>7 DEF Unfinalized
  <2>2. p.numOnFree = Cardinality(U) /\ pn.numOnFree = p.numOnFree
    BY <1>7 DEF CallbacksDue
  <2>. QED
    BY <1>1, <1>4, <2>1, <2>2 DEF CallbacksDue
<1>. QED
  BY <1>6, <1>7

LEMMA NewPageDue ==
  ASSUME NEW size
  PROVE  CallbacksDue(NewPage(size))
<1>1. NewPage(size).chunks = <<>> /\ NewPage(size).numOnFree = 0
  BY DEF NewPage, EmptyPage
<1>2. Unfinalized(NewPage(size)) = {}
  BY <1>1 DEF Unfinalized
<1>. QED
  BY <1>1, <1>2, FS_EmptySet DEF CallbacksDue

\* An allocation keeps the accounts right, in an old page and in a new one.
LEMMA AddAccounts ==
  ASSUME Inv, Accounts, NEW pg \in [Blocks -> Page], NEW b \in Blocks, NEW v, NEW onFree \in BOOLEAN,
         AddChunk(pg, b, v, onFree), \A x \in Blocks \ {b} : pg[x] = page[x],
         CallbacksDue(pg[b]), live' = live \cup {b}
  PROVE  Accounts'
<1>. DEFINE k == NewChunk(onFree)
<1>1. k \in Chunk /\ k.refCnt = 1 /\ k.calls = 0 /\ k.onFree = onFree
  BY DEF NewChunk, Chunk, Inv, TypeOK
<1>2. /\ page' \in [Blocks -> Page]
      /\ \A x \in Blocks \ {b} : page'[x] = pg[x]
      /\ page'[b].chunks = Append(pg[b].chunks, k)
      /\ page'[b].numOnFree = IF onFree THEN pg[b].numOnFree + 1 ELSE pg[b].numOnFree
  BY <1>1, AddedChunk
<1>. HIDE DEF k
<1>3. CallbacksDue(page'[b])
  BY <1>1, <1>2, AddedCallbacks
<1>. QED
  BY <1>2, <1>3 DEF Accounts

LEMMA AllocAccounts ==
  ASSUME Inv, Accounts, NEW v \in Vars, NEW size \in ChunkSizes, NEW onFree \in BOOLEAN,
         Alloc(v, size, onFree)
  PROVE  Accounts'
<1>0. TypeOK
  BY DEF Inv
<1>1. CASE AllocInPage(v, size, onFree)
  <2>1. PICK b \in BestFits(size) : AddChunk(page, b, v, onFree)
    BY <1>1 DEF AllocInPage
  <2>2. b \in live /\ live' = live /\ b \in Blocks /\ page \in [Blocks -> Page]
    BY <1>0, <1>1, <2>1 DEF AllocInPage, BestFits, Fitting, TypeOK
  <2>. QED
    BY <2>1, <2>2, AddAccounts DEF Accounts
<1>2. ASSUME NEW b \in Blocks, PageAdd(b, v, size, onFree)
      PROVE  Accounts'
  <2>. DEFINE pg == [page EXCEPT ![b] = NewPage(size)]
  <2>1. NewPage(size) \in Page /\ page \in [Blocks -> Page]
    BY <1>0, NewPageFields DEF TypeOK
  <2>2. pg \in [Blocks -> Page] /\ pg[b] = NewPage(size) /\ \A x \in Blocks \ {b} : pg[x] = page[x]
    BY <2>1
  <2>3. AddChunk(pg, b, v, onFree) /\ live' = live \cup {b}
    BY <1>2 DEF PageAdd
  <2>. HIDE DEF pg
  <2>. QED
    BY <2>2, <2>3, NewPageDue, AddAccounts
<1>3. CASE AllocRecycled(v, size, onFree)
  BY <1>0, <1>2, <1>3 DEF AllocRecycled, BigEnough, TypeOK
<1>4. CASE AllocFresh(v, size, onFree)
  <2>1. Popped(Len(recycled)) \subseteq Blocks
    BY <1>0 DEF Popped, TypeOK
  <2>. QED
    BY <1>2, <1>4, <2>1 DEF AllocFresh
<1>. QED
  BY <1>1, <1>3, <1>4 DEF Alloc

\* pageFree calls all the callbacks that are due: the account of a page lets it.
LEMMA FinalizesAll ==
  ASSUME NEW p \in Page, CallbacksDue(p)
  PROVE  \A c \in DOMAIN Finalize(p).chunks :
           Finalize(p).chunks[c].calls = IF Finalize(p).chunks[c].onFree THEN 1 ELSE 0
<1>. DEFINE U == Unfinalized(p)
            called == {c \in U : Cardinality({d \in U : d < c}) < p.numOnFree}
            cs == [c \in DOMAIN p.chunks |->
                     IF c \in called THEN [p.chunks[c] EXCEPT !.calls = @ + 1]
                     ELSE p.chunks[c]]
<1>1. IsFiniteSet(U) /\ Cardinality(U) \in Nat /\ p.numOnFree = Cardinality(U)
  BY UnfinalizedFinite DEF CallbacksDue
<1>2. p.chunks \in Seq(Chunk) /\ U \subseteq Nat
  BY PageFields DEF Unfinalized
<1>3. ASSUME NEW c \in U
      PROVE  Cardinality({d \in U : d < c}) < Cardinality(U)
  <2>. DEFINE L == {d \in U : d < c}
  <2>1. L \subseteq U /\ c \in U \ L
    BY <1>2
  <2>. HIDE DEF L, U
  <2>2. IsFiniteSet(L) /\ Cardinality(L) <= Cardinality(U) /\ (Cardinality(L) = Cardinality(U) => L = U)
    BY <1>1, <2>1, FS_Subset
  <2>3. Cardinality(L) \in Nat
    BY <2>2, FS_CardinalityType
  <2>4. Cardinality(L) < Cardinality(U)
    BY <1>1, <2>1, <2>2, <2>3
  <2>. QED
    BY <2>4 DEF L
<1>. HIDE DEF U
<1>4. called = U
  BY <1>1, <1>3
<1>5. Finalize(p) = [p EXCEPT !.chunks = cs, !.numOnFree = @ - Cardinality(called)]
  BY DEF Finalize, U
<1>. HIDE DEF called, cs
<1>6. Finalize(p).chunks = cs
  BY <1>5 DEF Page
<1>7. ASSUME NEW c \in DOMAIN cs
      PROVE  cs[c].calls = IF cs[c].onFree THEN 1 ELSE 0
  <2>. DEFINE k == p.chunks[c]
  <2>1. c \in DOMAIN p.chunks /\ cs[c] = IF c \in U THEN [k EXCEPT !.calls = @ + 1] ELSE k
    BY <1>4, <1>7 DEF cs
  <2>2. k \in Chunk
    BY <1>2, <2>1, ElementOfSeq
  <2>3. k.calls = IF k.onFree /\ k.refCnt = 0 THEN 1 ELSE 0
    BY <2>1 DEF CallbacksDue
  <2>4. c \in U <=> k.refCnt # 0 /\ k.onFree
    BY <2>1 DEF U, Unfinalized
  <2>. HIDE DEF k
  <2>5. [k EXCEPT !.calls = @ + 1].calls = k.calls + 1 /\ [k EXCEPT !.calls = @ + 1].onFree = k.onFree
    BY <2>2 DEF Chunk
  <2>. QED
    BY <2>1, <2>3, <2>4, <2>5
<1>. QED
  BY <1>6, <1>7

\* The accounts while the heap is in use, and what they leave behind in the end
CallbacksKept == FinalizedOnce /\ (status # "freed" => Accounts)

LEMMA AccountsFinalize == status # "freed" /\ Accounts => FinalizedOnce
BY DEF Accounts, CallbacksDue, FinalizedOnce

LEMMA AccountsFinalize_next == (status # "freed" /\ Accounts)' => FinalizedOnce'
BY AccountsFinalize, PTL

LEMMA CallbacksNext ==
  ASSUME Inv, CallbacksKept, [Next]_vars
  PROVE  CallbacksKept'
<1>0. TypeOK
  BY DEF Inv
<1>1. ASSUME status # "freed", status' = status, Accounts'
      PROVE  CallbacksKept'
  BY <1>1, AccountsFinalize_next DEF CallbacksKept
<1>2. ASSUME NEW v \in Vars, NEW size \in ChunkSizes, NEW onFree \in FinalizerChoices,
             Alloc(v, size, onFree)
      PROVE  CallbacksKept'
  <2>1. onFree \in BOOLEAN
    BY ProgramAssumption
  <2>2. status = "running" /\ status' = status
    BY <1>2 DEF Alloc, CanAlloc, AllocInPage, AllocRecycled, AllocFresh, PageAdd, AddChunk
  <2>. QED
    BY <1>1, <1>2, <2>1, <2>2, AllocAccounts DEF CallbacksKept
<1>3. ASSUME NEW u \in Vars, NEW v \in Vars, Assign(u, v)
      PROVE  CallbacksKept'
  <2>1. status = "running" /\ Storable(ref[v]) /\ StoreEffect(u, ref[v])
    BY <1>3, AssignIsStore
  <2>2. ref[v] # Null => page[ref[v].b].chunks[ref[v].c].refCnt > 0
    <3>1. ASSUME ref[v] # Null PROVE page[ref[v].b].chunks[ref[v].c].refCnt > 0
      <4>1. /\ ref[v].b \in live /\ ref[v].c \in DOMAIN page[ref[v].b].chunks
            /\ Found(ref[v]) /\ ~IsDangling(ref[v])
        BY <2>1, <3>1, VarFound
      <4>2. page[ref[v].b].chunks[ref[v].c] \in Chunk
        BY <1>0, <4>1, PageFields, ElementOfSeq DEF TypeOK
      <4>3. page[ref[v].b].chunks[ref[v].c].refCnt \in Int
        BY <4>2, ChunkFields
      <4>. QED
        BY <4>1, <4>3 DEF IsDangling, ChunkAt
    <3>. QED
      BY <3>1
  <2>3. Accounts'
    BY <2>1, <2>2, StoreAccounts DEF CallbacksKept
  <2>. QED
    BY <1>1, <2>1, <2>3 DEF StoreEffect
<1>4. ASSUME NEW v \in Vars, Collect(v)
      PROVE  CallbacksKept'
  <2>1. status = "running" /\ Storable(Null) /\ StoreEffect(v, Null)
    BY <1>4, CollectIsStore
  <2>2. Accounts'
    BY <2>1, StoreAccounts DEF CallbacksKept
  <2>. QED
    BY <1>1, <2>1, <2>2 DEF StoreEffect
<1>5. ASSUME UNCHANGED <<page, live, status>>
      PROVE  CallbacksKept'
  BY <1>5 DEF CallbacksKept, FinalizedOnce, Accounts
<1>6. ASSUME NEW s \in Slots, NEW v \in Vars, Load(s, v)
      PROVE  CallbacksKept'
  BY <1>5, <1>6 DEF Load, lists
<1>7. ASSUME NEW s \in Slots, Drop(s)
      PROVE  CallbacksKept'
  BY <1>5, <1>7 DEF Drop, lists
<1>8. ASSUME NEW w \in Weaks, NEW v \in Vars, Weaken(w, v)
      PROVE  CallbacksKept'
  <2>1. ~IsDangling(ref[v])
    BY <1>8, VarFound DEF Weaken
  <2>. QED
    BY <1>5, <1>8, <2>1 DEF Weaken, lists
<1>9. ASSUME NEW s \in Slots, NEW w \in Weaks, Strengthen(s, w)
      PROVE  CallbacksKept'
  BY <1>5, <1>9 DEF Strengthen, lists
<1>10. ASSUME NEW f \in Fibers, Resume(f)
       PROVE  CallbacksKept'
  BY <1>5, <1>10 DEF Resume, lists
<1>11. CASE Free
  <2>1. /\ status # "freed" /\ status' = "freed" /\ live' = {}
        /\ page' = [b \in Blocks |-> IF b \in live THEN Finalize(page[b]) ELSE page[b]]
    BY <1>11 DEF Free
  <2>2. ASSUME NEW b \in Blocks, NEW c \in DOMAIN page'[b].chunks
        PROVE  page'[b].chunks[c].calls = IF page'[b].chunks[c].onFree THEN 1 ELSE 0
    <3>1. page[b] \in Page /\ CallbacksDue(page[b])
      BY <1>0, <2>1 DEF CallbacksKept, Accounts, TypeOK
    <3>2. CASE b \in live
      BY <2>1, <2>2, <3>1, <3>2, FinalizesAll
    <3>3. CASE b \notin live
      BY <2>1, <2>2, <3>1, <3>3 DEF CallbacksKept, Accounts, CallbacksDue
    <3>. QED
      BY <3>2, <3>3
  <2>. QED
    BY <2>1, <2>2 DEF CallbacksKept, FinalizedOnce
<1>12. CASE UNCHANGED vars
  BY <1>5, <1>12 DEF vars, lists
<1>. QED
  BY <1>2, <1>3, <1>4, <1>6, <1>7, <1>8, <1>9, <1>10, <1>11, <1>12 DEF Next

\* Every onFree callback is called once, at the last reference or in pageFree, and the page's
\* count of callbacks, which pageFree goes by, is the number of those still due.
THEOREM CallbacksOnce == Spec => []FinalizedOnce
<1>1. Init => CallbacksKept
  <2>1. EmptyPage.chunks = <<>> /\ EmptyPage.numOnFree = 0
    BY DEF EmptyPage
  <2>2. Unfinalized(EmptyPage) = {}
    BY <2>1 DEF Unfinalized
  <2>3. CallbacksDue(EmptyPage)
    BY <2>1, <2>2, FS_EmptySet DEF CallbacksDue
  <2>. QED
    BY <2>1, <2>3, AccountsFinalize DEF Init, CallbacksKept, Accounts
<1>2. Inv /\ CallbacksKept /\ [Next]_vars => CallbacksKept'
  BY CallbacksNext
<1>3. CallbacksKept => FinalizedOnce
  BY DEF CallbacksKept
<1>. QED
  BY <1>1, <1>2, <1>3, Invariant, PTL DEF Spec

-----------------------------------------------------------------------------
(* What the blacklisted pages occupy.                                      *)

\* The order in which the sum visits the pages, and its partial sums
First(s) == CHOOSE x \in s : TRUE
Sums(pg, S, h) ==
  h = [s \in SUBSET S |-> IF s = {} THEN 0 ELSE Dim(pg[First(s)]) + h[s \ {First(s)}]]

LEMMA SizeOfIs ==
  ASSUME NEW pg, NEW S
  PROVE  SizeOf(pg, S) = (CHOOSE h : Sums(pg, S, h))[S]
BY DEF SizeOf, MapThenSumSet, MapThenFoldSet, Sums, First

LEMMA FirstIn ==
  ASSUME NEW s, s # {}
  PROVE  First(s) \in s
BY DEF First

\* The partial sums are determined,
LEMMA SumsUnique ==
  ASSUME NEW pg, NEW S, IsFiniteSet(S), NEW T \in SUBSET S, NEW g, NEW h,
         Sums(pg, S, g), Sums(pg, T, h)
  PROVE  \A s \in SUBSET T : g[s] = h[s]
<1>. DEFINE F == {s \in SUBSET T : g[s] # h[s]}
<1>1. SUFFICES ASSUME F # {} PROVE FALSE
  OBVIOUS
<1>2. IsFiniteSet(T) /\ F \in SUBSET (SUBSET T)
  BY FS_Subset
<1>. HIDE DEF F
<1>3. PICK s \in F : \A t \in F : t \subseteq s => t = s
  BY <1>1, <1>2, MinimalSet
<1>. DEFINE t == s \ {First(s)}
<1>4. s \in SUBSET T /\ g[s] # h[s] /\ s \in SUBSET S
  BY <1>3 DEF F
<1>5. CASE s = {}
  BY <1>4, <1>5 DEF Sums
<1>6. CASE s # {}
  <2>1. t \in SUBSET T /\ t \subseteq s /\ t # s
    BY <1>4, <1>6, FirstIn
  <2>2. g[t] = h[t]
    BY <1>3, <2>1 DEF F
  <2>. HIDE DEF t
  <2>3. g[s] = Dim(pg[First(s)]) + g[t]
    BY <1>4, <1>6 DEF Sums, t
  <2>4. h[s] = Dim(pg[First(s)]) + h[t]
    BY <1>4, <1>6 DEF Sums, t
  <2>. QED
    BY <1>4, <2>2, <2>3, <2>4
<1>. QED
  BY <1>5, <1>6

\* and they exist.
LEMMA SumsRestrict ==
  ASSUME NEW pg, NEW S, NEW h, Sums(pg, S, h), NEW T \in SUBSET S
  PROVE  Sums(pg, T, [s \in SUBSET T |-> h[s]])
<1>. DEFINE k == [s \in SUBSET T |-> h[s]]
<1>1. ASSUME NEW s \in SUBSET T
      PROVE  k[s] = IF s = {} THEN 0 ELSE Dim(pg[First(s)]) + k[s \ {First(s)}]
  <2>1. s \in SUBSET S /\ s \ {First(s)} \in SUBSET T
    OBVIOUS
  <2>. QED
    BY <2>1 DEF Sums
<1>. HIDE DEF k
<1>2. k = [s \in SUBSET T |-> IF s = {} THEN 0 ELSE Dim(pg[First(s)]) + k[s \ {First(s)}]]
  <2>1. k = [s \in SUBSET T |-> k[s]]
    BY DEF k
  <2>. QED
    BY <1>1, <2>1
<1>. QED
  BY <1>2 DEF Sums, k

LEMMA SizeOfSums ==
  ASSUME NEW pg, NEW S, IsFiniteSet(S), NEW h, Sums(pg, S, h)
  PROVE  \A T \in SUBSET S : SizeOf(pg, T) = h[T]
<1>1. ASSUME NEW T \in SUBSET S
      PROVE  SizeOf(pg, T) = h[T]
  <2>. DEFINE k == CHOOSE g : Sums(pg, T, g)
  <2>1. \E g : Sums(pg, T, g)
    BY SumsRestrict
  <2>2. Sums(pg, T, k)
    BY <2>1
  <2>3. SizeOf(pg, T) = k[T]
    BY SizeOfIs
  <2>. HIDE DEF k
  <2>4. h[T] = k[T]
    BY <2>2, SumsUnique
  <2>. QED
    BY <2>3, <2>4
<1>. QED
  BY <1>1

LEMMA SumsExist ==
  ASSUME NEW pg, NEW S, IsFiniteSet(S)
  PROVE  \A T \in SUBSET S : \E h : Sums(pg, T, h)
<1>. DEFINE F == {T \in SUBSET S : ~\E h : Sums(pg, T, h)}
<1>1. SUFFICES ASSUME F # {} PROVE FALSE
  OBVIOUS
<1>2. F \in SUBSET (SUBSET S)
  OBVIOUS
<1>. HIDE DEF F
<1>3. PICK T \in F : \A t \in F : t \subseteq T => t = T
  BY <1>1, <1>2, MinimalSet
<1>4. T \in SUBSET S /\ IsFiniteSet(T) /\ ~\E h : Sums(pg, T, h)
  BY <1>3, FS_Subset DEF F
<1>. DEFINE h == [s \in SUBSET T |->
                    IF s = {} THEN 0 ELSE Dim(pg[First(s)]) + SizeOf(pg, s \ {First(s)})]
<1>5. ASSUME NEW t \in SUBSET T, t # T
      PROVE  h[t] = SizeOf(pg, t)
  <2>1. PICK g : Sums(pg, t, g)
    BY <1>3, <1>4, <1>5 DEF F
  <2>2. IsFiniteSet(t)
    BY <1>4, FS_Subset
  <2>3. SizeOf(pg, t) = g[t]
    BY <2>1, <2>2, SizeOfSums
  <2>4. CASE t = {}
    BY <2>1, <2>3, <2>4 DEF Sums
  <2>5. CASE t # {}
    <3>1. SizeOf(pg, t \ {First(t)}) = g[t \ {First(t)}]
      BY <2>1, <2>2, SizeOfSums
    <3>2. g[t] = Dim(pg[First(t)]) + g[t \ {First(t)}]
      BY <2>1, <2>5 DEF Sums
    <3>. QED
      BY <2>3, <2>5, <3>1, <3>2
  <2>. QED
    BY <2>4, <2>5
<1>6. ASSUME NEW s \in SUBSET T
      PROVE  h[s] = IF s = {} THEN 0 ELSE Dim(pg[First(s)]) + h[s \ {First(s)}]
  <2>1. CASE s = {}
    BY <2>1
  <2>2. CASE s # {}
    <3>1. s \ {First(s)} \in SUBSET T /\ s \ {First(s)} # T
      BY <2>2, FirstIn
    <3>2. h[s \ {First(s)}] = SizeOf(pg, s \ {First(s)})
      BY <1>5, <3>1
    <3>3. h[s] = Dim(pg[First(s)]) + SizeOf(pg, s \ {First(s)})
      BY <2>2
    <3>. QED
      BY <2>2, <3>2, <3>3
  <2>. QED
    BY <2>1, <2>2
<1>7. h = [s \in SUBSET T |-> h[s]]
  OBVIOUS
<1>. HIDE DEF h
<1>8. h = [s \in SUBSET T |-> IF s = {} THEN 0 ELSE Dim(pg[First(s)]) + h[s \ {First(s)}]]
  BY <1>6, <1>7
<1>. QED
  BY <1>4, <1>8 DEF Sums

\* So what a set of pages occupies is what its first page does, and the others.
LEMMA SizeOfFirst ==
  ASSUME NEW pg, NEW S, IsFiniteSet(S)
  PROVE  /\ SizeOf(pg, {}) = 0
         /\ S # {} => SizeOf(pg, S) = Dim(pg[First(S)]) + SizeOf(pg, S \ {First(S)})
<1>1. PICK h : Sums(pg, S, h)
  BY SumsExist
<1>2. \A T \in SUBSET S : SizeOf(pg, T) = h[T]
  BY <1>1, SizeOfSums
<1>3. h[{}] = 0
  BY <1>1 DEF Sums
<1>4. S # {} => h[S] = Dim(pg[First(S)]) + h[S \ {First(S)}]
  BY <1>1 DEF Sums
<1>. QED
  BY <1>2, <1>3, <1>4

LEMMA DimNat ==
  ASSUME NEW p \in Page
  PROVE  Dim(p) \in Nat
<1>1. p.numChunks \in Nat /\ p.chunkSize \in Nat
  BY DEF Page
<1>. QED
  BY <1>1 DEF Dim

LEMMA SizeOfNat ==
  ASSUME NEW pg \in [Blocks -> Page], NEW S \in SUBSET Blocks
  PROVE  IsFiniteSet(S) /\ SizeOf(pg, S) \in Nat
<1>. DEFINE F == {T \in SUBSET S : SizeOf(pg, T) \notin Nat}
<1>0. IsFiniteSet(S) /\ \A T \in SUBSET S : IsFiniteSet(T)
  BY BlocksAssumption, FS_Subset
<1>1. SUFFICES ASSUME F # {} PROVE FALSE
  BY <1>0
<1>2. F \in SUBSET (SUBSET S)
  OBVIOUS
<1>. HIDE DEF F
<1>3. PICK T \in F : \A t \in F : t \subseteq T => t = T
  BY <1>0, <1>1, <1>2, MinimalSet
<1>4. T \in SUBSET S /\ SizeOf(pg, T) \notin Nat /\ IsFiniteSet(T)
  BY <1>0, <1>3 DEF F
<1>5. CASE T = {}
  <2>1. SizeOf(pg, T) = 0
    BY <1>4, <1>5, SizeOfFirst
  <2>. QED
    BY <1>4, <2>1
<1>6. CASE T # {}
  <2>. DEFINE x == First(T)
              t == T \ {x}
  <2>1. x \in T /\ x \in Blocks
    BY <1>4, <1>6, FirstIn
  <2>2. SizeOf(pg, T) = Dim(pg[x]) + SizeOf(pg, t)
    BY <1>4, <1>6, SizeOfFirst
  <2>3. t \in SUBSET S /\ t \subseteq T /\ t # T
    BY <1>4, <2>1
  <2>. HIDE DEF x, t
  <2>4. SizeOf(pg, t) \in Nat
    BY <1>3, <2>3 DEF F
  <2>5. Dim(pg[x]) \in Nat
    BY <2>1, DimNat
  <2>. QED
    BY <1>4, <2>2, <2>4, <2>5
<1>. QED
  BY <1>5, <1>6

\* It does not matter which page is taken first.
LEMMA SizeOfMember ==
  ASSUME NEW pg \in [Blocks -> Page], NEW S \in SUBSET Blocks
  PROVE  \A b \in S : SizeOf(pg, S) = Dim(pg[b]) + SizeOf(pg, S \ {b})
<1>. DEFINE Takes(T, y) == SizeOf(pg, T) = Dim(pg[y]) + SizeOf(pg, T \ {y})
            F == {T \in SUBSET S : \E y \in T : ~Takes(T, y)}
<1>0. IsFiniteSet(S) /\ \A T \in SUBSET S : IsFiniteSet(T) /\ SizeOf(pg, T) \in Nat
  BY SizeOfNat
<1>1. SUFFICES ASSUME F # {} PROVE FALSE
  OBVIOUS
<1>2. F \in SUBSET (SUBSET S)
  OBVIOUS
<1>. HIDE DEF F
<1>3. PICK T \in F : \A t \in F : t \subseteq T => t = T
  BY <1>0, <1>1, <1>2, MinimalSet
<1>4. PICK b \in T : T \in SUBSET S /\ ~Takes(T, b) /\ IsFiniteSet(T)
  BY <1>0, <1>3 DEF F
<1>. DEFINE x == First(T)
            t == T \ {x}
            r == T \ {b}
            rest == t \ {b}
<1>5. x \in T
  BY <1>4, FirstIn
<1>6. SizeOf(pg, T) = Dim(pg[x]) + SizeOf(pg, t)
  BY <1>4, SizeOfFirst
<1>7. x # b
  BY <1>4, <1>6
<1>8. /\ t \in SUBSET S /\ t \subseteq T /\ t # T /\ b \in t
      /\ r \in SUBSET S /\ r \subseteq T /\ r # T /\ x \in r
      /\ rest = r \ {x} /\ rest \in SUBSET S
  BY <1>4, <1>5, <1>7
<1>. HIDE DEF t, r, x
<1>9. t \notin F /\ r \notin F
  BY <1>3, <1>8
<1>10. Takes(t, b) /\ Takes(r, x)
  BY <1>8, <1>9 DEF F
<1>11. SizeOf(pg, t) = Dim(pg[b]) + SizeOf(pg, rest) /\ SizeOf(pg, r) = Dim(pg[x]) + SizeOf(pg, rest)
  BY <1>8, <1>10
<1>12. SizeOf(pg, T) # Dim(pg[b]) + SizeOf(pg, r)
  BY <1>4 DEF r
<1>. HIDE DEF rest, Takes
<1>13. SizeOf(pg, rest) \in Nat /\ Dim(pg[b]) \in Nat /\ Dim(pg[x]) \in Nat
  <2>1. b \in Blocks /\ x \in Blocks
    BY <1>4, <1>5
  <2>. QED
    BY <1>0, <1>8, <2>1, DimNat
<1>. QED
  BY <1>6, <1>11, <1>12, <1>13

\* One page more, and a set of pages less.
LEMMA SizeOfAdd ==
  ASSUME NEW pg \in [Blocks -> Page], NEW S \in SUBSET Blocks, NEW b \in Blocks \ S
  PROVE  SizeOf(pg, S \cup {b}) = SizeOf(pg, S) + Dim(pg[b])
<1>. DEFINE T == S \cup {b}
<1>1. T \in SUBSET Blocks /\ b \in T /\ T \ {b} = S
  OBVIOUS
<1>. HIDE DEF T
<1>2. SizeOf(pg, T) = Dim(pg[b]) + SizeOf(pg, S)
  BY <1>1, SizeOfMember
<1>3. Dim(pg[b]) \in Nat /\ SizeOf(pg, S) \in Nat
  BY DimNat, SizeOfNat
<1>. QED
  BY <1>2, <1>3 DEF T

LEMMA SizeOfMinus ==
  ASSUME NEW pg \in [Blocks -> Page], NEW S \in SUBSET Blocks
  PROVE  \A R \in SUBSET S : SizeOf(pg, S \ R) = SizeOf(pg, S) - SizeOf(pg, R)
<1>. DEFINE Less(R) == SizeOf(pg, S \ R) = SizeOf(pg, S) - SizeOf(pg, R)
            F == {R \in SUBSET S : ~Less(R)}
<1>0. IsFiniteSet(S) /\ \A T \in SUBSET S : IsFiniteSet(T) /\ SizeOf(pg, T) \in Nat
  BY SizeOfNat
<1>1. SUFFICES ASSUME F # {} PROVE FALSE
  OBVIOUS
<1>2. F \in SUBSET (SUBSET S)
  OBVIOUS
<1>. HIDE DEF F
<1>3. PICK R \in F : \A t \in F : t \subseteq R => t = R
  BY <1>0, <1>1, <1>2, MinimalSet
<1>4. R \in SUBSET S /\ ~Less(R) /\ IsFiniteSet(R)
  BY <1>0, <1>3 DEF F
<1>5. CASE R = {}
  <2>1. SizeOf(pg, R) = 0 /\ S \ R = S
    BY <1>4, <1>5, SizeOfFirst
  <2>2. SizeOf(pg, S) \in Nat /\ SizeOf(pg, S \ R) = SizeOf(pg, S)
    BY <1>0, <2>1
  <2>3. SizeOf(pg, S \ R) # SizeOf(pg, S) - SizeOf(pg, R)
    BY <1>4
  <2>. QED
    BY <2>1, <2>2, <2>3
<1>6. CASE R # {}
  <2>1. PICK b \in R : b \in Blocks
    BY <1>4, <1>6
  <2>. DEFINE t == R \ {b}
              u == S \ t
  <2>2. t \in SUBSET S /\ t \subseteq R /\ t # R /\ u \in SUBSET S /\ b \in u /\ u \ {b} = S \ R
    BY <1>4, <2>1
  <2>3. SizeOf(pg, R) = Dim(pg[b]) + SizeOf(pg, t)
    BY <1>4, <2>1, SizeOfMember
  <2>. HIDE DEF t
  <2>4. Less(t)
    BY <1>3, <2>2 DEF F
  <2>. HIDE DEF u
  <2>5. SizeOf(pg, u) = Dim(pg[b]) + SizeOf(pg, S \ R)
    BY <2>2, SizeOfMember
  <2>6. SizeOf(pg, u) = SizeOf(pg, S) - SizeOf(pg, t)
    BY <2>4 DEF u
  <2>7. Dim(pg[b]) \in Nat
    BY <2>1, DimNat
  <2>8. SizeOf(pg, S) \in Nat /\ SizeOf(pg, t) \in Nat /\ SizeOf(pg, R) \in Nat /\ SizeOf(pg, S \ R) \in Nat
    BY <1>0, <1>4, <2>2
  <2>9. SizeOf(pg, S \ R) # SizeOf(pg, S) - SizeOf(pg, R)
    BY <1>4
  <2>. QED
    BY <2>3, <2>5, <2>6, <2>7, <2>8, <2>9
<1>. QED
  BY <1>5, <1>6

\* Only the sizes of the pages matter.
LEMMA SizeOfSame ==
  ASSUME NEW pg, NEW pn, NEW S, IsFiniteSet(S), \A b \in S : Dim(pn[b]) = Dim(pg[b])
  PROVE  SizeOf(pn, S) = SizeOf(pg, S)
<1>. DEFINE F == {T \in SUBSET S : SizeOf(pn, T) # SizeOf(pg, T)}
<1>1. SUFFICES ASSUME F # {} PROVE FALSE
  OBVIOUS
<1>2. F \in SUBSET (SUBSET S)
  OBVIOUS
<1>. HIDE DEF F
<1>3. PICK T \in F : \A t \in F : t \subseteq T => t = T
  BY <1>1, <1>2, MinimalSet
<1>4. T \in SUBSET S /\ SizeOf(pn, T) # SizeOf(pg, T) /\ IsFiniteSet(T)
  BY <1>3, FS_Subset DEF F
<1>5. CASE T = {}
  BY <1>4, <1>5, SizeOfFirst
<1>6. CASE T # {}
  <2>. DEFINE x == First(T)
              t == T \ {x}
  <2>1. x \in T /\ Dim(pn[x]) = Dim(pg[x])
    BY <1>4, <1>6, FirstIn
  <2>2. SizeOf(pg, T) = Dim(pg[x]) + SizeOf(pg, t) /\ SizeOf(pn, T) = Dim(pn[x]) + SizeOf(pn, t)
    BY <1>4, <1>6, SizeOfFirst
  <2>3. t \in SUBSET S /\ t \subseteq T /\ t # T
    BY <1>4, <2>1
  <2>. HIDE DEF x, t
  <2>4. SizeOf(pn, t) = SizeOf(pg, t)
    BY <1>3, <2>3 DEF F
  <2>. QED
    BY <1>4, <2>1, <2>2, <2>4
<1>. QED
  BY <1>5, <1>6

BlacklistSized == status # "freed" => blacklistedSize = SizeOf(page, blacklisted)

\* A step that leaves the blacklist alone, and the sizes of its pages.
LEMMA BlacklistKept ==
  ASSUME TypeOK, BlacklistSized, UNCHANGED <<blacklisted, blacklistedSize, status>>,
         \A b \in blacklisted : Dim(page'[b]) = Dim(page[b])
  PROVE  BlacklistSized'
<1>1. IsFiniteSet(blacklisted)
  BY BlocksAssumption, FS_Subset DEF TypeOK
<1>2. SizeOf(page', blacklisted) = SizeOf(page, blacklisted)
  BY <1>1, SizeOfSame
<1>. QED
  BY <1>2 DEF BlacklistSized

\* The pages given back are taken off the size with their own sizes.
LEMMA BlacklistMoved ==
  ASSUME TypeOK, page' \in [Blocks -> Page], SameShape(page, page'),
         blacklistedSize = SizeOf(page, blacklisted),
         NEW b \in Blocks \ blacklisted, MoveToBlacklisted(page', b)
  PROVE  blacklistedSize' = SizeOf(page', blacklisted')
<1>. DEFINE S == blacklisted
            R == Released
            pn == page'
<1>1. S \in SUBSET Blocks /\ R \in SUBSET S /\ IsFiniteSet(S)
  BY BlocksAssumption, FS_Subset DEF TypeOK, Released
<1>2. \A x \in Blocks : Dim(pn[x]) = Dim(page[x])
  BY DEF SameShape, Dim
<1>3. blacklistedSize' = blacklistedSize - SizeOf(pn, R) + Dim(pn[b]) /\ blacklisted' = (S \ R) \cup {b}
  BY DEF MoveToBlacklisted
<1>. HIDE DEF S, R, pn
<1>4. pn \in [Blocks -> Page]
  BY DEF pn
<1>5. SizeOf(pn, S) = SizeOf(page, S)
  BY <1>1, <1>2, SizeOfSame
<1>6. SizeOf(pn, S \ R) = SizeOf(pn, S) - SizeOf(pn, R)
  BY <1>1, <1>4, SizeOfMinus
<1>7. S \ R \in SUBSET Blocks /\ b \in Blocks \ (S \ R)
  BY <1>1 DEF S
<1>8. SizeOf(pn, (S \ R) \cup {b}) = SizeOf(pn, S \ R) + Dim(pn[b])
  BY <1>4, <1>7, SizeOfAdd
<1>9. blacklistedSize = SizeOf(pn, S)
  BY <1>5 DEF S
<1>. QED
  BY <1>3, <1>6, <1>8, <1>9 DEF pn

LEMMA BlacklistNext ==
  ASSUME Inv, BlacklistSized, [Next]_vars
  PROVE  BlacklistSized'
<1>0. TypeOK /\ page \in [Blocks -> Page] /\ blacklisted \subseteq Blocks /\ live \subseteq Blocks
  BY DEF Inv, TypeOK
<1>1. ASSUME NEW v \in Vars, NEW size \in ChunkSizes, NEW onFree \in BOOLEAN, Alloc(v, size, onFree)
      PROVE  BlacklistSized'
  <2>1. status = "running" /\ ListsDisjoint /\ NewChunk(onFree) \in Chunk
    BY <1>0, <1>1 DEF Alloc, CanAlloc, Inv, NewChunk, Chunk, TypeOK
  <2>2. ASSUME NEW pg \in [Blocks -> Page], NEW b \in Blocks \ blacklisted, AddChunk(pg, b, v, onFree),
               \A x \in Blocks \ {b} : pg[x] = page[x]
        PROVE  BlacklistSized'
    <3>1. \A x \in Blocks \ {b} : page'[x] = pg[x]
      BY <2>1, <2>2, AddedChunk
    <3>2. UNCHANGED <<blacklisted, blacklistedSize, status>>
      BY <2>2 DEF AddChunk
    <3>3. \A x \in blacklisted : page'[x] = page[x]
      BY <1>0, <2>2, <3>1
    <3>. QED
      BY <1>0, <3>2, <3>3, BlacklistKept
  <2>3. CASE AllocInPage(v, size, onFree)
    <3>1. PICK b \in BestFits(size) : AddChunk(page, b, v, onFree)
      BY <2>3 DEF AllocInPage
    <3>2. b \in Blocks \ blacklisted
      BY <1>0, <2>1, <3>1 DEF BestFits, Fitting, ListsDisjoint
    <3>. QED
      BY <1>0, <2>2, <3>1, <3>2
  <2>4. ASSUME NEW b \in Blocks \ blacklisted, PageAdd(b, v, size, onFree)
        PROVE  BlacklistSized'
    <3>. DEFINE pg == [page EXCEPT ![b] = NewPage(size)]
    <3>1. NewPage(size) \in Page
      BY <1>0, NewPageFields DEF TypeOK
    <3>2. pg \in [Blocks -> Page] /\ \A x \in Blocks \ {b} : pg[x] = page[x]
      BY <1>0, <3>1
    <3>3. AddChunk(pg, b, v, onFree)
      BY <2>4 DEF PageAdd
    <3>. HIDE DEF pg
    <3>. QED
      BY <2>2, <3>2, <3>3
  <2>5. CASE AllocRecycled(v, size, onFree)
    <3>1. PICK i \in DOMAIN recycled : PageAdd(recycled[i], v, size, onFree)
      BY <2>5 DEF AllocRecycled, BigEnough
    <3>2. recycled[i] \in Blocks \ blacklisted
      BY <1>0, <2>1, <3>1 DEF TypeOK, ListsDisjoint
    <3>. QED
      BY <2>4, <3>1, <3>2
  <2>6. CASE AllocFresh(v, size, onFree)
    <3>1. PICK b \in {x \in Blocks : cap[x] = 0} \cup Popped(Len(recycled)) : PageAdd(b, v, size, onFree)
      BY <2>6 DEF AllocFresh
    <3>2. Popped(Len(recycled)) \subseteq Blocks \ blacklisted
      BY <1>0, <2>1 DEF Popped, TypeOK, ListsDisjoint
    <3>3. b \in Blocks \ blacklisted
      BY <2>1, <3>1, <3>2 DEF ListsDisjoint
    <3>. QED
      BY <2>4, <3>1, <3>3
  <2>. QED
    BY <1>1, <2>3, <2>5, <2>6 DEF Alloc
<1>2. ASSUME NEW u \in Vars, NEW q, status = "running", Storable(q), StoreEffect(u, q)
      PROVE  BlacklistSized'
  <2>1. /\ page' \in [Blocks -> Page] /\ SameShape(page, page')
        /\ \/ UNCHANGED lists
           \/ ref[u] # Null /\ PageRemove(page', ref[u].b)
    BY <1>2, StoreCounts
  <2>2. status' = status
    BY <1>2 DEF StoreEffect
  <2>3. \A b \in blacklisted : Dim(page'[b]) = Dim(page[b])
    BY <1>0, <2>1 DEF SameShape, Dim
  <2>4. CASE UNCHANGED <<blacklisted, blacklistedSize>>
    BY <1>0, <2>2, <2>3, <2>4, BlacklistKept
  <2>5. ASSUME ref[u] # Null, MoveToBlacklisted(page', ref[u].b)
        PROVE  BlacklistSized'
    <3>1. ref[u].b \in Blocks \ blacklisted
      BY <1>0, <1>2, <2>5, VarFound DEF Inv, ListsDisjoint
    <3>2. blacklistedSize = SizeOf(page, blacklisted)
      BY <1>2 DEF BlacklistSized
    <3>3. blacklistedSize' = SizeOf(page', blacklisted')
      BY <1>0, <2>1, <2>5, <3>1, <3>2, BlacklistMoved
    <3>. QED
      BY <3>3 DEF BlacklistSized
  <2>. QED
    BY <2>1, <2>4, <2>5 DEF PageRemove, MoveToRecycled, lists
<1>3. ASSUME NEW v \in Vars, NEW size \in ChunkSizes, NEW onFree \in FinalizerChoices,
             Alloc(v, size, onFree)
      PROVE  BlacklistSized'
  BY <1>1, <1>3, ProgramAssumption
<1>4. ASSUME NEW u \in Vars, NEW v \in Vars, Assign(u, v)
      PROVE  BlacklistSized'
  BY <1>2, <1>4, AssignIsStore
<1>5. ASSUME NEW v \in Vars, Collect(v)
      PROVE  BlacklistSized'
  BY <1>2, <1>5, CollectIsStore
<1>6. ASSUME UNCHANGED <<page, lists, status>>
      PROVE  BlacklistSized'
  BY <1>6 DEF BlacklistSized, lists
<1>7. ASSUME NEW s \in Slots, NEW v \in Vars, Load(s, v)
      PROVE  BlacklistSized'
  BY <1>6, <1>7 DEF Load
<1>8. ASSUME NEW s \in Slots, Drop(s)
      PROVE  BlacklistSized'
  BY <1>6, <1>8 DEF Drop
<1>9. ASSUME NEW w \in Weaks, NEW v \in Vars, Weaken(w, v)
      PROVE  BlacklistSized'
  <2>1. ~IsDangling(ref[v])
    BY <1>9, VarFound DEF Weaken
  <2>. QED
    BY <1>6, <1>9, <2>1 DEF Weaken
<1>10. ASSUME NEW s \in Slots, NEW w \in Weaks, Strengthen(s, w)
       PROVE  BlacklistSized'
  BY <1>6, <1>10 DEF Strengthen
<1>11. ASSUME NEW f \in Fibers, Resume(f)
       PROVE  BlacklistSized'
  BY <1>6, <1>11 DEF Resume
<1>12. CASE Free
  BY <1>12 DEF Free, BlacklistSized
<1>13. CASE UNCHANGED vars
  BY <1>6, <1>13 DEF vars
<1>. QED
  BY <1>3, <1>4, <1>5, <1>7, <1>8, <1>9, <1>10, <1>11, <1>12, <1>13 DEF Next

\* Pages are neither leaked nor listed twice, and the size that decides when blacklisted pages
\* are given back is always what they occupy.
THEOREM ListsCorrect == Spec => []ListsPartition
<1>1. Init => BlacklistSized
  <2>1. SizeOf(page, {}) = 0
    BY FS_EmptySet, SizeOfFirst
  <2>. QED
    BY <2>1 DEF Init, BlacklistSized
<1>2. Inv /\ BlacklistSized /\ [Next]_vars => BlacklistSized'
  BY BlacklistNext
<1>3. Inv /\ BlacklistSized => ListsPartition
  BY DEF Inv, BlacklistSized, ListsPartition
<1>. QED
  BY <1>1, <1>2, <1>3, Invariant, PTL DEF Spec

=============================================================================
