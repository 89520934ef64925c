------------------------------- MODULE DynArray -------------------------------
(***************************************************************************)
(* Dynamic arrays (src/src/umka_vm.c): the built-in functions make, append,*)
(* insert, delete, slice and copy, and sort with its partitions.           *)
(*                                                                         *)
(* A dynamic array is a pointer to a chunk with its length, its capacity   *)
(* and the items.  Arrays that were assigned, or came out of append(),     *)
(* insert() or delete(), share the chunk and so the length.  An item is a  *)
(* structure with a string in it, or null: the chunk counts the strings of *)
(* the items up to its length.  Positions count from 1 here.               *)
(*                                                                         *)
(* The arguments of append() and insert() are pushed in one step, and the  *)
(* function runs in another.  The result is assigned to a variable in the  *)
(* same step: what it is in between belongs to nobody else.                *)
(***************************************************************************)
EXTENDS Integers, Sequences, FiniteSets, SequencesExt, FiniteSetsExt

CONSTANTS
  Vars,          \* variables of the array type
  Stores,        \* the chunks there may be at a time, by their addresses
  Strings,       \* the strings there may be at a time
  Null,
  MaxLen,        \* bound on the length of an array
  Rank(_),       \* what the comparison compares
  ItemOfItself,  \* may a program insert an item of an array in front of it in the same array
  CompareAlters  \* may a comparison change the arrays

ASSUME DynArrayAssumption ==
  /\ IsFiniteSet(Vars) /\ IsFiniteSet(Stores) /\ IsFiniteSet(Strings)
  /\ Stores \subseteq Nat
  /\ Null \notin Stores \cup Strings /\ Stores \cap Strings = {}
  /\ MaxLen \in Nat
  /\ ItemOfItself \in BOOLEAN /\ CompareAlters \in BOOLEAN
  /\ \A x \in Strings \cup {Null} : Rank(x) \in Int

VARIABLES
  arr,     \* DynArray->data of the variables
  str,     \* a variable with an item
  store,   \* the chunks
  count,   \* chunk->refCnt of the strings
  call,    \* the arguments on the stack, or Null
  sorting  \* qsortEx: the ranges left to sort, and where qsortPartition is, or Null

vars == <<arr, str, store, count, call, sorting>>

Values == Strings \cup {Null}

\* A range of positions, and where a sort is: qsortPartition is in the first of the ranges
Piece == [first : Int, last : Int]
Sorts == [store : Stores, ranges : Seq(Piece), i : Int, j : Int, scans : {"i", "j"}]

\* What stands for nothing is neither a sort nor the arguments of a call
ASSUME NullAssumption ==
  Null \notin Sorts /\ Null \notin [arr : Vars, index : 0 .. MaxLen, item : Values]

\* doAllocDynArray; capacities beyond the bound on the length are all alike
Capacity(len) == IF 2 * (len + 1) <= MaxLen THEN 2 * (len + 1) ELSE MaxLen + 1

NoStore == [count |-> 0, len |-> 0, capacity |-> 0, data |-> [i \in 1 .. MaxLen |-> Null]]

Init ==
  /\ arr = [v \in Vars |-> Null]
  /\ str = Null
  /\ store = [s \in Stores |-> NoStore]
  /\ count = [x \in Strings |-> 0]
  /\ call = Null /\ sorting = Null

\* A null array is made an empty one by all who use it
Length(v) == IF arr[v] = Null THEN 0 ELSE store[arr[v]].len
Data(v) == IF arr[v] = Null THEN NoStore.data ELSE store[arr[v]].data

(***************************************************************************)
(* Counting.                                                               *)
(***************************************************************************)
Occurrences(x, data, D) == Cardinality({i \in D : data[i] = x})

\* doRefCntImpl of the items at the positions in D
Plus(n, data, D) == [x \in Strings |-> n[x] + Occurrences(x, data, D)]
Minus(n, data, D) == [x \in Strings |-> n[x] - Occurrences(x, data, D)]

\* v := s, the result of an operation that has counted it in stores and the items in n: the
\* array v had is released, and with its last reference the items
Result(v, s, stores, n) ==
  /\ arr' = [arr EXCEPT ![v] = s]
  /\ IF arr[v] = Null THEN store' = stores /\ count' = n
     ELSE IF stores[arr[v]].count > 1
     THEN store' = [stores EXCEPT ![arr[v]].count = @ - 1] /\ count' = n
     ELSE store' = [stores EXCEPT ![arr[v]] = NoStore]
          /\ count' = Minus(n, stores[arr[v]].data, 1 .. stores[arr[v]].len)

\* A new chunk, the first that is free, with these items, which are counted as if they had been assigned
ResultNew(v, len, data) ==
  \E s \in Stores :
    /\ store[s].count = 0 /\ \A t \in Stores : store[t].count = 0 => s <= t
    /\ Result(v, s,
              [store EXCEPT ![s] =
                 [count |-> 1, len |-> len, capacity |-> Capacity(len),
                  data |-> [i \in 1 .. MaxLen |-> IF i <= len THEN data[i] ELSE Null]]],
              Plus(count, data, 1 .. len))

\* A chunk with other items and one more reference
Altered(c, len, data) ==
  [count |-> c.count + 1, len |-> len, capacity |-> c.capacity, data |-> data]

\* The chunk s, with other items, of which those at D are new
ResultAltered(v, s, len, data, D) ==
  Result(v, s, [store EXCEPT ![s] = Altered(store[s], len, data)], Plus(count, data, D))

\* No function is being called, and the program runs, be it in a comparison
Running == call = Null /\ (sorting # Null => CompareAlters)

(***************************************************************************)
(* make, slice, copy, delete, append of an array, and assignments.         *)
(***************************************************************************)
Assign(v, a) ==
  /\ Running
  /\ IF arr[a] = Null THEN Result(v, Null, store, count)
     ELSE Result(v, arr[a], [store EXCEPT ![arr[a]].count = @ + 1], count)
  /\ UNCHANGED <<str, call, sorting>>

Make(v, len) ==
  /\ Running
  /\ ResultNew(v, len, NoStore.data)
  /\ UNCHANGED <<str, call, sorting>>

\* Also copy, with the whole array, if it is not null
Slice(v, a, first, last) ==
  /\ Running
  /\ first <= last /\ last <= Length(a)
  /\ ResultNew(v, last - first, [i \in 1 .. last - first |-> Data(a)[first + i]])
  /\ UNCHANGED <<str, call, sorting>>

\* The memmove of delete.  The last item stays where it was, too, which nobody can see but
\* a sort that went on beyond the new length.
Deleted(data, len, at) ==
  [i \in 1 .. MaxLen |->
     IF at <= i /\ i < len THEN data[i + 1]
     ELSE IF i = len /\ ~CompareAlters THEN Null ELSE data[i]]

Delete(v, a, at) ==
  /\ Running
  /\ arr[a] # Null /\ at <= Length(a)
  /\ Result(v, arr[a],
            [store EXCEPT ![arr[a]] = Altered(store[arr[a]], Length(a) - 1, Deleted(Data(a), Length(a), at))],
            Minus(count, Data(a), {at}))
  /\ UNCHANGED <<str, call, sorting>>

\* Mutant: the items that were there are counted once more
GrowCountingAll(v, a, len, data, D) ==
  IF arr[a] = Null /\ len = 0 THEN Result(v, Null, store, count)
  ELSE IF arr[a] # Null /\ len <= store[arr[a]].capacity
  THEN ResultAltered(v, arr[a], len, data, 1 .. len)
  ELSE ResultNew(v, len, data)

\* append() and insert(): if the capacity is enough, the chunk is altered, with new items
\* at D only; otherwise all the items are new in another chunk.  Nothing appended to a null
\* array leaves it at that.
Grow(v, a, len, data, D) ==
  IF arr[a] = Null /\ len = 0 THEN Result(v, Null, store, count)
  ELSE IF arr[a] # Null /\ len <= store[arr[a]].capacity
  THEN ResultAltered(v, arr[a], len, data, D)
  ELSE ResultNew(v, len, data)

\* Items of rhs after the items of data
Appended(data, len, rhs, rhsLen) ==
  [i \in 1 .. MaxLen |-> IF len < i /\ i <= len + rhsLen THEN rhs[i - len] ELSE data[i]]

AppendAll(v, a, b) ==
  /\ Running
  /\ Length(a) + Length(b) <= MaxLen
  /\ Grow(v, a, Length(a) + Length(b), Appended(Data(a), Length(a), Data(b), Length(b)),
          Length(a) + 1 .. Length(a) + Length(b))
  /\ UNCHANGED <<str, call, sorting>>

\* Assignments of items: the variable str stands for whatever else has one
Stored(old, new) ==
  count' = [x \in Strings |-> count[x] + (IF x = new THEN 1 ELSE 0) - (IF x = old THEN 1 ELSE 0)]

NewString(x) ==
  /\ Running
  /\ count[x] = 0
  /\ str' = x /\ Stored(str, x)
  /\ UNCHANGED <<arr, store, call, sorting>>

GetItem(a, at) ==
  /\ Running
  /\ at <= Length(a)
  /\ str' = Data(a)[at] /\ Stored(str, Data(a)[at])
  /\ UNCHANGED <<arr, store, call, sorting>>

SetItem(a, at) ==
  /\ Running
  /\ at <= Length(a)
  /\ Stored(Data(a)[at], str)
  /\ store' = [store EXCEPT ![arr[a]].data[at] = str]
  /\ UNCHANGED <<arr, str, call, sorting>>

(***************************************************************************)
(* append and insert of an item, which is given by its address, because it *)
(* is a structure: that of str, which stands for every place outside of    *)
(* the array, or a place in it.                                            *)
(***************************************************************************)
OfVar == [store |-> Null, at |-> 0]
Addresses(a) == {OfVar} \cup {[store |-> arr[a], at |-> i] : i \in 1 .. Length(a)}

At(item) == IF item.store = Null THEN str ELSE store[item.store].data[item.at]

\* The arguments are pushed; append() is insert() after the last item
PushArgs(a, at, item) ==
  /\ Running
  /\ at <= Length(a) + 1 /\ Length(a) < MaxLen
  /\ item # OfVar /\ item.at > at => ItemOfItself
  /\ call' = [arr |-> a, at |-> at, item |-> item]
  /\ UNCHANGED <<arr, str, store, count, sorting>>

\* Mutant: the items from the place on are overwritten, not moved
InsertedOver(data, len, at, x) == [i \in 1 .. MaxLen |-> IF i = at THEN x ELSE data[i]]

\* The memmove of insert, and the item
Inserted(data, len, at, x) ==
  [i \in 1 .. MaxLen |->
     IF i = at THEN x ELSE IF at < i /\ i <= len + 1 THEN data[i - 1] ELSE data[i]]

\* In place, the item is read when the items of its array have been moved already
Read(a, at, item) ==
  IF item # OfVar /\ item.at > at /\ Length(a) + 1 <= store[arr[a]].capacity
  THEN Data(a)[item.at - 1]
  ELSE At(item)

Insert(v) ==
  /\ call # Null
  /\ Grow(v, call.arr, Length(call.arr) + 1,
          Inserted(Data(call.arr), Length(call.arr), call.at, Read(call.arr, call.at, call.item)),
          {call.at})
  /\ call' = Null
  /\ UNCHANGED <<str, sorting>>

(***************************************************************************)
(* sort: one comparison of qsortPartition is a step.                       *)
(***************************************************************************)
\* qsortEx of a range, which does nothing if it has no two items
RangeOf(first, last) == IF first < last THEN <<[first |-> first, last |-> last]>> ELSE <<>>

\* qsortPartition of the first of these ranges begins
Partition(s, ranges) ==
  IF ranges = <<>> THEN Null
  ELSE [store |-> s, ranges |-> ranges, i |-> ranges[1].first, j |-> ranges[1].last, scans |-> "i"]

Sort(a) ==
  /\ Running /\ sorting = Null
  /\ sorting' = IF arr[a] = Null THEN Null ELSE Partition(arr[a], RangeOf(1, Length(a)))
  /\ UNCHANGED <<arr, str, store, count, call>>

FirstOf == sorting.ranges[1].first
LastOf == sorting.ranges[1].last
Sorted == store[sorting.store].data

Compare(i, j) == Rank(Sorted[i]) - Rank(Sorted[j])

Swap(i, j) ==
  store' = [store EXCEPT ![sorting.store].data = [@ EXCEPT ![i] = Sorted[j], ![j] = Sorted[i]]]

\* Mutant: an item equal to the pivot stops the scan
ScanUpToEqual ==
  /\ sorting # Null /\ sorting.scans = "i" /\ call = Null
  /\ sorting' = IF Compare(sorting.i, FirstOf) < 0 /\ sorting.i < LastOf
                THEN [sorting EXCEPT !.i = @ + 1] ELSE [sorting EXCEPT !.scans = "j"]
  /\ UNCHANGED <<arr, str, store, count, call>>

\* while (compare(i, pivot) <= 0 && i < last) i++
ScanUp ==
  /\ sorting # Null /\ sorting.scans = "i" /\ call = Null
  /\ sorting' = IF Compare(sorting.i, FirstOf) <= 0 /\ sorting.i < LastOf
                THEN [sorting EXCEPT !.i = @ + 1] ELSE [sorting EXCEPT !.scans = "j"]
  /\ UNCHANGED <<arr, str, store, count, call>>

\* while (compare(j, pivot) > 0 && j > first) j--
ScanDown ==
  /\ sorting # Null /\ sorting.scans = "j" /\ call = Null
  /\ Compare(sorting.j, FirstOf) > 0 /\ sorting.j > FirstOf
  /\ sorting' = [sorting EXCEPT !.j = @ - 1]
  /\ UNCHANGED <<arr, str, store, count, call>>

\* Then two items are swapped and the scans go on, or the pivot is put in its place and
\* the ranges on both sides are next
SwapOrSplit ==
  /\ sorting # Null /\ sorting.scans = "j" /\ call = Null
  /\ ~(Compare(sorting.j, FirstOf) > 0 /\ sorting.j > FirstOf)
  /\ IF sorting.i < sorting.j
     THEN /\ Swap(sorting.i, sorting.j)
          /\ sorting' = [sorting EXCEPT !.scans = "i"]
     ELSE /\ Swap(FirstOf, sorting.j)
          /\ sorting' = Partition(sorting.store,
                          RangeOf(FirstOf, sorting.j - 1) \o RangeOf(sorting.j + 1, LastOf)
                          \o Tail(sorting.ranges))
  /\ UNCHANGED <<arr, str, count, call>>

SortStep == ScanUp \/ ScanDown \/ SwapOrSplit

(***************************************************************************)
(* The specification.  A sort goes on, if its comparisons return.          *)
(***************************************************************************)
Next ==
  \/ \E v, a \in Vars : Assign(v, a)
  \/ \E v \in Vars, len \in 0 .. MaxLen : Make(v, len)
  \/ \E v, a \in Vars, first, last \in 0 .. MaxLen : Slice(v, a, first, last)
  \/ \E v, a \in Vars, at \in 1 .. MaxLen : Delete(v, a, at)
  \/ \E v, a, b \in Vars : AppendAll(v, a, b)
  \/ \E x \in Strings : NewString(x)
  \/ \E a \in Vars, at \in 1 .. MaxLen : GetItem(a, at) \/ SetItem(a, at)
  \/ \E a \in Vars, at \in 1 .. MaxLen : \E item \in Addresses(a) : PushArgs(a, at, item)
  \/ \E v \in Vars : Insert(v)
  \/ \E a \in Vars : Sort(a)
  \/ SortStep

Spec == Init /\ [][Next]_vars /\ WF_vars(SortStep)

(***************************************************************************)
(* Properties.                                                             *)
(***************************************************************************)
\* Types and bounds: among others, a sort stays within the bounds it began with.
TypeOK ==
  /\ arr \in [Vars -> Stores \cup {Null}]
  /\ str \in Values
  /\ count \in [Strings -> Nat]
  /\ \A s \in Stores :
       /\ DOMAIN store[s] = {"count", "len", "capacity", "data"}
       /\ store[s].count \in Nat
       /\ store[s].len \in 0 .. MaxLen /\ store[s].len <= store[s].capacity
       /\ store[s].data \in [1 .. MaxLen -> Values]
  /\ call # Null => call.arr \in Vars /\ call.at \in 1 .. MaxLen
  /\ sorting # Null =>
       /\ FirstOf <= sorting.i /\ sorting.i <= LastOf
       /\ FirstOf <= sorting.j /\ sorting.j <= LastOf

\* A chunk is counted by the variables that refer to it, and a string by str and by the
\* items of the chunks in use, each of which may be shared, moved, overwritten or dropped.
CountsExact ==
  /\ \A s \in Stores : store[s].count = Cardinality({v \in Vars : arr[v] = s})
  /\ \A x \in Strings :
       count[x] = (IF str = x THEN 1 ELSE 0)
                  + Cardinality({d \in Stores \X (1 .. MaxLen) :
                      store[d[1]].count > 0 /\ d[2] <= store[d[1]].len /\ store[d[1]].data[d[2]] = x})

\* The storage of arrays is sound: a sort stays in its bounds, and everything is counted
\* as often as it is referred to.
StorageSound == TypeOK /\ CountsExact

\* Dynamic arrays implement the lists the documentation promises: whoever shares a list
\* sees what is done to it, nobody else does, and each function gives what it should.
Lists == INSTANCE SharedLists WITH
  Refs <- Stores, Zero <- Null, ref <- arr,
  list <- [s \in Stores |-> [i \in 1 .. store[s].len |-> store[s].data[i]]],
  capacity <- [s \in Stores |-> store[s].capacity],
  call <- IF call = Null THEN Null
          ELSE [arr |-> call.arr, index |-> call.at - 1, item |-> At(call.item)],
  sorting <- IF sorting = Null THEN Null ELSE sorting.store

ListSpec == Lists!Spec

\* A sort comes to its end.
SortEnds == sorting # Null ~> sorting = Null

=============================================================================
