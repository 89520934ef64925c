----------------------------- MODULE SharedLists -----------------------------
(***************************************************************************)
(* What src/doc/lang.md promises of dynamic arrays: variables refer to     *)
(* lists, assignment shares them, append() and insert() alter the list and *)
(* return it if its capacity allows, and make a new one otherwise,         *)
(* delete() alters it, slice() and copy() make a new one, and sort() puts  *)
(* it in order.                                                            *)
(***************************************************************************)
EXTENDS Integers, Sequences, SequencesExt

CONSTANTS
  Vars,        \* variables of the array type
  Refs,        \* the identities of lists
  Null,
  Values,      \* of items
  Zero,        \* the value make() gives the items
  MaxLen,      \* bound on the number of items
  Rank(_),     \* what sort() orders by
  Capacity(_)  \* of a new list with so many items

VARIABLES
  ref,      \* the list of a variable, or Null
  list,     \* the items of a list; nothing if no variable refers to it
  capacity,
  call,     \* the arguments of an append() or insert(): the item by its value
  sorting   \* the list that is being sorted, or Null

vars == <<ref, list, capacity, call, sorting>>

Init ==
  /\ ref = [v \in Vars |-> Null]
  /\ list = [r \in Refs |-> <<>>]
  /\ capacity = [r \in Refs |-> 0]
  /\ call = Null /\ sorting = Null

Items(v) == IF ref[v] = Null THEN <<>> ELSE list[ref[v]]
Cap(v) == IF ref[v] = Null THEN 0 ELSE capacity[ref[v]]

\* v := r, with these items; a list that no variable refers to is no more
Put(v, r, l, k) ==
  LET kept == {r} \cup {ref[w] : w \in Vars \ {v}}
  IN  /\ ref' = [ref EXCEPT ![v] = r]
      /\ list' = [q \in Refs |-> IF q = r THEN l ELSE IF q \in kept THEN list[q] ELSE <<>>]
      /\ capacity' = [q \in Refs |-> IF q = r THEN k ELSE IF q \in kept THEN capacity[q] ELSE 0]
      /\ UNCHANGED sorting

PutNew(v, l) ==
  \E r \in Refs : r \notin {ref[w] : w \in Vars} /\ Put(v, r, l, Capacity(Len(l)))

\* The same list if it can hold the items, and only then
PutGrown(v, a, l) ==
  IF Len(l) <= Cap(a) THEN Put(v, ref[a], l, Cap(a)) ELSE PutNew(v, l)

Assign(v, a) ==
  Put(v, ref[a], Items(a), Cap(a)) /\ UNCHANGED call

Make(v, n) ==
  PutNew(v, [i \in 1 .. n |-> Zero]) /\ UNCHANGED call

Slice(v, a, i, j) ==
  /\ i <= j /\ j <= Len(Items(a))
  /\ PutNew(v, SubSeq(Items(a), i + 1, j))
  /\ UNCHANGED call

Delete(v, a, i) ==
  /\ ref[a] # Null /\ i < Len(Items(a))
  /\ Put(v, ref[a], RemoveAt(Items(a), i + 1), Cap(a))
  /\ UNCHANGED call

AppendAll(v, a, b) ==
  PutGrown(v, a, Items(a) \o Items(b)) /\ UNCHANGED call

Set(a, i, x) ==
  /\ ref[a] # Null /\ i < Len(Items(a))
  /\ list' = [list EXCEPT ![ref[a]] = ReplaceAt(@, i + 1, x)]
  /\ UNCHANGED <<ref, capacity, call, sorting>>

Call(c) ==
  /\ call = Null
  /\ call' = c
  /\ UNCHANGED <<ref, list, capacity, sorting>>

Return(v) ==
  /\ call # Null
  /\ PutGrown(v, call.arr, InsertAt(Items(call.arr), call.index + 1, call.item))
  /\ call' = Null

SortBegin(a) ==
  /\ ref[a] # Null /\ sorting = Null
  /\ sorting' = ref[a]
  /\ UNCHANGED <<ref, list, capacity, call>>

InOrder(l) == \A i, j \in 1 .. Len(l) : i < j => Rank(l[i]) <= Rank(l[j])

\* Any other order of the same items, and in the end the right one
SortStep ==
  /\ sorting # Null
  /\ \E p \in [DOMAIN list[sorting] -> DOMAIN list[sorting]] :
       /\ \A i, j \in DOMAIN p : p[i] = p[j] => i = j
       /\ list' = [list EXCEPT ![sorting] = [i \in DOMAIN @ |-> @[p[i]]]]
  /\ sorting' = sorting \/ (sorting' = Null /\ InOrder(list'[sorting]))
  /\ UNCHANGED <<ref, capacity, call>>

Next ==
  \/ \E v, a \in Vars : Assign(v, a)
  \/ \E v \in Vars, n \in 0 .. MaxLen : Make(v, n)
  \/ \E v, a, b \in Vars : AppendAll(v, a, b)
  \/ \E v, a \in Vars, i, j \in 0 .. MaxLen : Slice(v, a, i, j)
  \/ \E v, a \in Vars, i \in 0 .. MaxLen : Delete(v, a, i)
  \/ \E a \in Vars, i \in 0 .. MaxLen, x \in Values : Set(a, i, x)
  \/ \E a \in Vars, i \in 0 .. MaxLen, x \in Values :
       Call([arr |-> a, index |-> i, item |-> x])
  \/ \E v \in Vars : Return(v)
  \/ \E a \in Vars : SortBegin(a)
  \/ SortStep

Spec == Init /\ [][Next]_vars

=============================================================================
