----------------------------- MODULE OrderedMap -----------------------------
(***************************************************************************)
(* What the maps of the Umka language promise to a program (the built-in   *)
(* functions and the indexing of map[K]T): a finite function from keys to  *)
(* items that can be listed in the ascending order of its keys.            *)
(***************************************************************************)
EXTENDS Integers, FiniteSets

CONSTANTS Keys, Items, Zero    \* Zero is the item a new key is given

VARIABLES
  contents,  \* the items by their keys
  result     \* what the last operation has returned, as a sequence, or nothing when
             \* one is in progress

vars == <<contents, result>>

Has(k) == k \in DOMAIN contents

With(k, x) == [j \in DOMAIN contents \cup {k} |-> IF j = k THEN x ELSE contents[j]]

Init == contents = [k \in {} |-> Zero] /\ result = <<>>

\* An operation begins
Call == result' = <<>> /\ UNCHANGED contents

\* m[k]: indexing creates the item if there is none
Index(k) ==
  /\ contents' = IF Has(k) THEN contents ELSE With(k, Zero)
  /\ result' = <<contents'[k]>>

\* m[k] = x
Set(k, x) == contents' = With(k, x) /\ result' = <<x>>

\* delete(m, k)
Delete(k) ==
  /\ contents' = [j \in DOMAIN contents \ {k} |-> contents[j]]
  /\ result' = <<>>

\* validkey(m, k)
ValidKey(k) == result' = (IF Has(k) THEN <<k>> ELSE <<>>) /\ UNCHANGED contents

\* The ascending lists of all the elements of a finite set of integers: there is one
Listings(S) == {s \in [1 .. Cardinality(S) -> S] : \A i, j \in DOMAIN s : i < j => s[i] < s[j]}

\* keys(m)
ListKeys == result' \in Listings(DOMAIN contents) /\ UNCHANGED contents

Next ==
  \/ Call
  \/ \E k \in Keys : Index(k) \/ Delete(k) \/ ValidKey(k)
  \/ \E k \in Keys, x \in Items : Set(k, x)
  \/ ListKeys

Spec == Init /\ [][Next]_vars

=============================================================================
