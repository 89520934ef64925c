------------------------------ MODULE HostHandles ------------------------------
(***************************************************************************)
(* Values that native code keeps beyond a call (src/src/umka_vm.c:         *)
(* vmRetainHostValue, vmRetainHostData, vmClearHostHandle) and values that *)
(* it puts into storage of its own or into parameters (vmAssignHostValue,  *)
(* vmReleaseHostValue, vmMakeDynamicValue), together with the assignments  *)
(* of the program that share what they hold.                               *)
(*                                                                         *)
(* There are strings on the heap and values that lead to them: a "str" is  *)
(* the pointer; a "struct" stands for the structures, arrays, dynamic      *)
(* arrays and maps, which are given by the address of the memory they are  *)
(* in, and here have one field, a str; an "any" leads to a box that holds  *)
(* a value of type Base.  What a handle retains by address is copied into  *)
(* storage allocated with malloc, which is not counted.                    *)
(***************************************************************************)
EXTENDS Integers, FiniteSets

CONSTANTS
  Strings,             \* the strings that may be on the heap at a time
  Boxes,               \* the chunks for what any values hold, too
  Blocks,              \* the blocks that malloc may give
  StrCells,            \* places for values: variables, parameters, storage of the host
  StructCells,
  AnyCells,
  Handles,
  Base,                \* the type of what is in the boxes
  Null,
  RetainedAnyAssigned  \* does the host assign an any that it got from a handle

ASSUME HostHandlesAssumption ==
  /\ IsFiniteSet(StrCells) /\ IsFiniteSet(StructCells) /\ IsFiniteSet(AnyCells)
  /\ IsFiniteSet(Handles) /\ IsFiniteSet(Boxes)
  /\ Base \in {"str", "struct"}
  /\ Null \notin Strings \cup Boxes \cup Blocks
  /\ {"free", "no value"} \cap (Strings \cup Boxes \cup {Null}) = {}
  /\ Strings \cap Boxes = {} /\ Strings \cap Blocks = {} /\ Boxes \cap Blocks = {}
  /\ StrCells \cap StructCells = {} /\ StrCells \cap AnyCells = {}
  /\ StructCells \cap AnyCells = {}
  /\ RetainedAnyAssigned \in BOOLEAN

VARIABLES
  count,   \* chunk->refCnt
  box,     \* the string that the value in a box leads to
  cell,    \* values: a string or Null for str and struct, a box, a block or Null for any
  handle,  \* the handles of the host
  block    \* the string that the value in a block leads to, "free", or "no value"

vars == <<count, box, cell, handle, block>>

Chunks == Strings \cup Boxes
Cells == StrCells \cup StructCells \cup AnyCells
TypeOf(c) == IF c \in StrCells THEN "str" ELSE IF c \in StructCells THEN "struct" ELSE "any"

Empty == [kind |-> "empty", type |-> Null, value |-> Null, storage |-> Null]

Init ==
  /\ count = [o \in Chunks |-> 0]
  /\ box = [o \in Boxes |-> Null]
  /\ cell = [c \in Cells |-> Null]
  /\ handle = [h \in Handles |-> Empty]
  /\ block = [b \in Blocks |-> "free"]

(***************************************************************************)
(* Counting.  What pageFind does not find is not counted: null, what       *)
(* malloc gave, and chunks that are no longer on the heap.                 *)
(***************************************************************************)
Plus(n, p) == IF p \in Chunks /\ n[p] > 0 THEN [n EXCEPT ![p] = @ + 1] ELSE n

OneLess(n, p) == IF p \in Chunks /\ n[p] > 0 THEN [n EXCEPT ![p] = @ - 1] ELSE n

\* With the last reference to a box goes the one in the box
Minus(n, p) ==
  IF p \in Boxes /\ n[p] = 1 THEN OneLess(OneLess(n, box[p]), p) ELSE OneLess(n, p)

(***************************************************************************)
(* Values.                                                                 *)
(***************************************************************************)
\* The memory of a box or of a block is there, with a value in it
Readable(self) ==
  \/ self \in Boxes /\ count[self] > 0
  \/ self \in Blocks /\ block[self] \in Strings \cup {Null}

\* vmGetAnyValue: what an any leads to
Inside(self) == IF self \in Boxes THEN box[self] ELSE block[self]

Holds(h, type) == handle[h].kind = "value" /\ handle[h].type = type

\* vmGetHostHandleValue: a str or the contents of the storage
HandleValue(h) ==
  IF handle[h].type = "struct" THEN block[handle[h].storage] ELSE handle[h].value

AnysOfHandles == {handle[h].value : h \in {g \in Handles : Holds(g, "any")}}
AnysOfCells == {cell[c] : c \in AnyCells}

\* The values that the program can give to a variable of a type, and to native code
OfProgram(type) ==
  {Null} \cup {cell[c] : c \in {d \in Cells : TypeOf(d) = type}}
  \cup (IF type = "struct" THEN {cell[c] : c \in StrCells} ELSE {})
  \cup (IF type = Base THEN {Inside(a) : a \in {b \in AnysOfCells : Readable(b)}} ELSE {})

\* The values that native code has: parameters, and what it has retained
OfHost(type) ==
  OfProgram(type)
  \cup {HandleValue(h) : h \in {g \in Handles : Holds(g, type)}}
  \cup (IF type = Base THEN {Inside(a) : a \in {b \in AnysOfHandles : Readable(b)}} ELSE {})

(***************************************************************************)
(* The program.                                                            *)
(***************************************************************************)
\* Assignment, by the program and by vmAssignHostValue: the new value is counted first
Store(c, v) ==
  /\ count' = Minus(Plus(count, v), cell[c])
  /\ cell' = [cell EXCEPT ![c] = v]

AssignCell(c, v) ==
  /\ Store(c, v)
  /\ UNCHANGED <<box, handle, block>>

\* A new string, also by vmMakeStr, is given to a variable
NewString(c, s) ==
  /\ count[s] = 0
  /\ count' = Minus([count EXCEPT ![s] = 1], cell[c])
  /\ cell' = [cell EXCEPT ![c] = s]
  /\ UNCHANGED <<box, handle, block>>

\* Mutant: what was in dest is released before the value is copied
BoxValueReleasingFirst(c, o, v) ==
  /\ count' = Plus([Minus(count, cell[c]) EXCEPT ![o] = 1], v)
  /\ box' = [box EXCEPT ![o] = v]
  /\ cell' = [cell EXCEPT ![c] = o]
  /\ UNCHANGED <<handle, block>>

\* any(v), and vmMakeDynamicValue: the value is copied into a new box
BoxValue(c, o, v) ==
  /\ count' = Minus(Plus([count EXCEPT ![o] = 1], v), cell[c])
  /\ box' = [box EXCEPT ![o] = v]
  /\ cell' = [cell EXCEPT ![c] = o]
  /\ UNCHANGED <<handle, block>>

(***************************************************************************)
(* vmAssignHostValue, vmReleaseHostValue, vmMakeDynamicValue.  The cells   *)
(* the host assigns to may be parameters, which a call then gives to the   *)
(* variables of the program.                                               *)
(***************************************************************************)
AssignHostValue(c, v) ==
  /\ v \in Blocks => RetainedAnyAssigned
  /\ AssignCell(c, v)

ReleaseHostValue(c) == AssignCell(c, Null)

MakeDynamicValue(c, o, v) ==
  /\ count[o] = 0
  /\ BoxValue(c, o, v)

(***************************************************************************)
(* Handles.                                                                *)
(***************************************************************************)
\* What a handle has counted: the pointer itself, or what the copied value leads to
Counted(x) ==
  IF x.kind = "data" \/ x.type = "str" THEN x.value
  ELSE IF x.storage \in Blocks THEN block[x.storage] ELSE Null

\* The storage after that of x has been given back
Freed(x, blocks) ==
  IF x.storage \in Blocks THEN [blocks EXCEPT ![x.storage] = "free"] ELSE blocks

\* Mutant: the count of the new value is kept only after the old one is gone
FillClearingFirst(h, x, v) ==
  /\ count' = Plus(Minus(count, Counted(handle[h])), v)
  /\ handle' = [handle EXCEPT ![h] = x]

\* The new value is counted, the old one cleared, and the handle filled
Fill(h, x, v) ==
  /\ count' = Minus(Plus(count, v), Counted(handle[h]))
  /\ handle' = [handle EXCEPT ![h] = x]

\* vmRetainHostValue of a str
RetainStr(h, v) ==
  /\ Fill(h, [kind |-> "value", type |-> "str", value |-> v, storage |-> Null], v)
  /\ block' = Freed(handle[h], block)

\* Of a struct: what is at its address is copied to the storage
RetainStruct(h, v, b) ==
  /\ Fill(h, [kind |-> "value", type |-> "struct", value |-> Null, storage |-> b], v)
  /\ block' = Freed(handle[h], [block EXCEPT ![b] = v])

\* Mutant: the storage has the pointer to what the any leads to
RetainAnyShallow(h, self, b) ==
  /\ Fill(h, [kind |-> "value", type |-> "any", value |-> self, storage |-> b],
          IF self = Null THEN Null ELSE Inside(self))
  /\ block' = Freed(handle[h], [block EXCEPT ![b] = IF self = Null THEN "no value" ELSE Inside(self)])

\* Of an any: what it leads to is copied there too, and the copy of the any leads to it
RetainAny(h, self, b) ==
  IF self = Null
  THEN /\ Fill(h, [kind |-> "value", type |-> "any", value |-> Null, storage |-> b], Null)
       /\ block' = Freed(handle[h], [block EXCEPT ![b] = "no value"])
  ELSE /\ Fill(h, [kind |-> "value", type |-> "any", value |-> b, storage |-> b], Inside(self))
       /\ block' = Freed(handle[h], [block EXCEPT ![b] = Inside(self)])

\* If malloc fails, nothing is retained, and nothing changes
RetainHostValue(h, type, v) ==
  /\ \/ type = "str" /\ RetainStr(h, v)
     \/ \E b \in Blocks : block[b] = "free" /\ type = "struct" /\ RetainStruct(h, v, b)
     \/ \E b \in Blocks :
          block[b] = "free" /\ type = "any" /\ (v # Null => Readable(v)) /\ RetainAny(h, v, b)
  /\ UNCHANGED <<box, cell>>

\* vmRetainHostData of what vmGetAnySelf gives: only a chunk of the heap.  It is meant for
\* structures: the pointer to void that is counted leads to nothing but what the type of
\* the chunk says is there, which releases the fields of a structure, but no str.
RetainHostData(h, p) ==
  /\ p \in Boxes /\ Base = "struct"
  /\ Fill(h, [kind |-> "data", type |-> Null, value |-> p, storage |-> Null], p)
  /\ block' = Freed(handle[h], block)
  /\ UNCHANGED <<box, cell>>

\* vmClearHostHandle
ClearHostHandle(h) ==
  /\ count' = Minus(count, Counted(handle[h]))
  /\ block' = Freed(handle[h], block)
  /\ handle' = [handle EXCEPT ![h] = Empty]
  /\ UNCHANGED <<box, cell>>

(***************************************************************************)
(* The specification.                                                      *)
(***************************************************************************)
Next ==
  \/ \E c \in StrCells, s \in Strings : NewString(c, s)
  \/ \E c \in Cells : \E v \in OfProgram(TypeOf(c)) : AssignCell(c, v)
  \/ \E c \in Cells : \E v \in OfHost(TypeOf(c)) : AssignHostValue(c, v)
  \/ \E c \in Cells : ReleaseHostValue(c)
  \/ \E c \in AnyCells, o \in Boxes : \E v \in OfHost(Base) : MakeDynamicValue(c, o, v)
  \/ \E h \in Handles, type \in {"str", "struct", "any"} :
       \E v \in OfHost(type) : RetainHostValue(h, type, v)
  \/ \E h \in Handles : \E p \in AnysOfCells \cup AnysOfHandles : RetainHostData(h, p)
  \/ \E h \in Handles : ClearHostHandle(h)

Spec == Init /\ [][Next]_vars

(***************************************************************************)
(* Properties.                                                             *)
(***************************************************************************)
\* The types, and what malloc gave is given back once: the blocks in use are the storage
\* of the handles, and no two handles have the same.
TypeOK ==
  /\ count \in [Chunks -> Nat]
  /\ box \in [Boxes -> Strings \cup {Null}]
  /\ cell \in [Cells -> Strings \cup Boxes \cup Blocks \cup {Null}]
  /\ block \in [Blocks -> Strings \cup {Null, "free", "no value"}]
  /\ handle \in [Handles ->
       [kind : {"empty", "value", "data"}, type : {"str", "struct", "any", Null},
        value : Chunks \cup Blocks \cup {Null}, storage : Blocks \cup {Null}]]
  /\ {b \in Blocks : block[b] # "free"} = {handle[h].storage : h \in Handles} \ {Null}
  /\ \A g, h \in Handles :
       g # h /\ handle[g].storage # Null => handle[g].storage # handle[h].storage

\* A count is the number of variables, boxes in use and handles that refer to the chunk,
\* whichever of the ways a value was retained, replaced, assigned or given up.
CountsExact ==
  \A o \in Chunks :
    count[o] = Cardinality({c \in Cells : cell[c] = o})
               + Cardinality({a \in Boxes : count[a] > 0 /\ box[a] = o})
               + Cardinality({h \in Handles : Counted(handle[h]) = o})

\* What handles own and refer to: storage is given back once, and chunks are counted
\* exactly.
HandlesSound == TypeOK /\ CountsExact

\* Every any that the program or a handle holds leads to memory that is still there and
\* has a value, and this value to a string that is.
SelvesAlive ==
  \A self \in (AnysOfCells \cup AnysOfHandles) \ {Null} :
    Readable(self) /\ (Inside(self) # Null => count[Inside(self)] > 0)

\* What a value that a handle holds leads to
Kept(h) ==
  IF Holds(h, "any") /\ handle[h].value # Null THEN Inside(handle[h].value) ELSE HandleValue(h)

\* A retained value stays what it was, and the string it leads to is not used again, until
\* the handle itself is cleared or filled, whatever becomes of the variables and of the
\* boxes that the value came from.
RetainedStays ==
  [][\A h \in Handles :
       handle'[h] = handle[h] /\ handle[h].kind = "value" =>
         Kept(h)' = Kept(h) /\ (Kept(h) \in Strings => count'[Kept(h)] > 0)]_vars

=============================================================================
