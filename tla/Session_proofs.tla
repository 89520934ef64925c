--------------------------- MODULE Session_proofs ---------------------------
(***************************************************************************)
(* Proofs about Session for every set of messages and every depth of the   *)
(* C stack, when native code does not call umkaRun().  The invariant: only *)
(* the frame at the bottom of the C stack is armed, and                    *)
(* error.jumperNesting counts the API functions above it, so that it is    *)
(* zero exactly when the next API function is to be the bottom of the      *)
(* stack.  What raises errors where nothing is armed is the host program   *)
(* or the cleanup.                                                         *)
(***************************************************************************)
EXTENDS Session, FiniteSetTheorems, SequenceTheorems, TLAPS

-----------------------------------------------------------------------------
(* The C stack while the interpreter is in use.                            *)

InUse == Entries \cup {"native"}
EntriesOf(s) == {i \in DOMAIN s : s[i].kind \in Entries}
Resumes(s) == {i \in DOMAIN s : s[i].kind = "resume"}

\* The bottom frame is an API function and is the armed one; at most one is a resume.
WellNested(s) ==
  /\ s \in Seq(Frame)
  /\ \A i \in 1..Len(s) : s[i].kind \in InUse /\ (s[i].armed <=> i = 1)
  /\ Len(s) > 0 => s[1].kind \in Entries
  /\ \A i, j \in Resumes(s) : i = j
  /\ IsFiniteSet(EntriesOf(s))

\* A new frame on top leaves the others where they are.
LEMMA OnTop ==
  ASSUME NEW s \in Seq(Frame), NEW f \in Frame, NEW t, t = Append(s, f)
  PROVE  /\ t \in Seq(Frame) /\ Len(t) = Len(s) + 1
         /\ \A i \in 1..Len(s) : t[i] = s[i]
         /\ t[Len(s) + 1] = f
<1>. QED
  BY AppendProperties

\* Nothing is on the stack exactly if no API function is.
LEMMA NoEntries ==
  ASSUME NEW s, WellNested(s)
  PROVE  /\ Cardinality(EntriesOf(s)) \in Nat
         /\ Cardinality(EntriesOf(s)) = 0 <=> s = <<>>
<1>1. /\ Cardinality(EntriesOf(s)) \in Nat
      /\ Cardinality(EntriesOf(s)) = 0 <=> EntriesOf(s) = {}
  BY FS_CardinalityType, FS_EmptySet DEF WellNested
<1>2. s = <<>> <=> Len(s) = 0
  BY EmptySeq DEF WellNested
<1>3. Len(s) > 0 => 1 \in EntriesOf(s)
  BY LenProperties DEF WellNested, EntriesOf
<1>4. s = <<>> => EntriesOf(s) = {}
  BY DEF EntriesOf
<1>. QED
  BY <1>1, <1>2, <1>3, <1>4, LenProperties DEF WellNested

\* Entering a function, armed if it is the first.
LEMMA Pushed ==
  ASSUME NEW s, WellNested(s), NEW kind \in InUse,
         s = <<>> => kind \in Entries,
         kind = "resume" => Resumes(s) = {},
         NEW armed \in BOOLEAN, armed <=> s = <<>>,
         NEW t, t = Append(s, [kind |-> kind, armed |-> armed])
  PROVE  /\ WellNested(t)
         /\ Cardinality(EntriesOf(t)) =
              Cardinality(EntriesOf(s)) + (IF kind \in Entries THEN 1 ELSE 0)
         /\ Resumes(t) = Resumes(s) \cup (IF kind = "resume" THEN {Len(s) + 1} ELSE {})
<1>. DEFINE f == [kind |-> kind, armed |-> armed]
<1>1. s \in Seq(Frame) /\ f \in Frame /\ Len(s) \in Nat /\ DOMAIN s = 1..Len(s)
  BY LenProperties DEF WellNested, InUse, Frame, Kinds
<1>2. /\ t \in Seq(Frame) /\ Len(t) = Len(s) + 1 /\ DOMAIN t = 1..Len(s) + 1
      /\ \A i \in 1..Len(s) : t[i] = s[i]
      /\ t[Len(s) + 1] = f
  BY <1>1
<1>3. s = <<>> <=> Len(s) = 0
  BY <1>1, EmptySeq
<1>4. EntriesOf(t) = EntriesOf(s) \cup (IF kind \in Entries THEN {Len(s) + 1} ELSE {})
  <2>1. \A i \in 1..Len(s) : i \in EntriesOf(t) <=> i \in EntriesOf(s)
    BY <1>1, <1>2 DEF EntriesOf
  <2>2. Len(s) + 1 \in EntriesOf(t) <=> kind \in Entries
    BY <1>1, <1>2 DEF EntriesOf
  <2>3. EntriesOf(t) \subseteq 1..Len(s) + 1 /\ EntriesOf(s) \subseteq 1..Len(s)
    BY <1>1, <1>2 DEF EntriesOf
  <2>. QED
    BY <1>1, <2>1, <2>2, <2>3
<1>5. Resumes(t) = Resumes(s) \cup (IF kind = "resume" THEN {Len(s) + 1} ELSE {})
  <2>1. \A i \in 1..Len(s) : i \in Resumes(t) <=> i \in Resumes(s)
    BY <1>1, <1>2 DEF Resumes
  <2>2. Len(s) + 1 \in Resumes(t) <=> kind = "resume"
    BY <1>1, <1>2 DEF Resumes
  <2>3. Resumes(t) \subseteq 1..Len(s) + 1 /\ Resumes(s) \subseteq 1..Len(s)
    BY <1>1, <1>2 DEF Resumes
  <2>. QED
    BY <1>1, <2>1, <2>2, <2>3
<1>6. /\ IsFiniteSet(EntriesOf(t))
      /\ Cardinality(EntriesOf(t)) =
           Cardinality(EntriesOf(s)) + (IF kind \in Entries THEN 1 ELSE 0)
  <2>1. IsFiniteSet(EntriesOf(s)) /\ Cardinality(EntriesOf(s)) \in Nat
    BY FS_CardinalityType DEF WellNested
  <2>2. Len(s) + 1 \notin EntriesOf(s)
    BY <1>1 DEF EntriesOf
  <2>3. CASE kind \in Entries
    BY <1>4, <2>1, <2>2, <2>3, FS_AddElement
  <2>4. CASE kind \notin Entries
    <3>1. EntriesOf(t) = EntriesOf(s)
      BY <1>4, <2>4
    <3>. QED
      BY <2>1, <2>4, <3>1
  <2>. QED
    BY <2>3, <2>4
<1>7. \A i \in 1..Len(t) : t[i].kind \in InUse /\ (t[i].armed <=> i = 1)
  <2>1. ASSUME NEW i \in 1..Len(s)
        PROVE  t[i].kind \in InUse /\ (t[i].armed <=> i = 1)
    BY <1>2, <2>1 DEF WellNested
  <2>2. t[Len(s) + 1].kind = kind /\ t[Len(s) + 1].armed = armed
    BY <1>2
  <2>3. armed <=> Len(s) + 1 = 1
    BY <1>1, <1>3
  <2>. QED
    BY <1>1, <1>2, <2>1, <2>2, <2>3
<1>8. t[1].kind \in Entries
  BY <1>1, <1>2, <1>3 DEF WellNested
<1>9. \A i, j \in Resumes(t) : i = j
  BY <1>5 DEF WellNested
<1>. QED
  BY <1>2, <1>5, <1>6, <1>7, <1>8, <1>9 DEF WellNested

\* Returning from a function.
LEMMA Popped ==
  ASSUME NEW s, WellNested(s), s # <<>>
  PROVE  /\ WellNested(Front(s))
         /\ Cardinality(EntriesOf(Front(s))) =
              Cardinality(EntriesOf(s)) - (IF Last(s).kind \in Entries THEN 1 ELSE 0)
         /\ Resumes(Front(s)) = Resumes(s) \ {Len(s)}
<1>. DEFINE t == Front(s)
<1>1. s \in Seq(Frame) /\ Len(s) \in Nat \ {0} /\ DOMAIN s = 1..Len(s)
  BY LenProperties, EmptySeq DEF WellNested
<1>2. /\ t \in Seq(Frame) /\ Len(t) = Len(s) - 1 /\ DOMAIN t = 1..Len(s) - 1
      /\ \A i \in 1..Len(s) - 1 : t[i] = s[i]
  BY <1>1, SubSeqProperties, ElementOfSeq DEF Front
<1>3. EntriesOf(t) = EntriesOf(s) \ {Len(s)}
  BY <1>1, <1>2 DEF EntriesOf
<1>4. Resumes(t) = Resumes(s) \ {Len(s)}
  BY <1>1, <1>2 DEF Resumes
<1>5. /\ IsFiniteSet(EntriesOf(t))
      /\ Cardinality(EntriesOf(t)) =
           Cardinality(EntriesOf(s)) - (IF Last(s).kind \in Entries THEN 1 ELSE 0)
  <2>1. IsFiniteSet(EntriesOf(s)) /\ Cardinality(EntriesOf(s)) \in Nat
    BY FS_CardinalityType DEF WellNested
  <2>2. Len(s) \in EntriesOf(s) <=> Last(s).kind \in Entries
    BY <1>1 DEF EntriesOf, Last
  <2>3. /\ IsFiniteSet(EntriesOf(s) \ {Len(s)})
        /\ Cardinality(EntriesOf(s) \ {Len(s)}) =
             IF Len(s) \in EntriesOf(s) THEN Cardinality(EntriesOf(s)) - 1
             ELSE Cardinality(EntriesOf(s))
    BY <2>1, FS_RemoveElement
  <2>4. /\ IsFiniteSet(EntriesOf(t))
        /\ Cardinality(EntriesOf(t)) =
             IF Len(s) \in EntriesOf(s) THEN Cardinality(EntriesOf(s)) - 1
             ELSE Cardinality(EntriesOf(s))
    BY <1>3, <2>3
  <2>. QED
    BY <2>1, <2>2, <2>4
<1>6. \A i \in 1..Len(t) : t[i].kind \in InUse /\ (t[i].armed <=> i = 1)
  BY <1>1, <1>2 DEF WellNested
<1>7. Len(t) > 0 => t[1].kind \in Entries
  BY <1>1, <1>2 DEF WellNested
<1>8. \A i, j \in Resumes(t) : i = j
  BY <1>4 DEF WellNested
<1>. QED
  BY <1>2, <1>4, <1>5, <1>6, <1>7, <1>8 DEF WellNested

\* The first frame on the stack.
LEMMA FirstArmed ==
  ASSUME cstack = <<>>, NEW kind, PushArmed(kind)
  PROVE  cstack' = Append(<<>>, [kind |-> kind, armed |-> TRUE])
<1>1. [i \in DOMAIN cstack |-> [cstack[i] EXCEPT !.armed = FALSE]] = <<>>
  <2>1. DOMAIN cstack = {}
    OBVIOUS
  <2>2. [i \in {} |-> [cstack[i] EXCEPT !.armed = FALSE]] = <<>>
    OBVIOUS
  <2>. QED
    BY <2>1, <2>2
<1>. QED
  BY <1>1 DEF PushArmed

-----------------------------------------------------------------------------
(* The invariant.                                                          *)

NotUsed == nesting = 0 /\ ~resuming

Compiling ==
  phase = "compiling" /\ alive =>
    NotUsed /\ cstack = <<[kind |-> "compile", armed |-> TRUE]>>

Ready ==
  phase = "ready" /\ alive =>
    /\ WellNested(cstack)
    /\ nesting = Cardinality(EntriesOf(cstack))
    /\ resuming <=> Resumes(cstack) # {}

\* Frames that catch no errors
Bare(s) == \A i \in DOMAIN s : s[i].kind \in {"cleanup", "native"} /\ ~s[i].armed

CleaningUp ==
  phase = "cleanup" =>
    /\ alive /\ NotUsed
    /\ cstack \in Seq(Frame) /\ Len(cstack) \in 1..2
    /\ cstack[1].kind = "cleanup"
    /\ Len(cstack) = 2 => cstack[2].kind = "native"
    /\ Bare(cstack)

StackInv ==
  /\ phase = "initialized" => alive /\ NotUsed /\ cstack = <<>>
  /\ Compiling /\ Ready /\ CleaningUp
  /\ phase \in {"freed", "crashed"} => ~alive
  /\ phase = "crashed" => Bare(cstack)
  /\ ~alive /\ phase # "crashed" => cstack = <<>>

\* The message to be reported is one that may be reported, whenever the flag is set
\* or about to be set; while it is being cleared, that is the empty one
MessageInv ==
  /\ clearing /\ (flag \/ requester = "flag") => NoMessage \in expected
  /\ phase # "freed" /\ ~clearing /\ (flag \/ requester = "flag") => msg \in expected

Types ==
  /\ phase \in {"initialized", "compiling", "ready", "cleanup", "freed", "crashed"}
  /\ alive \in BOOLEAN /\ waiting \in BOOLEAN /\ resuming \in BOOLEAN
  /\ flag \in BOOLEAN /\ clearing \in BOOLEAN
  /\ nesting \in Nat
  /\ msg \in Messages \cup {NoMessage}
  /\ requester \in {"idle", "flag"}
  /\ saved \in BOOLEAN \X (Messages \cup {NoMessage})
  /\ expected \subseteq Messages \cup {NoMessage}

IInv == Types /\ StackInv /\ MessageInv

\* An error ends everything: in all phases but the cleanup, the one armed frame is the
\* bottom of the stack, if there is anything on it.
LEMMA JumpUnwinds ==
  ASSUME IInv, alive, phase \in {"compiling", "ready"}, cstack # <<>>, Jump
  PROVE  /\ alive' = FALSE /\ cstack' = <<>> /\ phase' = phase /\ waiting' = waiting
         /\ resuming' \in BOOLEAN /\ nesting' \in Nat
<1>1. ArmedFrames = {1}
  <2>1. CASE phase = "compiling"
    BY <2>1 DEF IInv, StackInv, Compiling, ArmedFrames
  <2>2. CASE phase = "ready"
    <3>1. WellNested(cstack)
      BY <2>2 DEF IInv, StackInv, Ready
    <3>2. DOMAIN cstack = 1..Len(cstack) /\ 1 \in 1..Len(cstack)
      BY <3>1, LenProperties, EmptySeq DEF WellNested
    <3>. QED
      BY <3>1, <3>2 DEF WellNested, ArmedFrames
  <2>. QED
    BY <2>1, <2>2
<1>2. /\ cstack' = SubSeq(cstack, 1, 0)
      /\ phase' = phase /\ waiting' = waiting /\ alive' = FALSE
      /\ IF cstack[1].kind = "resume"
         THEN resuming' = FALSE /\ nesting' = nesting - 1
         ELSE resuming' = resuming /\ nesting' = nesting
  BY <1>1 DEF Jump
<1>3. cstack[1].kind = "resume" => nesting > 0
  <2>. SUFFICES ASSUME cstack[1].kind = "resume"
                PROVE  nesting > 0
    OBVIOUS
  <2>1. phase = "ready"
    BY DEF IInv, StackInv, Compiling
  <2>2. WellNested(cstack) /\ nesting = Cardinality(EntriesOf(cstack))
    BY <2>1 DEF IInv, StackInv, Ready
  <2>. QED
    BY <2>2, NoEntries
<1>4. SubSeq(cstack, 1, 0) = <<>>
  BY SubSeqEmpty
<1>5. resuming \in BOOLEAN /\ nesting \in Nat
  BY DEF IInv, Types
<1>6. CASE cstack[1].kind = "resume"
  <2>1. resuming' = FALSE /\ nesting' = nesting - 1
    BY <1>2, <1>6, Zenon
  <2>2. nesting - 1 \in Nat
    BY <1>3, <1>5, <1>6
  <2>. QED
    BY <1>2, <1>4, <2>1, <2>2
<1>7. CASE cstack[1].kind # "resume"
  BY <1>2, <1>4, <1>5, <1>7
<1>. QED
  BY <1>6, <1>7

LEMMA InitOK == Init => IInv
<1>. SUFFICES ASSUME Init PROVE IInv
  OBVIOUS
<1>1. Types
  BY DEF Init, Types
<1>2. StackInv
  BY DEF Init, StackInv, Compiling, Ready, CleaningUp, NotUsed, Bare
<1>3. MessageInv
  BY DEF Init, MessageInv
<1>. QED
  BY <1>1, <1>2, <1>3 DEF IInv

\* What a step of the host's thread or of the VM leaves of the messages.
LEMMA MessageKept ==
  ASSUME MessageInv, UNCHANGED interrupt, phase = "freed" => phase' = "freed"
  PROVE  MessageInv'
BY DEF MessageInv, interrupt

\* A step that ends in an error preserves the invariant.
LEMMA Unwound ==
  ASSUME IInv, phase \in {"compiling", "ready"},
         alive' = FALSE, cstack' = <<>>, phase' = phase, waiting' = waiting,
         resuming' \in BOOLEAN, nesting' \in Nat,
         UNCHANGED interrupt
  PROVE  IInv'
<1>1. Types'
  BY DEF IInv, interrupt, Types
<1>2. StackInv'
  BY DEF IInv, StackInv, Compiling, Ready, CleaningUp
<1>3. MessageInv'
  BY MessageKept DEF IInv
<1>. QED
  BY <1>1, <1>2, <1>3 DEF IInv

\* So does one that ends in an error that nothing catches.
LEMMA Uncaught ==
  ASSUME IInv, Jump, Bare(cstack), phase # "freed", UNCHANGED interrupt
  PROVE  IInv'
<1>1. ArmedFrames = {}
  BY DEF Bare, ArmedFrames
<1>2. alive' = FALSE /\ phase' = "crashed" /\ UNCHANGED <<cstack, nesting, resuming, waiting>>
  BY <1>1 DEF Jump
<1>3. Types'
  BY <1>2 DEF IInv, interrupt, Types
<1>4. StackInv'
  BY <1>2 DEF StackInv, Compiling, Ready, CleaningUp, Bare
<1>5. MessageInv'
  BY MessageKept DEF IInv
<1>. QED
  BY <1>3, <1>4, <1>5 DEF IInv

\* PushEntry arms exactly the frame at the bottom.
LEMMA EntryPushed ==
  ASSUME IInv, phase = "ready", alive, NEW kind \in Entries, PushEntry(kind)
  PROVE  /\ \E armed \in BOOLEAN : /\ armed <=> cstack = <<>>
                                   /\ cstack' = Append(cstack, [kind |-> kind, armed |-> armed])
         /\ nesting' = nesting + 1
<1>1. nesting = 0 <=> cstack = <<>>
  BY NoEntries DEF IInv, StackInv, Ready
<1>2. CASE nesting = 0
  <2>1. cstack' = Append(cstack, [kind |-> kind, armed |-> TRUE])
    BY <1>1, <1>2 DEF PushEntry, PushArmed
  <2>. QED
    BY <1>1, <1>2, <2>1 DEF PushEntry
<1>3. CASE nesting # 0
  <2>1. cstack' = Append(cstack, [kind |-> kind, armed |-> FALSE])
    BY <1>3 DEF PushEntry, PushUnarmed
  <2>. QED
    BY <1>1, <1>3, <2>1 DEF PushEntry
<1>. QED
  BY <1>2, <1>3

\* A step that enters the VM preserves the invariant.
LEMMA Entered ==
  ASSUME IInv, phase = "ready", alive,
         NEW kind \in Entries, kind = "resume" => ~resuming,
         NEW armed \in BOOLEAN, armed <=> cstack = <<>>,
         cstack' = Append(cstack, [kind |-> kind, armed |-> armed]),
         nesting' = nesting + 1, waiting' = FALSE,
         resuming' = IF kind = "resume" THEN TRUE ELSE resuming,
         phase' = phase, alive' = alive, UNCHANGED interrupt
  PROVE  IInv'
<1>1. /\ WellNested(cstack) /\ nesting = Cardinality(EntriesOf(cstack))
      /\ resuming <=> Resumes(cstack) # {}
  BY DEF IInv, StackInv, Ready
<1>2. /\ WellNested(cstack')
      /\ Cardinality(EntriesOf(cstack')) = Cardinality(EntriesOf(cstack)) + 1
      /\ Resumes(cstack') = Resumes(cstack) \cup (IF kind = "resume" THEN {Len(cstack) + 1} ELSE {})
  BY <1>1, Pushed, ZenonT(30) DEF InUse
<1>3. Types'
  <2>1. resuming' \in BOOLEAN
    BY DEF IInv, Types
  <2>2. nesting' \in Nat
    BY DEF IInv, Types
  <2>. QED
    BY <2>1, <2>2 DEF IInv, interrupt, Types
<1>4. StackInv'
  BY <1>1, <1>2 DEF IInv, StackInv, Compiling, Ready, CleaningUp
<1>5. MessageInv'
  BY MessageKept DEF IInv
<1>. QED
  BY <1>3, <1>4, <1>5 DEF IInv

\* A step that returns from a function preserves the invariant.
LEMMA Left ==
  ASSUME IInv, phase = "ready", alive, cstack # <<>>,
         cstack' = Front(cstack),
         nesting' = nesting - (IF Last(cstack).kind \in Entries THEN 1 ELSE 0),
         resuming' = IF Last(cstack).kind = "resume" THEN FALSE ELSE resuming,
         waiting' \in BOOLEAN, phase' = phase, alive' = alive, UNCHANGED interrupt
  PROVE  IInv'
<1>1. /\ WellNested(cstack) /\ nesting = Cardinality(EntriesOf(cstack))
      /\ resuming <=> Resumes(cstack) # {}
  BY DEF IInv, StackInv, Ready
<1>2. /\ WellNested(cstack')
      /\ Cardinality(EntriesOf(cstack')) = nesting'
      /\ Resumes(cstack') = Resumes(cstack) \ {Len(cstack)}
  BY <1>1, Popped
<1>3. resuming' <=> Resumes(cstack') # {}
  <2>1. Len(cstack) \in Resumes(cstack) <=> Last(cstack).kind = "resume"
    BY <1>1, LenProperties, EmptySeq DEF WellNested, Resumes, Last
  <2>. QED
    BY <1>1, <1>2, <2>1 DEF WellNested
<1>4. Types'
  <2>1. resuming' \in BOOLEAN
    BY DEF IInv, Types
  <2>2. nesting' \in Nat
    BY <1>2, NoEntries
  <2>. QED
    BY <2>1, <2>2 DEF IInv, interrupt, Types
<1>5. StackInv'
  BY <1>2, <1>3 DEF IInv, StackInv, Compiling, Ready, CleaningUp
<1>6. MessageInv'
  BY MessageKept DEF IInv
<1>. QED
  BY <1>4, <1>5, <1>6 DEF IInv

\* Every step preserves the invariant, unless native code calls umkaRun().
LEMMA Inductive ==
  ASSUME "run" \notin Unruly, IInv, [Next]_vars
  PROVE  IInv'
<1>. USE DEF IInv
<1>1. CASE UNCHANGED vars
  BY <1>1 DEF vars, host, interrupt, Types, StackInv, Compiling, Ready, CleaningUp, NotUsed,
              MessageInv, Bare
<1>2. CASE Compile
  <2>1. cstack = <<>> /\ alive /\ NotUsed
    BY <1>2 DEF Compile, StackInv
  <2>2. cstack' = <<[kind |-> "compile", armed |-> TRUE]>>
    <3>1. cstack' = Append(<<>>, [kind |-> "compile", armed |-> TRUE])
      BY <1>2, <2>1, FirstArmed DEF Compile
    <3>. QED
      BY <3>1
  <2>3. Types'
    BY <1>2 DEF Compile, interrupt, Types
  <2>4. StackInv'
    BY <1>2, <2>1, <2>2 DEF Compile, StackInv, Compiling, Ready, CleaningUp, NotUsed
  <2>5. MessageInv'
    BY <1>2, MessageKept DEF Compile
  <2>. QED
    BY <2>3, <2>4, <2>5
<1>3. CASE Compiled
  <2>1. cstack = <<[kind |-> "compile", armed |-> TRUE]>> /\ NotUsed
    BY <1>3 DEF Compiled, StackInv, Compiling
  <2>2. cstack' = <<>>
    BY <1>3, <2>1, SubSeqEmpty DEF Compiled, Front
  <2>3. WellNested(<<>>) /\ Cardinality(EntriesOf(<<>>)) = 0 /\ Resumes(<<>>) = {}
    BY FS_EmptySet DEF WellNested, EntriesOf, Resumes
  <2>4. Types' /\ StackInv'
    BY <1>3, <2>1, <2>2, <2>3 DEF Compiled, interrupt, Types, StackInv, Compiling, Ready, CleaningUp, NotUsed
  <2>5. MessageInv'
    BY <1>3, MessageKept DEF Compiled
  <2>. QED
    BY <2>4, <2>5
<1>4. CASE CompileError
  <2>1. /\ alive' = FALSE /\ cstack' = <<>> /\ phase' = phase /\ waiting' = waiting
        /\ resuming' \in BOOLEAN /\ nesting' \in Nat
    <3>1. alive /\ phase = "compiling" /\ Jump
      BY <1>4 DEF CompileError
    <3>2. cstack # <<>>
      BY <3>1 DEF StackInv, Compiling
    <3>. QED
      BY <3>1, <3>2, JumpUnwinds
  <2>2. UNCHANGED interrupt
    BY <1>4 DEF CompileError
  <2>. QED
    BY <1>4, <2>1, <2>2, Unwound DEF CompileError
<1>5. CASE Run
  <2>1. WellNested(cstack)
    BY <1>5 DEF Run, StackInv, Ready
  <2>2. cstack = <<>>
    BY <1>5, <2>1, LenProperties, EmptySeq DEF Run, Depth, WellNested
  <2>3. cstack' = Append(cstack, [kind |-> "run", armed |-> TRUE])
    BY <1>5, <2>2, FirstArmed DEF Run
  <2>. QED
    BY <1>5, <2>2, <2>3, Entered DEF Run, Entries
<1>6. CASE Call
  <2>1. PICK armed \in BOOLEAN : /\ armed <=> cstack = <<>>
                                /\ cstack' = Append(cstack, [kind |-> "call", armed |-> armed])
    BY <1>6, EntryPushed DEF Call, Entries
  <2>2. nesting' = nesting + 1
    BY <1>6, EntryPushed DEF Call, Entries
  <2>. QED
    BY <1>6, <2>1, <2>2, Entered DEF Call, Entries
<1>7. CASE Resume
  <2>1. PICK armed \in BOOLEAN : /\ armed <=> cstack = <<>>
                                /\ cstack' = Append(cstack, [kind |-> "resume", armed |-> armed])
    BY <1>7, EntryPushed DEF Resume, Entries
  <2>2. nesting' = nesting + 1
    BY <1>7, EntryPushed DEF Resume, Entries
  <2>. QED
    BY <1>7, <2>1, <2>2, Entered DEF Resume, Entries
<1>8. CASE Free
  <2>1. /\ phase = "ready" /\ alive /\ Depth = 0 /\ ~clearing
        /\ phase' = "cleanup" /\ PushUnarmed("cleanup") /\ waiting' = FALSE
        /\ saved' = <<flag, msg>> /\ flag' = FALSE /\ clearing' = TRUE
        /\ expected' = Cleared
        /\ UNCHANGED <<nesting, alive, resuming, msg, requester>>
    BY <1>8 DEF Free, MayFree, HostRuns, Types
  <2>2. /\ WellNested(cstack) /\ nesting = Cardinality(EntriesOf(cstack))
        /\ resuming <=> Resumes(cstack) # {}
    BY <2>1 DEF StackInv, Ready
  <2>3. cstack = <<>>
    BY <2>1, <2>2, EmptySeq DEF Depth, WellNested
  <2>4. NotUsed
    BY <2>2, <2>3, NoEntries DEF NotUsed, Resumes, Types
  <2>5. /\ cstack' \in Seq(Frame) /\ Len(cstack') = 1 /\ cstack'[1].kind = "cleanup"
        /\ Bare(cstack')
    <3>1. cstack' = <<[kind |-> "cleanup", armed |-> FALSE]>>
      BY <2>1, <2>3 DEF PushUnarmed
    <3>. QED
      BY <3>1 DEF Frame, Kinds, Bare
  <2>6. Types'
    BY <2>1 DEF Types, Cleared
  <2>7. StackInv'
    BY <2>1, <2>4, <2>5 DEF StackInv, Compiling, Ready, CleaningUp, NotUsed
  <2>8. MessageInv'
    BY <2>1 DEF MessageInv, Cleared
  <2>. QED
    BY <2>6, <2>7, <2>8
<1>9. CASE FreeDead
  <2>1. Types' /\ MessageInv'
    BY <1>9 DEF FreeDead, interrupt, Types, MessageInv
  <2>2. StackInv'
    BY <1>9 DEF FreeDead, StackInv, Compiling, Ready, CleaningUp
  <2>. QED
    BY <2>1, <2>2
<1>10. CASE ApiFails
  <2>1. Jump /\ UNCHANGED interrupt /\ HostRuns /\ phase \notin {"freed", "crashed"}
    BY <1>10 DEF ApiFails, HostRuns
  <2>2. CASE cstack = <<>>
    BY <2>1, <2>2, Uncaught DEF Bare
  <2>3. CASE phase = "cleanup"
    BY <2>1, <2>3, Uncaught DEF StackInv, CleaningUp
  <2>4. CASE cstack # <<>> /\ phase # "cleanup"
    <3>1. alive /\ Last(cstack).kind = "native"
      BY <2>1, <2>4 DEF HostRuns, Depth, Top, StackInv, Ready, WellNested
    <3>2. phase # "compiling"
      BY <3>1 DEF StackInv, Compiling, Last
    <3>3. phase = "ready"
      BY <2>1, <2>4, <3>2 DEF StackInv, Types
    <3>. QED
      BY <2>1, <2>4, <3>1, <3>3, JumpUnwinds, Unwound
  <2>. QED
    BY <2>2, <2>3, <2>4
<1>11. CASE NativeReturns
  <2>1. /\ cstack # <<>> /\ Last(cstack).kind = "native" /\ alive
        /\ cstack' = Front(cstack) /\ waiting' = FALSE
        /\ UNCHANGED <<phase, nesting, alive, resuming, interrupt>>
    BY <1>11 DEF NativeReturns, HostRuns, Depth, Top, StackInv
  <2>2. phase \in {"ready", "cleanup"}
    BY <2>1 DEF StackInv, Compiling, Types, Last
  <2>3. CASE phase = "ready"
    <3>1. nesting' = nesting - (IF Last(cstack).kind \in Entries THEN 1 ELSE 0)
      BY <2>1 DEF Entries, Types
    <3>2. resuming' = IF Last(cstack).kind = "resume" THEN FALSE ELSE resuming
      BY <2>1
    <3>. QED
      BY <2>1, <2>3, <3>1, <3>2, Left
  <2>4. CASE phase = "cleanup"
    <3>1. cstack \in Seq(Frame) /\ Len(cstack) = 2 /\ cstack[1].kind = "cleanup"
      BY <2>1, <2>4 DEF StackInv, CleaningUp, Last
    <3>2. /\ cstack' \in Seq(Frame) /\ Len(cstack') = 1 /\ DOMAIN cstack' = 1..1
          /\ cstack'[1] = cstack[1]
      BY <2>1, <3>1, SubSeqProperties, ElementOfSeq DEF Front
    <3>5. Bare(cstack')
      BY <2>4, <3>1, <3>2 DEF StackInv, CleaningUp, Bare
    <3>3. Types' /\ MessageInv'
      BY <2>1, <2>4 DEF interrupt, Types, MessageInv
    <3>4. StackInv'
      BY <2>1, <2>4, <3>1, <3>2, <3>5 DEF interrupt, StackInv, Compiling, Ready, CleaningUp, NotUsed
    <3>. QED
      BY <3>3, <3>4
  <2>. QED
    BY <2>2, <2>3, <2>4
<1>12. CASE Native
  <2>1. /\ InLoop /\ alive /\ ~flag /\ cstack # <<>>
        /\ cstack' = Append(cstack, [kind |-> "native", armed |-> FALSE])
        /\ UNCHANGED <<phase, nesting, alive, waiting, resuming, interrupt>>
    BY <1>12 DEF Native, PushUnarmed, Dispatches, InLoop, Depth, StackInv
  <2>2. phase \in {"ready", "cleanup"}
    BY <2>1 DEF StackInv, Compiling, Types, InLoop, Top, Last, Entries
  <2>3. CASE phase = "ready"
    <3>1. /\ WellNested(cstack) /\ nesting = Cardinality(EntriesOf(cstack))
          /\ resuming <=> Resumes(cstack) # {}
      BY <2>1, <2>3 DEF StackInv, Ready
    <3>. DEFINE kind == "native"
    <3>2. /\ WellNested(cstack')
          /\ Cardinality(EntriesOf(cstack')) =
               Cardinality(EntriesOf(cstack)) + (IF kind \in Entries THEN 1 ELSE 0)
          /\ Resumes(cstack') =
               Resumes(cstack) \cup (IF kind = "resume" THEN {Len(cstack) + 1} ELSE {})
      <4>1. kind \in InUse /\ kind # "resume"
        BY DEF InUse
      <4>2. cstack' = Append(cstack, [kind |-> kind, armed |-> FALSE])
        BY <2>1
      <4>. HIDE DEF kind
      <4>. QED
        BY <2>1, <3>1, <4>1, <4>2, Pushed
    <3>3. nesting' = Cardinality(EntriesOf(cstack')) /\ Resumes(cstack') = Resumes(cstack)
      BY <2>1, <3>1, <3>2, NoEntries DEF Entries
    <3>4. Types' /\ MessageInv'
      BY <2>1 DEF interrupt, Types, MessageInv
    <3>5. StackInv'
      BY <2>1, <2>3, <3>1, <3>2, <3>3 DEF StackInv, Compiling, Ready, CleaningUp
    <3>. QED
      BY <3>4, <3>5
  <2>4. CASE phase = "cleanup"
    <3>1. cstack \in Seq(Frame) /\ Len(cstack) = 1 /\ cstack[1].kind = "cleanup"
      BY <2>1, <2>4 DEF StackInv, CleaningUp, InLoop, Top, Last, Entries
    <3>2. /\ cstack' \in Seq(Frame) /\ Len(cstack') = 2
          /\ cstack'[1] = cstack[1]
          /\ cstack'[2].kind = "native" /\ ~cstack'[2].armed
      <4>. DEFINE f == [kind |-> "native", armed |-> FALSE]
      <4>1. f \in Frame /\ f.kind = "native" /\ ~f.armed /\ cstack' = Append(cstack, f)
        BY <2>1 DEF Frame, Kinds
      <4>. HIDE DEF f
      <4>2. /\ cstack' \in Seq(Frame) /\ Len(cstack') = Len(cstack) + 1
            /\ \A i \in 1..Len(cstack) : cstack'[i] = cstack[i]
            /\ cstack'[Len(cstack) + 1] = f
        BY <3>1, <4>1, OnTop
      <4>. QED
        BY <3>1, <4>1, <4>2
    <3>5. Bare(cstack')
      <4>1. DOMAIN cstack' = {1, 2} /\ 1 \in DOMAIN cstack
        BY <3>1, <3>2, LenProperties
      <4>. QED
        BY <2>4, <3>2, <4>1 DEF StackInv, CleaningUp, Bare
    <3>3. Types' /\ MessageInv'
      BY <2>1, <2>4 DEF interrupt, Types, MessageInv
    <3>4. StackInv'
      BY <2>1, <2>4, <3>1, <3>2, <3>5 DEF interrupt, StackInv, Compiling, Ready, CleaningUp, NotUsed
    <3>. QED
      BY <3>3, <3>4
  <2>. QED
    BY <2>2, <2>3, <2>4
<1>13. CASE LoopReturns
  <2>1. /\ cstack # <<>> /\ Last(cstack).kind \in Entries /\ alive
        /\ cstack' = Front(cstack) /\ nesting' = nesting - 1 /\ waiting' = TRUE
        /\ resuming' = (resuming /\ Last(cstack).kind # "resume")
        /\ UNCHANGED <<phase, alive, interrupt>>
    BY <1>13 DEF LoopReturns, Dispatches, InLoop, Depth, Top, StackInv
  <2>2. phase = "ready"
    BY <2>1 DEF StackInv, Compiling, CleaningUp, Types, Last, Entries
  <2>3. resuming' = IF Last(cstack).kind = "resume" THEN FALSE ELSE resuming
    BY <2>1 DEF Types
  <2>. QED
    BY <2>1, <2>2, <2>3, Left
<1>14. CASE Halt
  <2>1. /\ phase # "crashed" /\ ~clearing /\ cstack # <<>> /\ Last(cstack).kind = "cleanup"
        /\ cstack' = Front(cstack) /\ alive' = FALSE /\ phase' = "freed"
        /\ flag' = saved[1] /\ msg' = saved[2]
        /\ UNCHANGED <<nesting, waiting, resuming, requester, clearing, saved, expected>>
    BY <1>14 DEF Halt, Dispatches, InLoop, Depth, Top
  <2>2. phase = "cleanup"
    <3>1. phase # "ready" \/ ~alive
      BY <2>1, LenProperties, EmptySeq DEF StackInv, Ready, WellNested, InUse, Entries, Last
    <3>. QED
      BY <2>1, <3>1 DEF StackInv, Compiling, Types, Last
  <2>3. cstack' = <<>>
    <3>1. Len(cstack) = 1
      BY <2>1, <2>2 DEF StackInv, CleaningUp, Last
    <3>. QED
      BY <2>1, <3>1, SubSeqEmpty DEF Front
  <2>4. Types'
    BY <2>1 DEF Types
  <2>5. StackInv'
    BY <2>1, <2>3 DEF StackInv, Compiling, Ready, CleaningUp
  <2>6. MessageInv'
    BY <2>1 DEF MessageInv
  <2>. QED
    BY <2>4, <2>5, <2>6
<1>15. ASSUME InLoop, Jump, UNCHANGED interrupt
       PROVE  IInv'
  <2>1. cstack # <<>> /\ alive /\ phase # "freed"
    BY <1>15 DEF InLoop, Depth, StackInv
  <2>2. CASE phase = "cleanup"
    BY <1>15, <2>2, Uncaught DEF StackInv, CleaningUp
  <2>3. CASE phase # "cleanup"
    <3>1. phase = "ready"
      BY <1>15, <2>1, <2>3 DEF InLoop, Top, Last, Entries, StackInv, Compiling, Types
    <3>. QED
      BY <1>15, <2>1, <3>1, JumpUnwinds, Unwound
  <2>. QED
    BY <2>2, <2>3
<1>16. CASE Fail
  BY <1>15, <1>16 DEF Fail, Dispatches
<1>17. CASE Interrupted
  BY <1>15, <1>17 DEF Interrupted
<1>18. ASSUME NEW m \in Messages, Request(m)
       PROVE  IInv'
  <2>1. Types'
    BY <1>18 DEF Request, host, Types
  <2>2. StackInv'
    BY <1>18 DEF Request, host, StackInv, Compiling, Ready, CleaningUp, NotUsed
  <2>3. MessageInv'
    BY <1>18 DEF Request, host, MessageInv
  <2>. QED
    BY <2>1, <2>2, <2>3
<1>19. CASE RequestFlag
  <2>1. Types'
    BY <1>19 DEF RequestFlag, host, Types
  <2>2. StackInv'
    BY <1>19 DEF RequestFlag, host, StackInv, Compiling, Ready, CleaningUp, NotUsed
  <2>3. MessageInv'
    BY <1>19 DEF RequestFlag, host, MessageInv
  <2>. QED
    BY <2>1, <2>2, <2>3
<1>20. CASE Clear
  <2>1. Types'
    BY <1>20 DEF Clear, Cleared, host, Types
  <2>2. StackInv'
    BY <1>20 DEF Clear, host, StackInv, Compiling, Ready, CleaningUp, NotUsed
  <2>3. MessageInv'
    BY <1>20 DEF Clear, Cleared, host, MessageInv
  <2>. QED
    BY <2>1, <2>2, <2>3
<1>21. CASE ClearMessage
  <2>1. Types'
    BY <1>21 DEF ClearMessage, host, Types
  <2>2. StackInv'
    BY <1>21 DEF ClearMessage, host, StackInv, Compiling, Ready, CleaningUp, NotUsed
  <2>3. MessageInv'
    BY <1>21 DEF ClearMessage, host, MessageInv
  <2>. QED
    BY <2>1, <2>2, <2>3
<1>. QED
  BY <1>1, <1>2, <1>3, <1>4, <1>5, <1>6, <1>7, <1>8, <1>9, <1>10, <1>11, <1>12, <1>13, <1>14,
     <1>16, <1>17, <1>18, <1>19, <1>20, <1>21 DEF Next

-----------------------------------------------------------------------------
(* The properties.                                                         *)

\* Unless native code calls umkaRun(), the invariant holds, for any number of messages and
\* nested callbacks, and whatever else fails or is requested at any time.
THEOREM Invariant == ASSUME "run" \notin Unruly PROVE Spec => []IInv
<1>1. IInv /\ [Next]_vars => IInv'
  BY Inductive
<1>. QED
  BY <1>1, InitOK, PTL DEF Spec

\* Then every error, from whatever depth, lands in an API function that is active, unless
\* none is: the host program's own calls and the cleanup in umkaFree() are left alone.
THEOREM ErrorsAreCaught == ASSUME "run" \notin Unruly PROVE Spec => []ErrorsCaught
<1>1. IInv => ErrorsCaught
  BY DEF IInv, StackInv, ErrorsCaught, Bare
<1>. QED
  BY <1>1, Invariant, PTL

\* And then an interpreter that an error has terminated has left the C stack.
THEOREM DeadHasUnwound == ASSUME "run" \notin Unruly PROVE Spec => []DeadUnwinds
<1>1. IInv => DeadUnwinds
  BY DEF IInv, StackInv, DeadUnwinds
<1>. QED
  BY <1>1, Invariant, PTL

\* And then jumperNesting and hostResumeActive agree with the C stack.
THEOREM NestingIsExact == ASSUME "run" \notin Unruly PROVE Spec => []NestingExact
<1>1. IInv => NestingExact
  <2>. SUFFICES ASSUME IInv, alive
                PROVE  /\ nesting = Cardinality(EntriesOf(cstack))
                       /\ resuming <=> Resumes(cstack) # {}
    BY DEF NestingExact, EntryFrames, EntriesOf, Resumes
  <2>1. CASE phase = "ready"
    BY <2>1 DEF IInv, StackInv, Ready
  <2>2. CASE phase # "ready"
    <3>1. NotUsed
      BY <2>2 DEF IInv, StackInv, Types, Compiling, CleaningUp
    <3>2. EntriesOf(cstack) = {} /\ Resumes(cstack) = {}
      <4>1. CASE phase = "cleanup"
        <5>1. DOMAIN cstack = 1..Len(cstack)
          BY <4>1, LenProperties DEF IInv, StackInv, CleaningUp
        <5>. QED
          BY <4>1, <5>1 DEF IInv, StackInv, CleaningUp, EntriesOf, Resumes, Entries
      <4>2. CASE phase # "cleanup"
        BY <2>2, <4>2 DEF IInv, StackInv, Types, Compiling, EntriesOf, Resumes, Entries
      <4>. QED
        BY <4>1, <4>2
    <3>. QED
      BY <3>1, <3>2, FS_EmptySet DEF NotUsed
  <2>. QED
    BY <2>1, <2>2
<1>. QED
  BY <1>1, Invariant, PTL

\* And then an interrupt reports the message of the latest request, in every interleaving of
\* the steps of requests, clears and umkaFree(), which puts the request aside.
THEOREM LatestIsReported == ASSUME "run" \notin Unruly PROVE Spec => []ReportsRequest
<1>1. IInv => ReportsRequest
  BY DEF IInv, StackInv, MessageInv, ReportsRequest, InLoop, Depth
<1>. QED
  BY <1>1, Invariant, PTL

=============================================================================
