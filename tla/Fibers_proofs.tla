---------------------------- MODULE Fibers_proofs ----------------------------
(***************************************************************************)
(* Proofs about Fibers for any number of fibers, any depth of the C stack  *)
(* and any number of calls, for programs in which a fiber ends after the   *)
(* fibers it has made and control does not leave a comparison or a         *)
(* callback for good.                                                      *)
(***************************************************************************)
EXTENDS Fibers, SequenceTheorems, TLAPS

-----------------------------------------------------------------------------
(* The inductive invariant.                                                *)

\* The fiber that was vm->fiber when the frame i of the C stack was pushed
Base(i) == IF i = 1 THEN Main ELSE cstack[i - 1].fiber

IsLoop(i) == cstack[i].kind \in LoopKinds

\* A loop that ends when its RETURN_FROM_VM is popped
Returns(i) == cstack[i].kind \in {"call", "compare"}

Typed ==
  /\ made \subseteq Fibers /\ Main \in made
  /\ alive \in [Fibers -> BOOLEAN]
  /\ parent \in [Fibers -> AnyFiber]
  /\ ip \in [Fibers -> {"code", "vm"}]
  /\ ret \in [Fibers -> Seq(Nat \cup {ReturnFromFiber})]
  /\ cstack \in Seq(Frame)
  /\ vmFiber \in Fibers
  /\ host \in [active : BOOLEAN, fiber : AnyFiber, parent : AnyFiber, current : AnyFiber]

\* Loops and native code alternate on the C stack.
Nested ==
  \A i \in 1..Depth :
    /\ ~IsLoop(i) => i > 1 /\ IsLoop(i - 1) /\ cstack[i].fiber = cstack[i - 1].fiber
    /\ IsLoop(i) /\ i > 1 => ~IsLoop(i - 1)
    /\ cstack[i].kind = "compare" <=> i > 1 /\ cstack[i - 1].kind = "sort"

\* The return addresses of a fiber that C code waits for are in the order of the loops;
\* under them is RETURN_FROM_FIBER, if C code has not called the first function.
Addresses ==
  /\ \A f \in Fibers : \A i \in 1..Len(ret[f]) :
       /\ ret[f][i] = ReturnFromFiber => i = 1 /\ f # Main
       /\ ret[f][i] > 0 => /\ ret[f][i] \in 1..Depth /\ Returns(ret[f][i])
                           /\ Base(ret[f][i]) = f
                           /\ \A j \in 1..(i - 1) : ret[f][j] < ret[f][i]
  /\ ret[Main] # <<>> => ret[Main][1] > 0

Awaited ==
  \A d \in 1..Depth :
    Returns(d) => \E i \in 1..Len(ret[Base(d)]) : ret[Base(d)][i] = d

\* A fiber that an outer loop waits for runs in the loop that began with it.
AtHome ==
  \A d \in 1..Depth : IsLoop(d) =>
    \A j \in 1..Len(ret[cstack[d].fiber]) :
      ret[cstack[d].fiber][j] \in 1..(d - 1) => Returns(d) /\ Base(d) = cstack[d].fiber

\* There is one host resume at a time; the fiber that was running waits for it.
Hosted ==
  /\ host.active =>
       /\ \E d \in 1..Depth : cstack[d].kind = "resume"
       /\ ip[host.current] = "vm" /\ host.parent = host.current
       /\ host.fiber \in made \ {Main} /\ alive[host.fiber] /\ parent[host.fiber] = Boundary
  /\ \A d \in 1..Depth : cstack[d].kind = "resume" =>
       /\ host.active /\ Base(d) = host.current
       /\ \A i \in 1..Depth : i >= d => cstack[i].fiber # host.current
       /\ \A i \in 1..Depth : cstack[i].kind = "resume" => i = d

Waiting ==
  \A f \in Fibers : ip[f] = "vm" =>
    (f = vmFiber /\ Native) \/ (host.active /\ f = host.current)

Runner ==
  /\ vmFiber = Base(Depth + 1)
  /\ \A i \in 1..Depth : cstack[i].fiber \in made /\ alive[cstack[i].fiber]

Family ==
  /\ parent[Main] = NoFiber
  /\ \A f \in made : parent[f] = Boundary => host.active /\ f = host.fiber
  /\ \A f \in made \ {Main} : alive[f] /\ parent[f] # Boundary =>
       parent[f] \in made /\ alive[parent[f]]

\* While the main fiber is alive
Sound ==
  Nested /\ Addresses /\ Awaited /\ AtHome /\ Hosted /\ Waiting /\ Runner /\ Family

IInv ==
  /\ Typed
  /\ alive[Main] => Sound
  /\ ~alive[Main] => cstack = <<>>

-----------------------------------------------------------------------------
(* Stacks.                                                                 *)

Addresses0 == Nat \cup {ReturnFromFiber}

\* Popping the last element of a stack.
LEMMA FrontOf ==
  ASSUME NEW S, NEW s \in Seq(S), s # <<>>
  PROVE  /\ Front(s) \in Seq(S) /\ Len(s) \in Nat \ {0} /\ Len(Front(s)) = Len(s) - 1
         /\ \A i \in 1..(Len(s) - 1) : Front(s)[i] = s[i]
<1>. DEFINE n == Len(s)
            t == Front(s)
<1>1. n \in Nat \ {0} /\ \A i \in 1..n : s[i] \in S
  BY EmptySeq, ElementOfSeq
<1>2. /\ SubSeq(s, 1, n - 1) \in Seq(S)
      /\ Len(SubSeq(s, 1, n - 1)) = IF 1 <= n - 1 THEN (n - 1) - 1 + 1 ELSE 0
      /\ \A i \in 1..((n - 1) - 1 + 1) : SubSeq(s, 1, n - 1)[i] = s[1 + i - 1]
  BY <1>1, SubSeqProperties
<1>3. t = SubSeq(s, 1, n - 1)
  BY DEF Front
<1>. HIDE DEF t, n
<1>4. t \in Seq(S) /\ Len(t) = n - 1 /\ \A i \in 1..(n - 1) : t[i] = s[i]
  BY <1>1, <1>2, <1>3
<1>. QED
  BY <1>1, <1>4 DEF t, n

\* What the types say of the elements of the stacks
Elements ==
  /\ Depth \in Nat /\ Depth = Len(cstack) /\ DOMAIN cstack = 1..Depth
  /\ cstack = <<>> <=> Depth = 0
  /\ \A i \in 1..Depth : cstack[i] \in Frame /\ cstack[i].fiber \in Fibers
  /\ Depth > 0 => Top = cstack[Depth]
  /\ \A f \in Fibers : /\ ret[f] \in Seq(Addresses0) /\ Len(ret[f]) \in Nat
                       /\ DOMAIN ret[f] = 1..Len(ret[f])
                       /\ ret[f] = <<>> <=> Len(ret[f]) = 0
                       /\ Last(ret[f]) = ret[f][Len(ret[f])]
  /\ \A f \in Fibers : \A i \in 1..Len(ret[f]) : ret[f][i] \in Int /\ ret[f][i] >= -1

\* What the types say, element by element.
LEMMA Parts == Typed => Elements
<1>. SUFFICES ASSUME Typed PROVE Elements
  OBVIOUS
<1>1. cstack \in Seq(Frame)
  BY DEF Typed
<1>2. Depth \in Nat /\ Depth = Len(cstack) /\ DOMAIN cstack = 1..Depth
  BY <1>1, LenProperties DEF Depth
<1>3. cstack = <<>> <=> Depth = 0
  BY <1>1, <1>2, EmptySeq
<1>4. \A i \in 1..Depth : cstack[i] \in Frame /\ cstack[i].fiber \in Fibers
  <2>1. \A i \in 1..Len(cstack) : cstack[i] \in Frame
    BY <1>1, ElementOfSeq
  <2>2. \A fr \in Frame : fr.fiber \in Fibers
    BY DEF Frame
  <2>. QED
    BY <1>2, <2>1, <2>2
<1>5. Depth > 0 => Top = cstack[Depth]
  BY <1>2 DEF Top, Last
<1>6. ASSUME NEW f \in Fibers
      PROVE  /\ ret[f] \in Seq(Addresses0) /\ Len(ret[f]) \in Nat
             /\ DOMAIN ret[f] = 1..Len(ret[f])
             /\ ret[f] = <<>> <=> Len(ret[f]) = 0
             /\ Last(ret[f]) = ret[f][Len(ret[f])]
             /\ \A i \in 1..Len(ret[f]) : ret[f][i] \in Int /\ ret[f][i] >= -1
  <2>1. ret[f] \in Seq(Addresses0)
    BY DEF Typed, Addresses0
  <2>2. \A i \in 1..Len(ret[f]) : ret[f][i] \in Addresses0
    BY <2>1, ElementOfSeq
  <2>3. \A a \in Addresses0 : a \in Int /\ a >= -1
    BY DEF Addresses0, ReturnFromFiber
  <2>. QED
    BY <2>1, <2>2, <2>3, LenProperties, EmptySeq DEF Last
<1>. QED
  BY <1>2, <1>3, <1>4, <1>5, <1>6 DEF Elements

\* The same after a step.
LEMMA PartsNext == Typed' => Elements'
BY Parts, PTL

\* The fiber that runs under a frame exists.
LEMMA BaseTyped ==
  ASSUME Typed, NEW i \in 1..(Depth + 1)
  PROVE  Base(i) \in Fibers
<1>1. CASE i = 1
  BY <1>1, FibersAssumption DEF Base
<1>2. CASE i # 1
  <2>1. i - 1 \in 1..Depth
    BY <1>2, Parts DEF Elements
  <2>. QED
    BY <1>2, <2>1, Parts DEF Base, Elements
<1>. QED
  BY <1>1, <1>2

\* A call from the VM to C code, or from C code to the VM.
LEMMA PushEffect ==
  ASSUME Typed, NEW k \in LoopKinds \cup {"sort", "extern"}, NEW g \in Fibers,
         cstack' = Append(cstack, [kind |-> k, fiber |-> g])
  PROVE  /\ cstack' \in Seq(Frame) /\ Depth' = Depth + 1
         /\ \A i \in 1..Depth : cstack'[i] = cstack[i]
         /\ cstack'[Depth + 1].kind = k /\ cstack'[Depth + 1].fiber = g
         /\ \A i \in 1..(Depth + 1) : Base(i)' = Base(i)
         /\ Base(Depth + 1)' = g
<1>. DEFINE fr == [kind |-> k, fiber |-> g]
<1>1. fr \in Frame /\ fr.kind = k /\ fr.fiber = g
  BY DEF Frame
<1>. HIDE DEF fr
<1>2. cstack \in Seq(Frame) /\ Depth = Len(cstack) /\ Depth \in Nat
  BY Parts DEF Typed, Elements
<1>3. /\ cstack' \in Seq(Frame) /\ Len(cstack') = Len(cstack) + 1
      /\ \A i \in 1..Len(cstack) : cstack'[i] = cstack[i]
      /\ cstack'[Len(cstack) + 1] = fr
  BY <1>1, <1>2, AppendProperties DEF fr
<1>4. Depth' = Depth + 1 /\ cstack'[Depth + 1] = fr /\ \A i \in 1..Depth : cstack'[i] = cstack[i]
  BY <1>2, <1>3 DEF Depth
<1>5. ASSUME NEW i \in 1..(Depth + 1) PROVE Base(i)' = Base(i)
  <2>1. i # 1 => i - 1 \in 1..Depth
    BY <1>2
  <2>. QED
    BY <1>4, <2>1 DEF Base
<1>6. Base(Depth + 1)' = g
  <2>1. Depth' + 1 # 1 /\ (Depth' + 1) - 1 = Depth + 1
    BY <1>2, <1>4
  <2>. QED
    BY <1>1, <1>4, <2>1 DEF Base
<1>. QED
  BY <1>1, <1>3, <1>4, <1>5, <1>6

\* and the return from it.
LEMMA PopEffect ==
  ASSUME Typed, Depth > 0, cstack' = Front(cstack)
  PROVE  /\ cstack' \in Seq(Frame) /\ Depth' = Depth - 1
         /\ \A i \in 1..(Depth - 1) : cstack'[i] = cstack[i]
         /\ \A i \in 1..Depth : Base(i)' = Base(i)
<1>1. cstack \in Seq(Frame) /\ Depth = Len(cstack) /\ Depth \in Nat /\ cstack # <<>>
  BY Parts DEF Typed, Elements
<1>2. /\ cstack' \in Seq(Frame) /\ Len(cstack') = Len(cstack) - 1
      /\ \A i \in 1..(Len(cstack) - 1) : cstack'[i] = cstack[i]
  BY <1>1, FrontOf
<1>3. Depth' = Depth - 1 /\ \A i \in 1..(Depth - 1) : cstack'[i] = cstack[i]
  BY <1>1, <1>2 DEF Depth
<1>4. ASSUME NEW i \in 1..Depth PROVE Base(i)' = Base(i)
  <2>1. i # 1 => i - 1 \in 1..(Depth - 1)
    BY <1>1
  <2>. QED
    BY <1>3, <2>1 DEF Base
<1>. QED
  BY <1>2, <1>3, <1>4

\* The topmost loop goes on with another fiber.
LEMMA SwitchEffect ==
  ASSUME Typed, Depth > 0, NEW g \in Fibers, cstack' = [cstack EXCEPT ![Depth].fiber = g]
  PROVE  /\ cstack' \in Seq(Frame) /\ Depth' = Depth
         /\ \A i \in 1..(Depth - 1) : cstack'[i] = cstack[i]
         /\ cstack'[Depth].kind = cstack[Depth].kind /\ cstack'[Depth].fiber = g
         /\ \A i \in 1..Depth : Base(i)' = Base(i)
         /\ Base(Depth + 1)' = g
<1>1. cstack \in Seq(Frame) /\ Depth = Len(cstack) /\ Depth \in Nat /\ cstack[Depth] \in Frame
  BY Parts DEF Typed, Elements
<1>. DEFINE fr == [cstack[Depth] EXCEPT !.fiber = g]
<1>2. fr \in Frame /\ fr.kind = cstack[Depth].kind /\ fr.fiber = g
  BY <1>1 DEF Frame
<1>3. cstack' = [cstack EXCEPT ![Depth] = fr]
  OBVIOUS
<1>. HIDE DEF fr
<1>4. /\ cstack' \in Seq(Frame) /\ Len(cstack') = Len(cstack)
      /\ \A i \in 1..Len(cstack) : cstack'[i] = IF i = Depth THEN fr ELSE cstack[i]
  BY <1>1, <1>2, <1>3, ExceptSeq
<1>5. Depth' = Depth
  BY <1>4 DEF Depth
<1>6. cstack'[Depth] = fr /\ \A i \in 1..(Depth - 1) : cstack'[i] = cstack[i]
  BY <1>1, <1>4
<1>7. ASSUME NEW i \in 1..Depth PROVE Base(i)' = Base(i)
  <2>1. i # 1 => i - 1 \in 1..(Depth - 1)
    BY <1>1
  <2>. QED
    BY <1>6, <2>1 DEF Base
<1>8. Base(Depth + 1)' = g
  <2>1. Depth' + 1 # 1 /\ (Depth' + 1) - 1 = Depth
    BY <1>1, <1>5
  <2>. QED
    BY <1>2, <1>6, <2>1 DEF Base
<1>. QED
  BY <1>2, <1>4, <1>5, <1>6, <1>7, <1>8

\* A return address is pushed, or popped.
LEMMA RetPushed ==
  ASSUME Typed, NEW f \in Fibers, NEW a \in Addresses0, ret' = [ret EXCEPT ![f] = Append(@, a)]
  PROVE  /\ ret' \in [Fibers -> Seq(Addresses0)]
         /\ \A h \in Fibers : h # f => ret'[h] = ret[h]
         /\ Len(ret'[f]) = Len(ret[f]) + 1 /\ ret'[f][Len(ret[f]) + 1] = a
         /\ \A h \in Fibers : \A i \in 1..Len(ret[h]) : ret'[h][i] = ret[h][i]
<1>1. ret \in [Fibers -> Seq(Addresses0)]
  BY DEF Typed, Addresses0
<1>2. /\ Append(ret[f], a) \in Seq(Addresses0)
      /\ Len(Append(ret[f], a)) = Len(ret[f]) + 1
      /\ \A i \in 1..Len(ret[f]) : Append(ret[f], a)[i] = ret[f][i]
      /\ Append(ret[f], a)[Len(ret[f]) + 1] = a
  BY <1>1, AppendProperties
<1>3. ret'[f] = Append(ret[f], a) /\ \A h \in Fibers : h # f => ret'[h] = ret[h]
  BY <1>1
<1>4. ret' \in [Fibers -> Seq(Addresses0)]
  BY <1>1, <1>2
<1>5. ASSUME NEW h \in Fibers, NEW i \in 1..Len(ret[h]) PROVE ret'[h][i] = ret[h][i]
  BY <1>2, <1>3
<1>. QED
  BY <1>2, <1>3, <1>4, <1>5

\* The fiber that returns loses its last return address, and no other.
LEMMA RetPopped ==
  ASSUME Typed, NEW f \in Fibers, ret[f] # <<>>, ret' = [ret EXCEPT ![f] = Front(@)]
  PROVE  /\ ret' \in [Fibers -> Seq(Addresses0)]
         /\ \A h \in Fibers : h # f => ret'[h] = ret[h]
         /\ Len(ret[f]) \in Nat \ {0} /\ Len(ret'[f]) = Len(ret[f]) - 1
         /\ \A h \in Fibers : \A i \in 1..Len(ret'[h]) : ret'[h][i] = ret[h][i]
<1>1. ret \in [Fibers -> Seq(Addresses0)]
  BY DEF Typed, Addresses0
<1>2. /\ Front(ret[f]) \in Seq(Addresses0) /\ Len(ret[f]) \in Nat \ {0}
      /\ Len(Front(ret[f])) = Len(ret[f]) - 1
      /\ \A i \in 1..(Len(ret[f]) - 1) : Front(ret[f])[i] = ret[f][i]
  BY <1>1, FrontOf
<1>3. ret'[f] = Front(ret[f]) /\ \A h \in Fibers : h # f => ret'[h] = ret[h]
  BY <1>1
<1>4. ret' \in [Fibers -> Seq(Addresses0)]
  BY <1>1, <1>2
<1>5. ASSUME NEW h \in Fibers, NEW i \in 1..Len(ret'[h]) PROVE ret'[h][i] = ret[h][i]
  BY <1>2, <1>3
<1>. QED
  BY <1>2, <1>3, <1>4, <1>5

-----------------------------------------------------------------------------
(* Parts of the invariant that are kept.                                   *)

\* The loops that stay on the C stack wait for the same fibers.
SameLoops ==
  \A i \in 1..Depth' : i <= Depth => cstack'[i].kind = cstack[i].kind /\ Base(i)' = Base(i)

\* Return addresses stay in order when a fiber returns from a function.
LEMMA AddressesKept ==
  ASSUME Typed, Typed', Addresses, SameLoops,
         \A h \in Fibers : Len(ret'[h]) <= Len(ret[h]),
         \A h \in Fibers : \A i \in 1..Len(ret'[h]) : ret'[h][i] = ret[h][i],
         \A h \in Fibers : \A i \in 1..Len(ret'[h]) : ret[h][i] <= Depth'
  PROVE  Addresses'
<1>1. Elements /\ Elements'
  BY Parts, PartsNext
<1>2. ASSUME NEW f \in Fibers, NEW i \in 1..Len(ret'[f])
      PROVE  /\ ret'[f][i] = ReturnFromFiber => i = 1 /\ f # Main
             /\ ret'[f][i] > 0 => /\ ret'[f][i] \in 1..Depth' /\ Returns(ret[f][i])'
                                  /\ Base(ret[f][i])' = f
                                  /\ \A j \in 1..(i - 1) : ret'[f][j] < ret'[f][i]
  <2>1. Len(ret[f]) \in Nat /\ Len(ret'[f]) \in Nat /\ Len(ret'[f]) <= Len(ret[f])
    BY <1>1 DEF Elements
  <2>2. i \in 1..Len(ret[f]) /\ ret'[f][i] = ret[f][i]
    BY <2>1
  <2>3. ret[f][i] = ReturnFromFiber => i = 1 /\ f # Main
    BY <2>2 DEF Addresses
  <2>4. ASSUME ret'[f][i] > 0
        PROVE  /\ ret'[f][i] \in 1..Depth' /\ Returns(ret[f][i])' /\ Base(ret[f][i])' = f
               /\ \A j \in 1..(i - 1) : ret'[f][j] < ret'[f][i]
    <3>0. PICK d \in Int : d = ret[f][i]
      BY <1>1, <2>2 DEF Elements
    <3>1. /\ d \in 1..Depth /\ Returns(d) /\ Base(d) = f
          /\ \A j \in 1..(i - 1) : ret[f][j] < d
      BY <2>2, <2>4, <3>0 DEF Addresses
    <3>2. d \in 1..Depth'
      BY <1>1, <2>2, <3>0, <3>1 DEF Elements
    <3>3. Returns(d)' /\ Base(d)' = f
      BY <1>1, <3>1, <3>2 DEF SameLoops, Returns, Elements
    <3>4. \A j \in 1..(i - 1) : j \in 1..Len(ret'[f])
      BY <2>1
    <3>5. ret'[f][i] = d
      BY <2>2, <3>0
    <3>. QED
      BY <3>1, <3>2, <3>3, <3>4, <3>5 DEF Returns, Base
  <2>. QED
    BY <2>2, <2>3, <2>4
<1>3. ASSUME ret'[Main] # <<>> PROVE ret'[Main][1] > 0
  <2>1. /\ Len(ret'[Main]) \in Nat /\ Len(ret'[Main]) # 0 /\ Len(ret'[Main]) <= Len(ret[Main])
        /\ Len(ret[Main]) \in Nat /\ (ret[Main] = <<>> <=> Len(ret[Main]) = 0)
    BY <1>1, <1>3, FibersAssumption DEF Elements
  <2>2. 1 \in 1..Len(ret'[Main]) /\ ret[Main] # <<>>
    BY <2>1
  <2>. QED
    BY <2>2, FibersAssumption DEF Addresses
<1>. QED
  BY <1>2, <1>3 DEF Addresses

\* The address that a loop waits for is only popped by that loop.
LEMMA AwaitedKept ==
  ASSUME Typed, Typed', Awaited, SameLoops,
         \A h \in Fibers : \A i \in 1..Len(ret[h]) :
           ret[h][i] \in 1..Depth' => i \in 1..Len(ret'[h]) /\ ret'[h][i] = ret[h][i],
         \A d \in 1..Depth' : d > Depth /\ Returns(d)' =>
           \E i \in 1..Len(ret'[Base(d)']) : ret'[Base(d)'][i] = d
  PROVE  Awaited'
<1>1. Elements /\ Elements'
  BY Parts, PartsNext
<1>2. ASSUME NEW d \in 1..Depth', Returns(d)'
      PROVE  \E i \in 1..Len(ret'[Base(d)']) : ret'[Base(d)'][i] = d
  <2>1. CASE d > Depth
    BY <1>2, <2>1
  <2>2. CASE d <= Depth
    <3>1. d \in 1..Depth /\ d \in Int
      BY <1>1, <2>2 DEF Elements
    <3>2. Returns(d) /\ Base(d)' = Base(d)
      BY <1>2, <2>2 DEF SameLoops, Returns
    <3>3. Base(d) \in Fibers
      BY <1>1, <3>1, BaseTyped DEF Elements
    <3>4. PICK i \in 1..Len(ret[Base(d)]) : ret[Base(d)][i] = d
      BY <3>1, <3>2 DEF Awaited
    <3>. QED
      BY <3>2, <3>3, <3>4
  <2>. QED
    BY <1>1, <2>1, <2>2 DEF Elements
<1>. QED
  BY <1>2 DEF Awaited

\* A step after which no new address is awaited by an outer loop than the one it is in.
LEMMA AtHomeKept ==
  ASSUME Typed, Typed', AtHome,
         \A h \in Fibers : \A j \in 1..Len(ret'[h]) :
           \/ j \in 1..Len(ret[h]) /\ ret'[h][j] = ret[h][j]
           \/ ret'[h][j] <= 0 \/ ret'[h][j] = Depth',
         \A d \in 1..Depth' :
           \/ d \in 1..Depth /\ cstack'[d] = cstack[d] /\ Base(d)' = Base(d)
           \/ cstack'[d].kind \notin LoopKinds
           \/ \A j \in 1..Len(ret'[cstack'[d].fiber]) :
                ret'[cstack'[d].fiber][j] \in 1..(d - 1) =>
                  Returns(d)' /\ Base(d)' = cstack'[d].fiber
  PROVE  AtHome'
<1>1. Elements /\ Elements'
  BY Parts, PartsNext
<1>2. ASSUME NEW d \in 1..Depth', cstack'[d].kind \in LoopKinds,
             NEW j \in 1..Len(ret'[cstack'[d].fiber]),
             ret'[cstack'[d].fiber][j] \in 1..(d - 1)
      PROVE  Returns(d)' /\ Base(d)' = cstack'[d].fiber
  <2>1. CASE d \in 1..Depth /\ cstack'[d] = cstack[d] /\ Base(d)' = Base(d)
    <3>. DEFINE h == cstack[d].fiber
    <3>1. h \in Fibers
      BY <1>1, <2>1 DEF Elements
    <3>2. j \in 1..Len(ret[h]) /\ ret'[h][j] = ret[h][j]
      <4>1. ret'[h][j] \in Int /\ 0 < ret'[h][j] /\ ret'[h][j] < Depth'
        BY <1>1, <1>2, <2>1 DEF Elements
      <4>. QED
        BY <1>2, <2>1, <3>1, <4>1
    <3>3. Returns(d) /\ Base(d) = h
      BY <1>2, <2>1, <3>2 DEF AtHome, IsLoop
    <3>. QED
      BY <2>1, <3>3 DEF Returns
  <2>2. CASE ~(d \in 1..Depth /\ cstack'[d] = cstack[d] /\ Base(d)' = Base(d))
    BY <1>2, <2>2
  <2>. QED
    BY <2>1, <2>2
<1>. QED
  BY <1>2 DEF AtHome, IsLoop

\* The host resume goes on.
LEMMA HostedKept ==
  ASSUME Typed, Typed', Hosted, UNCHANGED host, SameLoops,
         host.active => /\ ip'[host.current] = "vm"
                        /\ host.fiber \in made' /\ alive'[host.fiber]
                        /\ parent'[host.fiber] = Boundary,
         \A d \in 1..Depth' : d > Depth => cstack'[d].kind # "resume",
         \A d \in 1..Depth : cstack[d].kind = "resume" => d <= Depth',
         \A i \in 1..Depth' : \/ i \in 1..Depth /\ cstack'[i].fiber = cstack[i].fiber
                              \/ cstack'[i].fiber # host.current
  PROVE  Hosted'
<1>1. Elements /\ Elements'
  BY Parts, PartsNext
<1>2. ASSUME NEW d \in 1..Depth' PROVE cstack'[d].kind = "resume" <=> d \in 1..Depth /\ cstack[d].kind = "resume"
  BY <1>1 DEF SameLoops, Elements
<1>3. ASSUME host.active PROVE \E d \in 1..Depth' : cstack'[d].kind = "resume"
  <2>1. PICK d \in 1..Depth : cstack[d].kind = "resume"
    BY <1>3 DEF Hosted
  <2>2. d \in 1..Depth'
    BY <1>1, <2>1 DEF Elements
  <2>. QED
    BY <1>2, <2>1, <2>2
<1>4. host.active =>
        /\ ip'[host.current] = "vm" /\ host.parent = host.current
        /\ host.fiber \in made' \ {Main} /\ alive'[host.fiber] /\ parent'[host.fiber] = Boundary
  BY DEF Hosted
<1>5. ASSUME NEW d \in 1..Depth', cstack'[d].kind = "resume"
      PROVE  /\ host.active /\ Base(d)' = host.current
             /\ \A i \in 1..Depth' : i >= d => cstack'[i].fiber # host.current
             /\ \A i \in 1..Depth' : cstack'[i].kind = "resume" => i = d
  <2>1. d \in 1..Depth /\ cstack[d].kind = "resume" /\ d <= Depth
    BY <1>1, <1>2, <1>5 DEF Elements
  <2>2. host.active /\ Base(d)' = host.current
    BY <2>1 DEF Hosted, SameLoops
  <2>3. \A i \in 1..Depth' : i >= d => cstack'[i].fiber # host.current
    BY <2>1 DEF Hosted
  <2>4. \A i \in 1..Depth' : cstack'[i].kind = "resume" => i = d
    BY <1>2, <2>1 DEF Hosted
  <2>. QED
    BY <2>2, <2>3, <2>4
<1>. QED
  BY <1>3, <1>4, <1>5 DEF Hosted

\* A step that leaves the C stack alone.
LEMMA SameStack ==
  ASSUME Typed, cstack' = cstack
  PROVE  /\ Depth' = Depth /\ SameLoops /\ \A i \in 1..(Depth + 1) : Base(i)' = Base(i)
         /\ Nested => Nested'
         /\ Base(Depth + 1)' = Base(Depth + 1)
         /\ Native' <=> Native
<1>1. Depth' = Depth /\ \A i \in 1..(Depth + 1) : Base(i)' = Base(i)
  BY DEF Depth, Base
<1>2. SameLoops
  BY <1>1, Parts DEF SameLoops, Elements
<1>3. Nested => Nested'
  BY <1>1 DEF Nested, IsLoop
<1>4. Base(Depth + 1)' = Base(Depth + 1)
  BY <1>1 DEF Base
<1>. QED
  BY <1>1, <1>2, <1>3, <1>4 DEF Native, Top

-----------------------------------------------------------------------------
(* What runs.                                                              *)

\* The fibers that a live interpreter refers to are made and alive.
LEMMA WhoRuns ==
  ASSUME IInv, alive[Main]
  PROVE  /\ vmFiber \in made /\ vmFiber \in Fibers /\ alive[vmFiber]
         /\ Depth > 0 => Top.fiber = vmFiber /\ Top = cstack[Depth]
         /\ Depth = 0 => vmFiber = Main
         /\ \A i \in 1..(Depth + 1) : Base(i) \in made /\ Base(i) \in Fibers /\ alive[Base(i)]
         /\ host.active => /\ host.current \in made /\ host.current \in Fibers
                           /\ alive[host.current]
                           /\ host.fiber \in made \ {Main} /\ host.fiber \in Fibers
                           /\ host.parent = host.current
<1>. USE DEF IInv, Sound
<1>1. Typed /\ Elements /\ Runner /\ Hosted
  BY Parts
<1>2. ASSUME NEW i \in 1..(Depth + 1)
      PROVE  Base(i) \in made /\ Base(i) \in Fibers /\ alive[Base(i)]
  <2>1. CASE i = 1
    BY <1>1, <2>1 DEF Base, Typed
  <2>2. CASE i # 1
    <3>1. i - 1 \in 1..Depth
      BY <1>1, <2>2 DEF Elements
    <3>. QED
      BY <1>1, <2>2, <3>1 DEF Base, Runner, Elements
  <2>. QED
    BY <2>1, <2>2
<1>3. Depth + 1 \in 1..(Depth + 1) /\ (Depth = 0 => Base(Depth + 1) = Main)
  BY <1>1 DEF Elements, Base
<1>4. Depth > 0 => Top.fiber = vmFiber /\ Top = cstack[Depth]
  <2>1. Depth > 0 => Depth + 1 # 1 /\ (Depth + 1) - 1 = Depth
    BY <1>1 DEF Elements
  <2>. QED
    BY <1>1, <2>1 DEF Elements, Runner, Base
<1>5. ASSUME host.active
      PROVE  /\ host.current \in made /\ host.current \in Fibers /\ alive[host.current]
             /\ host.fiber \in made \ {Main} /\ host.fiber \in Fibers
             /\ host.parent = host.current
  <2>1. PICK d \in 1..Depth : cstack[d].kind = "resume"
    BY <1>1, <1>5 DEF Hosted
  <2>2. Base(d) = host.current /\ d \in 1..(Depth + 1)
    BY <1>1, <2>1 DEF Hosted, Elements
  <2>. QED
    BY <1>1, <1>2, <1>5, <2>2 DEF Hosted, Typed
<1>. QED
  BY <1>1, <1>2, <1>3, <1>4, <1>5 DEF Runner

\* The fiber that executes bytecode does not wait for the host.
LEMMA RunsCode ==
  ASSUME IInv, alive[Main], NEW f \in Fibers, Runs(f)
  PROVE  /\ f = vmFiber /\ f \in made /\ alive[f] /\ ip[f] = "code"
         /\ Depth \in Nat /\ Depth > 0 /\ Depth \in 1..Depth
         /\ cstack[Depth].kind \in LoopKinds /\ cstack[Depth].fiber = f
         /\ Top = cstack[Depth] /\ ~Native
         /\ host.active => f # host.current
<1>. USE DEF IInv, Sound
<1>1. Typed /\ Elements /\ Hosted /\ Waiting
  BY Parts
<1>2. Depth \in Nat /\ Depth > 0 /\ Depth \in 1..Depth /\ Top = cstack[Depth]
  BY <1>1 DEF Runs, Elements
<1>3. f = vmFiber /\ f \in made /\ alive[f] /\ cstack[Depth].fiber = f
      /\ cstack[Depth].kind \in LoopKinds
  BY <1>2, WhoRuns DEF Runs
<1>4. ~Native
  BY <1>2, <1>3 DEF Native, LoopKinds
<1>5. ASSUME host.active PROVE f # host.current
  <2>1. PICK d \in 1..Depth : cstack[d].kind = "resume"
    BY <1>1, <1>5 DEF Hosted
  <2>2. Depth >= d
    BY <1>1 DEF Elements
  <2>. QED
    BY <1>1, <1>2, <1>3, <2>1, <2>2 DEF Hosted
<1>6. ip[f] = "code"
  BY <1>1, <1>4, <1>5 DEF Waiting, Typed
<1>. QED
  BY <1>2, <1>3, <1>4, <1>5, <1>6

-----------------------------------------------------------------------------
(* Every step keeps the invariant.                                         *)

\* make() of a fiber.
LEMMA MakeStep ==
  ASSUME IInv, alive[Main], NEW f \in Fibers, NEW c \in Fibers, Make(f, c)
  PROVE  IInv' /\ alive'[Main]
<1>. USE DEF IInv, Sound
<1>1. /\ c \notin made /\ made' = made \cup {c} /\ alive' = [alive EXCEPT ![c] = alive[f]]
      /\ parent' = [parent EXCEPT ![c] = f] /\ ip' = [ip EXCEPT ![c] = "code"]
      /\ ret' = [ret EXCEPT ![c] = <<ReturnFromFiber>>]
      /\ UNCHANGED <<cstack, vmFiber, host>> /\ Runs(f)
  BY DEF Make
<1>2. f = vmFiber /\ f \in made /\ alive[f] /\ Typed /\ Elements
  BY <1>1, RunsCode, Parts
<1>3. alive'[Main] /\ c # Main
  BY <1>1, <1>2, FibersAssumption DEF Typed
<1>4. /\ Len(<<ReturnFromFiber>>) = 1 /\ <<ReturnFromFiber>>[1] = -1
      /\ <<ReturnFromFiber>> \in Seq(Nat \cup {ReturnFromFiber})
  BY DEF ReturnFromFiber
<1>5. /\ ret'[c] = <<ReturnFromFiber>> /\ \A h \in Fibers : h # c => ret'[h] = ret[h]
  BY <1>1, <1>2 DEF Typed
<1>6. Typed'
  <2>1. ret' \in [Fibers -> Seq(Nat \cup {ReturnFromFiber})]
    BY <1>1, <1>2, <1>4 DEF Typed
  <2>2. parent' \in [Fibers -> AnyFiber]
    BY <1>1, <1>2 DEF Typed, AnyFiber
  <2>. QED
    BY <1>1, <1>2, <2>1, <2>2 DEF Typed
<1>7. /\ Depth' = Depth /\ SameLoops /\ \A i \in 1..(Depth + 1) : Base(i)' = Base(i)
      /\ Nested' /\ Base(Depth + 1)' = Base(Depth + 1) /\ (Native' <=> Native)
  BY <1>1, <1>2, SameStack
<1>8. Elements'
  BY <1>6, PartsNext
<1>9. Addresses'
  <2>1. ASSUME NEW h \in Fibers, NEW i \in 1..Len(ret'[h])
        PROVE  /\ ret'[h][i] = ReturnFromFiber => i = 1 /\ h # Main
               /\ ret'[h][i] > 0 => /\ ret'[h][i] \in 1..Depth' /\ Returns(ret[h][i])'
                                    /\ Base(ret[h][i])' = h
                                    /\ \A j \in 1..(i - 1) : ret'[h][j] < ret'[h][i]
    <3>1. CASE h = c
      <4>1. i = 1 /\ ret'[h][i] = -1
        <5>1. Len(ret'[c]) = 1 /\ ret'[c][1] = -1
          BY <1>4, <1>5
        <5>. QED
          BY <3>1, <5>1
      <4>. QED
        BY <1>3, <3>1, <4>1
    <3>2. CASE h # c
      <4>1. ret'[h] = ret[h]
        BY <1>5, <3>2
      <4>2. PICK d \in Int : d = ret[h][i]
        BY <1>2, <4>1 DEF Elements
      <4>3. ret[h][i] > 0 => /\ d \in 1..Depth /\ Returns(d) /\ Base(d) = h
        BY <4>1, <4>2 DEF Addresses
      <4>4. d \in 1..Depth => Returns(d)' = Returns(d) /\ Base(d)' = Base(d)
        BY <1>1, <1>2, <1>7 DEF Returns, Elements
      <4>5. ret[h][i] > 0 => Returns(ret[h][i])' /\ Base(ret[h][i])' = h
        BY <4>1, <4>2, <4>3, <4>4 DEF Returns, Base
      <4>. QED
        BY <1>7, <4>1, <4>2, <4>5 DEF Addresses
    <3>. QED
      BY <3>1, <3>2
  <2>2. ret'[Main] # <<>> => ret'[Main][1] > 0
    BY <1>3, <1>5, FibersAssumption DEF Addresses
  <2>. QED
    BY <2>1, <2>2 DEF Addresses
<1>10. Awaited'
  <2>1. ASSUME NEW h \in Fibers, NEW i \in 1..Len(ret[h]), ret[h][i] \in 1..Depth'
        PROVE  i \in 1..Len(ret'[h]) /\ ret'[h][i] = ret[h][i]
    <3>1. Base(ret[h][i]) = h /\ ret[h][i] \in 1..(Depth + 1)
      <4>1. Depth \in Nat /\ ret[h][i] \in 1..Depth
        BY <1>2, <1>7, <2>1 DEF Elements
      <4>2. ret[h][i] > 0 /\ ret[h][i] \in 1..(Depth + 1)
        BY <4>1
      <4>. QED
        BY <2>1, <4>2 DEF Addresses
    <3>2. h # c
      BY <1>1, <3>1, WhoRuns
    <3>. QED
      BY <1>5, <3>2
  <2>. QED
    BY <1>2, <1>6, <1>7, <2>1, AwaitedKept DEF Elements
<1>11. AtHome'
  <2>1. ASSUME NEW h \in Fibers, NEW j \in 1..Len(ret'[h])
        PROVE  \/ j \in 1..Len(ret[h]) /\ ret'[h][j] = ret[h][j]
               \/ ret'[h][j] <= 0 \/ ret'[h][j] = Depth'
    BY <1>4, <1>5
  <2>2. \A d \in 1..Depth' : d \in 1..Depth /\ cstack'[d] = cstack[d] /\ Base(d)' = Base(d)
    BY <1>1, <1>2, <1>7 DEF Elements
  <2>. QED
    BY <1>2, <1>6, <2>1, <2>2, AtHomeKept
<1>12. Hosted'
  <2>1. host.active => /\ ip'[host.current] = "vm"
                       /\ host.fiber \in made' /\ alive'[host.fiber]
                       /\ parent'[host.fiber] = Boundary
    BY <1>1, <1>2, WhoRuns DEF Hosted, Typed
  <2>. QED
    BY <1>1, <1>2, <1>6, <1>7, <2>1, HostedKept DEF Elements
<1>13. Waiting'
  BY <1>1, <1>2, <1>7 DEF Waiting, Typed
<1>14. Runner'
  BY <1>1, <1>2, <1>7 DEF Runner, Typed, Elements
<1>15. Family'
  BY <1>1, <1>2, <1>3, FibersAssumption DEF Family, Typed
<1>. QED
  BY <1>3, <1>6, <1>7, <1>9, <1>10, <1>11, <1>12, <1>13, <1>14, <1>15

\* A step that leaves return addresses alone and ends no loop.
LEMMA SameAddresses ==
  ASSUME Typed, Typed', Addresses, Awaited, SameLoops, UNCHANGED ret, Depth' >= Depth,
         \A d \in 1..Depth' : d > Depth => ~Returns(d)'
  PROVE  Addresses' /\ Awaited'
<1>1. Elements /\ Elements'
  BY Parts, PartsNext
<1>2. ASSUME NEW h \in Fibers, NEW i \in 1..Len(ret[h]) PROVE ret[h][i] <= Depth'
  <2>1. ret[h][i] \in Int /\ Depth \in Nat /\ Depth' \in Nat
    BY <1>1 DEF Elements
  <2>2. ret[h][i] > 0 => ret[h][i] \in 1..Depth
    BY DEF Addresses
  <2>. QED
    BY <2>1, <2>2
<1>3. Addresses'
  BY <1>1, <1>2, AddressesKept DEF Elements
<1>4. Awaited'
  BY AwaitedKept
<1>. QED
  BY <1>3, <1>4

\* A fiber that is dead and that nobody runs is freed.
LEMMA DestroyStep ==
  ASSUME IInv, alive[Main], NEW c \in Fibers, Destroy(c)
  PROVE  IInv' /\ alive'[Main]
<1>. USE DEF IInv, Sound
<1>1. /\ c \in made /\ c # Main /\ ~alive[c] /\ made' = made \ {c}
      /\ UNCHANGED <<alive, parent, ip, ret, cstack, vmFiber, host>>
  BY DEF Destroy
<1>2. Typed /\ Elements
  BY Parts
<1>3. Typed'
  BY <1>1, <1>2 DEF Typed
<1>4. /\ Depth' = Depth /\ SameLoops /\ \A i \in 1..(Depth + 1) : Base(i)' = Base(i)
      /\ Nested' /\ Base(Depth + 1)' = Base(Depth + 1) /\ (Native' <=> Native)
  BY <1>1, <1>2, SameStack
<1>5. Addresses' /\ Awaited'
  BY <1>1, <1>2, <1>3, <1>4, SameAddresses DEF Elements
<1>6. AtHome'
  BY <1>1, <1>4 DEF AtHome, IsLoop, Returns, Base
<1>7. Hosted'
  <2>1. host.active => host.fiber \in made'
    BY <1>1 DEF Hosted
  <2>. QED
    BY <1>1, <1>2, <1>3, <1>4, <2>1, HostedKept DEF Hosted, Elements
<1>8. Waiting'
  BY <1>1, <1>4 DEF Waiting
<1>9. Runner'
  BY <1>1, <1>4 DEF Runner
<1>10. Family'
  BY <1>1 DEF Family
<1>. QED
  BY <1>1, <1>3, <1>4, <1>5, <1>6, <1>7, <1>8, <1>9, <1>10

\* The main fiber runs only in a call from the host.
LEMMA MainCalled ==
  ASSUME IInv, alive[Main], Main \in Fibers, Runs(Main)
  PROVE  ret[Main] # <<>>
<1>. USE DEF IInv, Sound
<1>1. Typed /\ Elements /\ Depth \in Nat /\ Depth > 0 /\ 1 \in 1..Depth
  BY Parts, RunsCode DEF Elements
<1>2. cstack[1].kind \in {"call", "resume"}
  BY <1>1 DEF Nested, IsLoop, LoopKinds
<1>3. cstack[1].kind # "resume"
  <2>1. cstack[1].kind = "resume" => host.active /\ Base(1) = host.current
    BY <1>1 DEF Hosted
  <2>. QED
    BY <2>1, RunsCode DEF Base
<1>4. \E i \in 1..Len(ret[Main]) : ret[Main][i] = 1
  BY <1>1, <1>2, <1>3 DEF Awaited, Returns, Base
<1>. QED
  BY <1>1, <1>4 DEF Elements

\* A call of a function by bytecode.
LEMMA CallStep ==
  ASSUME IInv, alive[Main], NEW f \in Fibers, Call(f)
  PROVE  IInv' /\ alive'[Main]
<1>. USE DEF IInv, Sound
<1>1. /\ Runs(f) /\ ret' = [ret EXCEPT ![f] = Append(@, IntoFunction)]
      /\ UNCHANGED <<made, alive, parent, ip, cstack, vmFiber, host>>
  BY DEF Call
<1>2. Typed /\ Elements
  BY Parts
<1>3. /\ ret' \in [Fibers -> Seq(Addresses0)]
      /\ \A h \in Fibers : h # f => ret'[h] = ret[h]
      /\ Len(ret'[f]) = Len(ret[f]) + 1 /\ ret'[f][Len(ret[f]) + 1] = 0
      /\ \A h \in Fibers : \A i \in 1..Len(ret[h]) : ret'[h][i] = ret[h][i]
  BY <1>1, <1>2, RetPushed DEF Addresses0, IntoFunction
<1>4. Typed'
  BY <1>1, <1>2, <1>3 DEF Typed, Addresses0
<1>5. /\ Depth' = Depth /\ SameLoops /\ \A i \in 1..(Depth + 1) : Base(i)' = Base(i)
      /\ Nested' /\ Base(Depth + 1)' = Base(Depth + 1) /\ (Native' <=> Native)
  BY <1>1, <1>2, SameStack
<1>6. ASSUME NEW h \in Fibers, NEW i \in 1..Len(ret'[h])
      PROVE  \/ i \in 1..Len(ret[h]) /\ ret'[h][i] = ret[h][i]
             \/ ret'[h][i] = 0
  <2>1. Len(ret[h]) \in Nat
    BY <1>2 DEF Elements
  <2>2. CASE h # f
    BY <1>3, <2>2
  <2>3. CASE h = f
    <3>1. i \in 1..Len(ret[h]) \/ i = Len(ret[h]) + 1
      BY <1>3, <2>1, <2>3
    <3>. QED
      BY <1>3, <2>3, <3>1
  <2>. QED
    BY <2>2, <2>3
<1>7. Addresses'
  <2>1. ASSUME NEW h \in Fibers, NEW i \in 1..Len(ret'[h])
        PROVE  /\ ret'[h][i] = ReturnFromFiber => i = 1 /\ h # Main
               /\ ret'[h][i] > 0 => /\ ret'[h][i] \in 1..Depth' /\ Returns(ret[h][i])'
                                    /\ Base(ret[h][i])' = h
                                    /\ \A j \in 1..(i - 1) : ret'[h][j] < ret'[h][i]
    <3>1. CASE ret'[h][i] = 0
      BY <3>1 DEF ReturnFromFiber
    <3>2. CASE i \in 1..Len(ret[h]) /\ ret'[h][i] = ret[h][i]
      <4>1. PICK d \in Int : d = ret[h][i]
        BY <1>2, <3>2 DEF Elements
      <4>2. ret[h][i] > 0 => /\ d \in 1..Depth /\ Returns(d) /\ Base(d) = h
        BY <3>2, <4>1 DEF Addresses
      <4>3. d \in 1..Depth => Returns(d)' = Returns(d) /\ Base(d)' = Base(d)
        BY <1>1, <1>2, <1>5 DEF Returns, Elements
      <4>4. ret[h][i] > 0 => Returns(ret'[h][i]) /\ cstack' = cstack /\ Base(ret'[h][i]) = h
        BY <1>1, <3>2, <4>1, <4>2
      <4>5. ret[h][i] > 0 => \A j \in 1..(i - 1) : ret'[h][j] < ret'[h][i]
        <5>1. \A j \in 1..(i - 1) : j \in 1..Len(ret[h])
          BY <1>2, <3>2 DEF Elements
        <5>. QED
          BY <1>3, <3>2, <5>1 DEF Addresses
      <4>6. ret[h][i] > 0 => Returns(ret[h][i])' /\ Base(ret[h][i])' = h
        BY <4>4 DEF Returns, Base
      <4>. QED
        BY <1>5, <3>2, <4>5, <4>6 DEF Addresses
    <3>. QED
      BY <1>6, <3>1, <3>2
  <2>2. ret'[Main] # <<>> => ret'[Main][1] > 0
    <3>1. Main \in Fibers
      BY FibersAssumption
    <3>2. CASE f = Main
      <4>1. ret[Main] # <<>>
        BY <1>1, <3>1, <3>2, MainCalled
      <4>2. 1 \in 1..Len(ret[Main])
        BY <1>2, <3>1, <4>1 DEF Elements
      <4>. QED
        BY <1>3, <3>1, <4>1, <4>2 DEF Addresses
    <3>3. CASE f # Main
      BY <1>3, <3>1, <3>3 DEF Addresses
    <3>. QED
      BY <3>2, <3>3
  <2>. QED
    BY <2>1, <2>2 DEF Addresses
<1>8. Awaited'
  <2>1. ASSUME NEW h \in Fibers, NEW i \in 1..Len(ret[h])
        PROVE  i \in 1..Len(ret'[h]) /\ ret'[h][i] = ret[h][i]
    <3>1. Len(ret[h]) \in Nat /\ (Len(ret'[h]) = Len(ret[h]) \/ Len(ret'[h]) = Len(ret[h]) + 1)
      BY <1>2, <1>3 DEF Elements
    <3>. QED
      BY <1>3, <3>1
  <2>. QED
    BY <1>2, <1>4, <1>5, <2>1, AwaitedKept DEF Elements
<1>9. AtHome'
  <2>1. \A d \in 1..Depth' : d \in 1..Depth /\ cstack'[d] = cstack[d] /\ Base(d)' = Base(d)
    BY <1>1, <1>2, <1>5 DEF Elements
  <2>. QED
    BY <1>2, <1>4, <1>6, <2>1, AtHomeKept
<1>10. Hosted'
  BY <1>1, <1>2, <1>4, <1>5, HostedKept DEF Hosted, Elements
<1>11. Waiting' /\ Runner' /\ Family'
  BY <1>1, <1>5 DEF Waiting, Runner, Family
<1>. QED
  BY <1>1, <1>4, <1>5, <1>7, <1>8, <1>9, <1>10, <1>11

-----------------------------------------------------------------------------
(* Native code on the C stack.                                             *)

\* What may be pushed on the C stack
Nests(k, g) ==
  \/ k \in {"sort", "extern"} /\ Depth > 0 /\ cstack[Depth].kind \in LoopKinds
     /\ g = cstack[Depth].fiber
  \/ k \in {"call", "resume"} /\ (Depth = 0 \/ cstack[Depth].kind = "extern")
  \/ k = "compare" /\ Depth > 0 /\ cstack[Depth].kind = "sort"

\* Frames are pushed on the right ones.
LEMMA NestedPush ==
  ASSUME Typed, Nested, NEW k \in LoopKinds \cup {"sort", "extern"}, NEW g \in Fibers,
         cstack' = Append(cstack, [kind |-> k, fiber |-> g]), Nests(k, g)
  PROVE  Nested'
<1>1. /\ Depth' = Depth + 1 /\ \A i \in 1..Depth : cstack'[i] = cstack[i]
      /\ cstack'[Depth + 1].kind = k /\ cstack'[Depth + 1].fiber = g
      /\ Depth \in Nat
  BY PushEffect, Parts DEF Elements
<1>2. ASSUME NEW i \in 1..Depth'
      PROVE  /\ cstack'[i].kind \notin LoopKinds =>
                  i > 1 /\ cstack'[i - 1].kind \in LoopKinds /\ cstack'[i].fiber = cstack'[i - 1].fiber
             /\ cstack'[i].kind \in LoopKinds /\ i > 1 => cstack'[i - 1].kind \notin LoopKinds
             /\ cstack'[i].kind = "compare" <=> i > 1 /\ cstack'[i - 1].kind = "sort"
  <2>0. Depth \in Nat /\ Depth' = Depth + 1
    BY <1>1
  <2>1. CASE i \in 1..Depth
    <3>1. i > 1 => i - 1 \in 1..Depth
      BY <2>0, <2>1
    <3>2. cstack'[i] = cstack[i] /\ (i > 1 => cstack'[i - 1] = cstack[i - 1])
      BY <1>1, <2>1, <3>1
    <3>3. Nested
      OBVIOUS
    <3>. QED
      BY ONLY <2>1, <3>2, <3>3 DEF Nested, IsLoop
  <2>2. CASE i = Depth + 1
    <3>1. i - 1 = Depth /\ (i > 1 <=> Depth > 0) /\ (Depth > 0 => Depth \in 1..Depth)
      BY <2>0, <2>2
    <3>2. Depth > 0 => cstack'[i - 1] = cstack[Depth]
      BY <1>1, <3>1
    <3>3. cstack'[i].kind = k /\ cstack'[i].fiber = g
      BY <1>1, <2>2
    <3>4. Nests(k, g)
      OBVIOUS
    <3>. QED
      BY ONLY <3>1, <3>2, <3>3, <3>4 DEF Nests, LoopKinds
  <2>3. i \in 1..Depth \/ i = Depth + 1
    BY <2>0
  <2>. QED
    BY ONLY <2>1, <2>2, <2>3
<1>. QED
  BY <1>2 DEF Nested, IsLoop

\* The running fiber calls sort() or a native function.
LEMMA PushNative ==
  ASSUME IInv, alive[Main], NEW f \in Fibers, Runs(f), NEW k \in {"sort", "extern"},
         cstack' = Append(cstack, [kind |-> k, fiber |-> f]),
         UNCHANGED <<made, alive, parent, ip, ret, vmFiber, host>>
  PROVE  IInv' /\ alive'[Main]
<1>. USE DEF IInv, Sound
<1>1. Typed /\ Elements /\ k \in LoopKinds \cup {"sort", "extern"}
  BY Parts
<1>2. /\ f = vmFiber /\ f \in made /\ alive[f] /\ ip[f] = "code" /\ Depth \in Nat /\ Depth > 0
      /\ cstack[Depth].kind \in LoopKinds /\ cstack[Depth].fiber = f /\ Depth \in 1..Depth
      /\ ~Native /\ (host.active => f # host.current)
  BY RunsCode
<1>3. /\ cstack' \in Seq(Frame) /\ Depth' = Depth + 1
      /\ \A i \in 1..Depth : cstack'[i] = cstack[i]
      /\ cstack'[Depth + 1].kind = k /\ cstack'[Depth + 1].fiber = f
      /\ \A i \in 1..(Depth + 1) : Base(i)' = Base(i)
      /\ Base(Depth + 1)' = f
  BY <1>1, PushEffect
<1>4. Typed'
  BY <1>1, <1>3 DEF Typed
<1>5. SameLoops
  <2>1. \A i \in 1..Depth' : i <= Depth => i \in 1..Depth /\ i \in 1..(Depth + 1)
    BY <1>2, <1>3
  <2>. QED
    BY <1>3, <2>1 DEF SameLoops
<1>6. Nested'
  BY <1>1, <1>2, NestedPush DEF Nests
<1>7. cstack'[Depth + 1].kind \notin LoopKinds
  BY <1>3 DEF LoopKinds
<1>8. Addresses' /\ Awaited'
  <2>1. \A d \in 1..Depth' : d > Depth => d = Depth + 1
    BY <1>2, <1>3
  <2>2. \A d \in 1..Depth' : d > Depth => ~Returns(d)'
    BY <1>7, <2>1 DEF Returns, LoopKinds
  <2>. QED
    BY <1>1, <1>2, <1>3, <1>4, <1>5, <2>2, SameAddresses
<1>9. \A d \in 1..Depth' : d \in 1..Depth \/ d = Depth + 1
  BY <1>2, <1>3
<1>10. AtHome'
  <2>1. \A h \in Fibers : \A j \in 1..Len(ret'[h]) : j \in 1..Len(ret[h]) /\ ret'[h][j] = ret[h][j]
    OBVIOUS
  <2>2. \A d \in 1..Depth' : \/ d \in 1..Depth /\ cstack'[d] = cstack[d] /\ Base(d)' = Base(d)
                             \/ cstack'[d].kind \notin LoopKinds
    BY <1>2, <1>3, <1>7, <1>9
  <2>. QED
    BY <1>1, <1>4, <2>1, <2>2, AtHomeKept
<1>11. Hosted'
  <2>1. \A d \in 1..Depth' : d > Depth => cstack'[d].kind # "resume"
    <3>1. \A d \in 1..Depth' : d > Depth => d = Depth + 1
      BY <1>2, <1>3
    <3>. QED
      BY <1>3, <3>1
  <2>2. \A d \in 1..Depth : d <= Depth'
    BY <1>2, <1>3
  <2>3. \A i \in 1..Depth' : \/ i \in 1..Depth /\ cstack'[i].fiber = cstack[i].fiber
                             \/ host.active => cstack'[i].fiber # host.current
    BY <1>2, <1>3, <1>9
  <2>4. CASE host.active
    BY <1>1, <1>4, <1>5, <2>1, <2>2, <2>3, <2>4, HostedKept DEF Hosted
  <2>5. CASE ~host.active
    <3>1. \A d \in 1..Depth' : cstack'[d].kind # "resume"
      BY <1>2, <1>3, <1>9, <2>5 DEF Hosted
    <3>. QED
      BY <2>5, <3>1 DEF Hosted
  <2>. QED
    BY <2>4, <2>5
<1>12. Waiting'
  BY <1>2 DEF Waiting
<1>13. Runner'
  <2>1. Base(Depth + 1)' = vmFiber
    BY <1>2, <1>3
  <2>. QED
    BY <1>2, <1>3, <1>9, <2>1, ZenonT(30) DEF Runner
<1>14. Family'
  BY DEF Family
<1>. QED
  BY <1>4, <1>6, <1>8, <1>10, <1>11, <1>12, <1>13, <1>14

\* sort() is entered.
LEMMA SortStep ==
  ASSUME IInv, alive[Main], NEW f \in Fibers, Sort(f)
  PROVE  IInv' /\ alive'[Main]
BY PushNative DEF Sort

\* A native function is entered.
LEMMA ExternStep ==
  ASSUME IInv, alive[Main], NEW f \in Fibers, Extern(f)
  PROVE  IInv' /\ alive'[Main]
BY PushNative DEF Extern

\* Frames alternate after one is popped.
LEMMA NestedPop ==
  ASSUME Typed, Nested, Depth > 0, cstack' = Front(cstack)
  PROVE  Nested'
<1>1. Depth \in Nat /\ Depth' = Depth - 1 /\ \A i \in 1..(Depth - 1) : cstack'[i] = cstack[i]
  BY PopEffect, Parts DEF Elements
<1>2. \A i \in 1..Depth' : /\ i \in 1..Depth /\ cstack'[i] = cstack[i]
                           /\ i > 1 => cstack'[i - 1] = cstack[i - 1]
  BY <1>1
<1>. QED
  BY <1>2 DEF Nested, IsLoop

\* They return to the loop that called them.
LEMMA PopNative ==
  ASSUME IInv, alive[Main], Depth > 0, Top.kind \in {"sort", "extern"}, cstack' = Front(cstack),
         ip' \in [Fibers -> {"code", "vm"}],
         \A h \in Fibers : h # vmFiber => ip'[h] = ip[h],
         Top.kind = "sort" => ip'[vmFiber] = ip[vmFiber],
         Top.kind = "extern" => ip'[vmFiber] = "code",
         UNCHANGED <<made, alive, parent, ret, vmFiber, host>>
  PROVE  IInv' /\ alive'[Main]
<1>. USE DEF IInv, Sound
<1>1. Typed /\ Elements /\ Depth \in Nat /\ Depth \in 1..Depth /\ Top = cstack[Depth]
  BY Parts DEF Elements
<1>2. cstack[Depth].kind \notin LoopKinds /\ ~Returns(Depth) /\ cstack[Depth].kind # "resume"
  BY <1>1 DEF LoopKinds, Returns
<1>3. /\ Depth > 1 /\ IsLoop(Depth - 1) /\ cstack[Depth].fiber = cstack[Depth - 1].fiber
      /\ cstack[Depth].fiber = vmFiber
  BY <1>1, <1>2, WhoRuns DEF Nested, IsLoop
<1>4. /\ cstack' \in Seq(Frame) /\ Depth' = Depth - 1
      /\ \A i \in 1..(Depth - 1) : cstack'[i] = cstack[i]
      /\ \A i \in 1..Depth : Base(i)' = Base(i)
  BY <1>1, PopEffect
<1>5. Typed' /\ Nested'
  BY <1>1, <1>4, NestedPop DEF Typed
<1>6. \A i \in 1..Depth' : i \in 1..Depth /\ i \in 1..(Depth - 1) /\ i <= Depth
                           /\ cstack'[i] = cstack[i] /\ Base(i)' = Base(i)
  BY <1>1, <1>4
<1>7. SameLoops
  BY <1>6 DEF SameLoops
<1>8. \A d \in 1..Depth : d # Depth => d <= Depth'
  BY <1>1, <1>4
<1>9. Addresses'
  <2>1. ASSUME NEW h \in Fibers, NEW i \in 1..Len(ret[h]) PROVE ret[h][i] <= Depth'
    <3>1. ret[h][i] \in Int /\ Depth' \in Nat
      BY <1>1, <1>3, <1>4 DEF Elements
    <3>2. ret[h][i] > 0 => ret[h][i] \in 1..Depth /\ Returns(ret[h][i])
      BY DEF Addresses
    <3>. QED
      BY <1>2, <1>8, <3>1, <3>2
  <2>. QED
    BY <1>1, <1>5, <1>7, <2>1, AddressesKept DEF Elements
<1>10. Awaited'
  <2>1. \A d \in 1..Depth' : ~(d > Depth)
    BY <1>1, <1>4
  <2>. QED
    BY <1>1, <1>5, <1>7, <2>1, AwaitedKept
<1>11. AtHome'
  BY <1>1, <1>5, <1>6, AtHomeKept
<1>12. host.active => vmFiber # host.current
  <2>1. ASSUME host.active PROVE vmFiber # host.current
    <3>1. PICK d \in 1..Depth : cstack[d].kind = "resume"
      BY <2>1 DEF Hosted
    <3>2. Depth >= d
      BY <1>1
    <3>. QED
      BY <1>1, <1>3, <3>1, <3>2 DEF Hosted
  <2>. QED
    BY <2>1
<1>13. Hosted'
  <2>1. \A d \in 1..Depth : cstack[d].kind = "resume" => d <= Depth'
    BY <1>1, <1>2, <1>8
  <2>2. \A d \in 1..Depth' : ~(d > Depth)
    BY <1>1, <1>4
  <2>3. host.active => ip'[host.current] = "vm"
    BY <1>12, WhoRuns DEF Hosted
  <2>. QED
    BY <1>1, <1>5, <1>6, <1>7, <2>1, <2>2, <2>3, HostedKept DEF Hosted
<1>14. Waiting'
  <2>1. ASSUME NEW h \in Fibers, ip'[h] = "vm" PROVE host.active /\ h = host.current
    <3>1. CASE h # vmFiber
      BY <2>1, <3>1 DEF Waiting
    <3>2. CASE h = vmFiber
      <4>1. Top.kind = "sort" /\ ip[h] = "vm"
        BY <2>1, <3>2
      <4>2. ~Native
        BY <4>1 DEF Native
      <4>. QED
        BY <4>1, <4>2 DEF Waiting
    <3>. QED
      BY <3>1, <3>2
  <2>. QED
    BY <2>1 DEF Waiting
<1>15. Runner'
  <2>1. (Depth + 1) # 1 /\ Depth # 1 /\ (Depth + 1) - 1 = Depth /\ Depth' + 1 = Depth
    BY <1>1, <1>3, <1>4
  <2>2. Depth' = Depth - 1 /\ Depth - 1 \in 1..(Depth - 1)
    BY <1>1, <1>3, <1>4
  <2>3. Base(Depth + 1)' = vmFiber
    <3>1. cstack'[Depth'] = cstack[Depth - 1]
      BY <1>4, <2>2
    <3>2. Depth' + 1 # 1 /\ (Depth' + 1) - 1 = Depth'
      BY <2>1, <2>2
    <3>. QED
      BY <1>3, <3>1, <3>2 DEF Base
  <2>. QED
    BY <1>6, <2>3 DEF Runner
<1>16. Family'
  BY DEF Family
<1>. QED
  BY <1>5, <1>9, <1>10, <1>11, <1>13, <1>14, <1>15, <1>16

\* sort() returns.
LEMMA SortDoneStep ==
  ASSUME IInv, alive[Main], SortDone
  PROVE  IInv' /\ alive'[Main]
<1>1. ip' = ip /\ ip \in [Fibers -> {"code", "vm"}]
  BY DEF SortDone, IInv, Typed
<1>. QED
  BY <1>1, PopNative DEF SortDone

\* A native function returns.
LEMMA ExternReturnsStep ==
  ASSUME IInv, alive[Main], ExternReturns
  PROVE  IInv' /\ alive'[Main]
<1>1. Top.fiber = vmFiber /\ vmFiber \in Fibers /\ ip \in [Fibers -> {"code", "vm"}]
  BY WhoRuns DEF ExternReturns, IInv, Typed
<1>2. /\ ip' \in [Fibers -> {"code", "vm"}] /\ ip'[vmFiber] = "code"
      /\ \A h \in Fibers : h # vmFiber => ip'[h] = ip[h]
  BY <1>1 DEF ExternReturns
<1>. QED
  BY <1>2, PopNative DEF ExternReturns

-----------------------------------------------------------------------------
(* C code calls vmLoop.                                                    *)

\* The fiber that waits for a host resume is not vm->fiber.
LEMMA NotWaiting ==
  ASSUME IInv, alive[Main], host.active
  PROVE  vmFiber # host.current
<1>. USE DEF IInv, Sound
<1>1. Typed /\ Elements /\ Hosted /\ Depth \in Nat
  BY Parts DEF Elements
<1>2. PICK d \in 1..Depth : cstack[d].kind = "resume"
  BY <1>1 DEF Hosted
<1>3. Depth \in 1..Depth /\ Depth >= d /\ Depth > 0
  BY <1>1
<1>4. cstack[Depth].fiber # host.current
  BY <1>1, <1>2, <1>3 DEF Hosted
<1>. QED
  BY <1>3, <1>4, WhoRuns

\* A call, with the return address RETURN_FROM_VM.
LEMMA PushReturning ==
  ASSUME IInv, alive[Main], NEW k \in {"call", "compare"}, Nests(k, vmFiber),
         cstack' = Append(cstack, [kind |-> k, fiber |-> vmFiber]),
         ret' = [ret EXCEPT ![vmFiber] = Append(@, Depth + 1)],
         ip' = [ip EXCEPT ![vmFiber] = "code"],
         UNCHANGED <<made, alive, parent, vmFiber, host>>
  PROVE  IInv' /\ alive'[Main]
<1>. USE DEF IInv, Sound
<1>0. Depth \in Nat /\ Depth + 1 \in Nat \ {0} /\ Depth + 1 \in Addresses0
  <2>1. Depth \in Nat
    BY Parts DEF Elements
  <2>. QED
    BY <2>1 DEF Addresses0
<1>1. /\ Typed /\ Elements /\ k \in LoopKinds \cup {"sort", "extern"} /\ k \in LoopKinds
      /\ k # "resume"
  BY Parts DEF LoopKinds
<1>2. vmFiber \in Fibers /\ vmFiber \in made /\ alive[vmFiber] /\ vmFiber = Base(Depth + 1)
  BY WhoRuns DEF Runner
<1>3. /\ cstack' \in Seq(Frame) /\ Depth' = Depth + 1
      /\ \A i \in 1..Depth : cstack'[i] = cstack[i]
      /\ cstack'[Depth + 1].kind = k /\ cstack'[Depth + 1].fiber = vmFiber
      /\ \A i \in 1..(Depth + 1) : Base(i)' = Base(i)
      /\ Base(Depth + 1)' = vmFiber
  BY <1>1, <1>2, PushEffect
<1>4. /\ ret' \in [Fibers -> Seq(Addresses0)]
      /\ \A h \in Fibers : h # vmFiber => ret'[h] = ret[h]
      /\ Len(ret'[vmFiber]) = Len(ret[vmFiber]) + 1
      /\ ret'[vmFiber][Len(ret[vmFiber]) + 1] = Depth + 1
      /\ \A h \in Fibers : \A i \in 1..Len(ret[h]) : ret'[h][i] = ret[h][i]
  BY <1>0, <1>1, <1>2, RetPushed, ZenonT(30)
<1>5. /\ ip' \in [Fibers -> {"code", "vm"}] /\ ip'[vmFiber] = "code"
      /\ \A h \in Fibers : h # vmFiber => ip'[h] = ip[h]
  BY <1>1, <1>2 DEF Typed
<1>6. Typed' /\ Nested'
  BY <1>1, <1>2, <1>3, <1>4, <1>5, NestedPush DEF Typed, Addresses0
<1>7. \A d \in 1..Depth' : d \in 1..Depth \/ d = Depth + 1
  BY <1>0, <1>3
<1>8. PICK e \in Nat \ {0} : e = Depth + 1
  BY <1>0
<1>9. /\ Depth' = e /\ cstack'[e].kind = k /\ cstack'[e].fiber = vmFiber /\ Base(e)' = vmFiber
      /\ Returns(e)'
  <2>1. e \in 1..(Depth + 1)
    BY <1>0, <1>8
  <2>2. Base(e)' = Base(e) /\ Base(e) = vmFiber
    BY <1>2, <1>3, <1>8, <2>1
  <2>. QED
    BY <1>3, <1>8, <2>2 DEF Returns
<1>10. SameLoops
  <2>1. \A i \in 1..Depth' : i <= Depth => i \in 1..Depth /\ i \in 1..(Depth + 1)
    BY <1>0, <1>3
  <2>. QED
    BY <1>3, <2>1 DEF SameLoops
<1>11. ASSUME NEW h \in Fibers, NEW i \in 1..Len(ret'[h])
       PROVE  \/ i \in 1..Len(ret[h]) /\ ret'[h][i] = ret[h][i]
              \/ h = vmFiber /\ i = Len(ret[h]) + 1 /\ ret'[h][i] = e
  <2>1. Len(ret[h]) \in Nat
    BY <1>1 DEF Elements
  <2>2. CASE h # vmFiber
    BY <1>4, <2>2
  <2>3. CASE h = vmFiber
    <3>1. i \in 1..Len(ret[h]) \/ i = Len(ret[h]) + 1
      BY <1>4, <2>1, <2>3
    <3>. QED
      BY <1>4, <1>8, <2>3, <3>1
  <2>. QED
    BY <2>2, <2>3
<1>12. \A h \in Fibers : \A i \in 1..Len(ret[h]) : ret[h][i] \in Int /\ ret[h][i] < e
  <2>1. ASSUME NEW h \in Fibers, NEW i \in 1..Len(ret[h]) PROVE ret[h][i] \in Int /\ ret[h][i] < e
    <3>1. ret[h][i] \in Int /\ (ret[h][i] > 0 => ret[h][i] \in 1..Depth)
      BY <1>1 DEF Elements, Addresses
    <3>. QED
      BY <1>0, <1>8, <3>1
  <2>. QED
    BY <2>1
<1>13. Addresses'
  <2>1. ASSUME NEW h \in Fibers, NEW i \in 1..Len(ret'[h])
        PROVE  /\ ret'[h][i] = ReturnFromFiber => i = 1 /\ h # Main
               /\ ret'[h][i] > 0 => /\ ret'[h][i] \in 1..Depth' /\ Returns(ret[h][i])'
                                    /\ Base(ret[h][i])' = h
                                    /\ \A j \in 1..(i - 1) : ret'[h][j] < ret'[h][i]
    <3>0. Len(ret[h]) \in Nat /\ i \in Nat
      BY <1>1 DEF Elements
    <3>1. CASE i \in 1..Len(ret[h]) /\ ret'[h][i] = ret[h][i]
      <4>1. PICK d \in Int : d = ret[h][i]
        BY <1>1, <3>1 DEF Elements
      <4>2. d = ReturnFromFiber => i = 1 /\ h # Main
        BY <3>1, <4>1 DEF Addresses
      <4>3. ASSUME d > 0
            PROVE  /\ d \in 1..Depth' /\ Returns(d)' /\ Base(d)' = h
                   /\ \A j \in 1..(i - 1) : ret'[h][j] < d
        <5>1. d \in 1..Depth /\ Returns(d) /\ Base(d) = h /\ \A j \in 1..(i - 1) : ret[h][j] < d
          BY <3>1, <4>1, <4>3 DEF Addresses
        <5>2. d \in 1..Depth' /\ d <= Depth
          BY <1>0, <1>3, <5>1
        <5>3. Returns(d)' /\ Base(d)' = h
          BY <1>10, <5>1, <5>2 DEF SameLoops, Returns
        <5>4. \A j \in 1..(i - 1) : j \in 1..Len(ret[h])
          BY <3>0, <3>1
        <5>. QED
          BY <1>4, <5>1, <5>2, <5>3, <5>4
      <4>. QED
        BY <3>1, <4>1, <4>2, <4>3 DEF Returns, Base
    <3>2. CASE h = vmFiber /\ i = Len(ret[h]) + 1 /\ ret'[h][i] = e
      <4>1. ret'[h][i] # ReturnFromFiber /\ ret'[h][i] > 0 /\ e \in 1..Depth'
        BY <1>8, <1>9, <3>2 DEF ReturnFromFiber
      <4>2. Returns(ret[h][i])' /\ Base(ret[h][i])' = h
        BY <1>9, <3>2 DEF Returns, Base
      <4>3. \A j \in 1..(i - 1) : j \in 1..Len(ret[h])
        BY <3>0, <3>2
      <4>4. \A j \in 1..(i - 1) : ret'[h][j] < ret'[h][i]
        BY <1>4, <1>12, <3>2, <4>3
      <4>. QED
        BY <3>2, <4>1, <4>2, <4>4
    <3>. QED
      BY <1>11, <3>1, <3>2
  <2>2. ret'[Main] # <<>> => ret'[Main][1] > 0
    <3>1. Main \in Fibers /\ (ret[Main] = <<>> <=> Len(ret[Main]) = 0) /\ Len(ret[Main]) \in Nat
      BY <1>1, FibersAssumption DEF Elements
    <3>2. CASE ret[Main] = <<>>
      <4>1. Len(ret[Main]) + 1 = 1
        BY <3>1, <3>2
      <4>2. CASE vmFiber = Main
        BY <1>4, <1>8, <4>1, <4>2
      <4>3. CASE vmFiber # Main
        BY <1>4, <3>1, <3>2, <4>3
      <4>. QED
        BY <4>2, <4>3
    <3>3. CASE ret[Main] # <<>>
      <4>1. 1 \in 1..Len(ret[Main])
        BY <3>1, <3>3
      <4>. QED
        BY <1>4, <3>1, <3>3, <4>1 DEF Addresses
    <3>. QED
      BY <3>2, <3>3
  <2>. QED
    BY <2>1, <2>2 DEF Addresses
<1>14. Awaited'
  <2>1. ASSUME NEW h \in Fibers, NEW i \in 1..Len(ret[h])
        PROVE  i \in 1..Len(ret'[h]) /\ ret'[h][i] = ret[h][i]
    <3>1. Len(ret[h]) \in Nat /\ (Len(ret'[h]) = Len(ret[h]) \/ Len(ret'[h]) = Len(ret[h]) + 1)
      BY <1>1, <1>4 DEF Elements
    <3>. QED
      BY <1>4, <3>1
  <2>2. ASSUME NEW d \in 1..Depth', d > Depth
        PROVE  \E i \in 1..Len(ret'[Base(d)']) : ret'[Base(d)'][i] = d
    <3>1. d = e
      BY <1>0, <1>3, <1>8, <2>2
    <3>2. Len(ret[vmFiber]) + 1 \in 1..Len(ret'[vmFiber])
      <4>1. Len(ret[vmFiber]) \in Nat
        BY <1>1, <1>2 DEF Elements
      <4>. QED
        BY <1>4, <4>1
    <3>. QED
      BY <1>4, <1>8, <1>9, <3>1, <3>2
  <2>. QED
    BY <1>1, <1>6, <1>10, <2>1, <2>2, AwaitedKept
<1>15. AtHome'
  <2>1. \A h \in Fibers : \A j \in 1..Len(ret'[h]) :
           \/ j \in 1..Len(ret[h]) /\ ret'[h][j] = ret[h][j]
           \/ ret'[h][j] = Depth'
    BY <1>9, <1>11
  <2>2. \A d \in 1..Depth' : \/ d \in 1..Depth /\ cstack'[d] = cstack[d] /\ Base(d)' = Base(d)
                             \/ Returns(d)' /\ Base(d)' = cstack'[d].fiber
    <3>1. \A d \in 1..Depth : d \in 1..(Depth + 1)
      BY <1>0
    <3>2. Returns(e)' /\ Base(e)' = cstack'[e].fiber
      BY <1>9
    <3>. QED
      BY <1>3, <1>7, <1>8, <3>1, <3>2
  <2>. QED
    BY <1>1, <1>6, <2>1, <2>2, AtHomeKept
<1>16. Hosted'
  <2>0. \A d \in 1..Depth' : cstack'[d].kind = "resume" => d \in 1..Depth /\ cstack[d].kind = "resume"
    BY <1>1, <1>3, <1>7
  <2>1. \A d \in 1..Depth' : d > Depth => cstack'[d].kind # "resume"
    <3>1. \A d \in 1..Depth : ~(d > Depth)
      BY <1>0
    <3>. QED
      BY ONLY <2>0, <3>1
  <2>2. \A d \in 1..Depth : d <= Depth'
    BY <1>0, <1>3
  <2>3. \A i \in 1..Depth' : \/ i \in 1..Depth /\ cstack'[i].fiber = cstack[i].fiber
                             \/ cstack'[i].fiber = vmFiber
    BY <1>3, <1>7
  <2>4. CASE host.active
    <3>1. vmFiber # host.current /\ host.current \in Fibers
      BY <2>4, NotWaiting, WhoRuns
    <3>2. /\ ip'[host.current] = "vm" /\ host.fiber \in made' /\ alive'[host.fiber]
          /\ parent'[host.fiber] = Boundary
      BY <1>5, <2>4, <3>1 DEF Hosted
    <3>3. \A i \in 1..Depth' : \/ i \in 1..Depth /\ cstack'[i].fiber = cstack[i].fiber
                               \/ cstack'[i].fiber # host.current
      BY <2>3, <3>1
    <3>. QED
      BY <1>1, <1>6, <1>10, <2>1, <2>2, <3>2, <3>3, HostedKept
  <2>5. CASE ~host.active
    <3>1. \A d \in 1..Depth' : cstack'[d].kind # "resume"
      BY <2>0, <2>5 DEF Hosted
    <3>. QED
      BY <2>5, <3>1 DEF Hosted
  <2>. QED
    BY <2>4, <2>5
<1>17. Waiting'
  BY <1>5 DEF Waiting
<1>18. Runner'
  <2>1. Base(Depth + 1)' = vmFiber
    BY <1>3
  <2>2. ASSUME NEW i \in 1..Depth' PROVE cstack'[i].fiber \in made /\ alive[cstack'[i].fiber]
    BY <1>2, <1>3, <1>7, ZenonT(30) DEF Runner
  <2>. QED
    BY <2>1, <2>2 DEF Runner
<1>19. Family'
  BY DEF Family
<1>. QED
  BY <1>6, <1>13, <1>14, <1>15, <1>16, <1>17, <1>18, <1>19

\* sort() calls its comparison.
LEMMA CompareStep ==
  ASSUME IInv, alive[Main], Compare
  PROVE  IInv' /\ alive'[Main]
<1>1. Top.fiber = vmFiber /\ Top = cstack[Depth] /\ Depth > 0 /\ cstack[Depth].kind = "sort"
  BY WhoRuns DEF Compare
<1>2. Nests("compare", vmFiber) /\ "compare" \in {"call", "compare"}
  BY <1>1 DEF Nests
<1>. QED
  BY <1>1, <1>2, PushReturning DEF Compare

\* umkaCall() from native code or the host.
LEMMA HostCallStep ==
  ASSUME IInv, alive[Main], HostCall
  PROVE  IInv' /\ alive'[Main]
<1>1. Depth \in Nat /\ (Depth > 0 => cstack[Depth].kind = "extern")
  BY WhoRuns, Parts DEF HostCall, Native, IInv, Elements
<1>2. Nests("call", vmFiber) /\ "call" \in {"call", "compare"}
  BY <1>1 DEF Nests
<1>. QED
  BY <1>2, PushReturning DEF HostCall

\* umkaResumeFiber(): the fiber that was running waits, and a loop begins with its child.
LEMMA HostResumeStep ==
  ASSUME ~YieldInNested, IInv, alive[Main], NEW c \in Fibers, HostResume(c)
  PROVE  IInv' /\ alive'[Main]
<1>. USE DEF IInv, Sound
<1>0. /\ Native /\ ~host.active /\ c \in made /\ alive[c] /\ ip[vmFiber] = "vm" /\ c # vmFiber
      /\ parent[c] = vmFiber /\ StaysInLoop(c)
      /\ host' = [active |-> TRUE, fiber |-> c, parent |-> parent[c], current |-> vmFiber]
      /\ parent' = [parent EXCEPT ![c] = Boundary] /\ vmFiber' = c
      /\ cstack' = Append(cstack, [kind |-> "resume", fiber |-> c])
      /\ UNCHANGED <<made, alive, ip, ret>>
  BY DEF HostResume, Resumable
<1>1. /\ Typed /\ Elements /\ "resume" \in LoopKinds \cup {"sort", "extern"}
      /\ "resume" \in LoopKinds /\ Depth \in Nat
  BY Parts DEF LoopKinds, Elements
<1>2. /\ vmFiber \in Fibers /\ vmFiber \in made /\ alive[vmFiber] /\ vmFiber = Base(Depth + 1)
      /\ c # Main
  BY <1>0, WhoRuns, FibersAssumption DEF Runner, Family
<1>3. /\ host'.active /\ host'.fiber = c /\ host'.parent = vmFiber /\ host'.current = vmFiber
      /\ host' \in [active : BOOLEAN, fiber : AnyFiber, parent : AnyFiber, current : AnyFiber]
  BY <1>0, <1>2 DEF AnyFiber
<1>4. /\ cstack' \in Seq(Frame) /\ Depth' = Depth + 1
      /\ \A i \in 1..Depth : cstack'[i] = cstack[i]
      /\ cstack'[Depth + 1].kind = "resume" /\ cstack'[Depth + 1].fiber = c
      /\ \A i \in 1..(Depth + 1) : Base(i)' = Base(i)
      /\ Base(Depth + 1)' = c
  BY <1>0, <1>1, PushEffect
<1>5. /\ parent' \in [Fibers -> AnyFiber] /\ parent'[c] = Boundary
      /\ \A h \in Fibers : h # c => parent'[h] = parent[h]
  BY <1>0, <1>1 DEF Typed, AnyFiber
<1>6. Typed'
  BY <1>0, <1>1, <1>3, <1>4, <1>5 DEF Typed
<1>7. Depth = 0 \/ cstack[Depth].kind = "extern"
  BY <1>0, <1>1 DEF Native, Elements
<1>8. Nested'
  BY <1>0, <1>1, <1>7, NestedPush DEF Nests
<1>9. \A j \in 1..Len(ret[c]) : ret[c][j] <= 0
  <2>1. Home(c) = {ret[c][i] : i \in DOMAIN ret[c]} \ {IntoFunction, ReturnFromFiber}
    BY <1>0 DEF Home
  <2>2. ASSUME NEW j \in 1..Len(ret[c]), ret[c][j] > 0 PROVE FALSE
    <3>1. ret[c][j] \in Home(c)
      BY <1>1, <2>1, <2>2 DEF Elements, IntoFunction, ReturnFromFiber
    <3>2. Depth \in Home(c)
      BY <1>0, <3>1 DEF StaysInLoop
    <3>3. PICK i \in 1..Len(ret[c]) : ret[c][i] = Depth /\ Depth # 0
      BY <1>1, <2>1, <3>2 DEF Elements, IntoFunction
    <3>4. Depth > 0
      BY <1>1, <3>3
    <3>5. Returns(Depth)
      BY <3>3, <3>4 DEF Addresses
    <3>. QED
      BY <1>7, <3>3, <3>5 DEF Returns
  <2>3. \A j \in 1..Len(ret[c]) : ret[c][j] \in Int
    BY <1>1 DEF Elements
  <2>. QED
    BY <2>2, <2>3
<1>10. \A d \in 1..Depth' : d \in 1..Depth \/ d = Depth + 1
  BY <1>1, <1>4
<1>11. \A d \in 1..Depth : d \in 1..(Depth + 1) /\ d <= Depth /\ d <= Depth' /\ ~(d > Depth)
  BY <1>1, <1>4
<1>12. PICK e \in Nat \ {0} : e = Depth + 1
  BY <1>1
<1>13. e \in 1..Depth' /\ Base(e)' = vmFiber /\ ~(e <= Depth)
  <2>1. e \in 1..(Depth + 1)
    BY <1>1, <1>12
  <2>. QED
    BY <1>1, <1>2, <1>4, <1>12, <2>1
<1>14. SameLoops
  BY <1>4, <1>10, <1>11, <1>12, <1>13 DEF SameLoops
<1>15. Addresses' /\ Awaited'
  <2>1. \A d \in 1..Depth' : d > Depth => ~Returns(d)'
    <3>1. \A d \in 1..Depth' : d > Depth => d = e
      BY <1>10, <1>11, <1>12
    <3>2. ~Returns(e)'
      BY <1>4, <1>12 DEF Returns
    <3>. QED
      BY <3>1, <3>2 DEF Returns
  <2>2. Depth' >= Depth
    BY <1>1, <1>4
  <2>. QED
    BY <1>0, <1>1, <1>6, <1>14, <2>1, <2>2, SameAddresses
<1>16. AtHome'
  <2>1. \A h \in Fibers : \A j \in 1..Len(ret'[h]) : j \in 1..Len(ret[h]) /\ ret'[h][j] = ret[h][j]
    BY <1>0
  <2>2. \A d \in 1..Depth' :
          \/ d \in 1..Depth /\ cstack'[d] = cstack[d] /\ Base(d)' = Base(d)
          \/ \A j \in 1..Len(ret'[cstack'[d].fiber]) : ret'[cstack'[d].fiber][j] \in 1..(d - 1) =>
               Returns(d)' /\ Base(d)' = cstack'[d].fiber
    <3>1. \A j \in 1..Len(ret'[c]) : ~(ret'[c][j] \in 1..(e - 1))
      BY <1>0, <1>9
    <3>. QED
      BY <1>4, <1>10, <1>11, <1>12, <3>1
  <2>. QED
    BY <1>1, <1>6, <2>1, <2>2, AtHomeKept
<1>17. Hosted'
  <2>1. \A d \in 1..Depth' : cstack'[d].kind = "resume" => d = e
    BY <1>0, <1>4, <1>10, <1>12 DEF Hosted
  <2>2. cstack'[e].kind = "resume" /\ cstack'[e].fiber = c
    BY <1>4, <1>12
  <2>3. \A i \in 1..Depth' : i >= e => i = e
    BY <1>4, <1>12
  <2>4. c \in made' \ {Main} /\ alive'[c] /\ ip'[vmFiber] = "vm"
    BY <1>0, <1>2
  <2>5. /\ \E d \in 1..Depth' : cstack'[d].kind = "resume"
        /\ ip'[host'.current] = "vm" /\ host'.parent = host'.current
        /\ host'.fiber \in made' \ {Main} /\ alive'[host'.fiber]
        /\ parent'[host'.fiber] = Boundary
    BY <1>3, <1>5, <1>13, <2>2, <2>4
  <2>6. ASSUME NEW d \in 1..Depth', cstack'[d].kind = "resume"
        PROVE  /\ host'.active /\ Base(d)' = host'.current
               /\ \A i \in 1..Depth' : i >= d => cstack'[i].fiber # host'.current
               /\ \A i \in 1..Depth' : cstack'[i].kind = "resume" => i = d
    BY <1>0, <1>3, <1>13, <2>1, <2>2, <2>3, <2>6
  <2>. QED
    BY <2>5, <2>6 DEF Hosted
<1>18. Waiting'
  <2>1. \A f \in Fibers : ip'[f] = "vm" => f = vmFiber
    BY <1>0 DEF Waiting
  <2>. QED
    BY <1>3, <2>1 DEF Waiting
<1>19. Runner'
  <2>1. Base(Depth + 1)' = vmFiber'
    BY <1>0, <1>4
  <2>2. ASSUME NEW i \in 1..Depth' PROVE cstack'[i].fiber \in made' /\ alive'[cstack'[i].fiber]
    <3>1. CASE i \in 1..Depth
      BY <1>0, <1>4, <3>1 DEF Runner
    <3>2. CASE i = Depth + 1
      BY <1>0, <1>4, <3>2
    <3>. QED
      BY <1>10, <3>1, <3>2
  <2>. QED
    BY <2>1, <2>2 DEF Runner
<1>20. Family'
  BY <1>0, <1>2, <1>3, <1>5, <1>6, FibersAssumption DEF Family, Typed
<1>. QED
  BY <1>0, <1>6, <1>8, <1>15, <1>16, <1>17, <1>18, <1>19, <1>20

-----------------------------------------------------------------------------
(* Control goes from a fiber to another.                                   *)

\* A fiber that an outer loop waits for is switched to only in the loop that began with it.
LEMMA HomeFound ==
  ASSUME ~YieldInNested, Typed, Addresses, NEW g \in Fibers, StaysInLoop(g),
         ~(host.active /\ g \in {Boundary, host.current}),
         NEW j \in 1..Len(ret[g]), ret[g][j] > 0
  PROVE  Depth \in 1..Depth /\ Returns(Depth) /\ Base(Depth) = g
<1>1. Elements
  BY Parts
<1>2. Home(g) = {ret[g][i] : i \in DOMAIN ret[g]} \ {IntoFunction, ReturnFromFiber}
  BY DEF Home
<1>3. ret[g][j] \in Home(g)
  BY <1>1, <1>2 DEF Elements, IntoFunction, ReturnFromFiber
<1>4. Depth \in Home(g)
  BY <1>3 DEF StaysInLoop
<1>5. PICK i \in 1..Len(ret[g]) : ret[g][i] = Depth /\ Depth # 0
  BY <1>1, <1>2, <1>4 DEF Elements, IntoFunction
<1>6. Depth > 0
  BY <1>1, <1>5 DEF Elements
<1>. QED
  BY <1>5, <1>6 DEF Addresses

\* Control goes back to the host only from the loop of the host resume.
LEMMA HostLoop ==
  ASSUME ~YieldInNested, Typed, Hosted, NEW g, StaysInLoop(g),
         host.active, g \in {Boundary, host.current}
  PROVE  Depth \in 1..Depth /\ cstack[Depth].kind = "resume"
<1>1. Elements
  BY Parts
<1>2. Home(g) = ResumeDepths
  BY DEF Home
<1>3. PICK d \in 1..Depth : cstack[d].kind = "resume"
  BY DEF Hosted
<1>4. d \in Home(g)
  BY <1>1, <1>2, <1>3 DEF ResumeDepths, Elements
<1>5. Depth \in Home(g)
  BY <1>4 DEF StaysInLoop
<1>. QED
  BY <1>1, <1>2, <1>5 DEF ResumeDepths, Elements

\* What a switch from f to t may do to who is alive, and to the return addresses
MayDie(f, t) ==
  /\ alive' \in [Fibers -> BOOLEAN] /\ alive'[Main]
  /\ \A h \in Fibers : alive'[h] => alive[h]
  /\ \A i \in 1..(Depth - 1) : alive'[cstack[i].fiber]
  /\ host.active /\ t # Boundary => alive'[host.fiber]
  /\ \A h \in made \ {Main} : alive'[h] /\ parent[h] # Boundary =>
       parent[h] \in made /\ alive'[parent[h]]

MayPop ==
  /\ ret' \in [Fibers -> Seq(Addresses0)]
  /\ \A h \in Fibers : Len(ret'[h]) <= Len(ret[h])
  /\ \A h \in Fibers : \A i \in 1..Len(ret'[h]) : ret'[h][i] = ret[h][i]
  /\ \A h \in Fibers : \A i \in 1..Len(ret[h]) : ret[h][i] > 0 => i \in 1..Len(ret'[h])

\* The loop goes on with t.
LEMMA GoesOn ==
  ASSUME ~YieldInNested, IInv, alive[Main], NEW f \in Fibers, Runs(f), NEW t \in Fibers,
         t \in made, alive'[t], ip[t] # "vm", StaysInLoop(t), MayDie(f, t), MayPop,
         cstack' = [cstack EXCEPT ![Depth].fiber = t], vmFiber' = t,
         UNCHANGED <<made, parent, ip, host>>
  PROVE  IInv' /\ alive'[Main]
<1>. USE DEF IInv, Sound
<1>1. /\ Typed /\ Elements /\ Depth \in Nat /\ Depth > 0 /\ Depth \in 1..Depth /\ ~Native
      /\ cstack[Depth].kind \in LoopKinds
  BY RunsCode, Parts
<1>2. /\ cstack' \in Seq(Frame) /\ Depth' = Depth
      /\ \A i \in 1..(Depth - 1) : cstack'[i] = cstack[i]
      /\ cstack'[Depth].kind = cstack[Depth].kind /\ cstack'[Depth].fiber = t
      /\ \A i \in 1..Depth : Base(i)' = Base(i)
      /\ Base(Depth + 1)' = t
  BY <1>1, SwitchEffect
<1>3. Typed' /\ alive'[Main]
  BY <1>1, <1>2 DEF Typed, MayDie, MayPop, Addresses0
<1>4. \A i \in 1..Depth : i \in 1..(Depth - 1) \/ i = Depth
  BY <1>1
<1>5. \A i \in 1..Depth : cstack'[i].kind = cstack[i].kind
  BY <1>2, <1>4
<1>6. Nested'
  <2>1. ASSUME NEW i \in 1..Depth
        PROVE  /\ cstack'[i].kind \notin LoopKinds =>
                    i > 1 /\ cstack'[i - 1].kind \in LoopKinds
                    /\ cstack'[i].fiber = cstack'[i - 1].fiber
               /\ cstack'[i].kind \in LoopKinds /\ i > 1 => cstack'[i - 1].kind \notin LoopKinds
               /\ cstack'[i].kind = "compare" <=> i > 1 /\ cstack'[i - 1].kind = "sort"
    <3>1. i > 1 => i - 1 \in 1..(Depth - 1)
      BY <1>1
    <3>2. i > 1 => cstack'[i - 1] = cstack[i - 1]
      BY <1>2, <3>1
    <3>3. cstack'[i].kind = cstack[i].kind /\ Nested
      BY <1>5
    <3>4. cstack'[i].kind \notin LoopKinds => cstack'[i] = cstack[i]
      BY <1>1, <1>2, <1>4
    <3>. QED
      BY ONLY <2>1, <3>2, <3>3, <3>4 DEF Nested, IsLoop
  <2>. QED
    BY <1>2, <2>1 DEF Nested, IsLoop
<1>7. SameLoops
  BY <1>2, <1>5 DEF SameLoops
<1>8. Addresses'
  <2>1. ASSUME NEW h \in Fibers, NEW i \in 1..Len(ret[h]) PROVE ret[h][i] <= Depth'
    <3>1. ret[h][i] \in Int /\ (ret[h][i] > 0 => ret[h][i] \in 1..Depth)
      BY <1>1 DEF Elements, Addresses
    <3>. QED
      BY <1>1, <1>2, <3>1
  <2>2. ASSUME NEW h \in Fibers, NEW i \in 1..Len(ret'[h]) PROVE ret[h][i] <= Depth'
    <3>1. Len(ret[h]) \in Nat /\ Len(ret'[h]) \in Nat /\ Len(ret'[h]) <= Len(ret[h])
      BY <1>1, <1>3, PartsNext DEF Elements, MayPop
    <3>. QED
      BY <2>1, <3>1
  <2>. QED
    BY <1>1, <1>3, <1>7, <2>2, AddressesKept DEF MayPop
<1>9. Awaited'
  <2>1. ASSUME NEW h \in Fibers, NEW i \in 1..Len(ret[h]), ret[h][i] \in 1..Depth'
        PROVE  i \in 1..Len(ret'[h]) /\ ret'[h][i] = ret[h][i]
    BY <2>1 DEF MayPop
  <2>2. \A d \in 1..Depth' : ~(d > Depth)
    BY <1>1, <1>2
  <2>. QED
    BY <1>1, <1>3, <1>7, <2>1, <2>2, AwaitedKept
<1>10. ~(host.active /\ t \in {Boundary, host.current})
  BY FibersAssumption DEF Hosted
<1>11. ASSUME NEW h \in Fibers, NEW j \in 1..Len(ret'[h])
       PROVE  j \in 1..Len(ret[h]) /\ ret'[h][j] = ret[h][j]
  <2>1. Len(ret[h]) \in Nat /\ Len(ret'[h]) \in Nat /\ Len(ret'[h]) <= Len(ret[h])
    BY <1>1, <1>3, PartsNext DEF Elements, MayPop
  <2>. QED
    BY <2>1 DEF MayPop
<1>12. AtHome'
  <2>1. ASSUME NEW j \in 1..Len(ret'[t]), ret'[t][j] \in 1..(Depth - 1)
        PROVE  Returns(Depth) /\ Base(Depth) = t
    <3>1. j \in 1..Len(ret[t]) /\ ret[t][j] > 0
      BY <1>11, <2>1
    <3>. QED
      BY <1>1, <1>10, <3>1, HomeFound
  <2>2. \A d \in 1..Depth' :
          \/ d \in 1..Depth /\ cstack'[d] = cstack[d] /\ Base(d)' = Base(d)
          \/ d = Depth /\ cstack'[d].fiber = t /\ cstack'[d].kind = cstack[d].kind /\ Base(d)' = Base(d)
    BY <1>2, <1>4
  <2>3. ASSUME NEW d \in 1..Depth', d = Depth, NEW j \in 1..Len(ret'[cstack'[d].fiber]),
               ret'[cstack'[d].fiber][j] \in 1..(d - 1)
        PROVE  Returns(d)' /\ Base(d)' = cstack'[d].fiber
    <3>1. Returns(Depth) /\ Base(Depth) = t /\ cstack'[d].fiber = t
      BY <1>2, <2>1, <2>3
    <3>. QED
      BY <1>1, <1>2, <2>3, <3>1 DEF Returns
  <2>. QED
    BY <1>1, <1>3, <1>11, <2>2, <2>3, AtHomeKept
<1>13. Hosted'
  <2>1. host.active => /\ ip'[host.current] = "vm"
                       /\ host.fiber \in made' /\ alive'[host.fiber]
                       /\ parent'[host.fiber] = Boundary
    BY FibersAssumption DEF Hosted, MayDie
  <2>2. \A d \in 1..Depth' : ~(d > Depth)
    BY <1>1, <1>2
  <2>3. \A d \in 1..Depth : d <= Depth'
    BY <1>1, <1>2
  <2>4. \A i \in 1..Depth' : \/ i \in 1..Depth /\ cstack'[i].fiber = cstack[i].fiber
                             \/ cstack'[i].fiber = t
    BY <1>2, <1>4
  <2>5. CASE host.active
    <3>1. t # host.current
      BY <1>10, <2>5
    <3>. QED
      BY <1>1, <1>3, <1>7, <2>1, <2>2, <2>3, <2>4, <2>5, <3>1, HostedKept
  <2>6. CASE ~host.active
    BY <1>2, <1>5, <2>6 DEF Hosted
  <2>. QED
    BY <2>5, <2>6
<1>14. Waiting'
  BY <1>1 DEF Waiting
<1>15. Runner'
  <2>1. ASSUME NEW i \in 1..Depth' PROVE cstack'[i].fiber \in made /\ alive'[cstack'[i].fiber]
    <3>1. CASE i \in 1..(Depth - 1)
      <4>1. cstack'[i] = cstack[i] /\ alive'[cstack[i].fiber] /\ i \in 1..Depth
        BY <1>2, <3>1 DEF MayDie
      <4>. QED
        BY <4>1 DEF Runner
    <3>2. CASE i = Depth
      BY <1>2, <3>2
    <3>. QED
      BY <1>2, <1>4, <3>1, <3>2
  <2>. QED
    BY <1>2, <2>1 DEF Runner
<1>16. Family'
  BY DEF Family, MayDie
<1>. QED
  BY <1>3, <1>6, <1>8, <1>9, <1>12, <1>13, <1>14, <1>15, <1>16

\* The loop of the host resume ends, and the fiber that was running before it goes on.
LEMMA GoesBack ==
  ASSUME IInv, alive[Main], NEW f \in Fibers, Runs(f), NEW t,
         host.active, Depth \in 1..Depth, cstack[Depth].kind = "resume",
         MayDie(f, t), MayPop,
         cstack' = Front(cstack), FinishHostFiberResume, UNCHANGED <<made, ip>>
  PROVE  IInv' /\ alive'[Main]
<1>. USE DEF IInv, Sound
<1>0. /\ parent' = [parent EXCEPT ![host.fiber] = host.parent] /\ vmFiber' = host.current
      /\ host' = NoHost
  BY DEF FinishHostFiberResume
<1>1. /\ Typed /\ Elements /\ Depth \in Nat /\ Depth > 0 /\ Depth \in 1..Depth /\ ~Native
      /\ cstack[Depth].kind \in LoopKinds /\ ~Returns(Depth)
  BY RunsCode, Parts DEF Returns
<1>2. /\ host.current \in made /\ host.current \in Fibers /\ host.parent = host.current
      /\ host.fiber \in made \ {Main} /\ host.fiber \in Fibers
      /\ Base(Depth) = host.current
  BY <1>1, WhoRuns DEF Hosted
<1>3. /\ cstack' \in Seq(Frame) /\ Depth' = Depth - 1
      /\ \A i \in 1..(Depth - 1) : cstack'[i] = cstack[i]
      /\ \A i \in 1..Depth : Base(i)' = Base(i)
  BY <1>1, PopEffect
<1>4. /\ parent' \in [Fibers -> AnyFiber] /\ parent'[host.fiber] = host.current
      /\ \A h \in Fibers : h # host.fiber => parent'[h] = parent[h]
  BY <1>0, <1>1, <1>2 DEF Typed, AnyFiber
<1>5. host' \in [active : BOOLEAN, fiber : AnyFiber, parent : AnyFiber, current : AnyFiber]
      /\ ~host'.active
  BY <1>0 DEF NoHost, AnyFiber
<1>6. Typed' /\ Nested' /\ alive'[Main]
  BY <1>0, <1>1, <1>2, <1>3, <1>4, <1>5, NestedPop DEF Typed, MayDie, MayPop, Addresses0
<1>7. \A i \in 1..Depth' : i \in 1..Depth /\ i \in 1..(Depth - 1) /\ i <= Depth /\ i # Depth
                           /\ cstack'[i] = cstack[i] /\ Base(i)' = Base(i)
  BY <1>1, <1>3
<1>8. SameLoops
  BY <1>7 DEF SameLoops
<1>9. ASSUME NEW h \in Fibers, NEW j \in 1..Len(ret'[h])
      PROVE  j \in 1..Len(ret[h]) /\ ret'[h][j] = ret[h][j]
  <2>1. Len(ret[h]) \in Nat /\ Len(ret'[h]) \in Nat /\ Len(ret'[h]) <= Len(ret[h])
    BY <1>1, <1>6, PartsNext DEF Elements, MayPop
  <2>. QED
    BY <2>1 DEF MayPop
<1>10. Addresses'
  <2>1. ASSUME NEW h \in Fibers, NEW i \in 1..Len(ret[h]) PROVE ret[h][i] <= Depth'
    <3>1. ret[h][i] \in Int /\ Depth' \in Int /\ Depth' >= 0
      BY <1>1, <1>3 DEF Elements
    <3>2. ret[h][i] > 0 => ret[h][i] \in 1..Depth /\ Returns(ret[h][i])
      BY DEF Addresses
    <3>3. \A d \in 1..Depth : d # Depth => d <= Depth'
      BY <1>1, <1>3
    <3>. QED
      BY <1>1, <3>1, <3>2, <3>3
  <2>2. \A h \in Fibers : \A i \in 1..Len(ret'[h]) : ret[h][i] <= Depth'
    BY <1>9, <2>1
  <2>. QED
    BY <1>1, <1>6, <1>8, <2>2, AddressesKept DEF MayPop
<1>11. Awaited'
  <2>1. ASSUME NEW h \in Fibers, NEW i \in 1..Len(ret[h]), ret[h][i] \in 1..Depth'
        PROVE  i \in 1..Len(ret'[h]) /\ ret'[h][i] = ret[h][i]
    BY <2>1 DEF MayPop
  <2>2. \A d \in 1..Depth' : ~(d > Depth)
    BY <1>1, <1>7
  <2>. QED
    BY <1>1, <1>6, <1>8, <2>1, <2>2, AwaitedKept
<1>12. AtHome'
  BY <1>1, <1>6, <1>7, <1>9, AtHomeKept
<1>13. Hosted'
  <2>1. \A d \in 1..Depth' : cstack'[d].kind # "resume"
    BY <1>1, <1>7 DEF Hosted
  <2>. QED
    BY <1>5, <2>1 DEF Hosted
<1>14. Native'
  <2>1. ASSUME Depth' > 0 PROVE Top'.kind = "extern"
    <3>1. Depth > 1 /\ Depth - 1 \in 1..(Depth - 1) /\ Depth - 1 \in 1..Depth
      BY <1>1, <1>3, <2>1
    <3>2. ~IsLoop(Depth - 1) /\ cstack[Depth - 1].kind # "sort"
      BY <1>1, <3>1 DEF Nested, IsLoop
    <3>3. cstack[Depth - 1].kind \in LoopKinds \cup {"sort", "extern"}
      <4>1. cstack[Depth - 1] \in Frame
        BY <1>1, <3>1 DEF Elements
      <4>. QED
        BY <4>1 DEF Frame
    <3>4. Top' = cstack[Depth - 1]
      <4>1. Elements'
        BY <1>6, PartsNext
      <4>2. Top' = cstack'[Depth']
        BY <2>1, <4>1 DEF Elements
      <4>. QED
        BY <1>3, <3>1, <4>2
    <3>. QED
      BY <3>2, <3>3, <3>4 DEF IsLoop
  <2>. QED
    BY <2>1 DEF Native
<1>15. Waiting'
  BY <1>0, <1>1, <1>14 DEF Waiting
<1>16. Runner'
  <2>1. Base(Depth + 1)' = host.current
    <3>1. Depth' + 1 = Depth
      BY <1>1, <1>3
    <3>2. PICK e \in 1..Depth : e = Depth
      BY <1>1
    <3>3. Base(e)' = host.current
      BY <1>2, <1>3, <3>2
    <3>4. e = 1 => Base(Depth + 1)' = Main /\ Base(e)' = Main
      BY <3>1, <3>2 DEF Base
    <3>5. e # 1 => Base(Depth + 1)' = cstack'[e - 1].fiber /\ Base(e)' = cstack'[e - 1].fiber
      BY <3>1, <3>2 DEF Base
    <3>. QED
      BY <3>3, <3>4, <3>5
  <2>2. ASSUME NEW i \in 1..Depth' PROVE cstack'[i].fiber \in made /\ alive'[cstack'[i].fiber]
    BY <1>7 DEF Runner, MayDie
  <2>. QED
    BY <1>0, <2>1, <2>2 DEF Runner
<1>17. alive'[host.current]
  <2>1. CASE Depth = 1
    BY <1>2, <1>6, <2>1 DEF Base
  <2>2. CASE Depth # 1
    <3>1. Depth - 1 \in 1..(Depth - 1)
      BY <1>1, <2>2
    <3>. QED
      BY <1>2, <2>2, <3>1 DEF Base, MayDie
  <2>. QED
    BY <2>1, <2>2
<1>18. Family'
  <2>1. parent'[Main] = NoFiber
    BY <1>2, <1>4, FibersAssumption DEF Family
  <2>2. \A h \in made : parent'[h] # Boundary
    <3>1. ASSUME NEW h \in made, h # host.fiber PROVE parent'[h] # Boundary
      <4>1. parent[h] # Boundary
        BY <3>1 DEF Family
      <4>. QED
        BY <1>1, <1>4, <3>1, <4>1 DEF Typed
    <3>. QED
      BY <1>2, <1>4, <3>1, FibersAssumption
  <2>3. ASSUME NEW h \in made \ {Main}, alive'[h]
        PROVE  parent'[h] \in made /\ alive'[parent'[h]]
    <3>1. CASE h = host.fiber
      BY <1>2, <1>4, <1>17, <3>1
    <3>2. CASE h # host.fiber
      BY <1>1, <1>4, <2>2, <2>3, <3>2 DEF MayDie, Typed
    <3>. QED
      BY <3>1, <3>2
  <2>. QED
    BY <2>1, <2>2, <2>3 DEF Family
<1>. QED
  BY <1>6, <1>10, <1>11, <1>12, <1>13, <1>15, <1>16, <1>18

\* The last loop goes on with another fiber.
LEMMA SwitchStep ==
  ASSUME ~YieldInNested, IInv, alive[Main], NEW f \in Fibers, Runs(f), NEW t,
         (t \in made /\ alive'[t]) \/ (t = Boundary /\ host.active),
         StaysInLoop(t), MayDie(f, t), MayPop, SwitchTo(t, alive'), UNCHANGED made
  PROVE  IInv' /\ alive'[Main]
<1>. USE DEF IInv, Sound
<1>1. Typed /\ Elements /\ ~Native /\ Depth > 0 /\ Top = cstack[Depth] /\ made \subseteq Fibers
  BY RunsCode, Parts DEF Typed
<1>2. CASE t # Boundary /\ ip[t] # "vm"
  <2>1. cstack' = [cstack EXCEPT ![Depth].fiber = t] /\ vmFiber' = t /\ UNCHANGED <<parent, ip, host>>
    BY <1>2 DEF SwitchTo, WaitsForHost
  <2>. QED
    BY <1>1, <1>2, <2>1, GoesOn
<1>3. CASE t = Boundary \/ ip[t] = "vm"
  <2>1. host.active /\ t \in {Boundary, host.current}
    <3>1. CASE t = Boundary
      BY <1>1, <3>1, FibersAssumption
    <3>2. CASE t # Boundary
      BY <1>1, <1>3, <3>2 DEF Waiting
    <3>. QED
      BY <3>1, <3>2
  <2>2. Depth \in 1..Depth /\ cstack[Depth].kind = "resume"
    BY <1>1, <2>1, HostLoop
  <2>3. LoopReturns(ip, t)
    BY <1>3 DEF SwitchTo, WaitsForHost
  <2>4. cstack' = Front(cstack) /\ FinishHostFiberResume /\ ip' = ip
    BY <1>1, <2>2, <2>3 DEF LoopReturns
  <2>. QED
    BY <2>1, <2>2, <2>4, GoesBack
<1>. QED
  BY <1>2, <1>3

\* resume(): the fiber that goes on.
LEMMA TargetFound ==
  ASSUME IInv, alive[Main], NEW f \in Fibers, Runs(f), NEW c \in (made \ {Main}) \cup {NoFiber}
  PROVE  \/ Target(f, c) \in made /\ alive[Target(f, c)]
         \/ Target(f, c) = Boundary /\ host.active
<1>1. f \in made /\ alive[f] /\ NoFiber \notin Fibers /\ made \subseteq Fibers
  BY RunsCode, FibersAssumption DEF IInv, Typed
<1>2. CASE c # NoFiber
  BY <1>1, <1>2 DEF Target
<1>3. CASE c = NoFiber /\ parent[f] # NoFiber
  <2>1. Target(f, c) = parent[f] /\ f # Main
    BY <1>3 DEF Target, IInv, Sound, Family
  <2>. QED
    BY <1>1, <2>1 DEF IInv, Sound, Family
<1>4. CASE c = NoFiber /\ parent[f] = NoFiber
  BY <1>1, <1>4 DEF Target
<1>. QED
  BY <1>2, <1>3, <1>4

\* A switch at which no fiber ends.
LEMMA NobodyDies ==
  ASSUME IInv, alive[Main], UNCHANGED <<alive, ret>>, NEW f, NEW t
  PROVE  MayDie(f, t) /\ MayPop
<1>. USE DEF IInv, Sound
<1>1. Typed /\ Elements
  BY Parts
<1>2. \A i \in 1..(Depth - 1) : alive[cstack[i].fiber]
  <2>1. \A i \in 1..(Depth - 1) : i \in 1..Depth
    BY <1>1 DEF Elements
  <2>. QED
    BY <2>1 DEF Runner
<1>3. MayDie(f, t)
  BY <1>1, <1>2 DEF MayDie, Typed, Hosted, Family
<1>4. MayPop
  BY <1>1 DEF MayPop, Typed, Addresses0, Elements
<1>. QED
  BY <1>3, <1>4

\* resume() of a fiber by another.
LEMMA ResumeStep ==
  ASSUME ~YieldInNested, IInv, alive[Main], NEW f \in Fibers,
         NEW c \in (made \ {Main}) \cup {NoFiber}, Resume(f, c)
  PROVE  IInv' /\ alive'[Main]
<1>. DEFINE t == Target(f, c)
<1>1. /\ Runs(f) /\ StaysInLoop(t) /\ SwitchTo(t, alive) /\ UNCHANGED <<made, alive, ret>>
  BY DEF Resume
<1>2. (t \in made /\ alive[t]) \/ (t = Boundary /\ host.active)
  BY <1>1, TargetFound
<1>. HIDE DEF t
<1>3. SwitchTo(t, alive')
  BY <1>1 DEF SwitchTo
<1>4. MayDie(f, t) /\ MayPop
  BY <1>1, NobodyDies
<1>. QED
  BY <1>1, <1>2, <1>3, <1>4, SwitchStep

-----------------------------------------------------------------------------
(* doReturn.                                                               *)

\* The topmost RETURN_FROM_VM of the running fiber is that of the topmost loop.
LEMMA LastMatches ==
  ASSUME IInv, alive[Main], NEW f \in Fibers, Runs(f), ret[f] # <<>>, Last(ret[f]) > 0
  PROVE  Last(ret[f]) = Depth /\ Returns(Depth) /\ Base(Depth) = f
<1>. USE DEF IInv, Sound
<1>1. /\ Typed /\ Elements /\ Depth \in Nat /\ Depth \in 1..Depth
      /\ IsLoop(Depth) /\ cstack[Depth].fiber = f
  BY Parts, RunsCode DEF IsLoop
<1>2. PICK n \in Nat \ {0} : n = Len(ret[f]) /\ Last(ret[f]) = ret[f][n]
  BY <1>1 DEF Elements
<1>3. PICK d \in 1..Depth : d = ret[f][n]
  BY <1>1, <1>2 DEF Addresses
<1>4. Returns(d) /\ Base(d) = f /\ \A j \in 1..(n - 1) : ret[f][j] < d
  BY <1>2, <1>3 DEF Addresses
<1>5. d = Depth
  <2>. SUFFICES ASSUME d # Depth PROVE FALSE
    OBVIOUS
  <2>1. d \in 1..(Depth - 1) /\ n \in 1..Len(ret[f])
    BY <1>1, <1>2
  <2>2. Returns(Depth) /\ Base(Depth) = f
    BY <1>1, <1>3, <2>1 DEF AtHome
  <2>3. PICK i \in 1..Len(ret[f]) : ret[f][i] = Depth
    BY <1>1, <2>2 DEF Awaited
  <2>4. i = n \/ i \in 1..(n - 1)
    BY <1>2
  <2>5. d < Depth
    BY <1>1, <2>1
  <2>. QED
    BY <1>1, <1>3, <1>4, <2>3, <2>4, <2>5
<1>. QED
  BY <1>2, <1>3, <1>4, <1>5

\* What is popped
Pops(f) == ret[f] # <<>> /\ ret' = [ret EXCEPT ![f] = Front(@)]

\* The address that is popped is the last.
LEMMA PoppedLast ==
  ASSUME Typed, NEW f \in Fibers, Pops(f)
  PROVE  /\ ret' \in [Fibers -> Seq(Addresses0)]
         /\ \A h \in Fibers : Len(ret'[h]) <= Len(ret[h])
         /\ \A h \in Fibers : \A i \in 1..Len(ret'[h]) : i \in 1..Len(ret[h]) /\ ret'[h][i] = ret[h][i]
         /\ \A h \in Fibers : \A i \in 1..Len(ret[h]) :
              i \in 1..Len(ret'[h]) \/ (h = f /\ i = Len(ret[h]) /\ ret[h][i] = Last(ret[f]))
         /\ \A i \in 1..Len(ret'[f]) : i \in 1..(Len(ret[f]) - 1)
<1>1. Elements
  BY Parts
<1>2. /\ ret' \in [Fibers -> Seq(Addresses0)]
      /\ \A h \in Fibers : h # f => ret'[h] = ret[h]
      /\ Len(ret[f]) \in Nat \ {0} /\ Len(ret'[f]) = Len(ret[f]) - 1
      /\ \A h \in Fibers : \A i \in 1..Len(ret'[h]) : ret'[h][i] = ret[h][i]
  BY RetPopped DEF Pops
<1>3. ASSUME NEW h \in Fibers
      PROVE  /\ Len(ret'[h]) <= Len(ret[h])
             /\ \A i \in 1..Len(ret'[h]) : i \in 1..Len(ret[h])
             /\ \A i \in 1..Len(ret[h]) : i \in 1..Len(ret'[h]) \/ (h = f /\ i = Len(ret[h]))
  <2>1. Len(ret[h]) \in Nat
    BY <1>1 DEF Elements
  <2>2. CASE h = f
    BY <1>2, <2>1, <2>2
  <2>3. CASE h # f
    BY <1>2, <2>1, <2>3
  <2>. QED
    BY <2>2, <2>3
<1>4. Last(ret[f]) = ret[f][Len(ret[f])]
  BY <1>1 DEF Elements
<1>5. \A i \in 1..Len(ret'[f]) : i \in 1..(Len(ret[f]) - 1)
  BY <1>2
<1>. QED
  BY <1>2, <1>3, <1>4, <1>5

\* A return to bytecode ends no loop.
LEMMA PopsNoLoop ==
  ASSUME Typed, NEW f \in Fibers, Pops(f), Last(ret[f]) <= 0
  PROVE  MayPop
<1>1. \A h \in Fibers : \A i \in 1..Len(ret[h]) : ret[h][i] > 0 => i \in 1..Len(ret'[h])
  <2>1. ASSUME NEW h \in Fibers, NEW i \in 1..Len(ret[h]), ret[h][i] > 0
        PROVE  i \in 1..Len(ret'[h])
    <3>1. i \in 1..Len(ret'[h]) \/ ret[h][i] = Last(ret[f])
      BY PoppedLast
    <3>2. ret[h][i] \in Int
      BY Parts DEF Elements
    <3>. QED
      BY <2>1, <3>1, <3>2
  <2>. QED
    BY <2>1
<1>. QED
  BY <1>1, PoppedLast DEF MayPop

\* A function returns to its caller.
LEMMA ReturnsIntoFunction ==
  ASSUME IInv, alive[Main], NEW f \in Fibers, Runs(f), Pops(f), Last(ret[f]) = IntoFunction,
         UNCHANGED <<made, alive, parent, ip, cstack, vmFiber, host>>
  PROVE  IInv' /\ alive'[Main]
<1>. USE DEF IInv, Sound
<1>1. Typed /\ Elements /\ Depth \in Nat
  BY Parts DEF Elements
<1>2. MayPop
  BY <1>1, PopsNoLoop DEF IntoFunction
<1>3. Typed'
  BY <1>1, <1>2 DEF Typed, MayPop, Addresses0
<1>4. /\ Depth' = Depth /\ SameLoops /\ \A i \in 1..(Depth + 1) : Base(i)' = Base(i)
      /\ Nested' /\ Base(Depth + 1)' = Base(Depth + 1) /\ (Native' <=> Native)
  BY <1>1, SameStack
<1>5. \A h \in Fibers : \A i \in 1..Len(ret'[h]) : i \in 1..Len(ret[h]) /\ ret'[h][i] = ret[h][i]
  BY <1>1, PoppedLast
<1>6. Addresses'
  <2>1. \A h \in Fibers : \A i \in 1..Len(ret[h]) : ret[h][i] <= Depth'
    <3>1. ASSUME NEW h \in Fibers, NEW i \in 1..Len(ret[h]) PROVE ret[h][i] <= Depth'
      <4>1. ret[h][i] \in Int /\ (ret[h][i] > 0 => ret[h][i] \in 1..Depth)
        BY <1>1 DEF Elements, Addresses
      <4>. QED
        BY <1>1, <1>4, <4>1
    <3>. QED
      BY <3>1
  <2>2. \A h \in Fibers : \A i \in 1..Len(ret'[h]) : ret[h][i] <= Depth'
    BY <1>5, <2>1
  <2>. QED
    BY <1>1, <1>3, <1>4, <1>5, <2>2, AddressesKept DEF MayPop
<1>7. Awaited'
  <2>1. \A h \in Fibers : \A i \in 1..Len(ret[h]) :
          ret[h][i] \in 1..Depth' => i \in 1..Len(ret'[h]) /\ ret'[h][i] = ret[h][i]
    BY <1>2 DEF MayPop
  <2>2. \A d \in 1..Depth' : ~(d > Depth)
    BY <1>1, <1>4
  <2>. QED
    BY <1>1, <1>3, <1>4, <2>1, <2>2, AwaitedKept
<1>8. AtHome'
  <2>1. \A d \in 1..Depth' : d \in 1..Depth /\ cstack'[d] = cstack[d] /\ Base(d)' = Base(d)
    BY <1>1, <1>4
  <2>. QED
    BY <1>1, <1>3, <1>5, <2>1, AtHomeKept
<1>9. Hosted'
  BY <1>1, <1>3, <1>4, HostedKept DEF Hosted
<1>10. Waiting' /\ Runner' /\ Family'
  BY <1>4 DEF Waiting, Runner, Family
<1>. QED
  BY <1>3, <1>4, <1>6, <1>7, <1>8, <1>9, <1>10

\* The topmost loop returns to the C code that called it.
LEMMA ReturnsToC ==
  ASSUME IInv, alive[Main], NEW f \in Fibers, Runs(f), Pops(f), Last(ret[f]) > 0,
         LoopReturns([ip EXCEPT ![f] = "vm"], f), UNCHANGED <<made, alive>>
  PROVE  IInv' /\ alive'[Main]
<1>. USE DEF IInv, Sound
<1>1. /\ Typed /\ Elements /\ Depth \in Nat /\ Depth > 0 /\ Depth \in 1..Depth /\ ~Native
      /\ cstack[Depth].kind \in LoopKinds /\ Top = cstack[Depth] /\ f \in made /\ alive[f]
      /\ (host.active => f # host.current)
  BY RunsCode, Parts
<1>2. Last(ret[f]) = Depth /\ Returns(Depth) /\ Base(Depth) = f
  BY LastMatches DEF Pops
<1>3. /\ cstack' = Front(cstack) /\ vmFiber' = f /\ UNCHANGED <<parent, host>>
      /\ \/ Top.kind = "call" /\ ip' = [ip EXCEPT ![f] = "vm"]
         \/ Top.kind = "compare"
            /\ ip' = [[ip EXCEPT ![f] = "vm"] EXCEPT ![cstack[Depth - 1].fiber] = "code"]
  BY <1>1, <1>2 DEF LoopReturns, Returns
<1>4. /\ cstack' \in Seq(Frame) /\ Depth' = Depth - 1
      /\ \A i \in 1..(Depth - 1) : cstack'[i] = cstack[i]
      /\ \A i \in 1..Depth : Base(i)' = Base(i)
  BY <1>1, <1>3, PopEffect
<1>5. Depth > 1 => Depth - 1 \in 1..Depth /\ Depth - 1 \in 1..(Depth - 1) /\ Depth # 1
  BY <1>1
<1>6. /\ ip' \in [Fibers -> {"code", "vm"}]
      /\ \A h \in Fibers : h # f => ip'[h] = ip[h]
      /\ Top.kind = "compare" => ip'[f] = "code"
  <2>1. CASE Top.kind = "call"
    BY <1>1, <1>3, <2>1 DEF Typed
  <2>2. CASE Top.kind = "compare"
    <3>1. Depth > 1
      BY <1>1, <2>2 DEF Nested
    <3>2. cstack[Depth - 1].fiber = f
      BY <1>2, <1>5, <3>1 DEF Base
    <3>. QED
      BY <1>1, <1>3, <2>2, <3>2 DEF Typed
  <2>. QED
    BY <1>3, <2>1, <2>2
<1>7. /\ ret' \in [Fibers -> Seq(Addresses0)]
      /\ \A h \in Fibers : Len(ret'[h]) <= Len(ret[h])
      /\ \A h \in Fibers : \A i \in 1..Len(ret'[h]) : i \in 1..Len(ret[h]) /\ ret'[h][i] = ret[h][i]
      /\ \A h \in Fibers : \A i \in 1..Len(ret[h]) :
           i \in 1..Len(ret'[h]) \/ (h = f /\ i = Len(ret[h]) /\ ret[h][i] = Depth)
      /\ \A i \in 1..Len(ret'[f]) : i \in 1..(Len(ret[f]) - 1)
  BY <1>1, <1>2, PoppedLast
<1>8. Typed' /\ Nested'
  BY <1>1, <1>3, <1>4, <1>6, <1>7, NestedPop DEF Typed, Addresses0
<1>9. \A i \in 1..Depth' : i \in 1..Depth /\ i \in 1..(Depth - 1) /\ i <= Depth /\ i # Depth
                           /\ cstack'[i] = cstack[i] /\ Base(i)' = Base(i)
  BY <1>1, <1>4
<1>10. SameLoops
  BY <1>9 DEF SameLoops
<1>11. \A d \in 1..Depth : d # Depth => d <= Depth' /\ d \in 1..Depth'
  BY <1>1, <1>4
<1>12. Addresses'
  <2>1. ASSUME NEW h \in Fibers, NEW i \in 1..Len(ret'[h]) PROVE ret[h][i] <= Depth'
    <3>1. i \in 1..Len(ret[h]) /\ ret[h][i] \in Int /\ Depth' \in Int /\ Depth' >= 0
      BY <1>1, <1>4, <1>7 DEF Elements
    <3>2. ret[h][i] > 0 => ret[h][i] \in 1..Depth /\ Base(ret[h][i]) = h
      BY <3>1 DEF Addresses
    <3>3. ret[h][i] # Depth
      <4>. SUFFICES ASSUME ret[h][i] = Depth PROVE FALSE
        OBVIOUS
      <4>1. h = f
        BY <1>1, <1>2, <3>2
      <4>2. i \in 1..(Len(ret[f]) - 1) /\ Len(ret[f]) \in 1..Len(ret[f])
        <5>1. Len(ret[f]) \in Nat /\ i \in 1..(Len(ret[f]) - 1)
          BY <1>1, <1>7, <4>1 DEF Elements
        <5>. QED
          BY <5>1
      <4>3. ret[f][Len(ret[f])] = Depth
        BY <1>1, <1>2 DEF Elements
      <4>4. ret[f][i] < Depth
        BY <1>1, <4>2, <4>3 DEF Addresses
      <4>. QED
        BY <1>1, <4>1, <4>4
    <3>. QED
      BY <1>11, <3>1, <3>2, <3>3
  <2>. QED
    BY <1>1, <1>7, <1>8, <1>10, <2>1, AddressesKept
<1>13. Awaited'
  <2>1. ASSUME NEW h \in Fibers, NEW i \in 1..Len(ret[h]), ret[h][i] \in 1..Depth'
        PROVE  i \in 1..Len(ret'[h]) /\ ret'[h][i] = ret[h][i]
    BY <1>7, <1>9, <2>1
  <2>2. \A d \in 1..Depth' : ~(d > Depth)
    BY <1>1, <1>9
  <2>. QED
    BY <1>1, <1>8, <1>10, <2>1, <2>2, AwaitedKept
<1>14. AtHome'
  <2>1. \A h \in Fibers : \A j \in 1..Len(ret'[h]) : j \in 1..Len(ret[h]) /\ ret'[h][j] = ret[h][j]
    BY <1>7
  <2>2. \A d \in 1..Depth' : d \in 1..Depth /\ cstack'[d] = cstack[d] /\ Base(d)' = Base(d)
    BY <1>9
  <2>. QED
    BY <1>1, <1>8, <2>1, <2>2, AtHomeKept
<1>15. Hosted'
  <2>1. \A d \in 1..Depth : cstack[d].kind = "resume" => d <= Depth'
    BY <1>2, <1>11 DEF Returns
  <2>2. \A d \in 1..Depth' : ~(d > Depth)
    BY <1>1, <1>9
  <2>3. host.active => ip'[host.current] = "vm"
    BY <1>1, <1>6, WhoRuns DEF Hosted
  <2>. QED
    BY <1>1, <1>3, <1>8, <1>9, <1>10, <2>1, <2>2, <2>3, HostedKept DEF Hosted
<1>16. Top.kind = "call" => Native'
  <2>1. ASSUME Top.kind = "call", Depth' > 0 PROVE Top'.kind = "extern"
    <3>1. Depth > 1 /\ Depth - 1 \in 1..(Depth - 1) /\ Depth - 1 \in 1..Depth
      BY <1>1, <1>4, <2>1
    <3>2. ~IsLoop(Depth - 1) /\ cstack[Depth - 1].kind # "sort"
      BY <1>1, <2>1, <3>1 DEF Nested, IsLoop
    <3>3. cstack[Depth - 1].kind \in LoopKinds \cup {"sort", "extern"}
      <4>1. cstack[Depth - 1] \in Frame
        BY <1>1, <3>1 DEF Elements
      <4>. QED
        BY <4>1 DEF Frame
    <3>4. Top' = cstack[Depth - 1]
      <4>1. Elements'
        BY <1>8, PartsNext
      <4>2. Top' = cstack'[Depth']
        BY <2>1, <4>1 DEF Elements
      <4>. QED
        BY <1>4, <3>1, <4>2
    <3>. QED
      BY <3>2, <3>3, <3>4 DEF IsLoop
  <2>. QED
    BY <2>1 DEF Native
<1>17. Waiting'
  <2>1. ASSUME NEW h \in Fibers, ip'[h] = "vm"
        PROVE  (h = vmFiber' /\ Native') \/ (host.active /\ h = host.current)
    <3>1. CASE h = f
      BY <1>3, <1>6, <1>16, <2>1, <3>1
    <3>2. CASE h # f
      BY <1>1, <1>6, <2>1, <3>2 DEF Waiting
    <3>. QED
      BY <3>1, <3>2
  <2>. QED
    BY <1>3, <2>1 DEF Waiting
<1>18. Runner'
  <2>1. Base(Depth + 1)' = f
    <3>1. Depth' + 1 = Depth
      BY <1>1, <1>4
    <3>2. PICK e \in 1..Depth : e = Depth
      BY <1>1
    <3>3. Base(e)' = f
      BY <1>2, <1>4, <3>2
    <3>4. e = 1 => Base(Depth + 1)' = Main /\ Base(e)' = Main
      BY <3>1, <3>2 DEF Base
    <3>5. e # 1 => Base(Depth + 1)' = cstack'[e - 1].fiber /\ Base(e)' = cstack'[e - 1].fiber
      BY <3>1, <3>2 DEF Base
    <3>. QED
      BY <3>3, <3>4, <3>5
  <2>. QED
    BY <1>3, <1>9, <2>1 DEF Runner
<1>19. Family'
  BY <1>3 DEF Family
<1>. QED
  BY <1>8, <1>12, <1>13, <1>14, <1>15, <1>17, <1>18, <1>19

\* A fiber whose first function returns is in no other frame of the C stack.
LEMMA EndsAlone ==
  ASSUME IInv, alive[Main], NEW f \in Fibers, Runs(f),
         \A i \in 1..Len(ret[f]) : ret[f][i] <= 0, NEW i \in 1..(Depth - 1)
  PROVE  cstack[i].fiber # f
<1>. USE DEF IInv, Sound
<1>1. /\ Typed /\ Elements /\ Depth \in Nat /\ Depth \in 1..Depth
      /\ cstack[Depth].kind \in LoopKinds /\ (host.active => f # host.current)
  BY RunsCode, Parts
<1>2. ASSUME NEW n \in 1..(Depth - 1), ~IsLoop(n), cstack[n].fiber = f PROVE FALSE
  <2>1. PICK d \in 1..Depth : d = n + 1
    BY <1>1
  <2>2. d > 1 /\ d - 1 = n /\ d # 1 /\ d > 0 /\ d \in Int /\ d \in 1..(Depth + 1)
    BY <1>1, <2>1
  <2>3. Base(d) = f
    BY <1>2, <2>2 DEF Base
  <2>4. IsLoop(d)
    BY <1>2, <2>2 DEF Nested
  <2>5. CASE cstack[d].kind = "resume"
    BY <1>1, <2>3, <2>5 DEF Hosted
  <2>6. CASE cstack[d].kind # "resume"
    <3>1. Returns(d)
      BY <2>4, <2>6 DEF IsLoop, LoopKinds, Returns
    <3>2. PICK j \in 1..Len(ret[f]) : ret[f][j] = d
      BY <2>3, <3>1 DEF Awaited
    <3>. QED
      BY <2>2, <3>2
  <2>. QED
    BY <2>5, <2>6
<1>3. ASSUME cstack[i].fiber = f PROVE FALSE
  <2>1. CASE ~IsLoop(i)
    BY <1>2, <1>3, <2>1
  <2>2. CASE IsLoop(i)
    <3>1. PICK n \in 1..Depth : n = i + 1
      BY <1>1
    <3>2. n > 1 /\ n - 1 = i
      BY <1>1, <3>1
    <3>3. ~IsLoop(n) /\ cstack[n].fiber = f
      BY <1>3, <2>2, <3>2 DEF Nested
    <3>4. n \in 1..(Depth - 1)
      <4>1. n # Depth
        BY <1>1, <3>3 DEF IsLoop
      <4>. QED
        BY <1>1, <4>1
    <3>. QED
      BY <1>2, <3>3, <3>4
  <2>. QED
    BY <2>1, <2>2
<1>. QED
  BY <1>3

\* The first function of a fiber returns: the fiber dies, and its parent goes on.
LEMMA ReturnsFromFiber ==
  ASSUME ~YieldInNested, ~OrphansAllowed, IInv, alive[Main], NEW f \in Fibers, Runs(f), Pops(f),
         Last(ret[f]) = ReturnFromFiber, Childless(f), StaysInLoop(parent[f]),
         alive' = [alive EXCEPT ![f] = FALSE], SwitchTo(parent[f], alive'), UNCHANGED made
  PROVE  IInv' /\ alive'[Main]
<1>. USE DEF IInv, Sound
<1>1. /\ Typed /\ Elements /\ Depth \in Nat /\ f \in made /\ alive[f]
  BY RunsCode, Parts
<1>2. f # Main /\ \A i \in 1..Len(ret[f]) : ret[f][i] <= 0
  <2>1. Len(ret[f]) \in Nat /\ Len(ret[f]) # 0 /\ ret[f][Len(ret[f])] = ReturnFromFiber
    BY <1>1 DEF Elements, Pops
  <2>2. Len(ret[f]) \in 1..Len(ret[f])
    BY <2>1
  <2>3. Len(ret[f]) = 1 /\ f # Main
    BY <2>1, <2>2 DEF Addresses
  <2>4. \A i \in 1..Len(ret[f]) : ret[f][i] = ReturnFromFiber
    BY <2>1, <2>3
  <2>. QED
    BY <2>3, <2>4 DEF ReturnFromFiber
<1>3. alive' \in [Fibers -> BOOLEAN] /\ ~alive'[f] /\ \A h \in Fibers : h # f => alive'[h] = alive[h]
  BY <1>1 DEF Typed
<1>4. \A h \in made : alive[h] => parent[h] # f
  BY DEF Childless
<1>5. \/ parent[f] \in made /\ alive'[parent[f]]
      \/ parent[f] = Boundary /\ host.active
  BY <1>1, <1>2, <1>3, <1>4 DEF Family, Typed
<1>6. MayDie(f, parent[f])
  <2>1. ASSUME NEW i \in 1..(Depth - 1) PROVE alive'[cstack[i].fiber]
    <3>1. i \in 1..Depth /\ cstack[i].fiber # f
      BY <1>1, <1>2, EndsAlone
    <3>. QED
      BY <1>1, <1>3, <3>1 DEF Runner, Elements
  <2>2. host.active /\ parent[f] # Boundary => alive'[host.fiber]
    BY <1>1, <1>3, WhoRuns DEF Hosted
  <2>3. \A h \in made \ {Main} : alive'[h] /\ parent[h] # Boundary =>
          parent[h] \in made /\ alive'[parent[h]]
    <3>1. ASSUME NEW h \in made \ {Main}, alive'[h], parent[h] # Boundary
          PROVE  parent[h] \in made /\ alive'[parent[h]]
      <4>1. h \in Fibers /\ alive[h]
        BY <1>1, <1>3, <3>1 DEF Typed
      <4>2. parent[h] \in made /\ alive[parent[h]] /\ parent[h] # f
        BY <1>4, <3>1, <4>1 DEF Family
      <4>. QED
        BY <1>1, <1>3, <4>2 DEF Typed
    <3>. QED
      BY <3>1
  <2>4. alive'[Main] /\ \A h \in Fibers : alive'[h] => alive[h]
    BY <1>2, <1>3, FibersAssumption
  <2>. QED
    BY <1>3, <2>1, <2>2, <2>3, <2>4 DEF MayDie
<1>7. MayPop
  BY <1>1, PopsNoLoop DEF ReturnFromFiber
<1>. QED
  BY <1>5, <1>6, <1>7, SwitchStep

\* A function returns, whatever its return address is.
LEMMA ReturnStep ==
  ASSUME ~YieldInNested, ~OrphansAllowed, IInv, alive[Main], NEW f \in Fibers, Return(f)
  PROVE  IInv' /\ alive'[Main]
<1>1. Runs(f) /\ Pops(f) /\ UNCHANGED made
  BY DEF Return, Pops
<1>2. CASE /\ Last(ret[f]) = IntoFunction
           /\ UNCHANGED <<alive, parent, ip, cstack, vmFiber, host>>
  BY <1>1, <1>2, ReturnsIntoFunction
<1>3. CASE /\ Last(ret[f]) = ReturnFromFiber
           /\ Childless(f) /\ StaysInLoop(parent[f])
           /\ alive' = [alive EXCEPT ![f] = FALSE]
           /\ SwitchTo(parent[f], alive')
  BY <1>1, <1>3, ReturnsFromFiber
<1>4. CASE /\ Last(ret[f]) > 0
           /\ LoopReturns([ip EXCEPT ![f] = "vm"], f)
           /\ UNCHANGED alive
  BY <1>1, <1>4, ReturnsToC
<1>. QED
  BY <1>2, <1>3, <1>4 DEF Return

-----------------------------------------------------------------------------
(* The end of the main fiber.                                              *)

\* An error leaves the virtual machine dead and the C stack empty.
LEMMA ErrorStep ==
  ASSUME IInv, alive[Main], NEW f \in Fibers, Error(f)
  PROVE  IInv' /\ ~alive'[Main]
<1>. USE DEF IInv
<1>1. Typed /\ Elements
  BY Parts
<1>2. ~alive'[Main] /\ alive' \in [Fibers -> BOOLEAN]
  BY <1>1, FibersAssumption DEF Error, Typed
<1>3. cstack' = <<>> /\ cstack' \in Seq(Frame) /\ UNCHANGED <<made, ip, ret>>
  BY DEF Error
<1>4. CASE cstack[1].kind = "resume"
  <2>1. FinishHostFiberResume
    BY <1>4 DEF Error
  <2>2. host.active
    <3>1. 1 \in 1..Depth
      BY <1>1 DEF Error, Elements
    <3>. QED
      BY <1>4, <3>1 DEF Sound, Hosted
  <2>3. host.current \in Fibers /\ host.parent \in AnyFiber
    BY <1>1, <2>2, WhoRuns DEF AnyFiber
  <2>4. NoHost \in [active : BOOLEAN, fiber : AnyFiber, parent : AnyFiber, current : AnyFiber]
    BY DEF NoHost, AnyFiber
  <2>5. Typed'
    BY <1>1, <1>2, <1>3, <2>1, <2>3, <2>4 DEF Typed, FinishHostFiberResume
  <2>. QED
    BY <1>2, <1>3, <2>5
<1>5. CASE cstack[1].kind # "resume"
  <2>1. UNCHANGED <<parent, vmFiber, host>>
    BY <1>5 DEF Error
  <2>. QED
    BY <1>1, <1>2, <1>3, <2>1 DEF Typed
<1>. QED
  BY <1>4, <1>5

\* The main fiber is released by umkaFree().
LEMMA CleanupStep ==
  ASSUME IInv, alive[Main], Cleanup
  PROVE  IInv' /\ ~alive'[Main]
<1>1. Typed /\ Elements /\ vmFiber = Main /\ Depth = 0
  BY Parts, WhoRuns DEF IInv, Cleanup
<1>2. cstack = <<>> /\ alive' = [alive EXCEPT ![Main] = FALSE]
      /\ UNCHANGED <<made, parent, ip, ret, cstack, vmFiber, host>>
  BY <1>1 DEF Cleanup, Elements
<1>. QED
  BY <1>1, <1>2, FibersAssumption DEF IInv, Typed

\* Every step of an interpreter that lives keeps the invariant.
LEMMA NextAlive ==
  ASSUME ~YieldInNested, ~OrphansAllowed, IInv, alive[Main], Next
  PROVE  IInv'
<1>1. ASSUME NEW f \in Fibers, NEW c \in Fibers, Make(f, c) PROVE IInv'
  BY <1>1, MakeStep
<1>2. ASSUME NEW c \in Fibers, Destroy(c) PROVE IInv'
  BY <1>2, DestroyStep
<1>3. ASSUME NEW f \in Fibers, Call(f) PROVE IInv'
  BY <1>3, CallStep
<1>4. ASSUME NEW f \in Fibers, Return(f) PROVE IInv'
  BY <1>4, ReturnStep
<1>5. ASSUME NEW f \in Fibers, NEW c \in (made \ {Main}) \cup {NoFiber}, Resume(f, c) PROVE IInv'
  BY <1>5, ResumeStep
<1>6. ASSUME NEW f \in Fibers, Sort(f) PROVE IInv'
  BY <1>6, SortStep
<1>7. ASSUME NEW f \in Fibers, Extern(f) PROVE IInv'
  BY <1>7, ExternStep
<1>8. ASSUME NEW f \in Fibers, Error(f) PROVE IInv'
  BY <1>8, ErrorStep
<1>9. ASSUME NEW c \in Fibers, HostResume(c) PROVE IInv'
  BY <1>9, HostResumeStep
<1>10. (Compare => IInv') /\ (SortDone => IInv') /\ (ExternReturns => IInv')
       /\ (HostCall => IInv') /\ (Cleanup => IInv')
  BY CompareStep, SortDoneStep, ExternReturnsStep, HostCallStep, CleanupStep
<1>. QED
  BY <1>1, <1>2, <1>3, <1>4, <1>5, <1>6, <1>7, <1>8, <1>9, <1>10 DEF Next

\* Nothing runs in a dead virtual machine.
LEMMA NothingRuns ==
  ASSUME IInv, ~alive[Main]
  PROVE  ~Next
<1>1. Depth = 0
  BY Parts DEF IInv, Elements
<1>2. \A f \in Fibers : ~Runs(f)
  BY <1>1 DEF Runs
<1>3. \A f \in Fibers : ~Call(f) /\ ~Return(f) /\ ~Sort(f) /\ ~Extern(f)
  BY <1>2 DEF Call, Return, Sort, Extern
<1>4. \A f \in Fibers : \A c : ~Make(f, c) /\ ~Resume(f, c)
  BY <1>2 DEF Make, Resume
<1>5. ~Compare /\ ~SortDone /\ ~ExternReturns /\ ~HostCall /\ ~Cleanup
  BY <1>1 DEF Compare, SortDone, ExternReturns, HostCall, Cleanup
<1>6. \A c : ~Destroy(c) /\ ~Error(c) /\ ~HostResume(c)
  BY <1>1 DEF Destroy, Error, HostResume, Resumable
<1>. QED
  BY <1>3, <1>4, <1>5, <1>6 DEF Next

\* Stuttering.
LEMMA Unchanged ==
  ASSUME IInv, UNCHANGED vars
  PROVE  IInv'
<1>. SUFFICES ASSUME IInv, UNCHANGED vars PROVE IInv'
  OBVIOUS
<1>. QED
  BY SMTT(20) DEF vars, IInv, Sound, Typed, Nested, Addresses, Awaited, AtHome, Hosted, Waiting, Runner,
    Family, IsLoop, Returns, Base, Depth, Native, Top

\* The invariant holds at first.
LEMMA InitIInv == Init => IInv
<1>. SUFFICES ASSUME Init PROVE IInv
  OBVIOUS
<1>1. Depth = 0 /\ cstack = <<>> /\ alive[Main] /\ Native
  <2>1. cstack = <<>> /\ Len(<<>>) = 0 /\ ~(0 > 0)
    BY DEF Init
  <2>2. alive[Main]
    BY FibersAssumption DEF Init
  <2>. QED
    BY <2>1, <2>2 DEF Depth, Native
<1>2. <<>> \in Seq(Frame) /\ <<>> \in Seq(Nat \cup {ReturnFromFiber}) /\ Len(<<>>) = 0
  OBVIOUS
<1>3. NoHost \in [active : BOOLEAN, fiber : AnyFiber, parent : AnyFiber, current : AnyFiber]
      /\ ~NoHost.active
  BY DEF NoHost, AnyFiber
<1>4. Typed
  BY <1>2, <1>3, FibersAssumption DEF Init, Typed, AnyFiber
<1>5. Nested /\ Awaited /\ AtHome
  BY <1>1 DEF Nested, Awaited, AtHome
<1>6. Addresses
  BY <1>2, FibersAssumption DEF Init, Addresses
<1>7. Hosted /\ Waiting
  BY <1>1, <1>3 DEF Init, Hosted, Waiting
<1>8. Runner
  BY <1>1 DEF Init, Runner, Base
<1>9. Family
  BY FibersAssumption DEF Init, Family
<1>. QED
  BY <1>1, <1>4, <1>5, <1>6, <1>7, <1>8, <1>9 DEF IInv, Sound

\* The invariant of all reachable states, under the disciplines of the program.
LEMMA Invariance == ~YieldInNested /\ ~OrphansAllowed => (Spec => []IInv)
<1>. SUFFICES ASSUME ~YieldInNested /\ ~OrphansAllowed PROVE Spec => []IInv
  OBVIOUS
<1>1. IInv /\ [Next]_vars => IInv'
  BY NextAlive, NothingRuns, Unchanged
<1>. QED
  BY InitIInv, <1>1, PTL DEF Spec

-----------------------------------------------------------------------------
(* What follows.                                                           *)

\* The state of the machine keeps its shape: return addresses, the C stack and
\* the record of the host resume, for any number of fibers and calls.
THEOREM WellTyped == ~YieldInNested /\ ~OrphansAllowed => (Spec => []TypeOK)
<1>1. IInv => TypeOK
  <2>. SUFFICES ASSUME IInv PROVE TypeOK
    OBVIOUS
  <2>1. Typed /\ Elements
    BY Parts DEF IInv
  <2>2. vmFiber \in AnyFiber \ {NoFiber}
    BY <2>1, FibersAssumption DEF Typed, AnyFiber
  <2>3. \A i \in DOMAIN cstack :
          cstack[i].kind = "compare" <=> i > 1 /\ cstack[i - 1].kind = "sort"
    <3>1. CASE alive[Main]
      BY <2>1, <3>1 DEF IInv, Sound, Nested, Elements
    <3>2. CASE ~alive[Main]
      <4>1. Depth = 0 /\ DOMAIN cstack = 1..Depth
        BY <2>1, <3>2 DEF IInv, Elements
      <4>2. \A i \in 1..0 : FALSE
        OBVIOUS
      <4>. QED
        BY <4>1, <4>2
    <3>. QED
      BY <3>1, <3>2
  <2>. QED
    BY <2>1, <2>2, <2>3 DEF TypeOK, Typed
<1>. QED
  BY Invariance, <1>1, PTL

\* The RETURN_FROM_VM that the running fiber pops next belongs to the topmost vmLoop: the
\* loop that returns to C is the one that was entered for that address.
THEOREM LoopsReturnInOrder == ~YieldInNested /\ ~OrphansAllowed => (Spec => []ReturnsMatch)
<1>1. IInv => ReturnsMatch
  <2>. SUFFICES ASSUME IInv, NEW f \in Fibers, Runs(f), ret[f] # <<>>, Last(ret[f]) > 0
                PROVE  Last(ret[f]) = Depth
    BY DEF ReturnsMatch
  <2>1. alive[Main]
    BY Parts DEF IInv, Elements, Runs
  <2>. QED
    BY <2>1, LastMatches
<1>. QED
  BY Invariance, <1>1, PTL

\* The fiber of the topmost frame is vm->fiber, allocated and alive, and it is inside its
\* code whenever vmLoop executes it.
THEOREM OneFiberRuns == ~YieldInNested /\ ~OrphansAllowed => (Spec => []RunningIsVmFiber)
<1>1. IInv => RunningIsVmFiber
  <2>. SUFFICES ASSUME IInv, Depth > 0
                PROVE  /\ Top.fiber = vmFiber /\ vmFiber \in made /\ alive[vmFiber]
                       /\ Top.kind \in LoopKinds => ip[vmFiber] = "code"
    BY DEF RunningIsVmFiber
  <2>1. alive[Main]
    BY Parts DEF IInv, Elements
  <2>2. Top.fiber = vmFiber /\ vmFiber \in made /\ vmFiber \in Fibers /\ alive[vmFiber]
    BY <2>1, WhoRuns
  <2>3. Top.kind \in LoopKinds => Runs(vmFiber)
    BY <2>2 DEF Runs
  <2>. QED
    BY <2>1, <2>2, <2>3, RunsCode
<1>. QED
  BY Invariance, <1>1, PTL

\* The parent of a live fiber is a live fiber, also while the host has resumed it.
THEOREM FamiliesAreKept == ~YieldInNested /\ ~OrphansAllowed => (Spec => []FamilyKept)
<1>1. IInv => FamilyKept
  <2>. SUFFICES ASSUME IInv, alive[Main], NEW f \in made \ {Main}, alive[f],
                       NEW p, p = IF host.active /\ f = host.fiber THEN host.parent ELSE parent[f]
                PROVE  p \in made /\ alive[p]
    BY DEF FamilyKept
  <2>1. CASE host.active /\ f = host.fiber
    BY <2>1, WhoRuns
  <2>2. CASE ~(host.active /\ f = host.fiber)
    BY <2>2 DEF IInv, Sound, Family
  <2>. QED
    BY <2>1, <2>2
<1>. QED
  BY Invariance, <1>1, PTL

-----------------------------------------------------------------------------
(* The host.                                                               *)

\* The machine is ready for the next call from the host.
LEMMA ReadyForHost == IInv => CallRunnable /\ BoundaryScoped
<1>. SUFFICES ASSUME IInv, alive[Main] PROVE CallRunnable /\ BoundaryScoped
  BY DEF CallRunnable, BoundaryScoped
<1>1. Typed /\ Elements /\ Addresses /\ Hosted /\ Family /\ vmFiber \in Fibers /\ Main \in Fibers
  BY Parts, WhoRuns, FibersAssumption DEF IInv, Sound
<1>2. ASSUME Depth = 0 PROVE vmFiber = Main /\ ret[Main] = <<>>
  <2>1. vmFiber = Main
    BY <1>2, WhoRuns
  <2>2. ASSUME ret[Main] # <<>> PROVE FALSE
    <3>1. 1 \in 1..Len(ret[Main]) /\ ret[Main][1] > 0
      <4>1. Len(ret[Main]) \in Nat /\ Len(ret[Main]) # 0
        BY <1>1, <2>2 DEF Elements
      <4>. QED
        BY <1>1, <2>2, <4>1 DEF Addresses
    <3>2. ret[Main][1] \in 1..0
      BY <1>1, <1>2, <3>1 DEF Addresses
    <3>. QED
      BY <3>2
  <2>. QED
    BY <2>1, <2>2
<1>3. vmFiber # Boundary
  BY <1>1, FibersAssumption
<1>4. host.active <=> ResumeDepths # {}
  <2>1. ResumeDepths = {i \in 1..Depth : cstack[i].kind = "resume"}
    BY <1>1 DEF ResumeDepths, Elements
  <2>2. host.active => \E d \in 1..Depth : cstack[d].kind = "resume"
    BY <1>1 DEF Hosted
  <2>3. (\E d \in 1..Depth : cstack[d].kind = "resume") => host.active
    BY <1>1 DEF Hosted
  <2>4. ResumeDepths # {} <=> \E d \in 1..Depth : cstack[d].kind = "resume"
    BY <2>1
  <2>5. host.active \in BOOLEAN
    BY <1>1 DEF Typed
  <2>. QED
    BY <2>2, <2>3, <2>4, <2>5
<1>5. \A f \in made : parent[f] = Boundary => host.active /\ f = host.fiber
  BY <1>1 DEF Family
<1>. QED
  BY <1>2, <1>3, <1>4, <1>5 DEF CallRunnable, BoundaryScoped

\* The same after a step.
LEMMA ReadyNext == IInv' => BoundaryScoped'
<1>1. IInv' => (CallRunnable /\ BoundaryScoped)'
  BY ReadyForHost, PTL
<1>. QED
  BY <1>1

\* Only an error and umkaFree() end the interpreter.
LEMMA MainLives ==
  ASSUME ~YieldInNested, ~OrphansAllowed, IInv, alive[Main], Next,
         ~Cleanup, \A f \in Fibers : ~Error(f)
  PROVE  alive'[Main]
<1>1. ASSUME NEW f \in Fibers, NEW c \in Fibers, Make(f, c) PROVE alive'[Main]
  BY <1>1, MakeStep
<1>2. ASSUME NEW c \in Fibers, Destroy(c) PROVE alive'[Main]
  BY <1>2, DestroyStep
<1>3. ASSUME NEW f \in Fibers, Call(f) PROVE alive'[Main]
  BY <1>3, CallStep
<1>4. ASSUME NEW f \in Fibers, Return(f) PROVE alive'[Main]
  BY <1>4, ReturnStep
<1>5. ASSUME NEW f \in Fibers, NEW c \in (made \ {Main}) \cup {NoFiber}, Resume(f, c)
      PROVE  alive'[Main]
  BY <1>5, ResumeStep
<1>6. ASSUME NEW f \in Fibers, Sort(f) \/ Extern(f) PROVE alive'[Main]
  BY <1>6 DEF Sort, Extern
<1>7. ASSUME NEW c \in Fibers, HostResume(c) PROVE alive'[Main]
  BY <1>7 DEF HostResume
<1>8. Compare \/ SortDone \/ ExternReturns \/ HostCall => alive'[Main]
  BY DEF Compare, SortDone, ExternReturns, HostCall
<1>. QED
  BY <1>1, <1>2, <1>3, <1>4, <1>5, <1>6, <1>7, <1>8 DEF Next

\* The record of a host resume is taken back by vmFinishHostFiberResume alone.
LEMMA Finished ==
  ASSUME IInv, Next, host.active, ~host'.active
  PROVE  FinishHostFiberResume
<1>1. host' # host
  OBVIOUS
<1>2. ASSUME NEW ips, NEW g, LoopReturns(ips, g) PROVE FinishHostFiberResume
  BY <1>1, <1>2 DEF LoopReturns
<1>3. ASSUME NEW g, NEW lives, SwitchTo(g, lives) PROVE FinishHostFiberResume
  <2>1. LoopReturns(ip, g)
    BY <1>1, <1>3 DEF SwitchTo
  <2>. QED
    BY <1>2, <2>1
<1>4. \A f \in Fibers : Return(f) => FinishHostFiberResume
  BY <1>1, <1>2, <1>3 DEF Return
<1>5. \A f \in Fibers : \A c : Resume(f, c) => FinishHostFiberResume
  BY <1>3 DEF Resume
<1>6. \A f \in Fibers : Error(f) => FinishHostFiberResume
  BY <1>1 DEF Error
<1>7. \A c : ~HostResume(c) /\ ~Destroy(c)
  BY <1>1 DEF HostResume, Resumable, Destroy
<1>8. \A f \in Fibers : ~Call(f) /\ ~Sort(f) /\ ~Extern(f) /\ \A c : ~Make(f, c)
  BY <1>1 DEF Call, Sort, Extern, Make
<1>9. ~Compare /\ ~SortDone /\ ~ExternReturns /\ ~HostCall /\ ~Cleanup
  BY <1>1 DEF Compare, SortDone, ExternReturns, HostCall, Cleanup
<1>. QED
  BY <1>4, <1>5, <1>6, <1>7, <1>8, <1>9 DEF Next

\* However a host resume ends in umkaResumeFiber(), the family is as it was before.
LEMMA Undone ==
  ASSUME ~YieldInNested, ~OrphansAllowed, IInv, Next
  PROVE  ResumeUndone
<1>. DEFINE Caller(d) == IF d = 1 THEN Main ELSE cstack[d - 1].fiber
<1>. SUFFICES ASSUME NEW d \in ResumeDepths, ResumeDepths' = {}, d = 1 \/ alive'[Main]
              PROVE  /\ ~host'.active
                     /\ vmFiber' = Caller(d) /\ parent'[host.fiber] = Caller(d)
                     /\ \A f \in made' : parent'[f] # Boundary
  BY DEF ResumeUndone
<1>1. alive[Main] /\ IInv'
  BY NothingRuns, NextAlive
<1>2. Typed /\ d \in 1..Depth /\ cstack[d].kind = "resume"
  BY Parts DEF IInv, Elements, ResumeDepths
<1>3. host.active /\ Base(d) = host.current
  BY <1>1, <1>2 DEF IInv, Sound, Hosted
<1>4. Caller(d) = host.current /\ host.parent = host.current
      /\ host.fiber \in made /\ host.fiber \in Fibers /\ host.current \in Fibers
  BY <1>1, <1>3, WhoRuns DEF Base
<1>5. ~host'.active
  <2>1. CASE alive'[Main]
    <3>1. BoundaryScoped'
      BY <1>1, <2>1, ReadyNext
    <3>. QED
      BY <2>1, <3>1 DEF BoundaryScoped
  <2>2. CASE ~alive'[Main]
    <3>1. ~Cleanup
      BY <1>2 DEF Cleanup
    <3>2. PICK f \in Fibers : Error(f)
      BY <1>1, <2>2, <3>1, MainLives
    <3>3. FinishHostFiberResume
      BY <1>2, <2>2, <3>2 DEF Error
    <3>. QED
      BY <3>3 DEF FinishHostFiberResume, NoHost
  <2>. QED
    BY <2>1, <2>2
<1>6. FinishHostFiberResume
  BY <1>3, <1>5, Finished
<1>7. vmFiber' = host.current /\ parent' = [parent EXCEPT ![host.fiber] = host.current]
  BY <1>4, <1>6 DEF FinishHostFiberResume
<1>8. parent'[host.fiber] = host.current
  BY <1>2, <1>4, <1>7 DEF Typed
<1>9. ASSUME NEW f \in made' PROVE parent'[f] # Boundary
  <2>1. CASE alive'[Main]
    BY <1>1, <1>5, <1>9, <2>1 DEF IInv, Sound, Family
  <2>2. CASE ~alive'[Main]
    <3>1. ~Cleanup
      BY <1>2 DEF Cleanup
    <3>2. made' = made
      BY <1>1, <2>2, <3>1, MainLives DEF Error
    <3>3. f \in Fibers /\ (parent[f] = Boundary => f = host.fiber)
      BY <1>1, <1>2, <1>9, <3>2 DEF IInv, Sound, Family, Typed
    <3>4. f # host.fiber => parent'[f] = parent[f]
      BY <1>2, <1>7, <3>3 DEF Typed
    <3>5. host.current # Boundary
      BY <1>4, FibersAssumption
    <3>. QED
      BY <1>8, <3>3, <3>4, <3>5
  <2>. QED
    BY <2>1, <2>2
<1>. QED
  BY <1>4, <1>5, <1>7, <1>8, <1>9

\* When a call from the host is over, the machine is ready for the next one: the main fiber
\* is vm->fiber with the stack it had, and nothing of a host resume is left; and an error
\* that ends umkaResumeFiber() leaves nothing of it either.
THEOREM HostCallsLeaveNoTrace ==
  ~YieldInNested /\ ~OrphansAllowed => (Spec => HostLeavesNoTrace)
<1>. SUFFICES ASSUME ~YieldInNested /\ ~OrphansAllowed PROVE Spec => HostLeavesNoTrace
  OBVIOUS
<1>1. IInv => CallRunnable /\ BoundaryScoped
  BY ReadyForHost
<1>2. IInv /\ [Next]_vars => [ResumeUndone]_vars
  BY Undone
<1>. QED
  BY <1>1, <1>2, Invariance, PTL DEF Spec, HostLeavesNoTrace

-----------------------------------------------------------------------------
(* The dead.                                                               *)

RunnerAlive == vmFiber \in Fibers /\ alive[vmFiber]

\* vm->fiber is made and alive.
LEMMA RunnerLives == IInv /\ alive[Main] => RunnerAlive
BY WhoRuns DEF RunnerAlive

\* The same after a step.
LEMMA RunnerLivesNext == IInv' /\ alive'[Main] => RunnerAlive'
<1>1. IInv' /\ alive[Main]' => RunnerAlive'
  BY RunnerLives, PTL
<1>. QED
  BY <1>1

\* Nothing is executed on the stack of a fiber that is dead, and it is not revived.
StaysDead(h) == ~alive'[h] /\ ret'[h] = ret[h] /\ ip'[h] = ip[h]

\* A loop that returns to C sets the ip of live fibers only.
LEMMA LoopReturnsLive ==
  ASSUME IInv, alive[Main], Depth > 0, NEW ips, ips \in [Fibers -> {"code", "vm"}], NEW g,
         LoopReturns(ips, g), NEW h \in Fibers, ~alive[h]
  PROVE  ip'[h] = ips[h]
<1>. USE DEF IInv, Sound
<1>1. Typed /\ Elements /\ Depth \in 1..Depth /\ Top = cstack[Depth]
  BY Parts DEF Elements
<1>2. CASE Top.kind = "compare"
  <2>1. Depth > 1
    BY <1>1, <1>2 DEF Nested
  <2>2. Depth - 1 \in 1..Depth
    BY <1>1, <2>1
  <2>3. alive[cstack[Depth - 1].fiber]
    BY <2>2 DEF Runner
  <2>4. ip' = [ips EXCEPT ![cstack[Depth - 1].fiber] = "code"]
    BY <1>2 DEF LoopReturns
  <2>. QED
    BY <2>3, <2>4
<1>3. CASE Top.kind # "compare"
  BY <1>3 DEF LoopReturns
<1>. QED
  BY <1>2, <1>3

\* A switch leaves the instruction pointers of dead fibers alone.
LEMMA SwitchLive ==
  ASSUME IInv, alive[Main], Depth > 0, NEW g, NEW lives, SwitchTo(g, lives),
         NEW h \in Fibers, ~alive[h]
  PROVE  ip'[h] = ip[h]
<1>1. ip \in [Fibers -> {"code", "vm"}]
  BY DEF IInv, Typed
<1>2. ip' = ip \/ LoopReturns(ip, g)
  BY DEF SwitchTo
<1>. QED
  BY <1>1, <1>2, LoopReturnsLive

\* A return leaves the fibers alone that have ended.
LEMMA DeadInReturn ==
  ASSUME IInv, alive[Main], NEW f \in Fibers, Return(f), NEW h \in Fibers, ~alive[h]
  PROVE  StaysDead(h)
<1>1. Typed /\ f # h /\ Depth > 0
  BY RunsCode DEF Return, IInv
<1>2. ret'[h] = ret[h]
  BY <1>1 DEF Return, Typed
<1>3. ~alive'[h]
  BY <1>1 DEF Return, Typed
<1>4. ip'[h] = ip[h]
  <2>1. CASE UNCHANGED ip
    BY <2>1
  <2>2. CASE \E lives : SwitchTo(parent[f], lives)
    BY <1>1, <2>2, SwitchLive
  <2>3. CASE LoopReturns([ip EXCEPT ![f] = "vm"], f)
    <3>1. PICK ips : ips = [ip EXCEPT ![f] = "vm"]
      OBVIOUS
    <3>2. ips \in [Fibers -> {"code", "vm"}] /\ ips[h] = ip[h]
      BY <1>1, <3>1 DEF Typed
    <3>3. LoopReturns(ips, f)
      BY <2>3, <3>1
    <3>. QED
      BY <1>1, <3>2, <3>3, LoopReturnsLive
  <2>. QED
    BY <2>1, <2>2, <2>3 DEF Return
<1>. QED
  BY <1>2, <1>3, <1>4 DEF StaysDead

\* No step revives a fiber.
LEMMA DeadStayDead ==
  ASSUME IInv, alive[Main], Next, NEW h \in made, ~alive[h]
  PROVE  StaysDead(h)
<1>. USE DEF IInv, StaysDead
<1>1. /\ Typed /\ h \in Fibers /\ h # vmFiber /\ (Depth > 0 => Top.fiber = vmFiber)
      /\ vmFiber \in Fibers
  BY WhoRuns DEF Typed
<1>2. \A f \in Fibers : Runs(f) => f # h
  BY RunsCode
<1>3. ASSUME NEW f \in Fibers, NEW c \in Fibers, Make(f, c) PROVE StaysDead(h)
  BY <1>1, <1>3 DEF Make, Typed
<1>4. ASSUME NEW c \in Fibers, Destroy(c) PROVE StaysDead(h)
  BY <1>4 DEF Destroy
<1>5. ASSUME NEW f \in Fibers, Call(f) PROVE StaysDead(h)
  BY <1>1, <1>2, <1>5 DEF Call, Typed
<1>6. ASSUME NEW f \in Fibers, Return(f) PROVE StaysDead(h)
  BY <1>1, <1>6, DeadInReturn
<1>7. ASSUME NEW f \in Fibers, NEW c \in (made \ {Main}) \cup {NoFiber}, Resume(f, c)
      PROVE  StaysDead(h)
  <2>1. Depth > 0 /\ SwitchTo(Target(f, c), alive) /\ UNCHANGED <<alive, ret>>
    BY <1>7 DEF Resume, Runs
  <2>. QED
    BY <1>1, <2>1, SwitchLive
<1>8. ASSUME NEW f \in Fibers, Sort(f) \/ Extern(f) PROVE StaysDead(h)
  BY <1>8 DEF Sort, Extern
<1>9. ASSUME NEW f \in Fibers, Error(f) PROVE StaysDead(h)
  <2>1. UNCHANGED <<ip, ret>>
    BY <1>9 DEF Error
  <2>2. ~alive'[h]
    BY <1>1, <1>9 DEF Error, Typed
  <2>. QED
    BY <2>1, <2>2
<1>10. ASSUME NEW c \in Fibers, HostResume(c) PROVE StaysDead(h)
  BY <1>10 DEF HostResume
<1>11. Compare => StaysDead(h)
  BY <1>1 DEF Compare, Typed
<1>12. ExternReturns => StaysDead(h)
  BY <1>1 DEF ExternReturns, Typed
<1>13. HostCall => StaysDead(h)
  BY <1>1 DEF HostCall, Typed
<1>14. (SortDone => StaysDead(h)) /\ (Cleanup => StaysDead(h))
  BY <1>1 DEF SortDone, Cleanup, Typed
<1>. QED
  BY <1>3, <1>4, <1>5, <1>6, <1>7, <1>8, <1>9, <1>10, <1>11, <1>12, <1>13, <1>14 DEF Next

\* Nor does a dead fiber become vm->fiber.
LEMMA RunnerWasAlive ==
  ASSUME ~YieldInNested, ~OrphansAllowed, IInv, alive[Main], Next, NEW h \in made, ~alive[h]
  PROVE  vmFiber' # h
<1>1. h # vmFiber /\ IInv' /\ h \in Fibers
  BY WhoRuns, NextAlive DEF IInv, Typed
<1>2. ~alive'[h]
  BY DeadStayDead DEF StaysDead
<1>3. CASE alive'[Main]
  BY <1>1, <1>2, <1>3, RunnerLivesNext DEF RunnerAlive
<1>4. CASE ~alive'[Main]
  <2>1. ASSUME NEW f \in Fibers, Error(f) PROVE vmFiber' # h
    <3>1. CASE cstack[1].kind = "resume"
      <4>1. vmFiber' = host.current
        BY <2>1, <3>1 DEF Error, FinishHostFiberResume
      <4>2. 1 \in 1..Depth
        BY <2>1, Parts DEF Error, Elements, IInv
      <4>3. host.active
        BY <3>1, <4>2 DEF IInv, Sound, Hosted
      <4>. QED
        BY <4>1, <4>3, WhoRuns
    <3>2. CASE cstack[1].kind # "resume"
      BY <1>1, <2>1, <3>2 DEF Error
    <3>. QED
      BY <3>1, <3>2
  <2>2. CASE Cleanup
    BY <1>1, <2>2 DEF Cleanup
  <2>3. CASE ~Cleanup /\ \A f \in Fibers : ~Error(f)
    BY <1>4, <2>3, MainLives
  <2>. QED
    BY <2>1, <2>2, <2>3
<1>. QED
  BY <1>3, <1>4

\* resume() of a fiber that is dead or does not exist changes nothing.
LEMMA AbsentIgnored ==
  ASSUME IInv, alive[Main], NEW f \in Fibers, NEW c \in (made \ {Main}) \cup {NoFiber},
         Resume(f, c), Absent(f, c)
  PROVE  cstack' = cstack /\ vmFiber' = f
<1>1. /\ f = vmFiber /\ f \in made /\ alive[f] /\ ip[f] = "code" /\ cstack[Depth].fiber = f
      /\ Depth \in 1..Depth /\ f # Boundary
  BY RunsCode, FibersAssumption DEF Resume
<1>2. Target(f, c) = f
  <2>1. CASE c # NoFiber
    BY <2>1 DEF Absent, Target
  <2>2. CASE c = NoFiber
    <3>1. parent[f] = NoFiber
      BY <1>1, <2>2, FibersAssumption DEF Absent, IInv, Sound, Family
    <3>. QED
      BY <2>2, <3>1 DEF Target
  <2>. QED
    BY <2>1, <2>2
<1>3. cstack' = [cstack EXCEPT ![Depth].fiber = f] /\ vmFiber' = f
  BY <1>1, <1>2 DEF Resume, SwitchTo, WaitsForHost
<1>4. cstack[Depth] \in Frame /\ cstack \in Seq(Frame) /\ DOMAIN cstack = 1..Depth
  BY <1>1, Parts DEF IInv, Typed, Elements
<1>5. [cstack[Depth] EXCEPT !.fiber = f] = cstack[Depth]
  BY <1>1, <1>4 DEF Frame
<1>6. cstack' = [cstack EXCEPT ![Depth] = cstack[Depth]]
  BY <1>3, <1>5
<1>7. cstack = [i \in 1..Depth |-> cstack[i]]
  BY <1>4, SeqDef
<1>8. cstack' = cstack
  BY <1>6, <1>7
<1>. QED
  BY <1>3, <1>8

\* A dead fiber stays dead, nothing is executed on its stack again, and a program that
\* resumes it goes on in the fiber that asked.
THEOREM DeadFibersAreFinal == ~YieldInNested /\ ~OrphansAllowed => (Spec => DeadIsFinal)
<1>. SUFFICES ASSUME ~YieldInNested /\ ~OrphansAllowed PROVE Spec => DeadIsFinal
  OBVIOUS
<1>1. ASSUME IInv, Next, NEW f \in made \cap made', ~alive[f]
      PROVE  ~alive'[f] /\ UNCHANGED <<ret[f], ip[f]>> /\ (vmFiber' = f => vmFiber = f)
  BY <1>1, NothingRuns, DeadStayDead, RunnerWasAlive DEF StaysDead
<1>2. ASSUME IInv, Next, NEW f \in Fibers, NEW c \in (made \ {Main}) \cup {NoFiber},
             Resume(f, c), Absent(f, c)
      PROVE  cstack' = cstack /\ vmFiber' = f
  BY <1>2, NothingRuns, AbsentIgnored
<1>3. IInv /\ [Next]_vars =>
        [/\ \A f \in made \cap made' :
              ~alive[f] => ~alive'[f] /\ UNCHANGED <<ret[f], ip[f]>> /\ (vmFiber' = f => vmFiber = f)
         /\ \A f \in Fibers, c \in (made \ {Main}) \cup {NoFiber} :
              Resume(f, c) /\ Absent(f, c) => cstack' = cstack /\ vmFiber' = f]_vars
  BY <1>1, <1>2
<1>. QED
  BY <1>3, Invariance, PTL DEF Spec, DeadIsFinal

=============================================================================
