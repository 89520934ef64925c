# Umka in TLA+

A verification project for the Umka interpreter (`src/src/*.c`) and the web page it runs in
(`src/playground/umka.js`): TLA+ modules translated from their code, TLC configurations that check them on small instances,
and TLAPS proofs of the theorems that matter most about the memory manager, the fibers, the frames, the maps, the arrays, the
handles of the host and the way errors and interrupts leave the machine.

Everything is run in this directory:

    tlc -workers 2 -config PageHeap.cfg PageHeapMC
    tlapm PageHeap_proofs.tla
    tlapm Session_proofs.tla      # and the other *_proofs modules

`PROJECT.json` has the machine-readable part: which run checks what, which
definition stands for which lines of C, the wrong versions of definitions that
the properties were shown to catch, the hazards, the findings and the theorems.

## 1. The system

Umka source is compiled by a one-pass compiler into bytecode, which a stack
machine executes inside the host's process. There is one interpreter per `Umka`
instance, one thread per instance, and no parallelism inside it. What is
concurrent is concurrent by switching: fibers switch at `resume()`, native
functions and comparisons of `sort()` re-enter the machine from C, the host calls
in through the API at any time that it has control, and another thread may
request an interrupt.

| Component | Where | State it keeps | Operations | Talks to |
|---|---|---|---|---|
| Page heap | `umka_vm.c` 394-880 | three lists of pages, page and chunk headers, `lastAccessed`, address bounds, sizes | allocate, count, find, recycle, blacklist, weaken and strengthen, free | called by every instruction that makes or drops a pointer; reads the stacks of fibers; calls `onFree` callbacks |
| Reference counting of object graphs | `umka_vm.c` 228-268, 1264-1449 | the stack of candidates | walk a value by its type, count, free what has died | page heap; `onFree` callbacks re-enter it |
| Fibers and the VM loop | `umka_vm.c` 2188-2216, 3289-3347, 3615-3650, 4406-4730, 5262-5316 | per fiber: stack, `ip`, parent, `alive`; `vm->fiber`; the host resume record; the C stack | make, resume, return, sort, native calls, `umkaCall`, `umkaResumeFiber`, errors | API, page heap |
| Call frames | `umka_vm.c` 271-342, 4406-4625 | `base`, saved frames, a reference counter per frame | call, enter and leave a frame, unwind | page heap (counts of pointers into frames) |
| Maps | `umka_vm.c` 1830-2037, 3142-3190, 3568-3612, 4240-4278 | treap of nodes | index, assign, delete, validkey, keys, copy | page heap, comparison of values |
| Dynamic arrays, strings | `umka_vm.c` 1765-1828, 3000-3250 | header, shared storage with length and capacity | append, insert, delete, slice, copy | page heap |
| Sorting | `umka_vm.c` 882-925, 3289-3400 | the array itself | `qsortEx` | comparisons run Umka code |
| Host values and handles | `umka_vm.c` 1452-1760, 5034-5260, 5398-5644 | retained references | retain, read, assign, clear | page heap, API |
| API session | `umka_api.c`, `umka_compiler.c`, `umka_vm.c` 4732-4830 | phase of the instance, error jumper and its nesting, interrupt request | init, compile, run, call, interrupt, free | everything |
| Arithmetic | `umka_vm.c` 1064-1200, 3881-4200, `umka_const.c` | none | unary and binary operators, comparison, assignment with range check; the same at compile time | VM loop, compiler |
| Code generator | `umka_gen.c` | the code, `lastJump`, stacks of open jumps | emit, peephole optimizations, if/while/for/switch, break/continue/return | parser |
| Identifiers, scopes, modules | `umka_ident.c`, `umka_common.c` | list of identifiers, stack of blocks, stack offsets | declare, find, allocate locals | parser |
| Types | `umka_types.c` | list of types | equivalence, compatibility, conversion | parser, VM |
| Lexer | `umka_lexer.c` | position in the text | next token, semicolon insertion | parser |
| Parser | `umka_decl.c`, `umka_stmt.c`, `umka_expr.c` | none of its own | recursive descent that emits code, including the reference-count instructions | all of the above |
| Playground | `playground/umka.js`, `index.html`, `umka.c` 102-124 | what the loader waits for, buffers of unfinished lines | start WebAssembly, run a program, print | the API, the browser |
| Formatted I/O, runtime library, driver | `umka_vm.c` 2220-2990, `umka_runtime*`, `umka.c` | none | formatting, files, time, arguments | OS |

### What is hard, and what makes each component correct

* **Page heap.** Chunks are never reused one by one; a page is given up when all
  its counts are zero. Operands on the stack are *not* counted, so a page that
  looks unreferenced may still be in use: it is then blacklisted instead of
  recycled, and the blacklist is emptied later. Correct when counts are exact, no
  page is lost or listed twice, counted pointers and operands never point into
  reused memory, weak pointers never lead to somebody else's object, `onFree` runs
  once, and the two caches in front of the list of pages are never stale.
* **Fibers.** One C stack under many Umka stacks. A loop ends when *some* fiber
  pops `RETURN_FROM_VM` or control reaches a fiber that waits for the host, and
  nothing in the code relates that to the loop that is waiting. Correct when every
  loop is left through its own return address, the fiber the C code holds is the
  fiber of the machine, a failed or finished host resume leaves no trace, and dead
  fibers stay dead.
* **Maps.** Readers rotate the tree, while holding the address of a pointer inside
  it. Correct when it implements an ordered map, no lookup loses its key, and every
  lookup ends.
* **Reference counting of graphs.** One shared stack of candidates, re-entered by
  `onFree`. Correct when what is unreachable is freed once and what is reachable is not.
* **Call frames.** Correct when a pointer to a local variable that outlives its frame
  is reported, and nothing else is.
* **Arrays.** Assignment shares storage, and `append`, `insert` and `delete` alter it if there is room.
  Correct when everyone who shares it sees the change and nobody else does, and each item
  is counted once wherever it moves.
* **Sorting.** Scans without sentinels, comparisons that run any code. Correct when it stays in its
  bounds and ends with the items in order.
* **Host handles.** Values copied into `malloc`ed storage that nothing counts. Correct when each
  reference and each block is given back once, and what is retained stays as it was.
* **Playground.** WebAssembly arrives late, and its functions are bound when they are first called. Correct
  when the page can run programs in the end, and what they print arrives once and in order.
* **Sessions.** Errors are `longjmp`s. Correct when an error that is raised while a call is active lands in a call
  that is still on the stack, and an interrupt that was requested is not lost.
* **Compiler.** One pass, jumps patched later, instructions merged with the ones
  before them. Correct when code that was optimized does what the source says.
* **Arithmetic.** Correct when folding at compile time and execution agree.

PROJECT.json lists the places where these go wrong or could ("hazards"), and which
property watches each.

## 2. Plan

In order, the most important behaviour first.

| # | Module | State |
|---|---|---|
| 1 | `PageHeap`, with `PageHeap_proofs` | done: checked and proved |
| 2 | `Fibers`, with `Fibers_proofs` | done: checked and proved |
| 3 | `OrderedMap` (abstract), `MapTree` implements it, with `MapTree_proofs` | done: checked and proved |
| 4 | `RefCount`, with `RefCount_proofs`: object graphs, `onFree` re-entrance, assignment through a pointer whose object the right-hand side frees | done: checked and proved |
| 5 | `Session`, with `Session_proofs`: jumper nesting, interrupts, cleanup in `umkaFree` | done: checked and proved |
| 6 | `CodeGen`, `Compile`, `Structured`, `Execution`: statements to jumps and releases, execution by the machine, against the meaning of the source | done: checked |
| 7 | `HostHandles`, with `HostHandles_proofs`: values and handles that the host retains | done: checked and proved |
| 8 | `SharedLists` (abstract), `DynArray` implements it, sorting included, with `DynArray_proofs` | done: checked and proved |
| 9 | `Playground`: the loader, clicks and printing in the web page | done: checked |
| 10 | `CallStack`, with `CallStack_proofs`: frames, escape detection, unwinding across fibers | done: checked and proved |
| 11 | `Peephole`: the other optimizations, by symbolic execution of optimized and plain code from every label | planned |
| 12 | `Arithmetic`: folding against execution, at a small width | planned |
| 13 | `TypeRules`, `Scopes`, `Lexer` | planned |

Abstract specifications: `OrderedMap` for `MapTree`, `SharedLists` for `DynArray`, and structured programs
(`Structured`) for the code that is compiled.
Theorems worth proving next: `PrintedInOrder` of `Playground`, and that a step of `Execution` keeps the stack of the
machine balanced, for which the loop of the machine would have to be stated without recursive operators.

## 3. `PageHeap`: the memory manager

**State.** `page[b]` is the page header with its chunk headers in the block of memory
`b`; `live`, `recycled` and `blacklisted` are the three lists of `HeapPages`;
`lastAccessed`, `lowest`, `highest`, `freeId`, `blacklistedSize` and `totalSize` are
its fields; `cap[b]` is what `malloc` gave for block `b`. The program that drives the
heap has counted variables (`ref`), weak variables (`weak`), operands on the stacks of
fibers (`temp`) and a running fiber (`cur`). Serial numbers (`obj`) and the number of
calls of the callback (`calls`) are ghosts that properties compare with.

`live` and `blacklisted` are sets: their order is that of ids or does not matter for what
is modelled, and where the code's choice depends on an order the model does not keep,
the model allows every order (`Orders`, used when the blacklist is emptied). `recycled` is a
sequence because allocation pops it.

**Actions.** `Alloc` is `chunkAlloc`, with its three sources of memory: a page with
room (`pageFindForAlloc`), the stack of recycled pages (`pageFindRecycled`, which frees the
pages too small for the request on its way), a new region (`pageAdd`). `Assign` is
`doRefCntAssign`: count the new value, then release the old one, which may empty a page
(`pageRemove`) and so scan the stacks and empty the blacklist. `Collect` is the release of a
variable at the end of its scope, `Load` and `Drop` push and pop an operand, `Weaken` and
`Strengthen` convert weak pointers, `Resume` switches fibers, `Free` is `vmFree`.

**Discipline of the program.** `TempsAcrossYield = FALSE` says that a fiber is suspended only
when it holds no operands, unless a descendant of it runs. The code does not enforce this;
with `TRUE` in `PageHeap.cfg`, `ChainTempsProtected` is violated (section 15).

**Properties.** `CountsExact`, `ListsPartition`, `RefsIntact` (no dangling pointer, ever),
`ChainTempsProtected` (no operand of the running fiber or its ancestors is in reused
memory), `WeakExact`, `CachesCurrent`, `FinalizedOnce`, and the type invariant.

**Bounds.** Three regions, three allocations, two counted variables and one weak one, two
fibers with one operand each, chunks of 1 and of 3 granules in pages of 2, a blacklist that is
full at 2. So a page holds two small chunks, a large chunk needs a page of its own, a recycled
page may be too small or too large, and a third allocation can reuse the memory of the first
while a weak pointer and an operand of another fiber still name it. Everything a fourth
allocation could add is a repetition of these; the theorems below hold for any number.

## 4. `Fibers`: switching, and the C stack

**State.** For each fiber `alive`, `parent`, `ret` (the return addresses on its stack) and
`ip`, of which only "is it `RETURN_FROM_VM`" matters. `cstack` is the C stack: activations
of `vmLoop`, each with its local variable `fiber`, and of `sort()` and native functions between
them. `vmFiber` is `vm->fiber`; `host` is the record of the host resume. `RETURN_FROM_VM` is
represented by the depth of the C stack at which it was pushed, a ghost that `ReturnsMatch`
compares and no guard reads.

**Actions.** One per way control moves: `Make`, `Call`, `Return` (by the kind of the return
address), `Resume`, `Sort`/`Compare`/`SortDone`, `Extern`/`ExternReturns`, `HostCall`
(`vmCall`), `HostResume` (`vmResumeHostFiberValue`), `Error` (any runtime error, `exit()` or
interrupt: everything on the C stack goes, and only `umkaResumeFiber` repairs the host
record), `Destroy`, `Cleanup`. `LoopReturns` is the return of `vmLoop` to whichever C function
called it, with what that function then does.

**Discipline of the program.** `OrphansAllowed = FALSE`: a fiber ends after the fibers it has
made. `YieldInNested = FALSE`: a comparison or a callback does not switch to a fiber that waits
for an outer loop. Neither is enforced by the code; section 15 says what happens without them.

**Properties.** Besides the type invariant: `ReturnsMatch`, `RunningIsVmFiber`, `FamilyKept`, `DeadIsFinal` and
`HostLeavesNoTrace`. The last has two halves. Between calls of a live interpreter the main fiber is current, with its stack as
it was left (`CallRunnable`), and the boundary fiber, which is a variable of the C function `umkaResumeFiber`, is nobody's
parent (`BoundaryScoped`). And whichever way `umkaResumeFiber` ends, an error that ends the interpreter included,
`vm->fiber` and the parent of the resumed fiber are put back by that step (`ResumeUndone`, an action property). One way is left
out: if native code below `umkaCall` has called `umkaResumeFiber`, the error lands in `umkaCall` and nothing puts
the parent back. The interpreter is terminated then, and may not be called again (`api.md:463`).

**Bounds.** Four fibers, six frames on the C stack, three return addresses per fiber: enough for
a sort in a callback in a host resume, with a family of three generations. All fibers but the main
one are interchangeable, and no property names one.

## 5. `OrderedMap` and `MapTree`: maps

`OrderedMap` is what the language promises of a map: the last value stored under each key, and the
keys in ascending order. `MapTree` is the code: one step is one iteration of the loop of
`doGetMapNode`, which either rotates a child up (`doRebalanceMapNodes`) or moves the link, and then
one step for what the caller does where the walk has ended. Integers have `Width` bits and
`KeyDiff` subtracts in that width, as `doCompare` does.

`MapSpec` is the refinement: under the mapping that reads the contents off the linked nodes,
every walk is a stutter and every final step is the operation of the map. `SearchTree` has four parts, which
hold in the middle of walks too: types, `TreeShaped` and `Ordered`, and `SearchNarrows`, which says that a rotation never takes the key out
of the subtree that is still to be searched. `WalkProgresses` is a variant: each iteration leaves
fewer nodes below the link or the same ones and a higher priority at it, so that the loop ends.

**Bounds.** Four keys, four nodes, two priorities: all the trees of up to four nodes in all the
arrangements of priorities, deletion of nodes with two children included, and keys no two of which
are further apart than the type can express (`AllKeys` in `MapTreeMC` has others, with which `SearchTree` is
violated). Items are 0 and 1. What `KeysClose` demands of the keys is the hypothesis of the theorems about their order
(section 14); `CloseKeys` has it. `MapTree_proofs` shows the same for any number of keys and nodes, `TreeShaped` and
`WalkProgresses` even for keys that are not close.

## 6. `RefCount`: graphs of objects

**State.** `count` is the count in the header of each object's chunk, `mem` the pointers in the
cells of objects and variables. `candidates` is the one stack of `doRefCntImpl`; an entry is
`deferred` while the items of an object that loses its last reference are released before it.
`cstack` has the activations of `doRefCntImpl` and of the `onFree` callbacks between them; `lhs` is
an address that was pushed for an assignment whose right side is still being evaluated, `store` the
`doAssignImpl` that follows a release. `calls` is a ghost.

**Actions.** One iteration of the loop (`Iterate`) is a step, so that a callback can run between
two of them; `ReleaseReturns` and `OnFreeReturns` go back to the caller. Compiled code allocates
(`New`), assigns variables (`AssignVar`, which is also the end of a scope), assigns through
pointers in two steps (`PushLhs`, `AssignLhs`) and copies structures (`Copy`). Native code
keeps and gives up pointers (`HostIncRef`, `HostDecRef`). Counting a value up traverses nothing
but the value and calls nothing, so it is part of the step that assigns. Results of functions,
whose reference is moved and not counted, are not distinguished from values of variables.

**Disciplines.** `StaleLhs = FALSE`: a function on the right side of an assignment does not let
go of the object that the left side is in. `CountsInOnFree = FALSE`: a callback does not call
`umkaDecRef()`. Neither is enforced; run `ref_count_stale` drops the first, and section 15 says what happens
without the second. Native code is taken to keep pointers to `HostKept` only, in the program's turn.

**Properties.** `CountsExact` says what a count is at *every* point of a release: the number of
owning cells, values on their way into a cell, candidates and running callbacks that refer to the
object. `ReachableAlive`: no release meets a dead object, and what the program can reach is
alive. `ReclaimedOnce`: what it cannot reach is dead, but for cycles and what they hold
(`ReclaimedWhenIdle`), and callbacks run exactly once (`OnFreeOnce`).

**Bounds.** Two composites of two items and one native object, two variables and one
reference of native code: diamonds, cycles of one and of two objects, an object that is kept
alive by a pointer to one of its items, a callback in the middle of a release. The addresses of
items are taken of the first item only and kept in variables only (`Addressed`,
`AddressesKept`). Memory of dead objects keeps its contents: whether it may be reused is the
subject of `PageHeap`.

## 7. `Session`: errors and interrupts

**State.** `cstack` is the C stack from outside the machine: the API functions that run, and the native
functions that it calls between them. The one *armed* frame is the one that `error.jumper` was filled
in by, as long as that function is active. `nesting`, `alive`, `waiting` (the fiber is at
`RETURN_FROM_VM`) and `resuming` are the fields that decide what is armed and what is allowed.
`flag` and `msg` are the interrupt request; each function that writes both is two steps
(`Request`/`RequestFlag` on another thread, `Clear`/`ClearMessage` on the host's), and `vmCleanup` puts
them aside (`saved`) before it clears them in the same two steps. `expected` is a ghost: the messages that may be reported.

**Actions.** One per API function (`Compile`, `Run`, `Call`, `Resume`, `Free`, `FreeDead`), one per way
they end (`Compiled`, `CompileError`, `LoopReturns`, `Halt`), `Native` and `NativeReturns`, and the three
sources of errors: an instruction or `exit()` (`Fail`), another API function that fails, used by native code or by
the host program (`ApiFails`: `umkaAddModule`, `umkaGetFunc`, `umkaAllocData`, ...), the interrupt check before each
instruction (`Interrupted`). All errors go through `Jump`, the `longjmp`.
If no frame is armed the target has returned, which is undefined, and the phase becomes `"crashed"`: nothing is said of what
comes after that. `umkaRun` and `umkaCall` need `alive`: the documentation of `umkaAlive` forbids them afterwards.

**Discipline of the environment.** `Unruly` names what the environment does although nothing catches
its errors: API functions that fail when the host program calls them with nothing of Umka on the C stack (`"host"`),
cleanup code that fails (`"fail"`), interrupts requested during `umkaFree` (`"request"`), `umkaRun` in native code
(`"run"`). The code prevents none of them. Run `session` has all but the last (`AllButNestedRuns` in `SessionMC`), which makes
`error.jumper` that of the inner `umkaRun` for good; section 15 has what each of them does.

**Properties.** `ErrorsCaught`: only the host program's own calls and the cleanup lose their errors; whatever
is raised below `umkaCompile`, `umkaRun`, `umkaCall` or `umkaResumeFiber`, at any depth, lands in one of them that is active.
`DeadUnwinds`: an error that is caught empties the C stack, so that no function of a dead interpreter goes on.
`NestingExact`: as long as it lives, the nesting is exact. `ReportsRequest`: the message is that of the latest request, also when
requests and clears overlap with the beginning of `umkaFree`, and what was requested and then cleared or put aside ends nothing.
`InterruptEnds` is the liveness property.

**Abstractions.** A message is written in one step, `snprintf` into the shared buffer is not. `vmCleanup` reads flag and message
in one step: what it puts aside is back only when the interpreter has been freed. The `onFree` callbacks that `vmFree` calls
after the cleanup are taken to raise no errors; for those in the cleanup `"fail"` stands.

**Bounds.** Seven frames: three entries with native functions between them and one to spare, so that an
error passes armed and unarmed frames of all kinds. Two messages, so that one can overwrite another.

## 8. `CodeGen`, `Compile`, `Structured` and `Execution`: the compiler

**Modules.** `CodeGen` is `umka_gen.c` as operators on a record: the code, `lastJump`, the stack of saved
positions, and the note that the last thing emitted is a copy of a result. An operator stands for the C
function of that name. `Compile` is the parser of statements (`umka_stmt.c`), with the parts of
expressions that have blocks, jumps or counted results: there is no source text, an action
*chooses* the next statement, or the next part of a compound one, and emits what the parser emits for it.
Its state is `umka` (code generator, stack of blocks, list of identifiers) and `open`, the activations of
the recursive parser, with the stubs of `break`, `continue` and `return` in `Gotos` structures. Besides,
it puts together the syntax tree. `Structured` says what such a tree means, knowing
nothing of code: what is left to do after each observed step. `Execution` runs the code
on the stack machine next to that meaning; a step is one iteration of `vmLoop` after another up to the next
instruction that can be observed, and tests have every outcome.

**Abstractions.** A statement or expression that is not looked into is one instruction `DO` or `TEST` with a
number, which is what is observed. All variables have a reference-counted type. A slot holds null, a counted
reference, or garbage. `DO`, `TEST` and `SELECT` also carry the number of operands that enclosing
statements keep on the stack (`operands`), for `StackBalanced` to compare with. `else if` is an `else`
with a block around the `if`, which emits the same code.

**Discipline of the program.** `JumpsInTypeSwitch = FALSE`: no `break` or `continue` leaves a type switch.
The compiler does not enforce it; with `TRUE`, `StackBalanced` is violated.

**Properties.** `FollowsSource`: whatever the tests give, the code does the steps of the source in their order, and
all of them. `StackBalanced`: at each of them the operand stack holds what enclosing statements keep there.
`OwnedOnce`: on every way through the function each counted reference is released once, and only the
result's is left. `CompilerSound`, at every point of the compilation: types; where a jump leads or may come to
lead, nothing is merged with what is before it, and no stub survives (`LabelsProtected`); the order of identifiers
that the comment in `identFindEx` claims and that the release of a block depends on (`IdentsSorted`).

**Bounds.** Functions of size three, with statements two deep inside one another, where the first constant that a
switch names, and a jump alone in a branch of an `if` or `switch`, add nothing, and `?`, `&&`, `||` and a call
in a condition count twice: so a loop with a declaration and a conditional `continue`, a loop with a `break` in a
`switch`, and a returned `?` in a loop are among them. Expressions are calls and `?`, whose second branch
is a value, so that both ways of counting a reference occur. Statements
after a jump in the same list are left out, because nothing reaches them. Case constants are two, and there is a
value that no case names. Every depth up to this one, and every construct inside every other, occurs; deeper nesting
repeats the same saved positions and blocks.

## 9. `SharedLists` and `DynArray`: dynamic arrays and sorting

**Modules.** `SharedLists` is what the language promises: a variable refers to a list, assignment shares it,
`append` and `insert` alter it and return it if its capacity allows and make a new one otherwise, `delete`
alters it, `slice` and `copy` make new ones, `sort` puts the items in order. `DynArray` is the code.

**State.** `store` has the chunks: reference count, length, capacity and items; `arr` says which one a variable
refers to. An item is a structure with a string, which is counted (`count`); `str` is a variable with such a structure,
and stands for everywhere else. `call` has the arguments of `append` or `insert` between the step that pushes
them and the one that runs the function: the item is there *by its address*. `sorting` is the state of
`qsortEx`: the ranges that are left, and the two scans of `qsortPartition`; one comparison is a step.

**Actions.** One for each of the built-in functions, with the assignment of its result to a variable. `Grow` is the
branch on the capacity that `append` and `insert` share. `GetItem`, `SetItem` and `NewString` are assignments of items.
`ScanUp`, `ScanDown` and `SwapOrSplit` are the steps of a sort.

**Disciplines.** `ItemOfItself = FALSE`: a program does not insert an item of an array in front of it in the
same array; run `dyn_array_insert` drops it. `CompareAlters = FALSE`: a comparison does not alter arrays; without it,
a deletion of an item in a comparison makes `StorageSound` false, because the sort swaps the place of the deleted item back
into the array.

**Properties.** `ListSpec`, the refinement: sharing is exactly what the documentation says. `StorageSound`: chunks and
strings are counted exactly, and the scans of a sort stay in their range, though
nothing but the comparison with the pivot itself stops the first one before the end. `SortEnds`: a sort
comes to its end, under weak fairness of its steps.

**Bounds.** Two variables, three chunks, one string (so two different items), arrays of up to three items; capacities above that are
all alike, so that arrays of every length meet a capacity that is enough and one that is not. With one variable,
two strings and up to four items the same properties hold (18172 states; `DynArrayMC` has the order of the strings).

## 10. `HostHandles`: values that native code keeps

**State.** Strings and boxes are counted chunks of the heap, `block` is storage from `malloc`. `cell` has variables,
parameters and storage of the host, of the types `str`, `struct` (standing for all values given by the address
of the memory they are in) and `any`, which leads to a box that holds a value of the type `Base`. `handle` has
the handles.

**Actions.** The program and the host assign (`AssignCell`, `AssignHostValue`), make strings and box values (`NewString`,
`MakeDynamicValue`). `RetainHostValue` counts the value, copies it into new storage, with what an `any` leads to, and then
clears what the handle had (`Fill`, `Freed`); `RetainHostData` keeps the pointer to a box. What the host assigns or
retains may come from a handle, the same one included (`OfHost`).

**Discipline of the host.** `RetainedAnyAssigned = FALSE`: an `any` that was read from a handle is not assigned to
variables. Section 15 says what happens otherwise.

**Properties.** `HandlesSound`: counts are exact, and storage has one owner and is freed once; `SelvesAlive`: each
`any` leads to memory that is still there; `RetainedStays`: what a handle keeps does not change, whatever becomes of the
variables it came from.

**Bounds.** Two handles, two strings, two boxes, three blocks (one more than the handles, for a copy that
is made before the old one is freed), a variable of each type and a second `any`: values can be shared by a variable and both
handles, handed from one handle to the other, and outlive each other in every order. `Base` is `struct`, because
`RetainHostData` is not meant for strings.

## 11. `Playground`: the interpreter in a web page

**State.** `loader` has `runDependencies`, `dependenciesFulfilled`, `calledRun` and how often the runtime was initialized;
`wasm` says if the instance is there, `stackSave` what the variable of that name is bound to; `text` has, per stream, what programs
have printed, what waits in the buffer of `put_char`, and what the page shows.

**Actions.** A handler of JavaScript runs to its end, so it is a step: `EvaluateScript` (`createWasm`, `run`), `ReceiveInstance`,
`InstantiationFails`, and a click, which runs a program (`Click`) or fails in `ccall` (`ClickInVain`). A program is a sequence of
writes and a way to end: `runPlayground` prints a new line or an error, or it was left by `exit()` or by an exception of
JavaScript.

**Disciplines.** `EarlyClicks = FALSE`: nobody clicks between the evaluation of the script and the instantiation. With `TRUE`
`ServesInTheEnd` is violated: `stackSave` is bound for ever to a function that does not exist yet. `OddLines = FALSE`: no program prints a line to
`stderr` like "Error in x", of which `onPrintErr` takes the third word for the number of a line. With `TRUE`
`PrintedInOrder` is violated: `selectLine` fails inside `put_char`, the buffer is not emptied, and the line is shown again.

**Properties.** `ServesInTheEnd`, under the assumption that the browser evaluates the script and settles the promise of the
instance; `PrintedInOrder`, of each stream.

**Bounds.** Three programs of up to two writes each, to both streams, with or without a new line: a line may be begun by one program, continued
by the next and ended by the third.

**What the file is.** `umka.js` is one line of generated JavaScript, with a binary in it. What is modelled is the loader, the way in
(`ccall`) and the way out (the terminal); the binary is the interpreter in C, which the other modules model from its source, and the
emulation of a file system and the other functions of the generated runtime are not modelled. That the map names this line
does not mean that all of it is modelled: of the 21350 lines of C in `src/src`, the map names about 4200, a fifth; section 16 says
which parts are left out.

## 12. `CallStack`: frames and escaping pointers

**State.** `stack` has the frames of each fiber: the counter, whether the frame was entered from C, and the one variable
of the function, a structure with a pointer. `shared` has the variables outside the stacks, `result` is what a function has returned
and its caller has not taken. A pointer is the place of the frame it leads into. `status` says how the program has ended.

**Actions.** `Enter` (a call by bytecode, or a comparison or callback, which copies what its closure has captured), `Leave` (the
epilogue of `return`, the check of `doLeaveFrame`, and the end of a fiber), `TakeResult` and `DropResult`, `Assign`, also through a
pointer into another frame, `Make` and `Switch`. All count pointers alike: `Seen` is the loop over the running fiber and its ancestors,
`Unreachable` is where unwinding gives up.

**Disciplines.** `CallbackPointers = FALSE`: what C code has called counts no pointers to the variables of its callers.
`LocalsLeftBehind = FALSE`: when control leaves a fiber, only its own variables point into its frames. Neither is
enforced by the code; section 15 says what happens without them.

**Properties.** `FramesCounted`: each counter is exact, whoever assigned the pointers. `PointersLive`: no pointer outlives its
frame. `AlarmsTrue`: a program that is stopped because a pointer escapes has one that does.

**Bounds.** Three fibers in a line, four frames among them, one variable outside: a callback under two frames, a
pointer from a fiber to its grandparent, and every way to carry a pointer out of a function (result, global variable, pointer to a
variable of the caller). A frame has always the same address at the same depth, so that a pointer that is left
behind leads to the next frame there.

## 13. The runs

| Run | Shows |
|---|---|
| `page_heap` | the eight properties of section 3 hold |
| `fibers` | the six properties of section 4 hold under both disciplines |
| `map_tree` | the tree implements an ordered map, and every walk ends |
| `ref_count` | the three properties of section 6 hold under both disciplines |
| `ref_count_stale` | the right side of an assignment frees the object that the left side is in (finding) |
| `session` | the five properties of section 7 hold, errors that nothing catches included, but for `umkaRun` in native code |
| `execution` | the four properties of section 8 hold, for all small functions and all their executions |
| `dyn_array` | arrays implement shared lists, counts are exact, sorts end |
| `dyn_array_insert` | an item inserted in front of itself is another one (finding) |
| `host_handles` | the three properties of section 10 hold under the discipline |
| `call_stack` | the three properties of section 12 hold under both disciplines |
| `playground` | the page serves in the end, and text arrives once and in order, under both disciplines |

`CHECK_DEADLOCK FALSE` is set for `PageHeap`, `Fibers`, `RefCount`, `Session`, `Execution`, `CallStack` and `Playground`, which really stop
(`Free`, a dead main fiber, a runtime error, an exhausted bound, the end of the function, a page that failed to load).
`MapTree`, `DynArray` and `HostHandles` never do, and deadlock is checked there.

**Fairness.** `Session` assumes weak fairness of three steps: the thread of the machine
goes on and so looks at the flag (`Interrupted`), native functions return (`NativeReturns`: the
documentation says that they are not preempted), and `umkaClearInterrupt`, once called, ends
(`ClearMessage`). Nothing is assumed of the other thread, nor that bytecode ever returns: that an
endless loop is ended too is the point of `InterruptEnds`. `DynArray` assumes that a sort goes on (its comparisons return,
which is a matter of the program), `Playground` that the browser evaluates the script and that the promise of the instance is
settled, one way or the other; clicks are never assumed. That a walk in a map ends is shown by its
variant, which needs no fairness.

Every property of a passing run is paired with a *mutant*: a wrong version of a definition, kept
in the module beside the right one and marked as such, under which TLC finds the property
violated.

## 14. What is proved

`PageHeap_proofs` proves, for any sets of variables, weak variables, fibers and stack slots, any
finite set of blocks, any sizes and any number of allocations:

| Theorem | States |
|---|---|
| `TypeCorrect` | `Spec => []TypeOK` |
| `CountsCorrect` | `Spec => []CountsExact` |
| `NeverDangling` | `Spec => []RefsIntact` |
| `CachesCorrect` | `Spec => []CachesCurrent` |
| `WeakCorrect` | `Spec => []WeakExact` |
| `TempsProtected` | `~TempsAcrossYield => (Spec => []ChainTempsProtected)` |
| `CallbacksOnce` | `Spec => []FinalizedOnce` |
| `ListsCorrect` | `Spec => []ListsPartition` |

**Assumptions.** The four named assumptions of `PageHeap`: blocks are a finite set of non-zero
numbers, variables are finite, sizes are natural numbers, the family of fibers is consistent (`Chain`
is the closure of `Parent`). TLC evaluates them in every run.

**Argument.** None of these is inductive alone. `Inv` joins:

* `TypeOK`;
* `Identity`: ids of listed pages are distinct and below `freeId`, serial numbers of chunks are
  distinct, and a weak pointer whose id is still listed names the chunk it was made for. Without
  it an allocation might make an old weak pointer lead to a new chunk;
* `BoundsKnown`: the address bounds are set as soon as there is a page;
* `CountsExact` and `RefsIntact`, which need each other: a count is only kept for a page that is
  found, and a page is only kept for its count;
* `CachesCurrent`, without which a page that is listed would not be found;
* `ListsDisjoint` as long as memory has not been freed: otherwise recycling one page would
  take the memory of another.

`ChainTempsProtected` is proved from `Inv` in a second induction, under the discipline of the
program. `FinalizedOnce` takes another: `Accounts` says of *every* block that its count of callbacks is that of the
chunks that are alive and have one, and of blocks that are not listed that their chunks are dead, since `pageFree` goes by
the count and looks at listed pages only. `ListsPartition` needs what a sum over a finite set does when a page is added
and when several are taken away (`SizeOfAdd`, `SizeOfMinus`); both follow from the recursion that the library's fold
unfolds to, each by a minimal set for which it would fail (`MinimalSet`), as do the existence and the uniqueness of the function that
this recursion defines. `Init => Inv` and `Inv /\ [Next]_vars => Inv'` are proved action by action; `Alloc`,
`Assign` and `Collect` go through lemmas on `DecRef` and `PageAdd`, which several actions share,
and on the cardinality of the sets of holders.

`Session_proofs` proves, for any sets of messages and any depth of the C stack, that unless native code
calls `umkaRun` (`"run" \notin Unruly`):

| Theorem | States |
|---|---|
| `ErrorsAreCaught` | `Spec => []ErrorsCaught` |
| `NestingIsExact` | `Spec => []NestingExact` |
| `DeadHasUnwound` | `Spec => []DeadUnwinds` |
| `LatestIsReported` | `Spec => []ReportsRequest` |

**Argument.** `IInv` is inductive: besides types it says that while the interpreter lives the
*first* frame of the C stack, if there is one, is the armed one and no other is, except during the
cleanup; that `nesting` counts the entries; that a native function is never the bottom frame; and that a message
which is about to be written or cleared by either thread is accounted for in `expected`. The first part is why
`umkaCall` may leave the jumper alone when `nesting > 0`: the count being exact tells it that the
bottom frame is armed already. `JumpUnwinds` then shows that every error empties the C stack at once, unless the stack is
`Bare`, which is the other case: it is empty or the cleanup and its native functions are all it has, and then no frame is
armed (`Uncaught`).

`Fibers_proofs` proves, for any number of fibers, any depth of the C stack and any number of calls,
that under the discipline `~YieldInNested /\ ~OrphansAllowed`:

| Theorem | States |
|---|---|
| `WellTyped` | `Spec => []TypeOK` |
| `LoopsReturnInOrder` | `Spec => []ReturnsMatch` |
| `OneFiberRuns` | `Spec => []RunningIsVmFiber` |
| `HostCallsLeaveNoTrace` | `Spec => HostLeavesNoTrace` |
| `FamiliesAreKept` | `Spec => []FamilyKept` |
| `DeadFibersAreFinal` | `Spec => DeadIsFinal` |

**Argument.** `IInv` ties the stacks of the fibers to the C stack, as long as the main fiber is alive: the
`RETURN_FROM_VM` of each loop is on the stack of the fiber that ran when the loop was entered, above those of
the loops outside it (`Addresses`, `Awaited`); a fiber that an outer loop waits for runs in the
loop that began with it (`AtHome`); loops and native code alternate (`Nested`); each loop on the
C stack has a fiber that is alive, and the last one has `vm->fiber` (`Runner`); one fiber at most waits for a host resume, which is the
only reason for a fiber to have the boundary as its parent (`Hosted`, `Waiting`, `Family`). `ReturnsMatch` alone is
not inductive: that an address is the last on its stack says nothing of the ones under it. Each step is shown to
keep all parts; switches, which `resume`, the end of a fiber and the end of a host resume share, in `SwitchStep`.
`HostCallsLeaveNoTrace` has an invariant half, which is part of `IInv` (`ReadyForHost`), and an action half (`Undone`): the record of the
host resume has what is to be put back, by the loop that returns (`Finished`) as well as by the error.

`HostHandles_proofs` proves, for any sets of strings, boxes, blocks, variables and handles:

| Theorem | States |
|---|---|
| `HandlesAreSound` | `Spec => []HandlesSound` |
| `SelvesStayAlive` | `~RetainedAnyAssigned => (Spec => []SelvesAlive)` |
| `RetainedValuesStay` | `Spec => RetainedStays` |

**Argument.** `IInv` adds to `HandlesSound` what handles and variables look like: storage belongs to one handle and has a value that fits the
type of the handle, and an `any` in a variable leads to a box. An assignment counts the new value up before the old one
is released, and the release of a box may release the string in it; `Excess` is by how much a count
is ahead of its holders in between, and each of these operations changes it for one chunk by one.

`CallStack_proofs` proves, for any sets of fibers and variables and any number of frames:

| Theorem | States |
|---|---|
| `FramesAreCounted` | `~LocalsLeftBehind => (Spec => []FramesCounted)` |
| `PointersStayLive` | `~LocalsLeftBehind => (Spec => []PointersLive)` |
| `AlarmsAreTrue` | `~LocalsLeftBehind /\ ~CallbackPointers => (Spec => []AlarmsTrue)` |

**Argument.** Counting is only right for frames that can be seen from the running fiber, so `IInv` says besides the balance
of the counters that every pointer in a place leads into the chain of the fiber that is running, or into the stack it is in
(`PointersInChain`), which `LocalsLeftBehind` would break, that the parents of live fibers are alive and that C code has called the
first function of each (`Families`).
The stacks are seen as a function of places: entering and leaving a function adds and removes a place, and everything
else replaces what one place holds.

`RefCount_proofs` proves, for any finite sets of objects and variables, any number of items and object graphs of any
shape, that under the discipline `~StaleLhs /\ ~CountsInOnFree`:

| Theorem | States |
|---|---|
| `ExactCounts` | `Spec => []CountsExact` |
| `ReachableStaysAlive` | `Spec => []ReachableAlive` |
| `GarbageReclaimedOnce` | `Spec => []ReclaimedOnce` |

**Argument.** `IInv` joins to `CountsExact` and `OnFreeOnce`: the C stack is empty, or has one release, or that and one
callback whose object has one reference left (`Stacked`); a deferred candidate has the last reference to its object
(`LastReference`); native data has no items and variables have one cell (`Shaped`); and the object that an assignment in
progress stores to is held by a way that does not lead through the cells that are assigned (`Anchored`). The last part is
what the discipline gives, and why the store that ends the release does not write to dead memory; it is kept because a
release only takes cells away from an object that no other cell holds any more. The sum in `CountsExact` has four terms, and each
step moves a reference from one to another: lemmas say how each term changes when a cell is assigned, the cells of an object are added or
taken away (`RowAdded`), or a candidate is popped or pushed. `ReachableAlive` follows since live objects hold live ones only;
`ReclaimedWhenIdle`, since an object that is alive and not reachable is held by another one of that kind, and as they are
finitely many, one with a minimal set of objects above it holds itself.

`DynArray_proofs` proves, for any finite sets of variables, chunks and strings, any bound on the length and any
order of the items:

| Theorem | States |
|---|---|
| `ArraysSound` | `~CompareAlters => (Spec => []StorageSound)` |
| `ArraysShare` | `~CompareAlters /\ ~ItemOfItself => (Spec => ListSpec)` |

**Argument.** `IInv` is `Storage /\ CallSound /\ SortSound`. `Storage` has the types, the counts and that a chunk that is not
counted is empty (`Unused`), without which a new chunk might find items in its place. An operation first counts its result and then releases what the
variable had: in between a chunk may be one ahead of its holders (`Ahead`), and `ResultSound` takes all of them back to the
exact counts. `CallSound` says that the place and the address of an item that were pushed are still in the array when the
function runs. `SortSound` is what keeps the scans in their range: the ranges that are left do not meet and are in the
array (`RangesIn`), items before the first scan are not above the pivot and those after the second one are
(`Partitioning`), and two items are in order unless one range covers both (`OrderedBut`), by
which the array is in order when no range is left. It holds of the ranks of the items: a deletion
by a comparison would shorten the array under the scans, which is why `CompareAlters` is excluded.

`ArraysShare` is the refinement, step by step: `InitShared` and `NextShared` show that the code begins as `SharedLists` does
and that each step is a step of it or changes nothing that it shows. The mapping reads a list off its chunk and the item
of a pending call off its address. `ResultPuts` is the common part: what `Result` leaves of a chunk is its list as long as a
variable refers to it, and the empty list from then on, which is where sharing and counting meet, because it takes the exact
counts to know that the last reference went. A swap is a permutation; `SwapOrSplit` ends the sort only when no range is left, and
then `OrderedBut` is the order that `SharedLists` demands. `~ItemOfItself` is needed for `insert` alone (`InsertReturns`): the item it reads
after moving the others is the one whose address was pushed.

**Assumptions.** `DynArrayAssumption`: what there is of variables, chunks and strings is finite, chunks are ordered by their
addresses, and what the comparison compares are integers. `NullAssumption`: the value that stands for
nothing is neither the state of a sort nor the arguments of a call, which the mapping needs to tell them apart.

The modules whose counts are cardinalities begin with the same few lemmas on counting: how many holders there are
after one of them is given another value (`CountUpdate`, `HoldingUpdate`), and, where an induction over finite sets
is needed, that a finite family of finite sets has a minimal one (`MinimalSet`).

`MapTree_proofs` proves, for any finite set of nodes, any keys, items and priorities and integers of any width:

| Theorem | States |
|---|---|
| `TreeKept` | `Spec => [](TypeOK /\ TreeShaped)` |
| `SearchTreeKept` | `KeysClose => (Spec => []SearchTree)` |
| `WalksProgress` | `Spec => WalkProgresses` |
| `MapsImplement` | `KeysClose => (Spec => MapSpec)` |

**Argument.** The properties speak of `InOrder`, which is defined by recursion over the tree, and a recursion over pointers is a
function only as long as they make a tree. So the invariant speaks of sets instead: `Tree(ch, below)` says that `below`
gives each node the nodes below it, which are itself and, apart from each other, those below its children. `IInv` is
`TypeOK /\ \E below : Shape(below) /\ (KeysClose => Order(below))`. `Shape` has the tree, the length and that the link
belongs to a node that is linked. `Order` has the order of the keys (`Sorted`), and, during a walk, that the key that is looked
for belongs where the link is, among the keys of all the nodes above, and is nowhere else in the tree. The last part is
`SearchNarrows`; the one before it is why a node may be linked where the search has ended. TLC cannot look for a `below`; it checks
the parts that the properties name, and the lemmas show that they follow.

For each change of pointers one lemma gives the new sets: a rotation (`RotatedTree`), a new leaf (`InsertedTree`), a node with one child
taken out (`SplicedTree`), and a node replaced by one that is not linked (`ReplacedTree`). A deletion
with two children is the last two in turn: its successor is taken out, and then put in its place (`SucceededTree`). A
rotation keeps the set below the link and brings a higher priority to it, a visit leaves the node at the link out of
the set: that is `WalksProgress`, which needs nothing of the keys.

Back to `InOrder`: `OrderEquation` shows that the recursive definition has a value that satisfies it, since a function that does on
a set of nodes with their children can be extended by any node whose children are in the set; `OrderBelow` and `OrderSorted` then show by induction up the tree
(`LowestNode`: a set of nodes has one whose children are not in it, from `MinimalSet`) that it lists what is
below a node, once and in the order of the keys. `LeftmostLeast` is why the successor may take the place of the node that is deleted.

`MapsImplement` reads the contents of the map off the linked nodes, each of which has a key of its own. Starting an operation is `Call`, an
iteration of a walk changes nothing that is visible, and the last step of each operation is that of the map. That an index finds
the item if there is one takes `Order`: where the search ends at nothing, the key is nowhere.

**Assumptions.** `NodesAssumption` and `DataAssumption`: there are finitely many nodes and at least one key, keys are integers of `Width` bits,
priorities are positive, as `rand() + 1` is. `PowersAssumption` states what the provers do not know of powers: `2^(Width - 1)` is a positive number, half of
`2^Width`. The hypothesis `KeysClose` restricts the program: no two keys are so far apart that their difference
overflows; without it the order of the tree is lost (section 15), its shape is not.

**Hypotheses.** The disciplines in these theorems are the ones that the runs use; section 15 has for each of them what happens
without it, so that none can be left out. They restrict the program, not the implementation.

**Only model-checked.** Of `Session`, `InterruptEnds`, a liveness property. Of `DynArray`, `SortEnds`,
a liveness property. All of `Playground`, which folds over sequences and whose
main property is liveness, and of `Execution`: `Structured` and the loop of the machine are recursive
operators, and `Compile` folds over lists of stubs and of identifiers. Liveness under fairness and `ENABLED` are out of the prover's reach.

## 15. Findings

Disagreements between the code and what its documentation or comments say, each shown by a
run, with the quotation in PROJECT.json:

1. `ref_count_stale`: the address of the left side is pushed, uncounted, before the right side is
   evaluated (`umka_vm.c:3873`). `p.q = f()` where `f` sets `p` to null releases the old `p.q`
   twice, and a legal program ends with "Dangling pointer".
2. `dyn_array_insert`: `insert` reads a structure from its address after moving the items
   (`umka_vm.c:3087`). `insert(a, 0, a[1])` inserts the item that was before it.

More were met, which have no run of their own. Each is shown by a constant in the configuration of its module; all
but the last four were also seen in the interpreter:

| Set | Violated | What happens |
|---|---|---|
| `TempsAcrossYield = TRUE` in `PageHeap` | `ChainTempsProtected` | the stack scan follows the running fiber and its ancestors only (`umka_vm.c:480`): `s + g()` in a child, where `g` resumes the parent and the parent reassigns `s`, prints memory that was reused |
| `YieldInNested = TRUE` in `Fibers` | `ReturnsMatch` | comparisons that switch fibers return to the wrong sort (`umka_vm.c:3316`) |
| `OrphansAllowed = TRUE` in `Fibers` | `FamilyKept` | `resume()` in a fiber whose parent has ended ends the program (`umka_vm.c:3620`), where the documentation says that the current fiber continues |
| `Keys <- AllKeys` in `MapTree` | `SearchTree` | comparison by subtraction overflows (`umka_vm.c:1125`): a map loses keys and holds others twice |
| `JumpsInTypeSwitch = TRUE` in `Execution` | `StackBalanced` | `continue` and `break` out of a type switch leave the interface that it keeps on the operand stack (`umka_stmt.c:1156`), and a long loop ends with "Stack overflow" |
| `"host" \in Unruly` in `Session`, as in the run | `phase # "crashed"` | an API function that fails when the host program calls it by itself, such as `umkaGetFunc` or `umkaAddModule` (`umka_compiler.c:367`, `:393`), jumps into a function that has returned (`umka_api.c:35`), where the documentation says that it returns `false` (`api.md:46`) |
| `"fail"` or `"request"` in `Unruly`, as in the run | `phase # "crashed"` | the cleanup in `umkaFree` has no jumper of its own (`umka_compiler.c:321`): an error or an interrupt meanwhile jumps into a function that has returned |
| `Unruly <- Anything` in `Session` | `ErrorsCaught`, `DeadUnwinds` | `umkaRun` in native code arms the jumper again whatever the nesting (`umka_api.c:103`): an error in the inner run leaves the outer one on the C stack of a dead interpreter, and it returns 0; once the inner one has returned, errors in the outer one jump into it |
| `CountsInOnFree = TRUE` in `RefCount`, with two native objects that may be kept | `CountsExact`, `ReclaimedOnce` | `umkaDecRef()` in an `onFree` callback resets the stack of candidates of the release that called it (`umka_vm.c:1271`), so that its siblings leak until `umkaFree` |
| `CallbackPointers = TRUE` in `CallStack` | `AlarmsTrue` | unwinding cannot pass `RETURN_FROM_VM` (`umka_vm.c:332`): a comparison of `sort()` that captures a pointer to a local variable, or copies one out of the array, ends the program with "Illegal stack pointer" |
| `LocalsLeftBehind = TRUE` in `CallStack` | all three | the counters of a suspended fiber are out of reach (`umka_vm.c:797`): a pointer to its variable that others drop is reported as escaping, and one that they copy dangles unnoticed |
| `CompareAlters = TRUE` in `DynArray` | `StorageSound` | a comparison that deletes from the array that is being sorted |
| `RetainedAnyAssigned = TRUE` in `HostHandles` | `SelvesAlive` | an `any` read from a handle leads into the storage of the handle (`umka_vm.c:5555`); assigned to a variable, as the documentation describes (`api.md:1397`), it dangles when the handle is cleared |
| `EarlyClicks = TRUE` in `Playground` | `ServesInTheEnd` | a click before the instance is there breaks the page for good |
| `OddLines = TRUE` in `Playground` | `PrintedInOrder` | a line to `stderr` that looks like an error message is shown again |

Others are seen in the definitions: a recycled page forgets how large it is, so that `memusage()` drifts
(`umka_vm.c:464`); the check for the host boundary in `umkaResumeFiber` is passed inside a native function after it has
used `umkaCall` (`umka_vm.c:5293`); and the stack of saved positions is written without a look
at its size (`umka_gen.c:929`), so that a `switch` of a hundred cases overruns it.

## 16. Not modelled, and why

Formatting, file and time functions, the command-line driver and the embedded runtime library
are I/O without state of their own. The debugging hooks observe and change nothing. The leak
sanitizer only reports. The rest of section 2's table is planned, not excluded. Inside the modelled
components: `PageHeap` does not follow pointers inside objects (that is `RefCount`), nor
sizes near `INT_MAX`; the stacks of fibers, which the code allocates as chunks, are not
chunks of the model; `Fibers` has neither the contents of stacks nor the debugging hooks;
`MapTree` has integer keys only; `Session` does not know which fiber runs;
`Compile` has no closures, lists of variables or global variables, and of expressions only what section 8 names;
`DynArray` has arrays of structures only, and no conversions; `HostHandles` leaves out which types are supported (a
call that is rejected changes nothing), closures, fibers and the functions for single items of arrays and maps;
`Playground` is the loader, the way in and the way out of the generated script.
