# klox: a TLA+ model of the concurrent collector

klox is a Lox interpreter whose memory is a ring of continuous allocation split
into three regions. The interpreter writes only to region A. To collect, it
*freezes* A (A becomes B, B becomes C, and a new A is opened), and a second
thread condenses B and C into a new B while the interpreter runs on; later the
interpreter *integrates* the new B. Nearly everything that can go wrong is in
that sentence, and it is what these modules are about.

Paths are relative to the repository's `c/` directory, `src/c/` in PROJECT.json.

## The system and its parts

| Part | State | Operations | What makes it correct |
|---|---|---|---|
| Handshake (`memory.cpp`, `cb_integration.cpp`) | `gc_current_request`, `gc_current_response`, `gc_stop_flag`, the record in the ring, `gc_request_is_outstanding`, `gc_last_processed_response`, the GC thread's `last_request` | `collectGarbage`, `gc_submit_request`, `gc_main_loop`, `gc_submit_response`, `gc_await_response`, `integrate_any_gc_response`, `gc_deinit` | one collection at a time; every request is noticed, answered and integrated exactly once, in order; shutdown always completes |
| Object table (`cb_integration.cpp`, `memory.cpp`, `vm.cpp`) | layers A, B, C (id to offset), `next_obj_id`; in each object its fields | `objtable_add`, `objtable_lookup`, `resolveAsMutableLayer`, `instanceFieldSet/Get`, `objtable_freeze`, `objtable_invalidate` | an id always reads as the newest write through all its layers |
| Collector (`gc_perform`) | gray stack, dark set, dedupe set, new B, white list | `grayObject`, `grayObjectLeaves`, `copy_objtable_b`, `copy_objtable_c_not_in_b`, `dedupeObject`, `cloneObject` | no reachable object is lost; contents are the same value-wise |
| Value stack (`vm.h`, `vm.cpp`) | arrays at `abo`, `bbo`, `cbo`, their first indices, `stackDepth` | push, pop, discard, set local, set upvalue, freeze, condense, integrate | it reads as one stack; the current frame is in A and contiguous |
| Call frames (`vm.cpp`) | the same shape, and in each frame `slotsIndex`, `slots`, `ip` | `call`, `OP_RETURN`, `triframes_ensureCurrentFrameIsMutable` | cached pointers are current whenever they are used |
| Strings, globals (`table.cpp`) | a BST per region, tombstones | `tableGet/Set/Delete`, `tableFindString`, condensation | interning stays unique; a deleted global stays deleted |
| Upvalues, closures, classes (`vm.cpp`) | `openUpvalues`, method layers | `captureUpvalue`, `closeUpvalues`, `classMethodsAddAll` | the list stays sorted and shared; inheritance copies every method |
| Structmap (`structmap_amt.h`) | a trie in the ring | insert, lookup, traverse, size estimate | a map; it never outgrows its region |
| Ring: pins, resize, RCBP (`cb_integration.cpp`) | `pinned_lower_bound`, the list of rewritable pointers | `scoped_pin`, `klox_on_cb_resize` | nothing in use is below the lower bound; no pointer stays in the old ring |
| Compiler, scanner, chunk, printing, REPL | sequential | | not about the collector |

The parts meet at two kinds of place. Any allocation (`reallocate_within`) may run
`collectGarbage`, so a freeze can happen in the middle of almost any
instruction. The instructions `OP_LOOP`, `OP_CALL`, `OP_INVOKE`,
`OP_SUPER_INVOKE` and `OP_RETURN` call `integrate_any_gc_response`. Between the
two the GC thread reads B, C and the request, and nothing else that the
interpreter writes - that, at least, is the design.

Hard to test, and so what the properties aim at: address reuse in the
handshake, the mutator rearranging the heap behind the marker's back, entries
that age through several collections (flagged, tombstoned, masked, merged,
shared), frames that are frozen while suspended and returned to later, values
held only by C++ locals, strings resurrected from a weak table, raw pointers
into a ring that moves, room that is counted long before it is used.
PROJECT.json lists each at its line.

## Modules

| Module | Is | Correspondence |
|---|---|---|
| `GcCycle` | abstract | request, answer, integrate, in turn |
| `GcHandshake` | detailed | one action per shared access of either thread; `pc` and `gpc` are the places in the code between two of them. Records are abstracted to the number of the request they carry and of the request they answer. Addresses are reused freely: `PrepareRequest` takes any address its loop accepts |
| `GcHandshakeProofs` | proofs | about `GcHandshake` |
| `Heap` | abstract | objects, fields, roots; no collector |
| `ObjTable` | detailed | layers as functions from id to cell. `MarkRoots`, `GrayObjectLeaves`, `CopyB`, `CopyC` are the stages of `gc_perform`, one object at a time; `EqualCells` is the search of the dedupe set, `CompareForever` a search that does not return; `CollectGarbage` is the freeze and the request, `IntegrateGCResponse` the integration with `freeObject` of the white list |
| `ObjTableProofs` | proofs | about `ObjTable`: types, shape of the layers, what is dropped, values in the consolidation |
| `ObjTableKeptProofs` | proofs | about `ObjTable`: nothing the program can get at is lost, and that it implements `Heap` |
| `ValueStack` | abstract | one sequence and the base of each frame |
| `TriStack` | detailed | the three arrays with their first indices; a frame is its `slotsIndex`, the current one also its cached `slots` pointer. `CopyC` and `CopyB` condense one value at a time |
| `TriStackProofs` | proofs | about `TriStack`, and that it implements `ValueStack` |
| `Names` | abstract | strings by their texts, globals by their names |
| `Tables` | detailed | `vm.strings` and `vm.globals`, a layer being a set of ids or a function on ids, compared by text. `InternMissing` and `AllocateString` are the two halves of `copyString()` between which an allocation may freeze the tables; `Mark`, `CopyStringsB`, `CopyStringsC`, `CopyGlobalsB`, `CopyGlobalsC` are the stages of `gc_perform` |
| `TablesProofs` | proofs | about `Tables`: types, liveness of keys, uniqueness of interning, and that it implements `Names` |
| `StructMap` | functions | the trie: an entry is its depth and the bits of the key that lead to it; `Insert`, `Contains`, `Visited`, `WouldCollideNodeCount` and `Compare` are the class's methods. What is a loop down the route in the code is here the first depth at which something holds |
| `StructMapProofs` | proofs | lemmas about `StructMap`: the layout a set of keys determines, what an insertion costs, the order of `compare()` |
| `SizeBudget` | detailed | three layers of structmaps, `addl_collision_nodes` and its snapshot, over any number of collections. `Mark` chooses what a collection drops; `CopyB` and `CopyC` copy one key at a time, in any order, while the interpreter adds to A |
| `SizeBudgetProofs` | proofs | about `SizeBudget` |
| `CallStack` | abstract | a stack of functions, each with the place where it goes on |
| `Frames` | detailed | the frames' arrays, and in each frame the function, the place its pointers were derived for (a ring and a collection), `ip` as place and offset, and the epoch. `Resize` is the two hooks `klox_on_cb_preresize` and `klox_on_cb_resize`; `Condense` copies one frame, in the ring of the request |
| `FramesProofs` | proofs | about `Frames`, and that it implements `CallStack` |
| `MC*` | instances | model values and the finite constants of the runs |

Abstractions that matter:

* The atomics are sequentially consistent. Each is a single word, stored with
  release and loaded with acquire before anything behind it is read.
* `ObjTable`, `TriStack`, `Tables` and `Frames` use what `GcHandshake`
  establishes: the handshake is one variable, `gcpc`. They model
  `KLOX_SYNC_GC=0`, where only `run()` integrates.
* In `ObjTable` the roots are a set of ids. The value stack, the frames, the
  globals and the open upvalues all hold roots; how they hold them is the
  business of other modules. Instances and classes are *layered* (a layer holds
  only what was set in it), all other objects are copied whole when they become
  mutable.
* `klox_object_deep_cmp` follows references. `EqualObjects` is the pairs of ids on
  which it returns 0: type and immutable part (`KlassOf`) are the same, and what the
  fields lead to is equal again. As in the code, there is no short cut for an
  id compared with itself, closures are compared by the ids of their upvalues
  (`ClosureKlass`), and an id leads to its newest frozen entry, of an instance or a
  class to that layer only. It is a least fixed point, written without recursion: what
  is in every relation closed under the comparison. `EndlessObjects` is the pairs
  that can come back to themselves; there `CompareForever` may catch the GC thread
  until its stack overflows. May, because which field is compared first, and where the
  search in the tree goes, is left open; so a pair that differs in one field may
  be caught in another here, where the code, comparing in one order, would not. For the same
  reason any equal cell may be picked, where the code keeps one of them in the tree.
* The order that the search of the tree depends on is left out, except that `StructMap`
  has the comparison of tries by their keys. For functions it is none:
  `cb_integration.cpp:629` and 633 return -1 whichever chunk is greater. An equal
  cell may then be missed, which costs room and nothing else; `EqualCells` does not
  have that case.
* In `copy_objtable_c_not_in_b` an entry of the new B just flagged white is
  dereferenced with its flag. The type read one byte off is not a class's or
  an instance's, so C's entry is masked, which is how `MergeC` has it.
* `held` is an object in a C++ local: `OP_RETURN`'s `result` while
  `closeUpvalues` runs, which allocates only when it makes a mutable layer for an
  upvalue that has none. The compiler's temporaries are not modelled.
* In `TriStack` the receiver that `callValue` writes into the callee's slot 0 is
  one of the values `SetLocal` may store.
* In `Tables` the objects are strings, and of the object table only this is
  kept: an id not marked is flagged, an id not marked twice is gone. A global's
  name and value are strings. `Variable` limits which texts name globals.
* In `StructMap` a number is the set of its bits that are 1, so that a route is
  an intersection and a shorter one is part of a longer one. The widths are
  constants: the code has 64 bits and levels of 5, the run 4 bits and levels of 2,
  chosen so that the last level has bits left over as with 64 and 5. An item
  stores its key shifted left by two: `Key` stands for keys that survive this,
  as ids counted from 1 do. Values are left out.
* In `Frames` `functionP`, `constantsValuesP` and `ip_root` are one pointer,
  since they are always derived together. Code moves only when a collection
  is integrated. `slotsIndex` and `slots` are in `TriStack`.
* `KLOX_SYNC_GC` is chosen when klox is built: in `GcHandshake` a variable that
  `Init` leaves open and no step changes, so one run covers both builds.
* Bounds: `MaxRequests`, `N`, `MaxDepth`, `MaxFrames`, `MaxAddl`, `FRAMES_MAX`
  (a constant of the code, smaller here), `MaxEpoch` and `MaxRing`, in the
  guards. Nothing else is cut.

### Constants that exclude a behaviour

Each of these is a condition that the code does not ensure. With the value in the
third column a run, or the model when set so, shows what goes wrong; the
properties of the passing runs are of the program under the second.

| Constant | passing runs | otherwise |
|---|---|---|
| `CollectsAroundLocals` | FALSE: no collection starts while `OP_RETURN`'s local alone holds an object | TRUE: `AccessibleIsKept` fails, the object is taken for white |
| `EqualReferents` | FALSE: no collection starts while two different objects that fields refer to are equal | TRUE: `objtable_white_cell`. `ConsolidationPreservesReferences` fails too, and `CollectionCompletes` when two objects of one type refer to themselves; values stay the same (`ConsolidationKeepsValues`) |
| `InheritsLayers` | FALSE: a superclass inherited from has its methods in one layer | TRUE: `HeapSpec` fails, methods of older layers are not inherited |
| `FrozenUpvalues` | FALSE: no upvalue open below A is assigned during a collection | TRUE: `tristack_upvalue` |
| `ResurrectsWhite` | FALSE: a lookup during a collection finds, in frozen layers, only strings the program holds anyway | TRUE: `tables_resurrect` |
| `DropsWhileAdding` | FALSE: a collection drops no keys while others are added to A | TRUE: `BudgetCoversMerge` fails by nodes the reserve of twice `MODIFICATION_MAX_NODES` has to cover |
| `ResizesWhileCondensing` | FALSE: the ring is resized when nothing is outstanding, or the response is there | TRUE: `frames_resize` |

`HoldsInLocals` only says whether the instance has such locals at all.
`EqualReferents` says nothing of objects that no field refers to: two equal instances, or
a live and a dead one, share cells in the passing runs too. The
violating runs of `ObjTable` all have it TRUE. A further condition is `MergesUnseen`
of the proofs, which `objtable_shared_merge` does not meet. In
`Frames` a resize with no frame but a non-null `vm.currentFrame` is
excluded by a guard: `klox_on_cb_resize` would then dereference a pointer computed
from index -1 (`Wild`).

## Runs

| Run | Shows | Instance |
|---|---|---|
| `handshake` | Type, the two invariants, record ownership, refinement of `GcCycle`, every request is answered, `gc_await_response` returns, shutdown completes; `KLOX_SYNC_GC` 0 and 1 | 3 addresses, 4 requests |
| `objtable_heap` | Types, and what the consolidation assumes of the layers; collections of cyclic heaps, and of objects spread over several layers, are invisible (`HeapSpec`) and end; nothing accessible is lost | 2 objects, one with 2 fields |
| `objtable_dedupe` | Equal objects share cells: instances, a class and one that inherits all its methods, a live and a dead one. While what fields refer to is not equal too, nothing is lost and no reference changes; what is dropped was flagged one collection before | 4 objects, two of each of two types, which the others refer to; locals; `EqualReferents = FALSE` |
| `tristack` | One stack to the program (`StackSpec`); indices stay inside arrays, slots stay current, the condensed array is complete and not stale | depth 4, 3 frames, 2 values, which are symmetric |
| `tables` | One plain table of globals, one object for every text; nobody follows a dead id | 2 texts, one names a global; 4 strings |
| `size_budget` | A trie's layout depends on its keys only; the budget suffices; comparison is an order | 3 keys of 4 bits, counter up to 3 |
| `frames` | One stack of calls; the current frame is in A and its pointers are current | 3 frames, 2 places, 2 collections, 2 resizes |
| `objtable_white_cell`, `objtable_shared_merge`, `tristack_upvalue`, `tables_resurrect`, `frames_resize` | Disagreements, below | |

Why these are enough to meet the interesting cases. *Handshake*: the danger is
a record at the address of the last one, or of the one before; three addresses
allow both and the third, and four requests let each recur. *Object table*: an
entry ages through A, B (flagged), C and gone; no bound limits the number of
collections, only that of objects, and two objects suffice for a cycle, for a
live one to hide behind a dead one, and for a field to move from one to
the other during marking. `Assigned` lists the assignments the program may
make: in `objtable_heap` those of a cycle through two objects, a reference of one
object to itself, and a second field, which a merge needs. Sharing that depends on what
fields refer to takes two objects that refer and two that are referred to. Four
objects from `Init` are too many for all assignments, so
`objtable_dedupe` starts where a program is that has made them,
has stored 3 in 1 and perhaps 4 in 2, holds 1 and 2 only, and was not collected yet
(`TwoTrees`). From there it can load 3 and 4 again, store 4 in 2, have 2 inherit from 1, make 3
refer to itself, which is what makes 3 and 4 differ and 3 a trap for the
comparison, and drop anything. `HeapSpec` begins with an empty heap, so TLC checks it in
`objtable_heap` alone, where nothing is shared; with sharing it is proved (`Refinement`).
The violating runs start from `Init`. *Stack*: three frames are
a current one, one suspended in B and one in C; four slots can be spread over
three arrays with one to be popped away. *Tables*: one text must be
interned, collected and interned again while another is held, and a global
defined, undefined and masked; four strings are two of each text. No bound
limits the collections. *Size budget*: all three keys meet in the
first entry; 1 and 9 part at the last level, 5 parts from both at the level before. So
collisions of both depths occur between the layers, and `MaxAddl` leaves room
for one of each. No bound limits the collections. *Frames*: three frames again; two collections make a frame
miss one integration, two resizes put one before and one after the answer.

`CHECK_DEADLOCK FALSE` in every run but `handshake`: the program may
stop anywhere and these modules do not model its end. The handshake, which
does, is checked for deadlock.

### Fairness

`WF_vars(GcNext)`: the operating system keeps scheduling the GC thread, which
never blocks (it polls). Of the interpreter only steps it is committed to are
fair: submitting a record just written, the spin of `gc_await_response`,
the second load, the join. It need not collect, integrate, or end, since a program
may loop or wait for input.

### Disagreements between the code and what it says of itself

* `objtable_white_cell`: two instances whose fields refer to different but equal objects are
  equal and share a cell, so one of them now refers to the object of the other. Both
  objects are mutable: a program that then writes to one sees the write through both
  fields. The clone of an object that is not dark is in the dedupe set as well, and
  in the run it is the clone of a dead instance that the live one shares. It refers to
  what the dead one referred to, which is flagged, and invalidated by the integration
  although the program gets at it. In this instance it still resolves, to its
  flagged entry in B.
* `objtable_shared_merge`: cells shared by `dedupeObject` are merged with one
  sharer's C layer in place, and the other sharer gets the fields.
* `tristack_upvalue`: an upvalue open in B or C is assigned in place; if the GC
  thread has condensed that slot, the assignment is undone by the integration.
* `tables_resurrect`: a string that only `vm.strings` still refers to is looked
  up while a collection runs. It was not marked, so `copy_strings_b` drops it;
  the next `copyString` of that text makes a second object, and the two are
  not equal.
* `frames_resize`: `klox_on_cb_preresize` turns `ip` into `ip_offset` in the
  frames of the old ring, which the GC thread may be copying; the condensed
  frames get an `ip` computed from an offset. The option
  `PROVOKE_RESIZE_DURING_GC` (`memory.cpp:1328`) resizes at just that place, so
  it is meant to work.

Three more have no run. `klox_object_deep_cmp` does not return on two objects of one type
that lead back to themselves: in the model the collection never completes
(`CompareForever`), in the code the stack of the GC thread overflows. `OP_RETURN`'s
result is in a C++ local while closing an upvalue makes a mutable layer for it; a collection
that this starts does not see the result and takes the object for white
(`AccessibleIsKept` with `CollectsAroundLocals`). And, where a property would only restate two assignments,
`collectGarbage` sets `exec_phase` to `EXEC_PHASE_PREPARE_REQUEST`
(`memory.cpp:1150`) before it stores it in the request (1161), so the branch of
`gc_perform` that keeps every object for a request of the compiler is never
taken. `ObjTable` has both steps as they are: `req_exec_phase` is never
`"COMPILE"`.

## Proofs

`GcHandshakeProofs` proves, for every set of addresses, every number of
requests and both values of `KLOX_SYNC_GC`, from `HandshakeAssumption` alone:
`TypeCorrectness`, `FreshResponse`, `PendingRequest`, `RecordOwnership` and
`Refinement` (`Spec => CycleSpec`).

None of the invariants is inductive: each speaks of one stage and depends on
what the addresses were one stage before. `IInv` follows a collection round.
`IdleInv`: when nothing is outstanding, request, response, last processed
response and the address the GC thread remembers are all the same.
`OutstandingInv`: the new request's address differs from it. `PendingInv`:
until the answer the GC thread either still remembers the old address (so will
notice) or works on the new one. `AnsweredInv`: then response, request and
memory agree on the new one, and integration restores `IdleInv`.
`Remembered` accounts for the answer being published before `last_request` is
assigned. `ControlInv` says what each place of the interpreter knows. TLC
checks the stated invariants of every run; the induction shows that
`IInv` holds for any bound.

`TablesProofs` proves, for every set of texts and any
number of strings, from `TablesAssumption`:

* `TypeCorrectness` and `KeysAlwaysResolve`, whether strings are resurrected or
  not. `KeysResolve` is not inductive: that an id is still there at the next
  integration depends on flags set by the one before. `Kept` adds what the code
  relies on: what the program holds of flagged ids is in the snapshot the
  collection starts from (`CollectingInv`), the snapshot is marked
  (`MarkedInv`), only marked ids get into the condensed tables (`ResponseInv`),
  and no key of the intern table is flagged at all.
* `UniqueInterning` and `SkippedStrings`, assuming `~ResurrectsWhite`; the run
  `tables_resurrect` shows that `SkippedAreUnreachable` fails without that assumption.
  `InternInv`: all layers together, not just the newest with a match, have one string for a text
  (`Distinct`) and have every string the program holds; what it holds of
  the frozen layers was in the snapshot (`FrozenInv`), which is where the
  assumption is used, and so is copied (`CopiedInv`).
* `Refinement` (`Spec => NamesSpec`), with the same assumption. With `Distinct`,
  looking up by text is looking up by id (`LookupIsDirect`), so the globals
  are three functions on ids laid over each other (`Direct`). Freezing and
  integrating do not change what they come to (`ShiftIsUnseen`, with
  `CondensedInv`: the condensed layer is B over C). Every action of the
  interpreter is then one of `Names` (`StepIsVisible`).

`ObjTableProofs` and `ObjTableKeptProofs` prove, for any number of objects, fields, immutable parts and classes and any assignments the program
makes, from `ObjTableAssumption` alone, which has the types of the constants:

* `TypeCorrectness`, `LayersStayWellFormed` and `OnlyTwiceWhiteIsDropped`, with no
  condition. `TypeInv` adds to the types that layers refer to ids given out only.
  `LayersInv` is the life of an entry from layer to layer: an id invalidated in
  one is flagged in the next older one, which one collection later cannot have
  any flags. `CopyInv` says how far the passes over B and C have come, and that a shared
  cell is always the cell of some id itself.
* `ConsolidationKeepsValues`, assuming `MergesUnseen`: instances and classes have
  a single field, so that the younger layer masks the older, or each is alone
  of its type, so that no cell is shared. The passing runs of `ObjTable` meet it,
  having distinct types or one field;
  `objtable_shared_merge` does not and shows what is lost. Nothing is assumed of
  what fields refer to. The property says *same value* with a least fixed
  point over the values of all layers, the code compares the newest entries only:
  `EqualIsAlike` shows that the second implies the first, by taking a relation
  closed for the one and showing it closed for the other. `ValueInv`: every entry
  written so far has the same value as B, or as B over C where C was merged.
* `ConsolidationKeepsReferences`, assuming `~EqualReferents` as well (in `objtable_white_cell`
  a reference changes without it). `RefsInv`: what cells of the new B refer to,
  B or C refers to, so that two cells that are equal have the very same contents
  (`ExactCell`), the clone of a dead object included.
* `AccessibleStaysKept` and `GrayAlwaysResolves`, assuming `~CollectsAroundLocals` and
  `~EqualReferents` (the table above has what is lost without
  one of them). `AccessibleIsKept` speaks of the
  heap as it is, the collector of the heap as it was frozen: the program may have
  moved a reference where the marker has been. `Kept` relates the two: during a
  collection it is what the request's roots led to in the frozen layers (`Snapshot`)
  and what is new since (`Fresh`), and the program holds and has written
  nothing else (`LiveInv`). What is dark holds the roots and refers to nothing that is
  not dark, gray objects apart (`MarkInv`), so when no gray is left the snapshot
  is dark; and copies of dark objects refer to dark ones (`CopiedRefs`, which is where
  `ExactCell` is needed), so the integration starts the next round with only kept ids.
* `Refinement` (`Spec => HeapSpec`), assuming all of these and `~InheritsLayers`: reading
  through the layers does not change at a freeze or an integration, and every
  step of the program is the one of `Heap` on what it reads.

`TriStackProofs` proves, for any values, depth and number of frames, from
`TriStackAssumption`:

* `TypeCorrectness`, `StackStaysWellFormed`, `SlotsStayCurrent` and
  `CondensedStaysComplete`. `FramesInv`, frames that start one above the other, makes
  a return land in the caller. `CopyInv` is what keeps the request usable while
  the interpreter goes on: its arrays still have the values the indices
  in it promise, abi only moves down, and between collections there is no C,
  so that freezing loses nothing.
* `CondensedStaysCurrent`, assuming `~FrozenUpvalues` (`tristack_upvalue` shows the stale
  copy): `CurrentInv`, what is condensed is what the request's arrays have, and they
  are the interpreter's B and C or it has reset its stack.
* `Refinement` (`Spec => StackSpec`), with the same assumption: every step keeps
  or changes the values at the stack's indices as one sequence would. Only the
  integration needs `CondensedIsCurrent`.

`FramesProofs` proves, for any functions, depth, number of collections and number
of resizes, from `FramesAssumption`:

* `TypeCorrectness`, `CurrentFrameStaysMutable` and `CurrentPointersStayFresh`, with
  no condition: also when the ring is resized while frames are condensed. That
  the current frame's pointers are current depends on the frames below, any of which
  a return makes the current one. `CurrentInv` says of all of them that a
  frame whose epoch is the present one points where the code is now, so that only
  the others need `Rederived`; and that no frame the interpreter can reach
  holds an offset (`KeptTo`), so that deriving again loses nothing. `ArraysInv`
  has each index inside the array it is read from. `CopyInv` has the arrays of the
  request reach up to A although the interpreter returns and calls meanwhile.
* `CallsAreKept` (`Spec => CallStackSpec`), assuming `~ResizesWhileCondensing`
  (`frames_resize` shows what `Condense` then reads). `CondensedInv`: below A, what is
  condensed, and what is still to be, goes on where the interpreter's frame
  does. Every action is then one of `CallStack` on functions and offsets, or none.

`SizeBudgetProofs` proves, for keys and levels of any width, any set of keys and any
bound on the counter, from `StructMapAssumption` and `SizeBudgetAssumption`, with the
lemmas of `StructMapProofs`:

* `TypeCorrectness`, `LayoutStaysCanonical` and `ModificationAlwaysFits`. A trie is
  *canonical* (`Canon`) when it has a node exactly in the entries that two of its
  keys share, and each key's item just below the last of these on its route.
  `InsertIsCanon`: inserting a key keeps a trie canonical, and what it costs
  depends on the keys alone. `SplitFacts`: two keys part before their bits
  run out, so the cost is at most `MODIFICATION_MAX_NODES`. The invariant, `LayoutInv`,
  has every layer canonical; the induction over its insertions is the one over the
  steps of the system. `CopyProgress` says which keys the new layer has by now.
* `BudgetAlwaysCovers`, for every behaviour with `[]DropsApart`: no key is dropped
  while A holds others. `BudgetCoversMergeAlways` is the case
  `~DropsWhileAdding`, where that is so by itself. `BudgetCoversMerge` is not
  inductive: counting takes place at insertions into A, against the layers as they
  are then, and pays for a merge one or two collections later, of other layers.
  `BudgetInv` says what the counter is good for in between: the merge
  of all three layers takes no more nodes than A, the merge of B and C, and the
  counter. Freezing makes that the budget of the collection, as C is empty
  then, and integration makes the merge of B and C one layer. The step that needs
  an argument is `Add`, which looks at each layer by itself: by
  `MergedCost` a key costs several layers merged no more than it costs the one of
  them that holds the key it parts from last.
* `CompareOrders`. Entries are met in the order of the slots on their routes
  (`Before`), and the entries in which two tries differ are on different routes,
  so one comes first (`FirstExists`) and decides (`CompareFacts`).
  For transitivity the first difference of `l` and `n` is found from those of
  `l`, `r` and of `r`, `n` (`CompareTransitive`); that only equal key sets
  compare as equal needs that the tries are canonical (`CompareZero`).

Where one would expect induction over the depth, the proofs take the least depth with
a property (`LeastNumber`), and cardinalities are compared
by mapping depths to entries (`Stretch`), so that nothing depends on a
recursive definition.

The bounds `N` and `MaxDepth` are assumed positive, since an object and a slot
must fit. Each assumption on a constant is one of the table above or `MergesUnseen`;
the modules' own assumptions are evaluated by TLC in every run.

Every invariant, action property and refinement that a passing run checks is
the subject of a theorem. Only model-checked: liveness (`RequestIsAnswered`,
`AwaitReturns`, `ShutdownCompletes`, `CollectionCompletes`), which is outside the proof
system's reach, fairness and ENABLED included; and of the properties the code
violates, the counterexamples.

## Not modelled

* *Upvalue lists*: the sorted list `vm.openUpvalues`, `captureUpvalue` and
  `closeUpvalues`. Candidate for a module composed with `TriStack`, with one
  variable per captured slot as its abstract specification.
* *Method lookup*: `bindMethod` and `invoke` compose `classMethodGet` with the
  stack; both parts are modelled, their composition is not.
* *The dedupe set as a search tree*: which equal cell it holds, and what a search
  misses when the order is not one (functions) or a key was merged into.
* *The compiler's temporaries*, objects that only its C++ locals refer to.
* *Pins, lower bound, RCBP list*: which addresses of the ring may be
  let go of, and which C++ references are rewritten when it moves. The
  arithmetic is in the `cb` library, the list is in C++ constructors and destructors;
  `Frames` takes their effect (after a resize every reference is current).
* *Size of other regions*: gray stack, gray set and dedupe set, sized from
  counters of objects.
* *Compiler*: parser, scopes and upvalue resolution; sequential, over text.
* *The white list's chain* `white_next`: a set in `ObjTable`.

Left out for good: the scanner, chunk encoding, printing, tracing, the cycle
counters, the REPL's input and output, the retired code in `attic`, and the
`cb` library, which is not part of the repository and is taken to do what its
callers rely on (fresh addresses, ordered maps).
