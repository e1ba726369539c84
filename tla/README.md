# A TLA+ verification of the JJS engine

JJS is a JavaScript engine in C, a descendant of JerryScript, that runs in a
fixed heap. This directory holds TLA+ models of its core, the TLC runs that
check them and proofs checked by TLAPS. `PROJECT.json` is the index: the
components and what is modelled of each, the runs, the source lines of every
definition, the mutants, the hazards and the findings.

## 1. The system

### Components, state and operations

| Component | Source (`src/jjs-core/`) | State | Operations |
|---|---|---|---|
| heap block allocator | `jmem/jmem-heap.c` | a free list in the free memory itself, ordered by address; a skip pointer into it; `jmem_heap_allocated_size`, `jmem_heap_limit` | alloc (first fit), free (merge both neighbours), realloc (shrink, grow at the end, grow at the front, copy) |
| cell allocator | `jmem/jmem-cellocator.c` | a list of pages, one LIFO list of free cells | alloc, find, free, add page, finalize |
| garbage collector | `ecma/base/ecma-gc.c` | the object list, the reference count field (which doubles as the colour), the recursion limit | ref, deref, run (roots, marking, sweep) |
| weak containers, native pointers | `ecma/operations/ecma-container-object.c`, `ecma/base/ecma-helpers.c`, `ecma-gc.c` | entries of WeakMaps, `WEAK_REFS` back references, native data with a free callback | set, delete, removal by the sweep |
| promises | `ecma/operations/ecma-promise-object.c` | the flag byte (pending, fulfilled, already resolved, unhandled), the result, the reaction list | resolve, reject, then, await |
| combinators | `ecma/builtin-objects/ecma-builtin-promise.c` | the Number object shared by the element functions, the array of results | all, allSettled, any, race |
| job queue | `ecma/operations/ecma-jobqueue.c`, `api/jjs.c` | a singly linked list with a head and a tail | enqueue, run all, free all |
| ES modules | `ecma/base/ecma-module.c` | the state, the DFS indices, the scope and the namespace of each module | link, evaluate, resolve export |
| module loading | `api/jjs-annex-esm.c`, `api/jjs-module.c`, `api/jjs-annex-*.c` | caches of esm, commonjs and vmod modules | import, read, link, evaluate, require |
| properties | `ecma/base/ecma-helpers.c`, `ecma-property-hashmap.c`, `ecma-lcache.c` | the list of property pairs of each object, a hashmap in front of a long list, a lookup cache over all objects | find, create, delete, truncate an array, rebuild, invalidate |
| scratch allocator | `jmem/jmem-scratch-allocator.c` | an arena used by one owner at a time | acquire, release |
| async functions and generators | `ecma/operations/ecma-async-generator-object.c`, `vm/` | the request queue and the await states of an executable object | next, throw, return, await, resume |
| debugger | `debugger/` | a message stream and the byte code kept for the client | send, receive, breakpoints |
| the rest | parser, virtual machine loop, built-ins, regular expressions, snapshots, literals and strings, numbers, packs, command line | | |

### How they interact

* Every allocation may run the collector: `jmem_heap_gc_and_alloc_block` calls
  `ecma_free_unused_memory`, which calls `ecma_gc_run`, whose sweep frees
  blocks and cells of the same heap while an allocation, a reallocation or the
  addition of a cell page is in progress.
* The block allocator and the cell allocator hand out the same kind of
  pointer. A free or a reallocation asks `jmem_cellocator_find` which of the
  two it came from; cell pages are themselves blocks.
* Settling a promise appends jobs to the queue, running a job calls user code,
  and user code may call every operation again: it may settle the promise
  whose `then` property is being read, register reactions while reactions are
  being moved to the queue, or have the host run the queue inside a job.
* A property may be found through the cache, the hashmap or the list. All three
  point at the same pairs, and an allocation in the middle of an operation may
  throw the hashmaps of all objects away.
* Linking a module reads others, which may link a virtual module on the way;
  evaluating one runs its code, which may import, link and evaluate again.
* An async generator is woken by jobs: one starts the request at the head of its
  list of tasks, another brings the result of the promise it awaits.
* At the end of a context the queue is freed without being run, then the
  collector runs, then the pages go back to the heap, whose account is asserted
  to be 0.

### What is hard

The engine has one thread, persists nothing and has no timeouts. What
interleaves is re-entrance (the collector inside an allocation; user code
inside a settlement, a job or an element function) and what goes wrong goes
wrong after a long sequence of legal calls: a stale skip pointer, a lost cell,
a count that is a colour at the wrong time, an object found behind the scan, a
flag of a promise that belongs to a pair of functions, a tail that points at
freed memory, a counter that is decremented once too often, a hashmap entry that
ends a search too early, a cached property that is gone, half of a cycle of
modules that is linked, a generator that nobody wakes. `hazards` in
`PROJECT.json` lists them with their lines.

## 2. Modules

`Xxx.tla` is a component, `XxxProofs.tla` holds theorems about it, `MCXxx.tla`
adds definitions that only TLC needs.

**JmemUnits** is the address arithmetic of the memory manager. Addresses count
units of 8 bytes and unit 0 is `heap_p->first`, the NULL of a compressed
pointer.

**JmemRegions** is the abstract allocator: a set of blocks; an allocation takes
any free run that is long enough, and gives NULL or ends the engine only when
there is none; a reallocation gives a block of the new size; during a call the
collector may free any block that is not the argument of the call. It knows no
list and no account.

**JmemHeap** is `jmem-heap.c`. `next` and `size` are the headers in the free
memory, `skip` is `jmem_heap_list_skip_p`. Each turn of a loop in the code is a
step here, so `jmem_heap_find_prev` really starts at the skip pointer and walks
(`FindStart`, `FindStep`), the first fit search walks (`FitSkip`, `FitTake`),
and raising and lowering the limit are loops of their own (`RaiseStep`,
`LowerStep`). `GcFree` is the collector freeing another block through the same
code in the middle of the call. `FitRetry` is the retry with rising pressure,
`FitNull` and `pc = "fatal"` are its two ends. `blocks` is the history of what
was handed out.

**JmemCellocator** is `jmem-cellocator.c` and the dispatch in `jmem-heap.c`.
It builds on what JmemHeap establishes: a block of the main heap is any free
run. `TryCell`, the page that is added under at most
`JMEM_PRESSURE_HIGH`, the retry around both, moves between cell and block on
reallocation, and `jmem_cellocator_finalize` page by page. `StaleStart` is what
the `start_p` of a page reads as after the page was freed, when a free region
header lies on it.

**EcmaGc** is `ecma-gc.c`. `refs` is the count field with the three meanings
the collector gives it; `handles`, the number of references held by the stack
and native code, is history that `refs` must equal outside a collection.
`ecma_gc_mark` is a sequence of steps over what is still to be visited, with
`stack` as the C stack, which the recursion limit bounds; a visit at the limit
leaves the object for a later pass over the white list. The sweep frees in any
order, removes WeakMap entries and WeakRef targets, and calls the free
callbacks of native pointers, which release references.

**EcmaPromise** is `ecma-promise-object.c` with the jobs of `ecma-jobqueue.c`,
the await of the virtual machine, the end of an async function,
`queueMicrotask` and the host functions that settle promises. `frames` is the
stack of calls that are waiting for user code. Between the check of
ALREADY_RESOLVED and the settlement there is a frame ("get") in which the
getter of `then` runs.

**EcmaPromiseAll** is one call of a combinator: the loop over the iterable and
the element functions, which user code may call during the loop and after it.
The counter has the arithmetic of `uint32_t`, scaled down.

**JobFifo** is a queue; **EcmaJobQueue** holds the operations of the list that
implements it, with a tail that is left dangling when the list becomes empty and
with memory that is used again. What a freed job holds is arbitrary; two values
stand for all of it (`Garbage`): NULL, which would cut a list, and a pointer to a
job, which would put unused memory on it.

**EcmaAsyncGenerator** composes that list with its most demanding user, an async
generator. It has the calls of `next`, `throw` and `return`
(`ecma_async_generator_enqueue`), the two kinds of jobs that wake the generator,
the opcodes that suspend it, the await states of `yield*` and `for await`
(`ecma_await_continue`), the end of the body with requests waiting, and the
release of a context with jobs left. `stack` holds the calls in progress: user
code may run the queue inside a job. A state change is what the macro does, an
exclusive or, which is right only from the state it is written for.

**EcmaProperty** is the property list, the hashmap and the lookup cache.
`list` and `name` are the pairs, `maps[o]` the hashmaps at the head of the list
of an object (a sequence, because a second one can get there), `lcached` the
flag bits of properties and `lcache` the rows. Probing, the sizes, the
thresholds for rebuilding and the counters are those of the code, scaled down.
An operation is one step with the set of outcomes its allocations may have
(`Allocation`): nothing, a collection, or also the loss of all hashmaps.

**EcmaModuleExports** has the resolution of exports as operators
(`ResolveExport` with its growing list, `CreateNamespace`, `ConnectImports`) and,
independently of them, what an export means (`Bindings`, `Broken`).
**EcmaModule** is linking and evaluation: `frames` holds the calls in progress;
a link has the stack of the depth-first search with its indices, an evaluation
the import it has come to. `Link` is the host linking a module, be it from the
cache or one that it parsed itself. `MCEcmaModule` gives the programs.

**JmemHeapProofs** (with the refinement and the account),
**JmemCellocatorProofs**, **EcmaGcProofs**, **EcmaPromiseProofs**,
**EcmaPromiseAllProofs**, **EcmaPropertyProofs**, **EcmaModuleProofs** and
**EcmaAsyncGeneratorProofs** (which has the theorems about EcmaJobQueue too) hold
the proofs; **EcmaModuleInv** has the inductive invariants of linking and evaluation,
which EcmaModuleProofs is about.

Modelled outside the source: user code and the host (what they may call and
when), and the collector's choice of blocks as seen by the allocators.

## 3. Runs

| Run | Instance | Shows |
|---|---|---|
| `jmem_heap` | 9 units, requests of 13, 24 and 40 bytes (2, 3 and 5 units), gc limit 24 | `FreeListSound`: the list is ordered, complete and merged (`Linked`, `Coalesced`), blocks are disjoint and every unit is free or in one block (`Disjoint`, `Partitioned`). `AccountSound`: the account equals what is in use (`Accounted`), the limit covers it and is at most one gc limit ahead (`LimitCovers`, `LimitTight`). A search fails only when nothing fits (`NoRoomMissed`). `ImplementsRegions` (refinement), `CallsReturn` |
| `jmem_cells` | 8 units, pages of two cells, cell requests of 5 bytes, block requests of 16 and 24 | `CellsConserved`: no cell is lost or handed out twice. `OwnersSound`: find always answers right, also for a block that touches a page (`DispatchExact`), and nothing overlaps (`OwnersApart`). `CallsReturn` |
| `gc_weak` | a WeakMap, a key and a WeakRef, up to 3 links, recursion limit 1 | `NothingDangles`: live objects stay and weak references are consistent, also in the middle of a sweep (`LiveAllocated`, `WeakConsistent`). `MarkExact`, `CountsRestored`, `CollectionEnds` |
| `promise_settle` | three promises, a value, a thenable, three nested calls, a host that settles plain promises | `SettledForever`, `AdoptionExclusive`, `UnhandledExact`, `ReactionsExactlyOnce`, `JobsMatchPromise`, `ReactionsInOrder`, and `JobsRun` under fairness |
| `promise_recall` | as `promise_settle`, without a settling host | Violation of `RecallIgnored`, see section 6 |
| `promise_all` | three elements; all four routines with built-in promises, three of them with elements of user code | `CountSound`, `ResultComplete`, `NeverStuck` |
| `promise_all_settled` | allSettled with elements of user code | Violation of `RemainingInteger`, see section 6 |
| `properties` | two objects, one with four names that collide, three pairs, hashmaps of 4 and 8 entries, a cache of two rows of two entries | `CacheExact`: an entry is filed under the property it points to, in the row of its object and name, and the flag of a property says whether it has one. `MapCoherent`: a search ends and finds what the list has. `MapCounts`, `OneHashmap` |
| `properties_weak` | the same, with weak references | Violation of `OneHashmap`, see section 6 |
| `modules` | three modules, 96 programs | `StatesMatchCalls`, `LinkedClosed`, `NamespaceOnce`, `ComponentExact`: the search closes exactly the strongly connected components. `LinkOutcome`: namespaces, imports and failures are what the code of the modules means, whatever was linked before. `EvaluationOrder`, `OnlyForward`, `CallsReturn` |
| `modules_namespace` | the same | Violation of `NamespaceKeepsScopes`, see section 6 |
| `async_generator` | two requests, three job blocks, two calls in progress | `JobListSound`, `OneWakeUp`, `AwaitMatches`, `AnsweredInOrder`, `ImplementsFifo` (refinement), and `RequestsAnswered` under fairness |

Every property of a passing run has a mutant in `PROJECT.json`: a plausible
bug of the code under which TLC finds the property violated.

### Bounds, and why they are enough

* Memory: with nine units and blocks of two, three and five units there can be
  four blocks and up to five free regions, so that every case of
  `jmem_heap_insert_block` (merge with neither, either or both neighbours) and
  of reallocation occurs, with the skip pointer before, at and behind the
  place. The theorems remove the bound for the invariants they cover. Sizes are
  not multiples of 8 where rounding matters (13 bytes).
* Cells: two pages fit next to a block and next to each other, a page can be
  added in the middle of a request that then takes a cell freed by the
  collection instead, and the heap can be exhausted.
* Collector: `MaxLinks` bounds the edges of the object graph, `MaxRefs` the
  references held to one object. With a recursion limit of 1 three objects are
  enough for an object that a later pass must find.
* Promises: `MaxPromises`, `MaxFrames` (nested calls), `MaxMicro` (microtasks in
  the queue) and `MaxFresh` (resolver pairs of a promise that were not called
  yet). Three promises allow a promise to adopt a second one with a reaction on
  a third.
* Combinators: `Modulus` and `IntegerMax` stand for 2^32 and the largest direct
  integer.
* Properties: names 0, 4 and 8 collide in a map of 4 entries and 0 and 8 in one
  of 8; four properties force the larger size, deletions force both kinds of
  rebuilding, and with a minimum size of 4 a walk over two pairs is long. The
  fraction of NULLs is 1/2 in place of 1/8 (`NullFraction`), so that it can be
  reached with 4 entries; 3 entries of 4 unused is the bound of the code.
  `AllocMax` is 1 in place of 4: on and off are the only values that are told
  apart. `RowBits` is 1 in place of 7: the same name is in different rows for the
  two objects, and an object has names in both. `Keys` bounds which names an
  object gets, `Pairs` the memory. Pairs are interchangeable (`PairSymmetry`).
* Modules: three modules are enough for a cycle with a module beside it, two
  components, a star export that is ambiguous or circular, and a link that fails
  in the middle of a component. Each module has one of four or six shapes; in one
  of them two specifiers name the same module.
* Async generator: `MaxRequests` 2 puts a task behind the one being served (the
  safety properties are proved for every number of requests, section 4);
  `MaxDepth` 2 lets a job run the queue; of three job blocks one is left to
  other jobs, so that the generator's jobs come before and after them.
* `CHECK_DEADLOCK FALSE` is set for `promise_all` and `promise_all_settled`
  (one call of a combinator ends) and `async_generator` (a context ends).

### Fairness

* JmemHeap, JmemCellocator, EcmaGc: weak fairness of the steps of a call. A C
  function that was called runs on; nothing else can run before it returns.
  Nothing makes callers call.
* EcmaPromise: weak fairness of the engine's steps (the same reason), of the
  return from user code (a program may loop for ever; the property is about
  those that do not) and of the host calling `jjs_run_jobs` at the top level
  (the documented duty of the host, and what the `jjs` command line does).
    `JobsRun` holds without assuming that user code stops adding microtasks.
* EcmaModule: weak fairness of the engine's steps, and strong fairness of the end
  of a module's code: code that calls into the engine again and again comes back
  each time, and is assumed not to do so for ever. Nothing makes the program call.
* EcmaAsyncGenerator: the host goes on running the queue at the top level (weak);
  what the engine does by itself goes on and other jobs end, although user code
  may run in between (strong); awaited promises are settled (weak); and a body
  that is resumed again and again yields or ends at some time (strong). Without
  the last two a request is rightly never answered.

## 4. Proofs

`JmemHeapProofs` proves, for every heap size, cell size, gc limit and set of
requested sizes (`HeapAssumption`, `SizesAssumption`, `GcLimitAssumption`,
`EndAssumption`: sizes are positive, a block is larger than a cell, the end
marker is no offset),

* `FreeListCorrect`: `Spec => []FreeListSound`, that is `Linked`, `Coalesced`,
  `Disjoint` and `Partitioned`;
* `NoRoomIsMissed`: `Spec => []NoRoomMissed`.

None of the four parts is inductive. An insertion keeps the list in order only
if `prev` is a member of the list, below the block, with its successor above
it, and if the block does not overlap a free region; the first depends on the
walk from the skip pointer, the second on the partition of memory. The
inductive invariant `IInv` is the conjunction of

* `Types`, the ranges of the variables,
* `ListOK`: `Linked`, `Coalesced` and the ranges of the headers,
* `Disjoint` and `Partitioned`,
* `WalkOK`: at each `pc` what the walk in progress relies on: `prev` is in the
  list and below the target, the target is an allocated block (or, when a block
  grows to the front, the region before it), and the collector's target is not
  the block being reallocated.

The proof has a lemma for each kind of change to the list (`InsertKeepsList`,
`TakeFrontKeepsList`, `TakeEndKeepsList`) and to the blocks (`PutBlock`,
`DropBlock`, `PlaceBlock`, `MoveBlock`), then one lemma per action and
`NextIInv`. `NoRoomIsMissed` adds that a run outside all blocks lies in one
free region, because free regions never touch.

`EcmaPromiseAllProofs` proves, for iterables of every length and every modulus
and integer range that holds the counter (`AllAssumption`: the code itself stops
only at 2^32 - 2 elements, so this assumes that the heap is exhausted before the
counter exceeds the largest direct integer), provided that
`"allSettled" \notin UserKinds`,

* `CounterExact`: `Spec => []CountSound` (the types and `RemainingCounts`);
* `DecidedByTheLast`: `Spec => []ResultComplete`;
* `AlwaysDecided`: `Spec => []NeverStuck`.

The proviso is the one `promise_all_settled` shows to be needed: it makes the
index fields of an element stand for the element and not for one of its two
functions. The inductive invariant adds to the three properties and the types
that an index field is nonzero exactly for a function that was given out and
not called (`IndexOK`), that elements not yet taken have called nothing
(`FutureOK`), that a closed element has filled its place (`FilledOK`), that the
counter has decided only when nothing is open (`CapOK`) and which events must
have decided the promise (`DecidedOK`). The arithmetic lemmas show that the
counter, as a `uint32_t`, never wraps around under the invariant.

`JmemHeapProofs` also proves, from the same assumptions,

* `HeapImplementsRegions`: `Spec => ImplementsRegions`, the refinement of
  JmemRegions. Each step of a call is a step of the abstract allocator or
  stutters; that a refusal is legal there is `NoRoomMissed`. It needs two more
  facts (`ContractInv`): the pressure is FULL only in the fatal state, and the
  region taken for a copy has the requested size.
* `AccountCorrect`: `Spec => []AccountSound`. `AccountInv` says by how much the
  account differs from what the blocks occupy in the middle of a reallocation by
  copy, whose block is off the account while the collector runs, and bounds the
  limit on both sides except in the two loops that move it.

`JmemCellocatorProofs` proves `CellsConservedCorrect` (`Spec => []CellsConserved`)
and `OwnersCorrect` (`Spec => []OwnersSound`) for all sizes of the heap, the pages
and the cells (`PageAssumption`: a page has at least one cell, a small request
fits into one). `CellInv` adds to `CellsConserved` that the running call is about
memory that its caller owns (`CallInv`), also when the collector frees other
memory in between, that blocks and pages lie apart (`PlaceInv`), and that the
`start_p` of the pages is right until they are freed (`ListInv`). `OwnersSound`
follows by the arithmetic of cells in a page.

`EcmaGcProofs` proves, for every finite set of objects, every graph and every
recursion limit except 0,

* `NothingDanglesCorrect`: `Spec => []NothingDangles`;
* `MarkExactCorrect`: `Spec => []MarkExact`;
* `CountsCorrect`: `Spec => []CountsRestored`.

`MarkLimit # 0` is needed: section 6 has what happens with 0. The inductive
invariant `GcInv` is a tri-colour argument in which the colours are spread over
the lists and the count field: what was visited is reachable (`SoundInv`); what a
marked object refers to is visited or still to be done by the call of
`ecma_gc_mark` on the stack, and so is the value of an ephemeron as soon as both
map and key are marked (`CompleteInv`); a pass that has marked nothing leaves only
white objects behind it (`PassInv`), which is why the loop may end. Around it are
which list is empty when (`PhaseInv`), that the program holds nothing that was
freed (`GraphInv`, `KeptInv`) and what the count field means on each list
(`CountInv`). That the black list is no more than what is reachable uses that
`Live` is the least closed set.

`EcmaPromiseProofs` proves, for every number of promises, nested calls, resolver
pairs and microtasks (`PromiseAssumption`), provided that
`"async" \notin HostKinds`,

* `SettledOnce`: `Spec => SettledForever`;
* `AdoptionCorrect`: `Spec => []AdoptionExclusive`;
* `UnhandledCorrect`: `Spec => []UnhandledExact`;
* `ExactlyOnce`: `Spec => []ReactionsExactlyOnce`;
* `JobsCorrect`: `Spec => []JobsMatchPromise`;
* `OrderOfReactions`: `Spec => []ReactionsInOrder`.

The proviso is that the host does not settle the promise of an async function,
which the function's end settles without a check (section 6). The heart of
`PromiseInv` is `RightInv`. Since ALREADY_RESOLVED is one bit of the promise and
the thenable job clears it, the bit says nothing about a single resolver; what
holds is that whoever can still call a resolver of p (user code, a reaction, a
job or a thenable call in progress, `HasRight`) finds the bit set, or p pending
and not locked in to a value (`Resolvable`), and that an async function that has
not ended has no such holder. With it come the bits and lists of each promise
(`BornInv`, `ReactInv`), the jobs and calls (`QueueInv`, `FrameInv`), that
at most one fulfil operation per promise is under way (`AdoptInv`), the one place
of each reaction (`PlaceInv`), and the three parts of the order of reactions: in
the list of a promise, in the queue, and between what has run and what waits
(`ListOrder`, `QueueOrder`, `RunOrder`). An action of the model is several
operations of the code in a row; the parts have the heap and the stack as
parameters, so that there is one lemma per operation (`FulfillChecksInv`,
`RejectChecksInv`, `PerformThenInv`, `AsyncThenInv`, ...) and the action lemmas
only chain them. `Grown`, which every operation satisfies, gives `SettledOnce`.

`EcmaAsyncGeneratorProofs` proves, for every finite set of jobs and every number
of requests and nested calls,

* `JobListCorrect`: `AgSpec => []JobListSound`;
* `QueueImplementsFifo`: `AgSpec => ImplementsFifo`, the refinement of JobFifo;
* `WakeUpCorrect`, `AwaitCorrect`, `OrderCorrect`: `AgSpec =>` `[]OneWakeUp`,
  `[]AwaitMatches`, `[]AnsweredInOrder`.

`AgInv` says that the walk along the next pointers spells the allocated jobs that
are not being processed (`ListInv`), that the jobs being processed are on the
stack once and the generator at most once (`StackInv`), that exactly one of a
job, a promise and a call goes on while tasks are open (`WakeInv`), what the await
state is where the engine relies on it (`AwaitInv`), how tasks are numbered
(`OrderInv`) and that only the first may have been taken (`TakenInv`). What the
recursive function `WalkFrom` computes is proved for lists of every length by
way of a least counterexample.

`EcmaPropertyProofs` proves, for every number of objects, names and pairs, every
power of two as the number of rows of the cache (`RowBits`; 7 in the code), every
shift of the hash and length of a row, and every power of two from 2 to 32 as the
smallest hashmap (`PropertyAssumption`, which also has that the fraction of unused
entries below which a hashmap is rebuilt is at least two entries), provided that
`~Weak`,

* `LookupCacheExact`: `Spec => []CacheExact`;
* `SearchesCoherent`: `Spec => []MapCoherent`;
* `CountersExact`: `Spec => []MapCounts`;
* `HashmapsAlone`: `Spec => []OneHashmap`.

The proviso is the one that `properties_weak` shows to be needed: without weak
references no lookup happens inside the creation of a hashmap. `PropInv` says that
a pair is in one list once (`PairsOnce`) and a name in a list once (`NamesOnce`),
that rows and flags of the cache agree with the lists (an entry is in the row of
its object and name, which is the only row that an invalidation looks at), and of each hashmap that it
holds exactly the pairs of its list, that each of them is reached from the start
of its chain without meeting an entry that ends a search, and that the counters
count. That a search comes back to its start only after it has seen every
entry is number theory: the step is odd and the size a power of two (`OddCancels`,
`ProbeOnce`, `ProbeAll`), and so an insertion finds a place if there is one. What
the recursive functions of the model compute (the search, the placing of all pairs
of a list in a new hashmap) is proved by way of a least counterexample.

`EcmaModuleProofs` proves, for every finite set of modules and names and every
program (`NamesAssumption`; `ProgramsAssumption` has what the parser makes sure of:
the requests of a module include those it re-exports from, no name is re-exported
twice, and a module without code requests nothing; two requests may lead to one
module),

* `StatesTellCalls`: `Spec => []StatesMatchCalls`;
* `LinkedImports`: `Spec => []LinkedClosed`;
* `NamespacesCreatedOnce`: `Spec => []NamespaceOnce`;
* `ComponentsExact`: `Spec => []ComponentExact`;
* `ImportsFirst`: `Spec => []EvaluationOrder`;
* `StatesOnlyForward`: `Spec => OnlyForward`;
* `LinksMeanCode`: `Spec => []LinkOutcome`.

`ModuleInv` has two halves. One is about the calls in progress: they nest as the
code makes them, an evaluation waits only for the import at its index, and a
module is LINKING or EVALUATING exactly because of one of them. The other is the
depth-first search of `ecma_module_link`: the items of the stack are the modules
that are LINKING (`StackInv`), the parent indices make them a tree whose subtrees
are intervals of the stack (`TreeInv`), the search stands at one path of it
(`PlaceInv`), what lies behind it was left with its imports linked or further down
on the stack (`SearchInv`, `ResolvedInv`), and the ancestor index of an item is the
lowest one that the finished part of its subtree leads to, and is itself led to by
the item (`ComponentInv`). A component is closed where that index is the item's
own: nothing of it leads below, and each of it leads to the root, which is
`ComponentExact`. Across links the invariant has that what was linked imports only
what was linked (`ClosedUp`) and, for `NamespaceOnce`, that a module which kept its
namespace from a failed link leads to one that has failed for good (`Doomed`) and
is therefore never closed again.

`LinkOutcome` needs a second invariant on top, `OutcomeInv`: every namespace is
right, what was linked has its imports right, so have the members of the component
in progress as far as the two loops over it have come, and a module in the state
ERROR has a reason. The step is the resolution of one export. `WalkInv` follows the
growing list of `ecma_module_resolve_export`: each pair on it means no more than
the pair asked for, what was found is meant, and what is meant was found or lies
behind the pair at hand. A module with a namespace cuts the walk short. That this loses
nothing uses that the namespace is right and that a name missing from it
means nothing, or several things, and then the walk goes on to the star exports and
finds them. `Bindings` itself is the least solution of what an export means, so
that both directions of the argument are about sets that grow until they are
closed.

Only model-checked: the liveness properties (`CallsReturn`, `CollectionEnds`,
`JobsRun`, `RequestsAnswered`), since liveness under fairness and ENABLED are out
of the proof system's reach. Every invariant, action property and refinement of a
passing run is proved.

## 5. What the models leave out

* Memory: the 8 byte fast path of `jmem_heap_alloc` (cells serve such
  requests, so nothing reaches it), `JJS_MEM_GC_BEFORE_EACH_ALLOC`, requests of
  0 bytes, statistics and Valgrind hooks. Contents of blocks.
* Collector: what each built-in class refers to (the model has objects with
  strong fields, WeakMaps and WeakRefs; a WeakSet is a WeakMap without values),
  an allocation or a collection inside a free callback (the API forbids it),
  an allocation inside the sweep (freeing a WeakRef, WeakMap or WeakSet looks up the
  `WEAK_REFS` property of its target, which may create a hashmap there and so
  allocate and start another collection: EcmaProperty has the lookup, section 6 what
  it leads to),
  chains of several native pointers, the counters that decide when to collect.
  The release of property hashmaps under pressure is in EcmaProperty.
* Promises: subclasses with capabilities of their own, `finally` (a `then` with
  two native handlers), async functions that end without an await, await of a
  value that is no promise (an await of a new resolved promise),
  `JJS_PROMISE_CALLBACK` events, and the host's callback for unhandled rejections
  (`ecma-promise-object.c:232`), which is called in the middle of a rejection: the
  state and the flag are written by then, but the promise still has its old list of
  reactions. An out of memory in the middle of an operation
  ends the engine.
* Combinators: the range error for 2^32 - 1 elements; `resolve`, `reject` and
  `withResolvers`. The first call of a resolver of the returned promise wins here;
  that it may not, while the promise adopts a thenable, is in EcmaPromise.
* Properties: values, flags and accessors; properties that cannot be configured
  (a truncated array keeps them; here all can be deleted); different names
  with the same hash (a name is its hash here); the entry that a lookup from inside a collection
  leaves in the cache.
* Modules: a local export is its module and exported name, while the code compares
  references to properties (`ecma-module.c:321`): two exported names of one binding
  are one there and are ambiguous here. Hooks that link or evaluate modules while a link is in progress;
  the order of names in a namespace object; `import.meta`; the release of a
  module; `require`, package maps and the path functions behind a specifier.
  `vm_init_module_scope` has one return and never fails, so the error exit
  behind it is not taken.
* Async generators: synchronous generators, values, and the operand stack.
  After completion a request is answered at once, without a task.
* The parser, the interpreter loop, the built-in library, regular expressions,
  numbers and snapshots are sequential translations and computations of some
  hundred and fifty thousand lines; a small model of them would say nothing that
  a test does not. Most of the repository is of this kind.
* Components not modelled, with the reason, are in `PROJECT.json`.

## 6. Findings and observations

Runs that TLC must find violated, each with a trace:

1. `promise_recall`. ALREADY_RESOLVED belongs to the promise and not to the
   pair of resolvers; the thenable job clears it, and a resolver that was
   called before takes effect again.
2. `promise_all_settled`. The two functions of an element do not share their
   "already called" state; an element that calls both is counted twice.
3. `properties_weak`. The collection inside `ecma_property_hashmap_create` may
   free a WeakRef, WeakMap or WeakSet that refers to the object at hand; the
   lookup of its `WEAK_REFS` property creates a hashmap, and the outer call puts
   a second one in front of it.
4. `modules_namespace`. A namespace object is given the module that the link
   looked at last and not its own; the collector keeps that one and does not
   follow the references of the namespace object.

Seen while modelling; there is no run for these:

* `jmem_cellocator_finalize` frees the pages while they are still in the list
  that `jmem_cellocator_find` walks. A freed page whose `start_p` was overwritten
  by a free region header can claim a lower page as one of its cells, which is
  then not returned to the heap, against the assertion in `jmem_heap_finalize`.
  It needs a header that reads as a low address (`StaleLimit`).
* A mark recursion limit of 0, which the configuration accepts, makes the
  collector free reachable objects: `LiveAllocated` fails with `MarkLimit = 0`.
* A name that is ambiguous in one module and exported by name from another one is
  dropped from the second namespace instead of failing the link; `LinkOutcome` is
  stated for programs without this (`NoAmbiguousReexport`).
* A module may fail to link although nothing that it imports is wrong and nothing
  but the evaluation of another module threw. Let a have `export * from b`, b have
  `export * from c` and `export * from d`, and c and d both export x. Then x is
  ambiguous and not a name of b or a. If b was linked, the evaluation of c threw,
  and a is linked now, the search for x finds that the namespace of b lacks it,
  goes on to c and fails there, since c is in the state ERROR
  (`ecma-module.c:405`). It takes four modules, so the run does not reach it; the
  proof of `LinkOutcome` did not go through for an earlier form of that property, which
  took a thrown error for a reason only of the module that threw.
* `docs/02.API-REFERENCE.md:5513` says that a synthetic module is linked when it
  is created; `jjs_synthetic_module` creates it unlinked, and `jjs_module_link`
  takes it from there.
* `ecma_async_yield_throw` does not check the getter of `return` for an error
  (`ecma-async-generator-object.c:151`): it goes on to call the error value and
  raises a second error over the first. The body gets an error either way.
* While `ecma_async_generator_finalize` rejects the waiting tasks, a request made
  by the host's callback is answered at once, before the tasks that still wait;
  `AnsweredInOrder` is about tasks.
* `jmem_heap_realloc_block` that moves a block into a cell frees the block also
  when no cell could be had, and returns NULL (`jmem-heap.c:594`). The assertions
  at `jmem-heap.c:586` and `jmem-cellocator.c:45` say that a cell or a page is
  always had; the model is of the build without assertions, which goes on below
  them.
* `jmem_heap_alloc` of a small size returns NULL when no page could be added,
  although the collection inside `jmem_cellocator_add_page` may have freed a
  cell (`jmem-heap.c:165`). The caller's retry finds it.
* `jjs_promise_resolve` on the promise of a suspended async function settles it,
  and the end of the function settles it again (`ecma-promise-object.c:107`
  inverts the state bits). In `promise_settle` the host settles only promises
  it could have created (`HostKinds = {"plain"}`).

## 7. Plan

The models of the plan (allocators, collector, promises, combinators, job queue,
modules, properties, async generators) are written. What is left:

1. `require` and the vmod registry as a module of their own: what a failed or a
   nested load leaves in the caches.
2. The debugger protocol, with a model of the client.
3. A property of namespaces under collection: EcmaModule composed with EcmaGc.
