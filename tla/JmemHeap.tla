------------------------------ MODULE JmemHeap ------------------------------
(***************************************************************************)
(* The block allocator of jmem-heap.c: first fit allocation from an        *)
(* address-ordered free list whose headers live in the free memory itself, *)
(* the skip pointer that shortens the search of jmem_heap_find_prev,       *)
(* coalescing on free, reallocation in place (at the end, at the front) or *)
(* by copy, and the accounting that decides when an allocation first runs  *)
(* the garbage collector.                                                  *)
(*                                                                         *)
(* Every loop of the C code is a loop of steps here, so the walks over the *)
(* free list are the program's own.  The garbage collector runs in the     *)
(* middle of an allocation or a reallocation and frees blocks through the  *)
(* same jmem_heap_free_block; which ones is not this module's business, so *)
(* it may be any blocks but the one being reallocated.                     *)
(*                                                                         *)
(* Requests are for more than JMEM_CELLOCATOR_CELL_SIZE bytes: smaller     *)
(* ones never reach this code (see JmemCellocator), which also makes the   *)
(* 8 byte fast path of jmem_heap_alloc unreachable.                        *)
(***************************************************************************)
EXTENDS JmemUnits

CONSTANTS
  GcLimit,     \* context_p->gc_limit, in bytes
  EndOfList    \* JMEM_HEAP_END_OF_LIST, larger than any offset

ASSUME GcLimitAssumption == GcLimit \in Nat \ {0}
ASSUME EndAssumption == EndOfList \in Nat /\ EndOfList > HeapUnits + 1

VARIABLES
  next,        \* free region -> next_offset of its header
  size,        \* free region -> size of its header, in units
  skip,        \* jmem_heap_list_skip_p
  allocated,   \* jmem_heap_allocated_size, in bytes
  limit,       \* jmem_heap_limit, in bytes
  blocks,      \* address -> requested bytes of every block handed out
  pc,          \* where the running call is
  op,          \* the call of the mutator
  pressure,    \* the local pressure of jmem_heap_gc_and_alloc_block
  after,       \* what ecma_free_unused_memory returns to
  prev,        \* prev_p of the list walk in progress
  target,      \* block_p of jmem_heap_find_prev
  todo,        \* what the caller of jmem_heap_find_prev does next
  back,        \* where the running jmem_heap_free_block returns to
  ret          \* the region taken for the reallocation by copy, or 0

list == <<next, size, skip>>
account == <<allocated, limit>>
control == <<pc, op, pressure, after, prev, target, todo, back, ret>>
vars == <<list, account, blocks, control>>

Nodes == DOMAIN next

\* jmem_heap_get_region_end
RegionEnd(a) == a + size[a]

BlockUnits(b) == Units(blocks[b])

\* The free list with regions `dom', the headers of n and of p rewritten.
Relink(dom, n, nxt, len, p, pnxt, plen) ==
  /\ next' = [a \in dom |-> IF a = n THEN nxt ELSE IF a = p THEN pnxt ELSE next[a]]
  /\ size' = [a \in dom |-> IF a = n THEN len ELSE IF a = p THEN plen ELSE size[a]]

\* The first k units of the region after prev_p leave the list: the rest of
\* the region stays in its place, an exact fit is unlinked.
TakeFront(k) ==
  LET cur  == next[prev]
      rest == size[cur] - k
  IN  IF rest > 0
        THEN Relink((Nodes \ {cur}) \cup {cur + k},
                    cur + k, next[cur], rest, prev, cur + k, size[prev])
        ELSE Relink(Nodes \ {cur}, prev, next[cur], size[prev], prev, 0, 0)

-----------------------------------------------------------------------------
\* jmem_heap_init
Init ==
  /\ next = [a \in {0, 1} |-> IF a = 0 THEN 1 ELSE EndOfList]
  /\ size = [a \in {0, 1} |-> IF a = 0 THEN 0 ELSE HeapUnits]
  /\ skip = 0
  /\ allocated = 0
  /\ limit = GcLimit
  /\ blocks = [b \in {} |-> 0]
  /\ pc = "idle"
  /\ op = NoReq
  /\ pressure = JMEM_PRESSURE_NONE
  /\ after = "none"
  /\ prev = 0
  /\ target = 0
  /\ todo = "free"
  /\ back = "idle"
  /\ ret = 0

\* The call returns and its local variables are gone.
Return ==
  /\ pc' = "idle"
  /\ pressure' = JMEM_PRESSURE_NONE
  /\ after' = "none"
  /\ prev' = 0
  /\ target' = 0
  /\ todo' = "free"
  /\ back' = "idle"
  /\ ret' = 0

\* The engine calls jmem_heap_alloc_block (max = FULL),
\* jmem_heap_alloc_block_null_on_error (max = HIGH), jmem_heap_free_block or
\* jmem_heap_realloc_block.
Call(r) ==
  /\ pc = "idle"
  /\ r.kind # "alloc" => r.ptr \in DOMAIN blocks
  /\ op' = r
  /\ pc' = "enter"
  /\ UNCHANGED <<list, account, blocks, pressure, after, prev, target, todo, back, ret>>

-----------------------------------------------------------------------------
(* jmem_heap_gc_and_alloc_block and jmem_heap_alloc                        *)

\* The head of jmem_heap_gc_and_alloc_block: collect first when the request
\* would reach the limit, with `used' bytes allocated.
TriggerGc(used, bytes) == used + bytes >= limit

\* The two ways into jmem_heap_gc_and_alloc_block share this.
StartFit(used) ==
  /\ after' = "fit"
  /\ prev' = 0
  /\ IF TriggerGc(used, op.size)
       THEN pc' = "gc" /\ pressure' = JMEM_PRESSURE_LOW
       ELSE pc' = "fit" /\ pressure' = JMEM_PRESSURE_NONE

EnterAlloc ==
  /\ pc = "enter" /\ op.kind = "alloc"
  /\ StartFit(allocated)
  /\ UNCHANGED <<list, account, blocks, op, target, todo, back, ret>>

\* ecma_free_unused_memory frees a block on the way.
GcFree(b) ==
  /\ pc = "gc"
  /\ b \in DOMAIN blocks \ {op.ptr}
  /\ pc' = "release"
  /\ back' = "gc"
  /\ target' = b
  /\ UNCHANGED <<list, account, blocks, op, pressure, after, prev, todo, ret>>

\* ecma_free_unused_memory returns to the allocation or the reallocation.
GcDone ==
  /\ pc = "gc"
  /\ IF after = "fit" THEN pc' = "fit" ELSE pc' = "grow"
  /\ prev' = 0
  /\ UNCHANGED <<list, account, blocks, op, pressure, after, target, todo, back, ret>>

\* One turn of the search: the region at current_offset is too small.
FitSkip ==
  /\ pc = "fit"
  /\ next[prev] # EndOfList
  /\ size[next[prev]] < Units(op.size)
  /\ prev' = next[prev]
  /\ UNCHANGED <<list, account, blocks, pc, op, pressure, after, target, todo, back, ret>>

\* The region is big enough: split it or unlink it, account for the block.
FitTake ==
  LET cur == next[prev]
      n   == Units(op.size)
  IN  /\ pc = "fit"
      /\ cur # EndOfList
      /\ size[cur] >= n
      /\ TakeFront(n)
      /\ skip' = prev
      /\ allocated' = allocated + n * JMEM_ALIGNMENT
      /\ blocks' = Put(blocks, cur, op.size)
      /\ ret' = IF op.kind = "realloc" THEN cur ELSE 0
      /\ op' = IF op.kind = "realloc" THEN op ELSE NoReq
      /\ pc' = "raise"
      /\ UNCHANGED <<limit, pressure, after, prev, target, todo, back>>

\* Mutant: the pressure is not raised between two attempts.
FitRetrySamePressure ==
  /\ pc = "fit"
  /\ next[prev] = EndOfList
  /\ pressure < op.max
  /\ pc' = "gc"
  /\ UNCHANGED <<list, account, blocks, op, pressure, after, prev, target, todo, back, ret>>

\* No region fits: retry under higher pressure, or return NULL.  With
\* JMEM_PRESSURE_FULL ecma_free_unused_memory is jjs_fatal.
FitRetry ==
  /\ pc = "fit"
  /\ next[prev] = EndOfList
  /\ pressure < op.max
  /\ pressure' = pressure + 1
  /\ pc' = IF pressure + 1 = JMEM_PRESSURE_FULL THEN "fatal" ELSE "gc"
  /\ UNCHANGED <<list, account, blocks, op, after, prev, target, todo, back, ret>>

FitNull ==
  /\ pc = "fit"
  /\ next[prev] = EndOfList
  /\ pressure >= op.max
  /\ op' = NoReq
  /\ Return
  /\ UNCHANGED <<list, account, blocks>>

\* while (jmem_heap_allocated_size >= jmem_heap_limit)
RaiseStep ==
  /\ pc = "raise"
  /\ allocated >= limit
  /\ limit' = limit + GcLimit
  /\ UNCHANGED <<list, allocated, blocks, control>>

RaiseDone ==
  /\ pc = "raise"
  /\ allocated < limit
  /\ op.kind # "realloc"
  /\ Return
  /\ UNCHANGED <<list, account, blocks, op>>

\* jmem_heap_alloc_block_internal has returned the region for a copy: look
\* for the place of the old block.
RaiseCopied ==
  /\ pc = "raise"
  /\ allocated < limit
  /\ op.kind = "realloc"
  /\ target' = op.ptr
  /\ pc' = "release"
  /\ UNCHANGED <<list, account, blocks, op, pressure, after, prev, todo, back, ret>>

-----------------------------------------------------------------------------
(* jmem_heap_find_prev, jmem_heap_insert_block, jmem_heap_free_block       *)

\* The head of jmem_heap_find_prev.
FindStart(b) ==
  /\ prev' = IF b > skip THEN skip ELSE 0
  /\ target' = b
  /\ pc' = "find"

EnterFree ==
  /\ pc = "enter" /\ op.kind = "free"
  /\ target' = op.ptr
  /\ back' = "idle"
  /\ pc' = "release"
  /\ UNCHANGED <<list, account, blocks, op, pressure, after, prev, todo, ret>>

\* A block goes back to the free list: find its predecessor first.
StartRelease ==
  /\ pc = "release"
  /\ FindStart(target)
  /\ todo' = IF ret # 0 THEN "copied" ELSE "free"
  /\ UNCHANGED <<list, account, blocks, op, pressure, after, back, ret>>

\* while (prev_p->next_offset < block_offset)
FindStep ==
  /\ pc = "find"
  /\ next[prev] < target
  /\ prev' = next[prev]
  /\ UNCHANGED <<list, account, blocks, pc, op, pressure, after, target, todo, back, ret>>

Found(what) == pc = "find" /\ next[prev] >= target /\ todo = what

\* Mutant: the inserted region is not merged with the one after it.
NeverAdjoinsNext(node, len, nxt) == FALSE

\* "Update next. Can be merged."
AdjoinsNext(node, len, nxt) == node + len = nxt

\* jmem_heap_insert_block (blk, prev_p, n * JMEM_ALIGNMENT)
Insert(blk, n) ==
  LET nxt     == next[prev]
      merges  == RegionEnd(prev) = blk
      node    == IF merges THEN prev ELSE blk
      len     == IF merges THEN size[prev] + n ELSE n
      absorbs == AdjoinsNext(node, len, nxt)
  IN  /\ Relink((IF absorbs THEN Nodes \ {nxt} ELSE Nodes) \cup {node},
                node,
                IF absorbs THEN next[nxt] ELSE nxt,
                IF absorbs THEN len + size[nxt] ELSE len,
                prev, blk, size[prev])
      /\ skip' = prev

\* The rest of jmem_heap_free_block_internal.
FreeInsert ==
  /\ Found("free")
  /\ Insert(target, BlockUnits(target))
  /\ allocated' = allocated - BlockUnits(target) * JMEM_ALIGNMENT
  /\ blocks' = Drop(blocks, target)
  /\ op' = IF back = "gc" THEN op ELSE NoReq
  /\ pc' = "lower"
  /\ UNCHANGED <<limit, pressure, after, prev, target, todo, back, ret>>

\* while (jmem_heap_allocated_size + gc_limit <= jmem_heap_limit)
LowerStep ==
  /\ pc = "lower"
  /\ allocated + GcLimit <= limit
  /\ limit' = limit - GcLimit
  /\ UNCHANGED <<list, allocated, blocks, control>>

LowerDone ==
  /\ pc = "lower"
  /\ allocated + GcLimit > limit
  /\ back = "idle"
  /\ Return
  /\ UNCHANGED <<list, account, blocks, op>>

LowerGc ==
  /\ pc = "lower"
  /\ allocated + GcLimit > limit
  /\ back = "gc"
  /\ pc' = "gc"
  /\ UNCHANGED <<list, account, blocks, op, pressure, after, prev, target, todo, back, ret>>

-----------------------------------------------------------------------------
(* jmem_heap_realloc_block, for a block of the main heap                   *)

Extra == Units(op.size) - BlockUnits(op.ptr)

ReallocSame ==
  /\ pc = "enter" /\ op.kind = "realloc"
  /\ Extra = 0
  /\ blocks' = Put(blocks, op.ptr, op.size)
  /\ op' = NoReq
  /\ Return
  /\ UNCHANGED <<list, account>>

ReallocShrink ==
  /\ pc = "enter" /\ op.kind = "realloc"
  /\ Extra < 0
  /\ FindStart(op.ptr)
  /\ todo' = "shrink"
  /\ back' = "idle"
  /\ UNCHANGED <<list, account, blocks, op, pressure, after, ret>>

\* Mutant: the tail is dropped instead of returned to the free list.
ShrinkLosesTail ==
  /\ Found("shrink")
  /\ allocated' = allocated + Extra * JMEM_ALIGNMENT
  /\ blocks' = Put(blocks, op.ptr, op.size)
  /\ op' = NoReq
  /\ pc' = "lower"
  /\ UNCHANGED <<list, limit, pressure, after, prev, target, todo, back, ret>>

\* The tail of the block goes to the free list after the predecessor of the
\* block itself.
ShrinkInsert ==
  /\ Found("shrink")
  /\ Insert(op.ptr + Units(op.size), - Extra)
  /\ allocated' = allocated + Extra * JMEM_ALIGNMENT
  /\ blocks' = Put(blocks, op.ptr, op.size)
  /\ op' = NoReq
  /\ pc' = "lower"
  /\ UNCHANGED <<limit, pressure, after, prev, target, todo, back, ret>>

ReallocGrow ==
  /\ pc = "enter" /\ op.kind = "realloc"
  /\ Extra > 0
  /\ after' = "grow"
  /\ IF TriggerGc(allocated, Extra * JMEM_ALIGNMENT)
       THEN pc' = "gc" /\ pressure' = JMEM_PRESSURE_LOW
       ELSE pc' = "grow" /\ pressure' = pressure
  /\ UNCHANGED <<list, account, blocks, op, prev, target, todo, back, ret>>

GrowFind ==
  /\ pc = "grow"
  /\ FindStart(op.ptr)
  /\ todo' = "grow"
  /\ UNCHANGED <<list, account, blocks, op, pressure, after, back, ret>>

NextAdjoins == op.ptr + BlockUnits(op.ptr) = next[prev]
PrevAdjoins == RegionEnd(prev) = op.ptr

\* Mutant: the neighbour's size is not compared with what is missing.
FitsPrevAnySize == ~NextAdjoins /\ PrevAdjoins

FitsNext == NextAdjoins /\ Extra <= size[next[prev]]
FitsPrev == ~NextAdjoins /\ PrevAdjoins /\ Extra <= size[prev]

\* The block now starts at a: "Managed to extend the block."
Extended(a) ==
  /\ skip' = prev
  /\ allocated' = allocated + Extra * JMEM_ALIGNMENT
  /\ blocks' = Put(Drop(blocks, op.ptr), a, op.size)
  /\ op' = NoReq
  /\ pc' = "raise"
  /\ UNCHANGED <<limit, pressure, after, prev, target, todo, back, ret>>

ExtendEnd ==
  /\ Found("grow")
  /\ FitsNext
  /\ TakeFront(Extra)
  /\ Extended(op.ptr)

\* The free region before the block is larger than what is missing.
ExtendFrontPart ==
  /\ Found("grow")
  /\ FitsPrev /\ Extra # size[prev]
  /\ Relink(Nodes, prev, next[prev], size[prev] - Extra, prev, 0, 0)
  /\ Extended(op.ptr - Extra)

\* It is used up: its own predecessor must be found to unlink it.
ExtendFrontWhole ==
  /\ Found("grow")
  /\ FitsPrev /\ Extra = size[prev]
  /\ FindStart(prev)
  /\ todo' = "front"
  /\ UNCHANGED <<list, account, blocks, op, pressure, after, back, ret>>

FrontUnlink ==
  /\ Found("front")
  /\ TakeFront(size[target])
  /\ Extended(target)

\* Mutant: the old block stays on the account, CopiedInsert never takes it off.
GrowByCopyKeepsAccount ==
  /\ Found("grow")
  /\ ~FitsNext /\ ~FitsPrev
  /\ StartFit(allocated)
  /\ UNCHANGED <<list, account, blocks, op, target, todo, back, ret>>

\* Neither neighbour helps: take the old block off the account and allocate.
GrowByCopy ==
  /\ Found("grow")
  /\ ~FitsNext /\ ~FitsPrev
  /\ allocated' = allocated - BlockUnits(op.ptr) * JMEM_ALIGNMENT
  /\ StartFit(allocated - BlockUnits(op.ptr) * JMEM_ALIGNMENT)
  /\ UNCHANGED <<list, limit, blocks, op, target, todo, back, ret>>

\* The data is copied; the old block goes to the free list, its bytes are
\* already off the account.
CopiedInsert ==
  /\ Found("copied")
  /\ Insert(target, BlockUnits(target))
  /\ blocks' = Drop(blocks, target)
  /\ op' = NoReq
  /\ Return
  /\ UNCHANGED account

-----------------------------------------------------------------------------
AllocStep == EnterAlloc \/ FitSkip \/ FitTake \/ FitRetry \/ FitNull \/ RaiseStep \/ RaiseDone \/ RaiseCopied
FreeStep == EnterFree \/ StartRelease \/ FindStep \/ FreeInsert \/ LowerStep \/ LowerDone \/ LowerGc
ReallocStep ==
  \/ ReallocSame \/ ReallocShrink \/ ShrinkInsert \/ ReallocGrow \/ GrowFind
  \/ ExtendEnd \/ ExtendFrontPart \/ ExtendFrontWhole \/ FrontUnlink
  \/ GrowByCopy \/ CopiedInsert
GcStep == GcDone \/ \E b \in Area : GcFree(b)

\* jjs_fatal does not return: the model stutters there.
Fatal == pc = "fatal" /\ UNCHANGED vars

Step == AllocStep \/ FreeStep \/ ReallocStep \/ GcStep
Next == (\E r \in Requests : Call(r)) \/ Step \/ Fatal

\* A call, once made, runs to its end: the engine is one thread and the
\* collector frees finitely many blocks.
Fairness == WF_vars(Step)
Spec == Init /\ [][Next]_vars
FairSpec == Spec /\ Fairness

-----------------------------------------------------------------------------
TypeOK ==
  /\ 0 \in Nodes /\ Nodes \subseteq 0 .. HeapUnits
  /\ DOMAIN size = Nodes
  /\ \A a \in Nodes : next[a] \in Area \cup {EndOfList} /\ size[a] \in Nat
  /\ skip \in 0 .. HeapUnits
  /\ allocated \in Nat /\ limit \in Nat
  /\ DOMAIN blocks \subseteq Area
  /\ \A b \in DOMAIN blocks : blocks[b] \in Sizes
  /\ pc \in {"idle", "enter", "gc", "fit", "raise", "release", "find", "lower", "grow", "fatal"}
  /\ op \in Requests \cup {NoReq}
  /\ pressure \in JMEM_PRESSURE_NONE .. JMEM_PRESSURE_FULL
  /\ after \in {"none", "fit", "grow"}
  /\ prev \in 0 .. HeapUnits
  /\ target \in 0 .. HeapUnits
  /\ todo \in {"free", "shrink", "grow", "front", "copied"}
  /\ back \in {"idle", "gc"}
  /\ ret \in 0 .. HeapUnits

\* The list is in address order and complete: next_offset of every free
\* region, the skip pointer's included, is the least free region above it.
Linked ==
  /\ skip \in Nodes
  /\ \A a \in Nodes :
       /\ next[a] > a
       /\ next[a] # EndOfList => next[a] \in Nodes
       /\ \A c \in Nodes : c > a => c >= next[a]

\* Free regions never touch: jmem_heap_insert_block merges both neighbours,
\* so a request fails for lack of contiguous memory, never for lack of merging.
Coalesced ==
  /\ size[0] = 0
  /\ \A a \in Nodes \ {0} : size[a] > 0 /\ RegionEnd(a) <= HeapUnits + 1
  /\ \A a, c \in Nodes : a < c => RegionEnd(a) < c

FreeUnits == UNION { a .. (RegionEnd(a) - 1) : a \in Nodes }

\* No two blocks share a unit.
Disjoint == Apart(blocks)

\* Every unit of the area is free or in a block and none is both: no call,
\* however it splits, merges or moves regions, loses or doubles memory.
Partitioned == FreeUnits = Area \ Owned(blocks) /\ Owned(blocks) \subseteq Area

\* The free list is a list of all the free memory: in address order, merged,
\* and together with blocks that never overlap it makes up the whole area.
FreeListSound == Linked /\ Coalesced /\ Disjoint /\ Partitioned

\* The old block of a reallocation by copy is off the account while the new
\* one is looked for.
Suspended == IF op.kind = "realloc" /\ after = "fit"
               THEN BlockUnits(op.ptr) ELSE 0

\* jmem_heap_allocated_size is what the blocks occupy, rounding included.
Accounted == allocated = JMEM_ALIGNMENT * (Cardinality(Owned(blocks)) - Suspended)

\* The assertions of jmem_heap_free_block_internal: limit >= allocated at its
\* entry and its exit, and something is allocated at its entry.
LimitCovers ==
  /\ pc # "raise" => limit >= allocated
  /\ pc = "release" /\ ret = 0 => allocated > 0

\* Between two calls the limit is at most one gc_limit above what is in use:
\* the next collection is never put off by more than gc_limit bytes.
LimitTight == pc = "idle" => limit <= allocated + GcLimit

\* The account of the heap is right at every step: jmem_heap_allocated_size is
\* what the blocks occupy and the limit at which the next collection starts
\* covers it, by at most one gc_limit.
AccountSound == TypeOK /\ Accounted /\ LimitCovers /\ LimitTight

\* When jmem_heap_alloc has walked the whole list, no contiguous run of units
\* outside the blocks could have held the request.
NoRoomMissed == pc = "fit" /\ next[prev] = EndOfList => ~Room(blocks, op.size)

\* The blocks as the callers see them: the region taken for a copy belongs to
\* nobody until jmem_heap_realloc_block returns it.
ClientBlocks == IF ret # 0 THEN Drop(blocks, ret) ELSE blocks

Regions == INSTANCE JmemRegions
             WITH blocks <- ClientBlocks, req <- op, alive <- (pc # "fatal")

\* The free list implements the allocator of JmemRegions.
ImplementsRegions == Regions!Spec

\* Every call returns or ends the engine.
CallsReturn == (op # NoReq) ~> (op = NoReq \/ pc = "fatal")

=============================================================================
