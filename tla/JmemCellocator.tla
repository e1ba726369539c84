--------------------------- MODULE JmemCellocator ---------------------------
(***************************************************************************)
(* The cell allocator of jmem-cellocator.c and the dispatch to it in       *)
(* jmem_heap_alloc, jmem_heap_free_block_internal and                      *)
(* jmem_heap_realloc_block (jmem-heap.c).  Requests of at most             *)
(* JMEM_CELLOCATOR_CELL_SIZE bytes are served from pages of equal cells;   *)
(* pages are blocks of the main heap, linked newest first, and the free    *)
(* cells of all pages form one LIFO list.  Nothing in a pointer says which *)
(* of the two allocators it came from: a free or a reallocation asks       *)
(* jmem_cellocator_find.                                                   *)
(*                                                                         *)
(* The main heap is the one JmemHeap shows to be implemented: a block is   *)
(* any free run of units, NULL only when there is none (JmemRegions).      *)
(***************************************************************************)
EXTENDS JmemUnits, SequencesExt

CONSTANTS
  HeaderUnits,  \* JMEM_CELLOCATOR_PAGE_HEADER_SIZE in units
  CellCount,    \* context_p->vm_cell_count
  SmallSizes,   \* byte sizes that fit a cell
  StaleLimit    \* see StaleStart

ASSUME PageAssumption ==
  /\ HeaderUnits \in Nat \ {0} /\ CellCount \in Nat \ {0}
  /\ \A s \in SmallSizes : s \in Nat \ {0} /\ Units(s) <= CellUnits
  /\ StaleLimit \in Nat

VARIABLES
  blocks,       \* address -> bytes of the main heap blocks the callers own
  cells,        \* address -> bytes of the cells the callers own
  pages,        \* jmem_cellocator_32.pages, in list order
  start,        \* page -> its start_p
  freeCells,    \* jmem_cellocator_32.free_cells, in list order
  pc, op,       \* the running call
  pressure,     \* pressure of the call's jmem_heap_gc_and_alloc_block
  sub,          \* pressure of the one in jmem_cellocator_add_page
  after,        \* where ecma_free_unused_memory returns to
  freed,        \* the pages jmem_cellocator_finalize has given back
  iter          \* its position in the list of pages

vars == <<blocks, cells, pages, start, freeCells, pc, op, pressure, sub, after, freed, iter>>

PageUnits == HeaderUnits + CellCount * CellUnits
PageBytes == PageUnits * JMEM_ALIGNMENT
PageSet == Range(pages)

\* start_p and end_p of a page: the first and the last cell.
Start(p) == p + HeaderUnits
End(p) == Start(p) + CellUnits * (CellCount - 1)
CellsOf(p) == { Start(p) + CellUnits * i : i \in 0 .. (CellCount - 1) }

\* The regions of the main heap in use: the callers' blocks and the pages.
InUse == [b \in DOMAIN blocks \cup (PageSet \ freed) |->
            IF b \in DOMAIN blocks THEN blocks[b] ELSE PageBytes]

\* The requests jmem_cellocator serves.
IsSmall(s) == Units(s) <= CellUnits

\* The test of jmem_cellocator_find for one page.
InPage(p, a) == start[p] <= a /\ a <= End(p)

\* jmem_cellocator_find (found or not: the page itself is never used)
IsCell(a) == \E i \in 1 .. Len(pages) : InPage(pages[i], a)

-----------------------------------------------------------------------------
Init ==
  /\ blocks = [b \in {} |-> 0]
  /\ cells = [c \in {} |-> 0]
  /\ pages = <<>>
  /\ start = [p \in {} |-> 0]
  /\ freeCells = <<>>
  /\ pc = "idle"
  /\ op = NoReq
  /\ pressure = JMEM_PRESSURE_NONE
  /\ sub = JMEM_PRESSURE_NONE
  /\ after = "none"
  /\ freed = {}
  /\ iter = 0

heap == <<blocks, cells, pages, start, freeCells>>
final == <<freed, iter>>

AllSizes == Sizes \cup SmallSizes
Owners == DOMAIN blocks \cup DOMAIN cells

Calls ==
  [kind : {"alloc"}, ptr : {0}, size : AllSizes, max : MaxPressures]
    \cup [kind : {"free"}, ptr : Owners, size : {0}, max : {0}]
    \cup [kind : {"realloc"}, ptr : Owners, size : AllSizes, max : {JMEM_PRESSURE_FULL}]

Call(r) ==
  /\ pc = "idle"
  /\ op' = r
  /\ pc' = "enter"
  /\ UNCHANGED <<heap, pressure, sub, after, final>>

\* The call is over.
Return ==
  /\ pc' = "idle"
  /\ op' = NoReq
  /\ pressure' = JMEM_PRESSURE_NONE
  /\ sub' = JMEM_PRESSURE_NONE
  /\ after' = "none"
  /\ UNCHANGED final

\* Entering jmem_heap_gc_and_alloc_block: the accounting decides whether the
\* collector runs first (JmemHeap); here it may or may not.
Collect(next) ==
  \/ pc' = next /\ after' = "none" /\ pressure' = JMEM_PRESSURE_NONE
  \/ pc' = "gc" /\ after' = next /\ pressure' = JMEM_PRESSURE_LOW

EnterAlloc ==
  /\ pc = "enter" /\ op.kind = "alloc"
  /\ Collect("try")
  /\ UNCHANGED <<heap, op, sub, final>>

\* The collector gives back a block or a cell.
GcFree(a) ==
  /\ pc = "gc"
  /\ a \in Owners \ {op.ptr}
  /\ IF IsCell(a)
       THEN cells' = Drop(cells, a) /\ freeCells' = <<a>> \o freeCells /\ UNCHANGED blocks
       ELSE blocks' = Drop(blocks, a) /\ UNCHANGED <<cells, freeCells>>
  /\ UNCHANGED <<pages, start, pc, op, pressure, sub, after, final>>

GcDone ==
  /\ pc = "gc"
  /\ pc' = after
  /\ after' = "none"
  /\ UNCHANGED <<heap, op, pressure, sub, final>>

-----------------------------------------------------------------------------
(* jmem_heap_alloc                                                         *)

\* Where the old memory of a reallocation goes once the new one is there.
OldCell == op.kind = "realloc" /\ op.ptr \in DOMAIN cells
OldBlock == op.kind = "realloc" /\ op.ptr \in DOMAIN blocks

\* The cell a is handed out; `rest' are the free cells left.
GiveCell(a, rest) ==
  /\ cells' = Put(cells, a, op.size)
  /\ freeCells' = rest
  /\ blocks' = IF OldBlock THEN Drop(blocks, op.ptr) ELSE blocks
  /\ Return

TryCell ==
  /\ pc \in {"try", "again"}
  /\ IsSmall(op.size)
  /\ freeCells # <<>>
  /\ GiveCell(Head(freeCells), Tail(freeCells))
  /\ UNCHANGED <<pages, start>>

\* The first attempt fails: ecma_free_unused_memory (JMEM_PRESSURE_LOW).
TryCellGc ==
  /\ pc = "try"
  /\ IsSmall(op.size)
  /\ freeCells = <<>>
  /\ pc' = "gc"
  /\ after' = "again"
  /\ UNCHANGED <<heap, op, pressure, sub, final>>

\* The second one fails too: jmem_cellocator_add_page, whose allocation may
\* collect again.
AddPage ==
  /\ pc = "again"
  /\ freeCells = <<>>
  /\ \/ pc' = "page" /\ after' = "none" /\ sub' = JMEM_PRESSURE_NONE
     \/ pc' = "gc" /\ after' = "page" /\ sub' = JMEM_PRESSURE_LOW
  /\ UNCHANGED <<heap, op, pressure, final>>

\* The cells of a new page as add_page links them: the last cell first.
PageCells(p) == [i \in 1 .. CellCount |-> Start(p) + CellUnits * (CellCount - i)]

\* The page is there: its first cell answers the request.
PageTake(p) ==
  LET linked == PageCells(p) \o freeCells
  IN  /\ pc = "page"
      /\ FreeFor(InUse, p, PageBytes)
      /\ pages' = <<p>> \o pages
      /\ start' = Put(start, p, Start(p))
      /\ GiveCell(Head(linked), Tail(linked))

\* Mutant: the pressure is not raised.
PageRetrySamePressure ==
  /\ pc = "page"
  /\ ~Room(InUse, PageBytes)
  /\ sub < JMEM_PRESSURE_HIGH
  /\ pc' = "gc"
  /\ after' = "page"
  /\ UNCHANGED <<heap, op, pressure, sub, final>>

PageRetry ==
  /\ pc = "page"
  /\ ~Room(InUse, PageBytes)
  /\ sub < JMEM_PRESSURE_HIGH
  /\ sub' = sub + 1
  /\ pc' = "gc"
  /\ after' = "page"
  /\ UNCHANGED <<heap, op, pressure, final>>

\* add_page returns false, jmem_heap_alloc NULL.
PageNull ==
  /\ pc = "page"
  /\ ~Room(InUse, PageBytes)
  /\ sub >= JMEM_PRESSURE_HIGH
  /\ pc' = "null"
  /\ UNCHANGED <<heap, op, pressure, sub, after, final>>

\* Mutant: the cell a reallocation leaves is not put back on the free list.
TryBlockLosesCell(a) ==
  /\ pc = "try"
  /\ ~IsSmall(op.size)
  /\ FreeFor(InUse, a, op.size)
  /\ blocks' = Put(IF OldBlock THEN Drop(blocks, op.ptr) ELSE blocks, a, op.size)
  /\ cells' = IF OldCell THEN Drop(cells, op.ptr) ELSE cells
  /\ Return
  /\ UNCHANGED <<pages, start, freeCells>>

\* A larger request is served by the main heap.  The old cell or block of a
\* reallocation is freed after the copy.
TryBlock(a) ==
  /\ pc = "try"
  /\ ~IsSmall(op.size)
  /\ FreeFor(InUse, a, op.size)
  /\ blocks' = Put(IF OldBlock THEN Drop(blocks, op.ptr) ELSE blocks, a, op.size)
  /\ cells' = IF OldCell THEN Drop(cells, op.ptr) ELSE cells
  /\ freeCells' = IF OldCell THEN <<op.ptr>> \o freeCells ELSE freeCells
  /\ Return
  /\ UNCHANGED <<pages, start>>

TryNull ==
  /\ pc = "try"
  /\ ~IsSmall(op.size)
  /\ ~Room(InUse, op.size)
  /\ pc' = "null"
  /\ UNCHANGED <<heap, op, pressure, sub, after, final>>

\* The reallocation of a block to a cell calls jmem_heap_alloc itself, without
\* jmem_heap_gc_and_alloc_block around it.
Direct == OldBlock /\ IsSmall(op.size)

\* jmem_heap_gc_and_alloc_block after a failed attempt.
NullRetry ==
  /\ pc = "null"
  /\ ~Direct
  /\ pressure < op.max
  /\ pressure' = pressure + 1
  /\ IF pressure + 1 = JMEM_PRESSURE_FULL
       THEN pc' = "fatal" /\ after' = "none"
       ELSE pc' = "gc" /\ after' = "try"
  /\ sub' = JMEM_PRESSURE_NONE
  /\ UNCHANGED <<heap, op, final>>

NullReturn ==
  /\ pc = "null"
  /\ ~Direct
  /\ pressure >= op.max
  /\ Return
  /\ UNCHANGED heap

\* "free the old block!": also when there is no cell to move to.  (Debug
\* builds assert that there is one; without assertions the code handles NULL
\* by skipping the copy, and goes on to free the block.)
NullDirect ==
  /\ pc = "null"
  /\ Direct
  /\ blocks' = Drop(blocks, op.ptr)
  /\ Return
  /\ UNCHANGED <<cells, pages, start, freeCells>>

-----------------------------------------------------------------------------
(* jmem_heap_free_block_internal and jmem_heap_realloc_block               *)

FreeCell ==
  /\ pc = "enter" /\ op.kind = "free"
  /\ IsCell(op.ptr)
  /\ cells' = Drop(cells, op.ptr)
  /\ freeCells' = <<op.ptr>> \o freeCells
  /\ Return
  /\ UNCHANGED <<blocks, pages, start>>

FreeHeapBlock ==
  /\ pc = "enter" /\ op.kind = "free"
  /\ ~IsCell(op.ptr)
  /\ blocks' = Drop(blocks, op.ptr)
  /\ Return
  /\ UNCHANGED <<cells, pages, start, freeCells>>

\* "cell has extra space to accommodate the realloc"
ReallocInCell ==
  /\ pc = "enter" /\ op.kind = "realloc"
  /\ IsCell(op.ptr) /\ IsSmall(op.size)
  /\ cells' = Put(cells, op.ptr, op.size)
  /\ Return
  /\ UNCHANGED <<blocks, pages, start, freeCells>>

\* "new size is bigger than a cell, transfer to the main heap."
ReallocFromCell ==
  /\ pc = "enter" /\ op.kind = "realloc"
  /\ IsCell(op.ptr) /\ ~IsSmall(op.size)
  /\ Collect("try")
  /\ UNCHANGED <<heap, op, sub, final>>

\* "handle downsize from main heap to cellocator"
ReallocToCell ==
  /\ pc = "enter" /\ op.kind = "realloc"
  /\ ~IsCell(op.ptr) /\ IsSmall(op.size)
  /\ pc' = "try"
  /\ UNCHANGED <<heap, op, pressure, sub, after, final>>

\* From block to block (JmemHeap has the details): the block keeps its place
\* when it does not grow.
Grows == Units(op.size) > Units(blocks[op.ptr])

ReallocStay ==
  /\ pc = "enter" /\ op.kind = "realloc"
  /\ ~IsCell(op.ptr) /\ ~IsSmall(op.size) /\ ~Grows
  /\ blocks' = Put(blocks, op.ptr, op.size)
  /\ Return
  /\ UNCHANGED <<cells, pages, start, freeCells>>

ReallocGrow ==
  /\ pc = "enter" /\ op.kind = "realloc"
  /\ ~IsCell(op.ptr) /\ ~IsSmall(op.size) /\ Grows
  /\ Collect("grow")
  /\ UNCHANGED <<heap, op, sub, final>>

\* It is extended at the end or, when no free region follows, at the front.
NextFree == op.ptr + Units(blocks[op.ptr]) \in Area \ Owned(InUse)
\* Mutant: the size of the free region next to the block is not compared.
ExtendToAnySize(a) ==
  a = IF NextFree THEN op.ptr ELSE op.ptr + Units(blocks[op.ptr]) - Units(op.size)

ExtendTo(a) ==
  /\ a = IF NextFree THEN op.ptr ELSE op.ptr + Units(blocks[op.ptr]) - Units(op.size)
  /\ FreeFor(Drop(InUse, op.ptr), a, op.size)

GrowExtend(a) ==
  /\ pc = "grow"
  /\ ExtendTo(a)
  /\ blocks' = Put(Drop(blocks, op.ptr), a, op.size)
  /\ Return
  /\ UNCHANGED <<cells, pages, start, freeCells>>

GrowByCopy ==
  /\ pc = "grow"
  /\ \A a \in Area : ~ExtendTo(a)
  /\ Collect("try")
  /\ UNCHANGED <<heap, op, sub, final>>

-----------------------------------------------------------------------------
(* jmem_heap_finalize, once everything the engine owned is freed           *)

StartFinalize ==
  /\ pc = "idle"
  /\ Owners = {}
  /\ pc' = "finalize"
  /\ iter' = 1
  /\ UNCHANGED <<heap, op, pressure, sub, after, freed>>

\* jmem_cellocator_finalize leaves the pages it frees in the list.  Unless the
\* region before the page is free and grows over it, jmem_heap_insert_block
\* puts the size and the offset of a free region where start_p was.  Read as an
\* address this is below the heap if the region has at most StaleLimit units (64
\* bit builds, the size being the upper half), above it otherwise.
StaleStart(p) ==
  LET used == { u \in Owned(InUse) : u >= p + PageUnits } \cup {HeapUnits + 1}
      region == Min(used) - p
  IN  IF p > 1 /\ p - 1 \notin Owned(InUse) THEN start[p]
      ELSE IF region <= StaleLimit THEN 0 ELSE HeapUnits + 1

FinalizeFree ==
  /\ pc = "finalize" /\ iter <= Len(pages)
  /\ ~IsCell(pages[iter])
  /\ freed' = freed \cup {pages[iter]}
  /\ start' = [start EXCEPT ![pages[iter]] = StaleStart(pages[iter])]
  /\ iter' = iter + 1
  /\ UNCHANGED <<blocks, cells, pages, freeCells, pc, op, pressure, sub, after>>

\* jmem_heap_free_block asks jmem_cellocator_find here too.  Linking the page
\* as a free cell overwrites its start_p.
FinalizeAsCell ==
  /\ pc = "finalize" /\ iter <= Len(pages)
  /\ IsCell(pages[iter])
  /\ start' = [start EXCEPT ![pages[iter]] = IF freeCells = <<>> THEN 0 ELSE Head(freeCells)]
  /\ freeCells' = <<pages[iter]>> \o freeCells
  /\ iter' = iter + 1
  /\ UNCHANGED <<blocks, cells, pages, pc, op, pressure, sub, after, freed>>

FinalizeDone ==
  /\ pc = "finalize"
  /\ iter > Len(pages)
  /\ pc' = "done"
  /\ UNCHANGED <<heap, op, pressure, sub, after, final>>

\* After jmem_heap_finalize and jjs_fatal nothing happens.
Stopped == pc \in {"done", "fatal"} /\ UNCHANGED vars

AllocStep ==
  \/ EnterAlloc \/ TryCell \/ TryCellGc \/ AddPage \/ PageRetry \/ PageNull
  \/ TryNull \/ NullRetry \/ NullReturn \/ NullDirect
  \/ \E a \in Area : PageTake(a) \/ TryBlock(a)
FreeStep == FreeCell \/ FreeHeapBlock
ReallocStep ==
  \/ ReallocInCell \/ ReallocFromCell \/ ReallocToCell \/ ReallocStay
  \/ ReallocGrow \/ GrowByCopy \/ \E a \in Area : GrowExtend(a)
GcStep == GcDone \/ \E a \in Area : GcFree(a)
FinalStep == FinalizeFree \/ FinalizeAsCell \/ FinalizeDone

Step == AllocStep \/ FreeStep \/ ReallocStep \/ GcStep \/ FinalStep
Next == (\E r \in Calls : Call(r)) \/ StartFinalize \/ Step \/ Stopped

\* A call, once made, runs to its end (see JmemHeap).
Spec == Init /\ [][Next]_vars /\ WF_vars(Step)

-----------------------------------------------------------------------------
TypeOK ==
  /\ DOMAIN blocks \subseteq Area /\ \A b \in DOMAIN blocks : blocks[b] \in Sizes
  /\ DOMAIN cells \subseteq Area /\ \A c \in DOMAIN cells : cells[c] \in SmallSizes
  /\ PageSet \subseteq Area /\ freed \subseteq PageSet
  /\ DOMAIN start = PageSet /\ \A p \in PageSet : start[p] \in 0 .. (HeapUnits + 1)
  /\ Range(freeCells) \subseteq Area
  /\ pc \in {"idle", "enter", "gc", "try", "again", "page", "null", "grow",
             "finalize", "done", "fatal"}
  /\ after \in {"none", "try", "again", "page", "grow"}
  /\ pressure \in JMEM_PRESSURE_NONE .. JMEM_PRESSURE_FULL
  /\ sub \in JMEM_PRESSURE_NONE .. JMEM_PRESSURE_HIGH
  /\ iter \in Nat

\* Every cell of every page is either free, once, or owned: cells are neither
\* lost nor handed out twice, whichever way the memory was freed, reallocated
\* or reclaimed in the middle of another request.
CellsConserved ==
  pc \notin {"finalize", "done"} =>
    /\ IsInjective(freeCells)
    /\ Range(freeCells) \cap DOMAIN cells = {}
    /\ Range(freeCells) \cup DOMAIN cells = UNION { CellsOf(p) : p \in PageSet }

\* jmem_cellocator_find tells cells from blocks: a free or a reallocation goes
\* to the allocator the memory came from.
DispatchExact ==
  /\ \A c \in DOMAIN cells : IsCell(c)
  /\ \A b \in DOMAIN blocks : ~IsCell(b)

\* Everything the callers own is disjoint, cells and blocks alike, and no
\* page is under somebody's block.
OwnersApart ==
  LET owned == [a \in Owners |-> IF a \in DOMAIN cells THEN CellUnits * JMEM_ALIGNMENT ELSE blocks[a]]
  IN  Apart(owned) /\ Apart(InUse)

\* What the callers own is theirs: cells and blocks never overlap, and each is
\* given back to the allocator it came from.
OwnersSound == TypeOK /\ DispatchExact /\ OwnersApart

\* Every call ends, in a result or in jjs_fatal.
CallsReturn == (op # NoReq) ~> (op = NoReq \/ pc = "fatal")

=============================================================================
