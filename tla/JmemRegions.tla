---------------------------- MODULE JmemRegions ----------------------------
(***************************************************************************)
(* What the block allocator of jmem-heap.c promises its callers: the       *)
(* interface of jmem_heap_alloc_block, jmem_heap_alloc_block_null_on_error, *)
(* jmem_heap_free_block and jmem_heap_realloc_block without the free list, *)
(* the skip pointer or the accounting.  One request is outstanding at a    *)
(* time (the engine is single threaded), and while an allocation or a      *)
(* reallocation is outstanding the garbage collector may give blocks back. *)
(***************************************************************************)
EXTENDS JmemUnits

VARIABLES
  blocks,      \* address -> requested bytes of every block the callers own
  req,         \* the outstanding request
  alive        \* FALSE once jjs_fatal (JJS_FATAL_OUT_OF_MEMORY) was called

vars == <<blocks, req, alive>>

TypeOK ==
  /\ DOMAIN blocks \subseteq Area
  /\ \A b \in DOMAIN blocks : blocks[b] \in Sizes
  /\ req \in Requests \cup {NoReq}
  /\ alive \in BOOLEAN

Init ==
  /\ blocks = [b \in {} |-> 0]
  /\ req = NoReq
  /\ alive = TRUE

Idle == alive /\ req = NoReq

Call(r) ==
  /\ Idle
  /\ r.kind # "alloc" => r.ptr \in DOMAIN blocks
  /\ req' = r
  /\ UNCHANGED <<blocks, alive>>

\* A successful allocation: any free run of units, given out whole.
Grant(a) ==
  /\ alive /\ req.kind = "alloc"
  /\ FreeFor(blocks, a, req.size)
  /\ blocks' = Put(blocks, a, req.size)
  /\ req' = NoReq
  /\ UNCHANGED alive

\* NULL is returned only by the null_on_error entry point, and only when no
\* run of free units is long enough.
Deny ==
  /\ alive /\ req.kind = "alloc" /\ req.max < JMEM_PRESSURE_FULL
  /\ ~Room(blocks, req.size)
  /\ req' = NoReq
  /\ UNCHANGED <<blocks, alive>>

OutOfMemory ==
  /\ alive /\ req.max = JMEM_PRESSURE_FULL
  /\ ~Room(blocks, req.size)
  /\ alive' = FALSE
  /\ UNCHANGED <<blocks, req>>

\* The collector frees a block, never the one being reallocated.
Reclaim(b) ==
  /\ alive /\ req.kind \in {"alloc", "realloc"}
  /\ b \in DOMAIN blocks \ {req.ptr}
  /\ blocks' = Drop(blocks, b)
  /\ UNCHANGED <<req, alive>>

Release ==
  /\ alive /\ req.kind = "free"
  /\ blocks' = Drop(blocks, req.ptr)
  /\ req' = NoReq
  /\ UNCHANGED alive

\* A reallocation: the block keeps its place or moves, possibly onto part of
\* the units it had, and touches no unit of another block.
Resize(a) ==
  /\ alive /\ req.kind = "realloc"
  /\ FreeFor(Drop(blocks, req.ptr), a, req.size)
  /\ blocks' = Put(Drop(blocks, req.ptr), a, req.size)
  /\ req' = NoReq
  /\ UNCHANGED alive

Next ==
  \/ \E r \in Requests : Call(r)
  \/ \E a \in Area : Grant(a) \/ Reclaim(a) \/ Resize(a)
  \/ Deny \/ OutOfMemory \/ Release

Spec == Init /\ [][Next]_vars

=============================================================================
