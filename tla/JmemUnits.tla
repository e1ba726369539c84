----------------------------- MODULE JmemUnits -----------------------------
(***************************************************************************)
(* The constants and the address arithmetic shared by the modules of the   *)
(* memory manager (jmem.h, jmem-heap.c).                                   *)
(*                                                                         *)
(* Addresses count units of JMEM_ALIGNMENT bytes; unit 0 is heap_p->first, *)
(* whose compressed pointer is NULL, so 0 is never the address of a block. *)
(***************************************************************************)
EXTENDS Integers, FiniteSets

CONSTANTS
  HeapUnits,   \* JMEM_HEAP_AREA_SIZE in units of JMEM_ALIGNMENT
  CellUnits,   \* JMEM_CELLOCATOR_CELL_SIZE in units: smaller blocks are cells
  Sizes        \* the byte sizes callers ask for

JMEM_ALIGNMENT == 8

\* (size + JMEM_ALIGNMENT - 1) / JMEM_ALIGNMENT
Units(bytes) == (bytes + JMEM_ALIGNMENT - 1) \div JMEM_ALIGNMENT

ASSUME HeapAssumption == HeapUnits \in Nat \ {0} /\ CellUnits \in Nat \ {0}
ASSUME SizesAssumption == \A s \in Sizes : s \in Nat /\ Units(s) > CellUnits

\* jmem_pressure_t
JMEM_PRESSURE_NONE == 0
JMEM_PRESSURE_LOW  == 1
JMEM_PRESSURE_HIGH == 2
JMEM_PRESSURE_FULL == 3

\* The pressure limits of jmem_heap_alloc_block_null_on_error and of
\* jmem_heap_alloc_block.
MaxPressures == {JMEM_PRESSURE_HIGH, JMEM_PRESSURE_FULL}

Area == 1 .. HeapUnits
NoReq == [kind |-> "none", ptr |-> 0, size |-> 0, max |-> 0]

Span(a, bytes) == a .. (a + Units(bytes) - 1)
Owned(f) == UNION { Span(b, f[b]) : b \in DOMAIN f }

\* No two blocks of f share a unit.
Apart(f) == \A b, c \in DOMAIN f : b # c => Span(b, f[b]) \cap Span(c, f[c]) = {}

\* A run of units that no block of f uses and that holds `bytes' bytes.
FreeFor(f, a, bytes) == Span(a, bytes) \subseteq Area \ Owned(f)
Room(f, bytes) == \E a \in Area : FreeFor(f, a, bytes)

Put(f, a, v) == [x \in DOMAIN f \cup {a} |-> IF x = a THEN v ELSE f[x]]
Drop(f, a) == [x \in DOMAIN f \ {a} |-> f[x]]

Requests ==
  [kind : {"alloc"}, ptr : {0}, size : Sizes, max : MaxPressures]
    \cup [kind : {"free"}, ptr : Area, size : {0}, max : {0}]
    \cup [kind : {"realloc"}, ptr : Area, size : Sizes, max : {JMEM_PRESSURE_FULL}]

=============================================================================
