---------------------------- MODULE EcmaProperty ----------------------------
(***************************************************************************)
(* The properties of objects: the list of property pairs (ecma-helpers.c), *)
(* the hashmap in front of a long list (ecma-property-hashmap.c) and the   *)
(* lookup cache over all objects (ecma-lcache.c).                          *)
(*                                                                         *)
(* The three structures hold pointers to the same properties and every     *)
(* operation has to keep them in step, also when the allocation in the     *)
(* middle of an operation collects garbage and, under high pressure,       *)
(* throws away the hashmaps of all objects (ecma_free_unused_memory).      *)
(*                                                                         *)
(* A property is a slot of a pair.  A name is a number, which is its hash  *)
(* and stands for its pointer in the cache.                                *)
(* Thresholds are those of the code, with the table sizes scaled down.     *)
(* Keys bounds the properties that the program gives to each object.       *)
(***************************************************************************)
EXTENDS Integers, Sequences, FiniteSets, Functions

PowerOfTwo[k \in Nat] == IF k = 0 THEN 1 ELSE 2 * PowerOfTwo[k - 1]

CONSTANTS
  Objects,       \* the addresses of objects, numbers
  Names,         \* property names: numbers that are their hash
  Keys,          \* bound: the pairs of object and name that are used
  WeakName,      \* LIT_INTERNAL_MAGIC_STRING_WEAK_REFS
  Weak,          \* do programs make weak references?
  Pairs,         \* the memory for property pairs
  Null,          \* ECMA_NULL_POINTER
  MinSize,       \* ECMA_PROPERTY_HASMAP_MINIMUM_SIZE
  NullFraction,  \* 8: a hashmap with less than 1/8 of NULLs is rebuilt
  RowBits,       \* 7: ECMA_LCACHE_HASH_ROWS_COUNT is 2^RowBits
  RowShift,      \* ECMA_LCACHE_HASH_BITSHIFT_INDEX
  RowLength,     \* ECMA_LCACHE_HASH_ROW_LENGTH
  AllocMax       \* ECMA_PROP_HASHMAP_ALLOC_MAX

ASSUME PropertyAssumption ==
  /\ IsFiniteSet(Objects) /\ Objects \subseteq Nat
  /\ IsFiniteSet(Names) /\ Names \subseteq Nat /\ WeakName \in Names
  /\ Keys \subseteq Objects \X Names
  /\ Weak \in BOOLEAN
  /\ IsFiniteSet(Pairs) /\ Null \notin Pairs
  /\ MinSize \in {PowerOfTwo[k] : k \in 1..5}
  /\ NullFraction \in Nat \ {0}
  /\ MinSize \div NullFraction >= 2
  /\ RowBits \in Nat /\ RowShift \in Nat /\ RowLength \in Nat \ {0}
  /\ AllocMax \in Nat \ {0}

Rows == PowerOfTwo[RowBits]

(* The type of a deleted property; no property. *)
Deleted == -1
None == <<Null, 0>>

VARIABLES
  list,      \* list[o]: the property pairs of o, first to last
  name,      \* name[p][i]: the name in slot i of pair p, or Deleted
  maps,      \* maps[o]: the hashmaps at the head of the list of o
  lcached,   \* the properties whose LCACHED flag is set
  lcache,    \* lcache[row]: RowLength entries <<object, name, property>>
  heap       \* ecma_prop_hashmap_alloc_state, ECMA_STATUS_HIGH_PRESSURE_GC

vars == <<list, name, maps, lcached, lcache, heap>>

Slots == {0, 1}
Empty == <<>>   \* an entry with id 0

Init ==
  /\ list = [o \in Objects |-> <<>>]
  /\ name = [p \in Pairs |-> [i \in Slots |-> Deleted]]
  /\ maps = [o \in Objects |-> <<>>]
  /\ lcached = {}
  /\ lcache = [r \in 0..(Rows - 1) |-> [i \in 1..RowLength |-> Empty]]
  /\ heap = [state |-> 0, high |-> FALSE]

----------------------------------------------------------------------------
(* The list of pairs.                                                      *)

Props == Pairs \X Slots

(* The elements of s that are in S, in the order of s. *)
Kept(s, S) ==
  LET kept[k \in 0..Len(s)] ==
        IF k = 0 THEN <<>>
        ELSE IF s[k] \in S THEN Append(kept[k - 1], s[k]) ELSE kept[k - 1]
  IN kept[Len(s)]

(* The properties in the pairs of l, in the order of the list. *)
Properties(l, nm) ==
  Kept([k \in 1..(2 * Len(l)) |-> <<l[(k + 1) \div 2], (k - 1) % 2>>],
       {prop \in Props : nm[prop[1]][prop[2]] # Deleted})

(* The walk over the list in ecma_find_named_property. *)
Walk(l, nm, n) ==
  LET at == {k \in 1..Len(l) : \E i \in Slots : nm[l[k]][i] = n}
  IN IF at = {} THEN None
     ELSE LET p == l[CHOOSE k \in at : \A j \in at : k <= j]
          IN <<p, IF nm[p][0] = n THEN 0 ELSE 1>>

ListFind(o, n) == Walk(list[o], name, n)

(* The pairs passed before the walk ends. *)
ListSteps(o, n) ==
  LET prop == ListFind(o, n)
  IN IF prop = None THEN Len(list[o])
     ELSE (CHOOSE k \in 1..Len(list[o]) : list[o][k] = prop[1]) - 1

----------------------------------------------------------------------------
(* The hashmap: a record of its size, its two counters and its entries,    *)
(* each with a pair pointer and a flag bit.                                *)

Steps == <<3, 5, 7, 11, 13, 17, 19, 23>>   \* ecma_property_hashmap_steps

(* The entry that is looked at in turn k of a search for name n. *)
Probe(size, n, k) == ((n % size) + k * Steps[(n % 8) + 1]) % size

(* The turn in which the search meets an entry of the set, -1 if never. *)
FirstProbe(size, n, set) ==
  LET turns == {k \in 0..(size - 1) : Probe(size, n, k) \in set}
  IN IF turns = {} THEN -1 ELSE CHOOSE k \in turns : \A j \in turns : k <= j

Unused(m) == {e \in 0..(m.size - 1) : m.at[e].pair = Null}
Nulls(m) == {e \in Unused(m) : m.at[e].bit = 0}

(* The entries that hold a property named n, and the slot they refer to. *)
Holding(m, nm, n) ==
  {e \in (0..(m.size - 1)) \ Unused(m) : nm[m.at[e].pair][m.at[e].bit] = n}

(* ecma_property_hashmap_find *)
HashFind(m, nm, n) ==
  LET k == FirstProbe(m.size, n, Nulls(m) \cup Holding(m, nm, n))
      e == Probe(m.size, n, k)
  IN IF k = -1 \/ e \in Nulls(m) THEN None ELSE <<m.at[e].pair, m.at[e].bit>>

(* Mutant: a deleted entry that is taken again counts as a NULL. *)
PlaceCountsAll(m, n, prop) ==
  LET e == Probe(m.size, n, FirstProbe(m.size, n, Unused(m)))
  IN [m EXCEPT !.at[e] = [pair |-> prop[1], bit |-> prop[2]],
               !.nulls = @ - 1,
               !.unused = @ - 1]

(* The search for a free entry and its use in ecma_property_hashmap_insert. *)
Place(m, n, prop) ==
  LET e == Probe(m.size, n, FirstProbe(m.size, n, Unused(m)))
  IN [m EXCEPT !.at[e] = [pair |-> prop[1], bit |-> prop[2]],
               !.nulls = IF e \in Nulls(m) THEN @ - 1 ELSE @,
               !.unused = @ - 1]

(* The hashmap that ecma_property_hashmap_create fills. *)
MapSize(count) ==
  LET sizes == {MinSize * PowerOfTwo[k] : k \in 0..count}
      fits == {s \in sizes : s >= count + count \div 2}
  IN CHOOSE s \in fits : \A t \in fits : s <= t

Build(l, nm) ==
  LET props == Properties(l, nm)
      size == MapSize(Len(props))
      blank == [size |-> size, nulls |-> size, unused |-> size,
                at |-> [e \in 0..(size - 1) |-> [pair |-> Null, bit |-> 0]]]
      filled[k \in 0..Len(props)] ==
        IF k = 0 THEN blank
        ELSE LET prop == props[k]
             IN Place(filled[k - 1], nm[prop[1]][prop[2]], prop)
  IN filled[Len(props)]

----------------------------------------------------------------------------
(* Memory pressure.                                                        *)

(* ecma_free_unused_memory: the counter that keeps hashmaps from being     *)
(* allocated for a while after high pressure.                              *)
LowPressure(h) == [state |-> IF h.state > 0 THEN h.state - 1 ELSE 0, high |-> FALSE]

HighPressure(h) ==
  CASE h.high -> [h EXCEPT !.state = AllocMax]
    [] ~ h.high /\ h.state < AllocMax -> [state |-> h.state + 1, high |-> TRUE]
    [] OTHER -> h

NoMaps == [o \in Objects |-> <<>>]

(* What a successful allocation may do besides (jmem_heap_gc_and_alloc_block): *)
(* nothing, collect garbage, or also free the hashmaps.                        *)
Allocation(m, h) ==
  {[maps |-> m, heap |-> h],
   [maps |-> m, heap |-> LowPressure(h)],
   [maps |-> NoMaps, heap |-> HighPressure(LowPressure(h))]}

----------------------------------------------------------------------------
(* The lookup cache.                                                       *)

(* ecma_lcache_row_index: the exclusive or of the bits of the two pointers *)
(* that the mask selects.                                                  *)
Row(o, n) ==
  LET bit(a, k) == (a \div PowerOfTwo[RowShift + k]) % 2
      xor[k \in 0..RowBits] ==
        IF k = 0 THEN 0
        ELSE xor[k - 1] + PowerOfTwo[k - 1] * ((bit(o, k - 1) + bit(n, k - 1)) % 2)
  IN xor[RowBits]

(* ecma_lcache_lookup, with the pointer to the string that is cached *)
LcacheLookup(o, n) ==
  LET hits == {i \in 1..RowLength :
                 /\ lcache[Row(o, n)][i] # Empty
                 /\ lcache[Row(o, n)][i][1] = o
                 /\ lcache[Row(o, n)][i][2] = n}
  IN IF hits = {} THEN None
     ELSE lcache[Row(o, n)][CHOOSE i \in hits : \A j \in hits : i <= j][3]

(* ecma_lcache_insert: the first free entry of the row, otherwise the last *)
(* one is invalidated and the others move towards the end.                 *)
LcacheInsert(o, n, prop) ==
  LET row == lcache[Row(o, n)]
      free == {i \in 1..RowLength : row[i] = Empty}
      entry == <<o, n, prop>>
  IN IF free # {}
       THEN LET i == CHOOSE i \in free : \A j \in free : i <= j
            IN /\ lcache' = [lcache EXCEPT ![Row(o, n)][i] = entry]
               /\ lcached' = lcached \cup {prop}
       ELSE /\ lcache' = [lcache EXCEPT ![Row(o, n)] =
                            [i \in 1..RowLength |->
                               IF i = 1 THEN entry ELSE row[i - 1]]]
            /\ lcached' = (lcached \ {row[RowLength][3]}) \cup {prop}

(* Mutant: the row is looked up without the address of the object. *)
LcacheEntryNameRow(o, prop) ==
  LET r == Row(0, name[prop[1]][prop[2]])
      hits == {i \in 1..RowLength : lcache[r][i] # Empty /\ lcache[r][i][3] = prop}
  IN {<<r, i>> : i \in {i \in hits : \A j \in hits : i <= j}}

(* The entries that ecma_lcache_invalidate stops at: the first one for the *)
(* property in the row of the object and the name.                         *)
LcacheEntry(o, prop) ==
  LET r == Row(o, name[prop[1]][prop[2]])
      hits == {i \in 1..RowLength : lcache[r][i] # Empty /\ lcache[r][i][3] = prop}
  IN {<<r, i>> : i \in {i \in hits : \A j \in hits : i <= j}}

(* ecma_lcache_invalidate, for every property of the set of properties of  *)
(* o that is cached                                                        *)
LcacheInvalidate(o, props) ==
  LET gone == UNION {LcacheEntry(o, prop) : prop \in props \cap lcached}
  IN /\ lcached' = lcached \ props
     /\ lcache' = [r \in DOMAIN lcache |->
                     [i \in 1..RowLength |->
                        IF <<r, i>> \in gone THEN Empty ELSE lcache[r][i]]]

----------------------------------------------------------------------------
(* ecma_property_hashmap_create, as the set of its outcomes.               *)

(* A collection during the allocation may free an object that refers to o  *)
(* weakly.  It looks up the internal property of o                         *)
(* (ecma_op_object_unref_weak), and a long walk makes a hashmap for o.     *)
(* (The entry that the lookup leaves in the cache is left out.)            *)
WeakSweep(o, m, h) ==
  IF Weak /\ LcacheLookup(o, WeakName) = None
          /\ ListFind(o, WeakName) # None
          /\ ListSteps(o, WeakName) >= MinSize \div 2
          /\ m[o] = <<>> /\ h.state = 0
    THEN {[m EXCEPT ![o] = <<Build(list[o], name)>>]}
    ELSE {}

HashmapCreate(o, l, nm, m, h) ==
  LET low == LowPressure(h)
      high == HighPressure(low)
      new == Build(l, nm)
      Put(other) == [other EXCEPT ![o] = <<new>> \o @]
  IN IF h.state # 0 \/ l = <<>> \/ Len(Properties(l, nm)) < MinSize \div 2
       THEN {[maps |-> m, heap |-> h]}
       ELSE {[maps |-> Put(a.maps), heap |-> a.heap] : a \in Allocation(m, h)}
            \cup {[maps |-> Put(s), heap |-> low] : s \in WeakSweep(o, m, low)}
            \cup {[maps |-> NoMaps, heap |-> high]}

(* Mutant: the hashmap is not freed before it is made again. *)
HashmapInsertKeeps(o, l, nm, m, h, n, prop) ==
  LET map == Head(m[o])
  IN IF map.nulls < map.size \div NullFraction
       THEN HashmapCreate(o, l, nm, m, h)
       ELSE {[maps |-> [m EXCEPT ![o] = <<Place(map, n, prop)>>], heap |-> h]}

(* ecma_property_hashmap_insert *)
HashmapInsert(o, l, nm, m, h, n, prop) ==
  LET map == Head(m[o])
  IN IF map.nulls < map.size \div NullFraction
       THEN HashmapCreate(o, l, nm, [m EXCEPT ![o] = Tail(@)], h)
       ELSE {[maps |-> [m EXCEPT ![o] = <<Place(map, n, prop)>>], heap |-> h]}

----------------------------------------------------------------------------
(* ecma_find_named_property.  A name that is no direct string may be given *)
(* by another pointer than the property has; the cache then misses.        *)
Find(o, n) ==
  \E samePointer \in BOOLEAN :
    LET steps == ListSteps(o, n)
        prop == IF maps[o] # <<>> THEN HashFind(Head(maps[o]), name, n) ELSE ListFind(o, n)
    IN /\ ~ (samePointer /\ LcacheLookup(o, n) # None)
       /\ IF maps[o] = <<>> /\ steps >= MinSize \div 2
            THEN \E r \in HashmapCreate(o, list[o], name, maps, heap) :
                   maps' = r.maps /\ heap' = r.heap
            ELSE UNCHANGED <<maps, heap>>
       /\ IF prop # None /\ prop \notin lcached
            THEN LcacheInsert(o, n, prop)
            ELSE UNCHANGED <<lcache, lcached>>
       /\ UNCHANGED <<list, name>>

(* ecma_op_object_get_own_property on a mapped arguments object: a value   *)
(* that lives in a variable must not be read through the cache.            *)
FindMapped(o, n) ==
  /\ ListFind(o, n) \in lcached
  /\ LcacheInvalidate(o, {ListFind(o, n)})
  /\ UNCHANGED <<list, name, maps, heap>>

(* The callers have not found the property. *)
CanCreate(o, n) == ListFind(o, n) = None

(* ecma_create_property: the free slot of the first pair is used again, *)
CreateInFirst(o, n) ==
  /\ CanCreate(o, n)
  /\ list[o] # <<>>
  /\ name[Head(list[o])][0] = Deleted
  /\ name' = [name EXCEPT ![Head(list[o])][0] = n]
  /\ IF maps[o] = <<>> THEN UNCHANGED <<maps, heap>>
     ELSE \E r \in HashmapInsert(o, list[o], name', maps, heap, n, <<Head(list[o]), 0>>) :
            maps' = r.maps /\ heap' = r.heap
  /\ UNCHANGED <<list, lcached, lcache>>

FreePairs == {p \in Pairs : \A o \in Objects : p \notin Range(list[o])}

(* or a new pair is put in front and its second slot is used.  The         *)
(* allocation may have freed the hashmap, so it is looked for again.       *)
CreateInNew(o, n) ==
  /\ CanCreate(o, n)
  /\ list[o] # <<>> => name[Head(list[o])][0] # Deleted
  /\ \E p \in FreePairs :
        /\ list' = [list EXCEPT ![o] = <<p>> \o @]
        /\ name' = [name EXCEPT ![p] = [i \in Slots |-> IF i = 1 THEN n ELSE Deleted]]
        /\ \E a \in Allocation(maps, heap) :
             IF a.maps[o] = <<>> THEN maps' = a.maps /\ heap' = a.heap
             ELSE \E r \in HashmapInsert(o, list'[o], name', a.maps, a.heap, n, <<p, 1>>) :
                    maps' = r.maps /\ heap' = r.heap
  /\ UNCHANGED <<lcached, lcache>>

(* Mutant: a deleted entry becomes a NULL and ends the searches that pass it. *)
HashmapDeleteNull(map, n, prop) ==
  LET e == CHOOSE e \in Holding(map, name, n) :
             <<map.at[e].pair, map.at[e].bit>> = prop
  IN IF map.unused + 1 > (map.size * 3) \div 4
       THEN [recreate |-> TRUE, map |-> [map EXCEPT !.unused = @ + 1]]
       ELSE [recreate |-> FALSE,
             map |-> [map EXCEPT !.unused = @ + 1,
                                 !.at[e] = [pair |-> Null, bit |-> 0]]]

(* ecma_property_hashmap_delete: the entry is left behind as a deleted one, *)
(* unless the hashmap is to be made again.                                  *)
HashmapDelete(map, n, prop) ==
  LET e == CHOOSE e \in Holding(map, name, n) :
             <<map.at[e].pair, map.at[e].bit>> = prop
  IN IF map.unused + 1 > (map.size * 3) \div 4
       THEN [recreate |-> TRUE, map |-> [map EXCEPT !.unused = @ + 1]]
       ELSE [recreate |-> FALSE,
             map |-> [map EXCEPT !.unused = @ + 1,
                                 !.at[e] = [pair |-> Null, bit |-> 1]]]

(* The hashmap once the properties are deleted from it one by one. *)
HashmapDeleteAll(map, props) ==
  LET after[k \in 0..Len(props)] ==
        IF k = 0 THEN [recreate |-> FALSE, map |-> map]
        ELSE LET r == after[k - 1]
                 prop == props[k]
             IN IF r.recreate THEN r
                ELSE HashmapDelete(r.map, name[prop[1]][prop[2]], prop)
  IN after[Len(props)]

(* ecma_delete_property and ecma_delete_array_properties: the properties   *)
(* leave the hashmap, the cache and the list; a pair without properties is *)
(* freed; then the hashmap is made again if it became too empty.           *)
DeleteProperties(o, props) ==
  LET gone == Range(props)
      name1 == [p \in Pairs |-> [i \in Slots |->
                  IF <<p, i>> \in gone THEN Deleted ELSE name[p][i]]]
      list1 == Kept(list[o], {p \in Pairs : \E i \in Slots : name1[p][i] # Deleted})
      deleted == HashmapDeleteAll(Head(maps[o]), props)
  IN /\ props # <<>>
     /\ LcacheInvalidate(o, gone)
     /\ name' = name1
     /\ list' = [list EXCEPT ![o] = list1]
     /\ CASE maps[o] = <<>> -> UNCHANGED <<maps, heap>>
          [] maps[o] # <<>> /\ deleted.recreate ->
               \E r \in HashmapCreate(o, list1, name1, [maps EXCEPT ![o] = Tail(@)], heap) :
                 maps' = r.maps /\ heap' = r.heap
          [] OTHER -> /\ maps' = [maps EXCEPT ![o] = <<deleted.map>>]
                      /\ UNCHANGED heap

Delete(o, n) ==
  /\ ListFind(o, n) # None
  /\ DeleteProperties(o, <<ListFind(o, n)>>)

(* The length of an array shrinks to n. *)
DeleteArray(o, n) ==
  DeleteProperties(o, Kept(Properties(list[o], name),
                           {prop \in Props : name[prop[1]][prop[2]] >= n}))

(* ecma_gc_free_properties when o is collected; its address is used again *)
FreeObject(o) ==
  /\ list[o] # <<>>
  /\ LcacheInvalidate(o, Range(Properties(list[o], name)))
  /\ name' = [p \in Pairs |-> IF p \in Range(list[o])
                                THEN [i \in Slots |-> Deleted] ELSE name[p]]
  /\ list' = [list EXCEPT ![o] = <<>>]
  /\ maps' = [maps EXCEPT ![o] = <<>>]
  /\ UNCHANGED heap

(* ecma_free_unused_memory for an allocation of another part of the engine *)
PressureLow ==
  /\ heap' = LowPressure(heap)
  /\ UNCHANGED <<list, name, maps, lcached, lcache>>

(* and by jjs_heap_gc. *)
PressureHigh ==
  /\ heap' = HighPressure(heap)
  /\ maps' = NoMaps
  /\ UNCHANGED <<list, name, lcached, lcache>>

Next ==
  \/ PressureLow \/ PressureHigh
  \/ \E o \in Objects : FreeObject(o)
  \/ \E o \in Objects, n \in Names :
       /\ <<o, n>> \in Keys
       /\ \/ Find(o, n) \/ FindMapped(o, n)
          \/ CreateInFirst(o, n) \/ CreateInNew(o, n)
          \/ Delete(o, n) \/ DeleteArray(o, n)

Spec == Init /\ [][Next]_vars

----------------------------------------------------------------------------

Entry == [pair : Pairs \cup {Null}, bit : Slots]

(* The values that the structures may hold. *)
TypeOK ==
  /\ list \in [Objects -> Seq(Pairs)]
  /\ name \in [Pairs -> [Slots -> Names \cup {Deleted}]]
  /\ \A o \in Objects : \A k \in 1..Len(maps[o]) :
       LET m == maps[o][k]
       IN /\ m.size \in Nat /\ m.nulls \in 0..m.size /\ m.unused \in 0..m.size
          /\ m.at \in [0..(m.size - 1) -> Entry]
  /\ lcached \subseteq Props
  /\ \A r \in DOMAIN lcache : \A i \in 1..RowLength :
       lcache[r][i] \in {Empty} \cup (Objects \X Names \X Props)
  /\ heap \in [state : 0..AllocMax, high : BOOLEAN]

(* A property has the LCACHED flag if and only if exactly one entry of the *)
(* cache points to it, and every entry is filed under the object and the   *)
(* name of the property it points to (the assertions of                    *)
(* ecma_lcache_insert and ecma_lcache_invalidate): no entry survives the   *)
(* property, the pair or the object it was made for.                       *)
CacheExact ==
  LET entries == {e \in (0..(Rows - 1)) \X (1..RowLength) : lcache[e[1]][e[2]] # Empty}
  IN /\ \A e \in entries :
          LET entry == lcache[e[1]][e[2]]
          IN /\ e[1] = Row(entry[1], entry[2])
             /\ ListFind(entry[1], entry[2]) = entry[3]
     /\ \A prop \in Props :
          Cardinality({e \in entries : lcache[e[1]][e[2]][3] = prop})
            = IF prop \in lcached THEN 1 ELSE 0

(* A search in the hashmap ends and finds the property that a walk over    *)
(* the list finds, for every name, whatever was deleted, placed again or   *)
(* rebuilt before (the check that ecma_property_hashmap_find makes in      *)
(* debug builds).                                                          *)
MapCoherent ==
  \A o \in Objects : maps[o] # <<>> =>
    \A n \in Names :
      LET m == Head(maps[o])
      IN /\ FirstProbe(m.size, n, Nulls(m)) # -1
         /\ HashFind(m, name, n) = ListFind(o, n)

(* The counters of a hashmap count its NULL entries and its unused ones:   *)
(* the decisions to rebuild it (and the promise that a search meets a      *)
(* NULL) rest on them.                                                     *)
MapCounts ==
  TypeOK /\ \A o \in Objects : maps[o] # <<>> =>
    LET m == Head(maps[o])
    IN m.nulls = Cardinality(Nulls(m)) /\ m.unused = Cardinality(Unused(m))

(* At most one hashmap is in front of the pairs of an object ("The object  *)
(* must not have a property hashmap", ecma_property_hashmap_create), and   *)
(* there are pairs behind it, which ecma_create_property relies on.        *)
OneHashmap ==
  \A o \in Objects :
    /\ Len(maps[o]) <= 1
    /\ maps[o] # <<>> => list[o] # <<>>

============================================================================
