--------------------------- MODULE JmemHeapProofs ---------------------------
(***************************************************************************)
(* Proofs about JmemHeap, for every heap size, cell size, gc limit and set *)
(* of requested sizes: the free list is sound, it implements the allocator *)
(* of JmemRegions that the callers of jmem-heap.c rely on, and the account *)
(* of allocated bytes and its limit is right.                              *)
(***************************************************************************)
EXTENDS JmemHeap, FiniteSetTheorems, TLAPS

-----------------------------------------------------------------------------
(* The inductive invariant                                                 *)

\* TypeOK without the signs of the two counters, which need the accounting.
Types ==
  /\ Nodes \subseteq 0 .. HeapUnits
  /\ DOMAIN size = Nodes
  /\ DOMAIN blocks \subseteq Area
  /\ \A b \in DOMAIN blocks : blocks[b] \in Sizes
  /\ op \in Requests \cup {NoReq}
  /\ pressure \in JMEM_PRESSURE_NONE .. JMEM_PRESSURE_FULL
  /\ pc \in {"idle", "enter", "gc", "fit", "raise", "release", "find", "lower", "grow", "fatal"}
  /\ after \in {"none", "fit", "grow"}
  /\ prev \in 0 .. HeapUnits
  /\ target \in 0 .. HeapUnits
  /\ todo \in {"free", "shrink", "grow", "front", "copied"}
  /\ back \in {"idle", "gc"}
  /\ ret \in 0 .. HeapUnits

\* The free list: Linked and Coalesced with the ranges of its headers.
ListOK ==
  /\ 0 \in Nodes
  /\ \A a \in Nodes : size[a] \in Nat /\ next[a] \in Nat
  /\ Linked
  /\ Coalesced

\* A request that may run the collector, and what it does afterwards.
Pending ==
  /\ op.kind \in {"alloc", "realloc"}
  /\ after \in {"fit", "grow"}
  /\ after = "grow" => op.kind = "realloc" /\ Extra > 0

Growing == op.kind = "realloc" /\ after = "grow" /\ Extra > 0

\* A reallocation by copy that has its new region.
Copying ==
  /\ op.kind = "realloc" /\ after = "fit"
  /\ ret \in DOMAIN blocks /\ ret # 0 /\ ret # op.ptr

\* jmem_heap_free_block, called by the mutator or by the collector.
Freeing ==
  /\ ret = 0
  /\ target \in DOMAIN blocks
  /\ back = "idle" => op.kind = "free" /\ target = op.ptr
  /\ back = "gc" => Pending /\ target # op.ptr

\* What the walk over the list in progress relies on.
Finding ==
  /\ prev \in Nodes /\ prev < target
  /\ todo = "free" => Freeing
  /\ todo = "copied" => Copying /\ target = op.ptr
  /\ todo = "shrink" => /\ op.kind = "realloc" /\ Extra < 0 /\ ret = 0
                        /\ target = op.ptr /\ back = "idle"
  /\ todo = "grow" => Growing /\ target = op.ptr /\ ret = 0
  /\ todo = "front" => /\ Growing /\ ret = 0 /\ target \in Nodes
                       /\ RegionEnd(target) = op.ptr /\ size[target] = Extra

WalkOK ==
  /\ op.kind \in {"free", "realloc"} => op.ptr \in DOMAIN blocks
  /\ pc = "idle" => op = NoReq /\ ret = 0 /\ after = "none"
  /\ pc = "enter" => op # NoReq /\ ret = 0 /\ after = "none"
  /\ pc = "gc" => Pending /\ ret = 0
  /\ pc = "fit" => /\ Pending /\ ret = 0 /\ after = "fit"
                   /\ prev \in Nodes
                   /\ \A a \in Nodes \ {0} : a <= prev => size[a] < Units(op.size)
  /\ pc = "grow" => Growing /\ ret = 0
  /\ pc = "raise" => (op = NoReq /\ ret = 0) \/ Copying
  /\ pc = "release" => Freeing \/ (Copying /\ target = op.ptr)
  /\ pc = "find" => Finding
  /\ pc = "lower" => ret = 0 /\ (back = "idle" => op = NoReq) /\ (back = "gc" => Pending)
  /\ pc = "fatal" => ret = 0

IInv == Types /\ ListOK /\ Disjoint /\ Partitioned /\ WalkOK

-----------------------------------------------------------------------------
(* Facts about units and the free list                                     *)

\* A requested size takes more than one unit.
LEMMA UnitsFact ==
  ASSUME NEW s \in Sizes
  PROVE  Units(s) \in Nat /\ Units(s) > 1 /\ s \in Nat
BY SizesAssumption, HeapAssumption DEF Units, JMEM_ALIGNMENT

\* A run of units, cut in two.
LEMMA SplitRun ==
  ASSUME NEW x \in Int, NEW y \in Int, NEW n \in Nat, x <= y
  PROVE  x .. (y + n - 1) = (y .. (y + n - 1)) \cup (x .. (y - 1))
OBVIOUS

\* Membership in FreeUnits and in Owned, as the provers need it.
LEMMA FreeUnitsFact ==
  ASSUME NEW u
  PROVE  u \in FreeUnits <=> \E a \in Nodes : u \in a .. (RegionEnd(a) - 1)
BY DEF FreeUnits

\* A unit is owned when it lies in the span of some block.
LEMMA OwnedFact ==
  ASSUME NEW f, NEW u
  PROVE  u \in Owned(f) <=> \E b \in DOMAIN f : u \in Span(b, f[b])
BY DEF Owned

\* A run of units outside the free regions lies between two of them.
LEMMA RunBetweenRegions ==
  ASSUME Types, ListOK,
         NEW blk \in Area, NEW n \in Nat, n > 0,
         (blk .. (blk + n - 1)) \cap FreeUnits = {},
         NEW a \in Nodes
  PROVE  RegionEnd(a) <= blk \/ blk + n <= a
<1>1. a \in Nat /\ blk \in Nat /\ size[a] \in Nat
  BY HeapAssumption DEF Types, ListOK, Area
<1>2. \A u \in blk .. (blk + n - 1) : ~(u \in a .. (RegionEnd(a) - 1))
  BY FreeUnitsFact
<1>3. CASE a <= blk
  <2>1. ~(blk \in a .. (RegionEnd(a) - 1))
    BY <1>1, <1>2
  <2>. QED
    BY <1>1, <1>3, <2>1 DEF RegionEnd
<1>4. CASE a > blk /\ a < blk + n
  <2>1. ~(a \in a .. (RegionEnd(a) - 1))
    BY <1>1, <1>2, <1>4
  <2>2. size[a] > 0
    BY <1>1, <1>4 DEF ListOK, Coalesced
  <2>. QED
    BY <1>1, <2>1, <2>2 DEF RegionEnd
<1>. QED
  BY <1>1, <1>3, <1>4

\* jmem_heap_insert_block keeps the list in order and merged, and frees
\* exactly the units of the inserted region.
LEMMA InsertKeepsList ==
  ASSUME Types, ListOK,
         NEW blk \in Area, NEW n \in Nat, n > 0, blk + n <= HeapUnits + 1,
         (blk .. (blk + n - 1)) \cap FreeUnits = {},
         prev \in Nodes, prev < blk, next[prev] >= blk,
         Insert(blk, n)
  PROVE  /\ ListOK'
         /\ Nodes' \subseteq 0 .. HeapUnits /\ DOMAIN size' = Nodes'
         /\ FreeUnits' = FreeUnits \cup (blk .. (blk + n - 1))
<1> DEFINE nxt     == next[prev]
           merges  == RegionEnd(prev) = blk
           node    == IF merges THEN prev ELSE blk
           len     == IF merges THEN size[prev] + n ELSE n
           absorbs == node + len = nxt
           dom     == (IF absorbs THEN Nodes \ {nxt} ELSE Nodes) \cup {node}
           nnext   == IF absorbs THEN next[nxt] ELSE nxt
           nlen    == IF absorbs THEN len + size[nxt] ELSE len
<1>1. /\ next' = [a \in dom |-> IF a = node THEN nnext ELSE IF a = prev THEN blk ELSE next[a]]
      /\ size' = [a \in dom |-> IF a = node THEN nlen ELSE IF a = prev THEN size[prev] ELSE size[a]]
      /\ skip' = prev
  BY DEF Insert, Relink, AdjoinsNext
<1>2. \A a \in Nodes : RegionEnd(a) <= blk \/ blk + n <= a
  BY RunBetweenRegions
<1>3. HeapUnits \in Nat /\ EndOfList \in Nat /\ EndOfList > HeapUnits + 1
  BY HeapAssumption, EndAssumption
<1>4. /\ blk \in Nat /\ blk >= 1
      /\ \A a \in Nodes : a \in Nat /\ a <= HeapUnits /\ size[a] \in Nat /\ next[a] \in Nat
  BY <1>3 DEF Types, ListOK, Area
<1>5. nxt = EndOfList \/ nxt \in Nodes
  BY DEF ListOK, Linked
<1>6. nxt >= blk + n
  BY <1>2, <1>3, <1>4, <1>5 DEF ListOK, Coalesced, RegionEnd
<1>7. absorbs => nxt \in Nodes
  BY <1>3, <1>4, <1>5 DEF RegionEnd, ListOK, Coalesced
<1>8. node + len = blk + n /\ node \in Nat /\ len \in Nat /\ len > 0 /\ node >= prev /\ node <= blk
  BY <1>4 DEF RegionEnd
<1>9. \A a \in Nodes : /\ a <= prev \/ a >= nxt
                       /\ a < prev => a + size[a] < prev
  BY <1>4 DEF ListOK, Linked, Coalesced, RegionEnd
<1>10. \A a \in dom : a < node => /\ a \in Nodes /\ a <= prev
                                  /\ a + size[a] < node
                                  /\ size'[a] = size[a]
  BY <1>1, <1>2, <1>4, <1>6, <1>9 DEF RegionEnd
<1>11. \A a \in dom : a > node => /\ a \in Nodes /\ a >= nxt /\ (absorbs => a > nxt)
                                  /\ size'[a] = size[a] /\ next'[a] = next[a]
  BY <1>1, <1>4, <1>6, <1>8, <1>9
<1>12. absorbs => /\ nxt > node /\ next[nxt] > nxt
                  /\ nxt + size[nxt] <= HeapUnits + 1
                  /\ \A c \in Nodes : c > nxt => c >= next[nxt] /\ nxt + size[nxt] < c
                  /\ next[nxt] = EndOfList \/ next[nxt] \in Nodes
  BY <1>4, <1>6, <1>7, <1>8 DEF ListOK, Linked, Coalesced, RegionEnd
<1>13. /\ nlen \in Nat /\ nlen > 0 /\ node + nlen <= HeapUnits + 1
       /\ nnext \in Nat /\ nnext > node
       /\ \A a \in dom : a > node => node + nlen < a /\ a >= nnext
  BY <1>3, <1>4, <1>5, <1>6, <1>7, <1>8, <1>11, <1>12
<1>14. nnext = EndOfList \/ nnext \in dom
  BY <1>4, <1>5, <1>6, <1>7, <1>8, <1>12
<1>15. Nodes' = dom /\ DOMAIN size' = dom /\ 0 \in dom /\ dom \subseteq 0 .. HeapUnits /\ prev \in dom
  BY <1>1, <1>3, <1>4, <1>6, <1>8 DEF ListOK, Types, Nodes, Area
<1>16. \A a \in dom : size'[a] \in Nat /\ next'[a] \in Nat
  BY <1>1, <1>4, <1>13
<1>17. size'[node] = nlen /\ next'[node] = nnext
  BY <1>1
<1>18. Coalesced'
  <2>1. size'[0] = 0
    BY <1>1, <1>4, <1>8, <1>15 DEF ListOK, Coalesced
  <2>2. \A a \in dom \ {0} : size'[a] > 0 /\ a + size'[a] <= HeapUnits + 1
    BY <1>4, <1>8, <1>10, <1>11, <1>13, <1>15, <1>17 DEF ListOK, Coalesced, RegionEnd
  <2>3. \A a, c \in dom : a < c => a + size'[a] < c
    BY <1>4, <1>8, <1>10, <1>11, <1>13, <1>15, <1>17 DEF ListOK, Coalesced, RegionEnd
  <2>. QED
    BY <1>15, <2>1, <2>2, <2>3 DEF Coalesced, RegionEnd
<1>19. Linked'
  <2>1. ASSUME NEW a \in dom
        PROVE  /\ next'[a] > a
               /\ next'[a] # EndOfList => next'[a] \in dom
               /\ \A c \in dom : c > a => c >= next'[a]
    <3>1. CASE a = node
      BY <1>13, <1>14, <1>17, <3>1
    <3>2. CASE a > node
      BY <1>4, <1>7, <1>8, <1>11, <1>12, <3>2 DEF ListOK, Linked
    <3>3. CASE a < node /\ a = prev
      BY <1>1, <1>4, <1>8, <1>9, <1>11, <1>6, <3>3
    <3>4. CASE a < node /\ a < prev
      <4>1. next'[a] = next[a] /\ a \in Nodes
        BY <1>1, <1>4, <1>10, <1>15, <3>4
      <4>2. next[a] > a /\ next[a] <= prev /\ next[a] \in Nodes
        BY <1>3, <1>4, <3>4, <4>1 DEF ListOK, Linked
      <4>3. next[a] \in dom
        BY <1>4, <1>6, <4>2
      <4>4. ASSUME NEW c \in dom, c > a PROVE c >= next[a]
        BY <1>4, <1>8, <1>15, <4>1, <4>2, <4>4 DEF ListOK, Linked
      <4>. QED
        BY <4>1, <4>2, <4>3, <4>4
    <3>. QED
      BY <1>4, <1>8, <1>10, <1>15, <3>1, <3>2, <3>3, <3>4
  <2>. QED
    BY <1>1, <1>15, <2>1 DEF Linked
<1>20. \A u : u \in FreeUnits' <=> \E a \in dom : u \in a .. (a + size'[a] - 1)
  <2>1. \A u : u \in FreeUnits' <=> \E a \in Nodes' : u \in a .. (RegionEnd(a)' - 1)
    BY DEF FreeUnits
  <2>. QED
    BY <1>15, <1>16, <2>1 DEF RegionEnd
<1>21. ASSUME NEW u, u \in FreeUnits'
       PROVE  u \in FreeUnits \cup (blk .. (blk + n - 1))
  <2>1. PICK a \in dom : u \in a .. (a + size'[a] - 1)
    BY <1>20, <1>21
  <2>2. u \in Int /\ a \in Nat
    BY <2>1, <1>15
  <2>3. CASE a # node
    <3>1. a \in Nodes /\ u \in a .. (RegionEnd(a) - 1)
      BY <1>4, <1>8, <1>10, <1>11, <2>1, <2>2, <2>3 DEF RegionEnd
    <3>. QED
      BY <3>1, FreeUnitsFact
  <2>4. CASE a = node
    <3>1. u < blk => u \in prev .. (RegionEnd(prev) - 1)
      BY <1>4, <2>1, <2>2, <2>4 DEF RegionEnd
    <3>2. u >= blk + n => absorbs /\ u \in nxt .. (RegionEnd(nxt) - 1)
      BY <1>4, <1>7, <1>8, <1>17, <2>1, <2>2, <2>4 DEF RegionEnd
    <3>. QED
      BY <1>4, <1>7, <2>2, <3>1, <3>2, FreeUnitsFact
  <2>. QED
    BY <2>3, <2>4
<1>22. ASSUME NEW u, u \in FreeUnits \cup (blk .. (blk + n - 1))
       PROVE  u \in FreeUnits'
  <2>1. CASE u \in blk .. (blk + n - 1)
    <3>1. u \in node .. (node + size'[node] - 1)
      BY <1>4, <1>7, <1>8, <1>17, <2>1
    <3>. QED
      BY <1>20, <3>1
  <2>2. CASE u \in FreeUnits
    <3>0. PICK a \in Nodes : u \in a .. (RegionEnd(a) - 1)
      BY <2>2, FreeUnitsFact
    <3>1. u \in a .. (a + size[a] - 1)
      BY <1>4, <3>0 DEF RegionEnd
    <3>2. CASE absorbs /\ a = nxt
      <4>1. u \in node .. (node + size'[node] - 1)
        BY <1>4, <1>8, <1>12, <1>17, <3>1, <3>2
      <4>. QED
        BY <1>20, <4>1
    <3>3. CASE ~(absorbs /\ a = nxt) /\ a # node
      <4>1. a \in dom /\ size'[a] = size[a]
        BY <1>1, <3>3
      <4>. QED
        BY <1>20, <3>1, <4>1
    <3>4. CASE a = node
      <4>1. node = prev
        BY <1>2, <1>4, <3>4 DEF RegionEnd, ListOK, Coalesced
      <4>2. u \in node .. (node + size'[node] - 1)
        BY <1>4, <1>7, <1>17, <3>1, <3>4, <4>1 DEF RegionEnd
      <4>. QED
        BY <1>20, <4>2
    <3>. QED
      BY <3>2, <3>3, <3>4
  <2>. QED
    BY <1>22, <2>1, <2>2
<1>23. FreeUnits' = FreeUnits \cup (blk .. (blk + n - 1))
  BY <1>21, <1>22
<1>. QED
  BY <1>15, <1>16, <1>18, <1>19, <1>23 DEF ListOK

\* Taking k units off the front of the region after prev_p keeps the list in
\* order and merged, and takes exactly these units out of it.
LEMMA TakeFrontKeepsList ==
  ASSUME Types, ListOK,
         prev \in Nodes, next[prev] # EndOfList,
         NEW k \in Nat, k > 0, k <= size[next[prev]],
         TakeFront(k), skip' = prev
  PROVE  /\ ListOK'
         /\ Nodes' \subseteq 0 .. HeapUnits /\ DOMAIN size' = Nodes'
         /\ FreeUnits' = FreeUnits \ (next[prev] .. (next[prev] + k - 1))
         /\ next[prev] .. (next[prev] + k - 1) \subseteq FreeUnits
         /\ next[prev] \in Area /\ next[prev] + k <= HeapUnits + 1
<1> DEFINE cur  == next[prev]
           rest == size[cur] - k
           node == IF rest > 0 THEN cur + k ELSE prev
           dom  == IF rest > 0 THEN (Nodes \ {cur}) \cup {cur + k} ELSE Nodes \ {cur}
<1>1. HeapUnits \in Nat /\ EndOfList \in Nat /\ EndOfList > HeapUnits + 1
  BY HeapAssumption, EndAssumption
<1>2. \A a \in Nodes : a \in Nat /\ a <= HeapUnits /\ size[a] \in Nat /\ next[a] \in Nat
  BY <1>1 DEF Types, ListOK
<1>3. cur \in Nodes /\ cur > prev /\ cur >= 1 /\ cur + size[cur] <= HeapUnits + 1
  BY <1>2 DEF ListOK, Linked, Coalesced, RegionEnd
<1>4. \A a \in Nodes :
        /\ a < cur => a <= prev /\ a + size[a] < cur
        /\ a > cur => cur + size[cur] < a /\ a >= next[cur]
        /\ a < prev => a + size[a] < prev
  BY <1>2, <1>3 DEF ListOK, Linked, Coalesced, RegionEnd
<1>5. next[cur] > cur /\ (next[cur] = EndOfList \/ next[cur] \in Nodes)
  BY <1>3 DEF ListOK, Linked
<1>6. next[cur] > cur + size[cur]
  BY <1>1, <1>2, <1>3, <1>4, <1>5
<1>7. Nodes' = dom /\ DOMAIN size' = dom
  BY DEF TakeFront, Relink, Nodes
<1>8. 0 \in dom /\ prev \in dom /\ dom \subseteq 0 .. HeapUnits
  BY <1>1, <1>2, <1>3 DEF ListOK
<1>9. \A a \in dom : a # prev /\ a # cur + k =>
        a \in Nodes /\ a # cur /\ size'[a] = size[a] /\ next'[a] = next[a]
  BY <1>2, <1>3 DEF TakeFront, Relink
<1>10. size'[prev] = size[prev] /\ next'[prev] = IF rest > 0 THEN cur + k ELSE next[cur]
  BY <1>2, <1>3, <1>8 DEF TakeFront, Relink
<1>11. rest > 0 => /\ cur + k \in dom /\ size'[cur + k] = rest /\ next'[cur + k] = next[cur]
                   /\ cur + k # prev
  BY <1>2, <1>3 DEF TakeFront, Relink
<1>12. rest = 0 => cur + k \notin dom
  BY <1>2, <1>3, <1>4
<1>13. rest \in Nat /\ cur + k + rest = cur + size[cur] /\ k <= size[cur]
  BY <1>2, <1>3
<1>14. \A a \in dom :
         \/ a = prev
         \/ a = cur + k /\ rest > 0
         \/ a # prev /\ a # cur + k /\ a \in Nodes /\ a # cur
  BY <1>9, <1>12, <1>13
<1>15. \A a \in dom : size'[a] \in Nat /\ next'[a] \in Nat
  BY <1>2, <1>3, <1>9, <1>10, <1>11, <1>13, <1>14
<1>16. Coalesced'
  <2>1. size'[0] = 0
    BY <1>2, <1>3, <1>8, <1>9, <1>10 DEF ListOK, Coalesced
  <2>2. \A a \in dom \ {0} : size'[a] > 0 /\ a + size'[a] <= HeapUnits + 1
    BY <1>2, <1>3, <1>9, <1>10, <1>11, <1>13, <1>14 DEF ListOK, Coalesced, RegionEnd
  <2>3. ASSUME NEW a \in dom, NEW c \in dom, a < c PROVE a + size'[a] < c
    BY <1>2, <1>3, <1>4, <1>9, <1>10, <1>11, <1>13, <1>14, <2>3 DEF ListOK, Coalesced, RegionEnd
  <2>. QED
    BY <1>7, <2>1, <2>2, <2>3 DEF Coalesced, RegionEnd
<1>17. Linked'
  <2>1. ASSUME NEW a \in dom
        PROVE  /\ next'[a] > a
               /\ next'[a] # EndOfList => next'[a] \in dom
               /\ \A c \in dom : c > a => c >= next'[a]
    <3>1. CASE a = prev
      BY <1>2, <1>3, <1>4, <1>5, <1>6, <1>10, <1>11, <1>13, <1>14, <3>1
    <3>2. CASE a = cur + k /\ rest > 0
      BY <1>2, <1>3, <1>4, <1>5, <1>6, <1>11, <1>13, <1>14, <3>2
    <3>3. CASE a # prev /\ a # cur + k /\ a \in Nodes /\ a # cur
      <4>1. next'[a] = next[a] /\ next[a] > a /\ (next[a] # EndOfList => next[a] \in Nodes)
        BY <1>9, <3>3 DEF ListOK, Linked
      <4>2. next[a] # cur
        BY <1>2, <1>3, <1>4, <3>3, <4>1 DEF ListOK, Linked
      <4>3. next[a] # EndOfList => next[a] \in dom
        BY <4>1, <4>2
      <4>4. ASSUME NEW c \in dom, c > a PROVE c >= next[a]
        <5>1. CASE c \in Nodes
          BY <3>3, <4>4, <5>1 DEF ListOK, Linked
        <5>2. CASE c = cur + k /\ rest > 0
          <6>1. a < prev
            BY <1>2, <1>3, <1>4, <1>13, <3>3, <4>4, <5>2
          <6>2. prev >= next[a]
            BY <3>3, <6>1 DEF ListOK, Linked
          <6>. QED
            BY <1>2, <1>3, <3>3, <5>2, <6>2
        <5>. QED
          BY <1>14, <5>1, <5>2
      <4>. QED
        BY <4>1, <4>3, <4>4
    <3>. QED
      BY <1>14, <3>1, <3>2, <3>3
  <2>. QED
    BY <1>7, <1>8, <2>1 DEF Linked
<1>18. \A u : u \in FreeUnits' <=> \E a \in dom : u \in a .. (a + size'[a] - 1)
  <2>1. \A u : u \in FreeUnits' <=> \E a \in Nodes' : u \in a .. (RegionEnd(a)' - 1)
    BY DEF FreeUnits
  <2>. QED
    BY <1>7, <1>8, <1>15, <2>1 DEF RegionEnd
<1>19. \A u : u \in FreeUnits <=> \E a \in Nodes : u \in a .. (a + size[a] - 1)
  BY <1>2, FreeUnitsFact DEF RegionEnd
<1>20. cur .. (cur + k - 1) \subseteq FreeUnits
  BY <1>2, <1>3, <1>19
<1>21. ASSUME NEW u, u \in FreeUnits'
       PROVE  u \in FreeUnits \ (cur .. (cur + k - 1))
  <2>1. PICK a \in dom : u \in a .. (a + size'[a] - 1)
    BY <1>18, <1>21
  <2>2. u \in Int /\ a \in Nat
    BY <2>1, <1>8
  <2>3. CASE a = cur + k /\ rest > 0
    <3>1. u \in cur .. (cur + size[cur] - 1) /\ u >= cur + k
      BY <1>2, <1>3, <1>11, <1>13, <2>1, <2>2, <2>3
    <3>. QED
      BY <1>2, <1>3, <1>19, <2>2, <3>1
  <2>4. CASE ~(a = cur + k /\ rest > 0)
    <3>1. a \in Nodes /\ a # cur /\ size'[a] = size[a]
      BY <1>3, <1>2, <1>9, <1>10, <1>14, <2>4
    <3>2. u < cur \/ u >= cur + size[cur]
      BY <1>2, <1>3, <1>4, <2>1, <2>2, <3>1
    <3>. QED
      BY <1>2, <1>3, <1>19, <2>1, <2>2, <3>1, <3>2
  <2>. QED
    BY <2>3, <2>4
<1>22. ASSUME NEW u, u \in FreeUnits \ (cur .. (cur + k - 1))
       PROVE  u \in FreeUnits'
  <2>1. PICK a \in Nodes : u \in a .. (a + size[a] - 1)
    BY <1>19, <1>22
  <2>2. CASE a # cur
    <3>1. a \in dom /\ size'[a] = size[a]
      BY <1>2, <1>3, <1>4, <1>9, <1>10, <1>13, <2>2
    <3>. QED
      BY <1>18, <2>1, <3>1
  <2>3. CASE a = cur
    <3>1. rest > 0 /\ u \in (cur + k) .. (cur + k + rest - 1)
      BY <1>2, <1>3, <1>13, <1>22, <2>1, <2>3
    <3>2. u \in (cur + k) .. (cur + k + size'[cur + k] - 1) /\ cur + k \in dom
      BY <1>11, <3>1
    <3>. QED
      BY <1>18, <3>2
  <2>. QED
    BY <2>2, <2>3
<1>23. FreeUnits' = FreeUnits \ (cur .. (cur + k - 1))
  BY <1>21, <1>22
<1>24. cur \in Area /\ cur + k <= HeapUnits + 1
  BY <1>1, <1>2, <1>3 DEF Area
<1>. QED
  BY <1>7, <1>8, <1>15, <1>16, <1>17, <1>20, <1>23, <1>24 DEF ListOK

\* Taking k units, not all, off the end of the region prev_p.
LEMMA TakeEndKeepsList ==
  ASSUME Types, ListOK,
         prev \in Nodes,
         NEW k \in Nat, k > 0, k < size[prev],
         Relink(Nodes, prev, next[prev], size[prev] - k, prev, 0, 0), skip' = prev
  PROVE  /\ ListOK'
         /\ Nodes' \subseteq 0 .. HeapUnits /\ DOMAIN size' = Nodes'
         /\ FreeUnits' = FreeUnits \ ((RegionEnd(prev) - k) .. (RegionEnd(prev) - 1))
         /\ (RegionEnd(prev) - k) .. (RegionEnd(prev) - 1) \subseteq FreeUnits
         /\ RegionEnd(prev) - k \in Area /\ RegionEnd(prev) <= HeapUnits + 1
<1>1. HeapUnits \in Nat
  BY HeapAssumption
<1>2. \A a \in Nodes : a \in Nat /\ a <= HeapUnits /\ size[a] \in Nat /\ next[a] \in Nat
  BY <1>1 DEF Types, ListOK
<1>3. Nodes' = Nodes /\ DOMAIN size' = Nodes
  BY DEF Relink, Nodes
<1>4. \A a \in Nodes : next'[a] = next[a] /\ size'[a] = IF a = prev THEN size[prev] - k ELSE size[a]
  BY DEF Relink
<1>5. prev # 0 /\ prev + size[prev] <= HeapUnits + 1
  BY <1>2 DEF ListOK, Coalesced, RegionEnd
<1>6. Linked'
  BY <1>3, <1>4 DEF ListOK, Linked
<1>7. Coalesced'
  <2>1. size'[0] = 0
    BY <1>4, <1>5 DEF ListOK, Coalesced
  <2>2. \A a \in Nodes \ {0} : size'[a] > 0 /\ a + size'[a] <= HeapUnits + 1
    BY <1>1, <1>2, <1>4 DEF ListOK, Coalesced, RegionEnd
  <2>3. \A a, c \in Nodes : a < c => a + size'[a] < c
    BY <1>2, <1>4 DEF ListOK, Coalesced, RegionEnd
  <2>. QED
    BY <1>3, <2>1, <2>2, <2>3 DEF Coalesced, RegionEnd
<1>8. \A a \in Nodes : size'[a] \in Nat /\ next'[a] \in Nat
  BY <1>2, <1>4
<1>9. \A u : u \in FreeUnits' <=> \E a \in Nodes : u \in a .. (a + size'[a] - 1)
  <2>1. \A u : u \in FreeUnits' <=> \E a \in Nodes' : u \in a .. (RegionEnd(a)' - 1)
    BY DEF FreeUnits
  <2>. QED
    BY <1>2, <1>3, <1>8, <2>1 DEF RegionEnd
<1>10. \A u : u \in FreeUnits <=> \E a \in Nodes : u \in a .. (a + size[a] - 1)
  BY <1>2, FreeUnitsFact DEF RegionEnd
<1>11. \A a \in Nodes : (a < prev => a + size[a] < prev) /\ (a > prev => prev + size[prev] < a)
  BY <1>2 DEF ListOK, Coalesced, RegionEnd
<1>12. \A u : u \in (RegionEnd(prev) - k) .. (RegionEnd(prev) - 1)
                <=> u \in Int /\ prev + size[prev] - k <= u /\ u < prev + size[prev]
  BY <1>2 DEF RegionEnd
<1>13. \A u : u \in Int /\ prev + size[prev] - k <= u /\ u < prev + size[prev] => u \in FreeUnits
  BY <1>2, <1>10
<1>14. ASSUME NEW u, u \in FreeUnits'
       PROVE  u \in FreeUnits /\ ~(u \in Int /\ prev + size[prev] - k <= u /\ u < prev + size[prev])
  <2>1. PICK a \in Nodes : u \in a .. (a + size'[a] - 1)
    BY <1>9, <1>14
  <2>2. u \in Int /\ a <= u /\ u < a + size'[a]
    BY <1>2, <1>8, <2>1
  <2>3. u < a + size[a]
    BY <1>2, <1>4, <2>2
  <2>4. u \in FreeUnits
    BY <1>2, <1>10, <2>2, <2>3
  <2>5. ~(prev + size[prev] - k <= u /\ u < prev + size[prev])
    BY <1>2, <1>4, <1>11, <2>2, <2>3
  <2>. QED
    BY <2>4, <2>5
<1>15. ASSUME NEW u, u \in FreeUnits,
              ~(u \in Int /\ prev + size[prev] - k <= u /\ u < prev + size[prev])
       PROVE  u \in FreeUnits'
  <2>1. PICK a \in Nodes : u \in a .. (a + size[a] - 1)
    BY <1>10, <1>15
  <2>2. u \in a .. (a + size'[a] - 1)
    BY <1>2, <1>4, <1>15, <2>1
  <2>. QED
    BY <1>9, <2>2
<1>16. FreeUnits' = FreeUnits \ ((RegionEnd(prev) - k) .. (RegionEnd(prev) - 1))
  BY <1>12, <1>14, <1>15
<1>17. RegionEnd(prev) - k \in Area /\ RegionEnd(prev) <= HeapUnits + 1
  BY <1>1, <1>2, <1>5 DEF Area, RegionEnd
<1>. QED
  BY <1>3, <1>6, <1>7, <1>8, <1>12, <1>13, <1>16, <1>17 DEF ListOK, Types

-----------------------------------------------------------------------------
(* Facts about sets of blocks                                              *)

\* A new block on units nobody owns.
LEMMA PutBlock ==
  ASSUME NEW f, NEW a, NEW s, a \notin DOMAIN f, Apart(f),
         Span(a, s) \cap Owned(f) = {}
  PROVE  /\ Apart(Put(f, a, s))
         /\ Owned(Put(f, a, s)) = Owned(f) \cup Span(a, s)
<1> DEFINE g == Put(f, a, s)
<1>1. DOMAIN g = DOMAIN f \cup {a} /\ g[a] = s /\ \A x \in DOMAIN f : g[x] = f[x]
  BY DEF Put
<1>2. \A u : u \in Owned(f) <=> \E b \in DOMAIN f : u \in Span(b, f[b])
  BY OwnedFact
<1>3. \A u : u \in Owned(g) <=> \E b \in DOMAIN g : u \in Span(b, g[b])
  BY OwnedFact
<1>. HIDE DEF g
<1>4. Owned(g) = Owned(f) \cup Span(a, s)
  BY <1>1, <1>2, <1>3
<1>5. ASSUME NEW b \in DOMAIN g, NEW c \in DOMAIN g, b # c
      PROVE  Span(b, g[b]) \cap Span(c, g[c]) = {}
  <2>1. CASE b \in DOMAIN f /\ c \in DOMAIN f
    BY <1>1, <1>5, <2>1 DEF Apart
  <2>2. CASE b = a /\ c \in DOMAIN f
    BY <1>1, <1>2, <2>2
  <2>3. CASE c = a /\ b \in DOMAIN f
    BY <1>1, <1>2, <2>3
  <2>. QED
    BY <1>1, <1>5, <2>1, <2>2, <2>3
<1>6. Apart(g)
  BY <1>5 DEF Apart
<1>. QED
  BY <1>4, <1>6 DEF g

\* A block given back.
LEMMA DropBlock ==
  ASSUME NEW f, NEW a \in DOMAIN f, Apart(f)
  PROVE  /\ Apart(Drop(f, a))
         /\ Owned(Drop(f, a)) = Owned(f) \ Span(a, f[a])
         /\ Span(a, f[a]) \subseteq Owned(f)
<1> DEFINE g == Drop(f, a)
<1>1. DOMAIN g = DOMAIN f \ {a} /\ \A x \in DOMAIN g : g[x] = f[x]
  BY DEF Drop
<1>2. \A u : u \in Owned(f) <=> \E b \in DOMAIN f : u \in Span(b, f[b])
  BY OwnedFact
<1>3. \A u : u \in Owned(g) <=> \E b \in DOMAIN g : u \in Span(b, g[b])
  BY OwnedFact
<1>. HIDE DEF g
<1>4. \A b \in DOMAIN f : b # a => Span(b, f[b]) \cap Span(a, f[a]) = {}
  BY DEF Apart
<1>5. Owned(g) = Owned(f) \ Span(a, f[a])
  BY <1>1, <1>2, <1>3, <1>4
<1>6. Apart(g)
  BY <1>1 DEF Apart
<1>. QED
  BY <1>2, <1>5, <1>6 DEF g

\* Resizing a block in place is giving it back and taking it again.
LEMMA PutDropBlock ==
  ASSUME NEW f, NEW a \in DOMAIN f, NEW s
  PROVE  Put(Drop(f, a), a, s) = Put(f, a, s)
BY DEF Put, Drop

-----------------------------------------------------------------------------
(* The invariant holds initially and every action keeps it                 *)

\* jmem_heap_init establishes the invariant.
LEMMA InitIInv == Init => IInv
<1>. SUFFICES ASSUME Init PROVE IInv
  OBVIOUS
<1>1. HeapUnits \in Nat /\ HeapUnits >= 1 /\ EndOfList \in Nat /\ EndOfList > HeapUnits + 1
  BY HeapAssumption, EndAssumption
<1>2. Nodes = {0, 1} /\ DOMAIN size = {0, 1} /\ DOMAIN blocks = {}
  BY DEF Init, Nodes
<1>3. next[0] = 1 /\ next[1] = EndOfList /\ size[0] = 0 /\ size[1] = HeapUnits
  BY DEF Init
<1>4. Types
  BY <1>1, <1>2 DEF Init, Types, JMEM_PRESSURE_NONE, JMEM_PRESSURE_FULL
<1>5. ListOK
  BY <1>1, <1>2, <1>3 DEF Init, ListOK, Linked, Coalesced, RegionEnd
<1>6. Owned(blocks) = {}
  BY <1>2, OwnedFact
<1>7. FreeUnits = Area
  <2>1. RegionEnd(0) - 1 = -1 /\ RegionEnd(1) - 1 = HeapUnits
    BY <1>1, <1>3 DEF RegionEnd
  <2>2. \A u : u \in FreeUnits <=> u \in 0 .. -1 \/ u \in 1 .. HeapUnits
    BY <1>2, <2>1, FreeUnitsFact
  <2>3. 0 .. -1 = {}
    BY SMT
  <2>. QED
    BY <1>1, <2>2, <2>3 DEF Area
<1>8. WalkOK
  BY <1>2 DEF Init, WalkOK, NoReq
<1>. QED
  BY <1>2, <1>4, <1>5, <1>6, <1>7, <1>8 DEF IInv, Disjoint, Apart, Partitioned

\* What a request says of itself.
LEMMA RequestFact ==
  ASSUME Types
  PROVE  /\ op.kind \in {"none", "alloc", "free", "realloc"}
         /\ op.kind = "none" <=> op = NoReq
         /\ op.kind \in {"none", "alloc"} => op.ptr = 0
         /\ op.kind \in {"free", "realloc"} => op.ptr \in Area
         /\ op.kind \in {"alloc", "realloc"} =>
              op.size \in Sizes /\ op.max \in 0 .. JMEM_PRESSURE_FULL
BY DEF Types, Requests, NoReq, MaxPressures, JMEM_PRESSURE_HIGH, JMEM_PRESSURE_FULL

\* Steps that touch neither the list nor the blocks.
LEMMA SameHeap ==
  ASSUME IInv, UNCHANGED <<list, blocks>>, Types', WalkOK'
  PROVE  IInv'
<1>1. ListOK'
  BY DEF IInv, ListOK, Linked, Coalesced, RegionEnd, Nodes, list
<1>2. Disjoint' /\ Partitioned'
  BY DEF IInv, Disjoint, Partitioned, FreeUnits, RegionEnd, Nodes, list
<1>. QED
  BY <1>1, <1>2 DEF IInv

\* The invariant is kept by Call.
LEMMA CallIInv ==
  ASSUME IInv, NEW r \in Requests, Call(r)
  PROVE  IInv'
<1>1. Types'
  BY HeapAssumption
  DEF IInv, Types, Call, list, Nodes
<1>2. WalkOK'
  BY RequestFact
  DEF IInv, Types, WalkOK, Call, list, Nodes, Requests, NoReq
<1>. QED
  BY <1>1, <1>2, SameHeap DEF Call

\* The invariant is kept by EnterAlloc.
LEMMA EnterAllocIInv ==
  ASSUME IInv, EnterAlloc
  PROVE  IInv'
<1>1. Types'
  BY HeapAssumption
  DEF IInv, Types, EnterAlloc, list, Nodes, StartFit, JMEM_PRESSURE_NONE, JMEM_PRESSURE_LOW, JMEM_PRESSURE_FULL
<1>2. WalkOK'
  BY RequestFact, HeapAssumption
  DEF IInv, Types, WalkOK, EnterAlloc, list, Nodes, StartFit, ListOK, Pending
<1>. QED
  BY <1>1, <1>2, SameHeap DEF EnterAlloc, StartFit

\* The invariant is kept by GcFree.
LEMMA GcFreeIInv ==
  ASSUME IInv, NEW b \in Area, GcFree(b)
  PROVE  IInv'
<1>1. Types'
  BY HeapAssumption
  DEF IInv, Types, GcFree, list, Nodes, Area
<1>2. WalkOK'
  BY RequestFact
  DEF IInv, Types, WalkOK, GcFree, list, Nodes, Pending, Freeing, Extra, BlockUnits
<1>. QED
  BY <1>1, <1>2, SameHeap DEF GcFree

\* The invariant is kept by GcDone.
LEMMA GcDoneIInv ==
  ASSUME IInv, GcDone
  PROVE  IInv'
<1>1. Types'
  BY HeapAssumption
  DEF IInv, Types, GcDone, list, Nodes
<1>2. WalkOK'
  BY RequestFact, HeapAssumption
  DEF IInv, Types, WalkOK, GcDone, list, Nodes, ListOK, Pending, Growing, Extra, BlockUnits
<1>. QED
  BY <1>1, <1>2, SameHeap DEF GcDone

\* The invariant is kept by FitSkip.
LEMMA FitSkipIInv ==
  ASSUME IInv, FitSkip
  PROVE  IInv'
<1>1. Types'
  BY HeapAssumption, EndAssumption
  DEF IInv, Types, FitSkip, list, Nodes, WalkOK, ListOK, Linked
<1>2. WalkOK'
  BY RequestFact, UnitsFact, EndAssumption, HeapAssumption
  DEF IInv, Types, WalkOK, FitSkip, list, Nodes, ListOK, Linked, Pending, Extra, BlockUnits
<1>. QED
  BY <1>1, <1>2, SameHeap DEF FitSkip

\* The invariant is kept by FitRetry.
LEMMA FitRetryIInv ==
  ASSUME IInv, FitRetry
  PROVE  IInv'
<1>1. Types'
  BY RequestFact
  DEF IInv, Types, FitRetry, list, Nodes, WalkOK, Pending, JMEM_PRESSURE_NONE, JMEM_PRESSURE_LOW, JMEM_PRESSURE_FULL
<1>2. WalkOK'
  BY RequestFact
  DEF IInv, Types, WalkOK, FitRetry, list, Nodes, Pending, Extra, BlockUnits
<1>. QED
  BY <1>1, <1>2, SameHeap DEF FitRetry

\* The invariant is kept by FitNull.
LEMMA FitNullIInv ==
  ASSUME IInv, FitNull
  PROVE  IInv'
<1>1. Types'
  BY HeapAssumption
  DEF IInv, Types, FitNull, list, Nodes, Return, JMEM_PRESSURE_NONE, JMEM_PRESSURE_LOW, JMEM_PRESSURE_FULL
<1>2. WalkOK'
  BY RequestFact
  DEF IInv, Types, WalkOK, FitNull, list, Nodes, Return, NoReq
<1>. QED
  BY <1>1, <1>2, SameHeap DEF FitNull, Return

\* The invariant is kept by RaiseStep.
LEMMA RaiseStepIInv ==
  ASSUME IInv, RaiseStep
  PROVE  IInv'
<1>1. Types'
  BY HeapAssumption
  DEF IInv, Types, RaiseStep, list, Nodes, control
<1>2. WalkOK'
  BY RequestFact
  DEF IInv, Types, WalkOK, RaiseStep, list, Nodes, control, Copying
<1>. QED
  BY <1>1, <1>2, SameHeap DEF RaiseStep

\* The invariant is kept by RaiseDone.
LEMMA RaiseDoneIInv ==
  ASSUME IInv, RaiseDone
  PROVE  IInv'
<1>1. Types'
  BY HeapAssumption
  DEF IInv, Types, RaiseDone, list, Nodes, Return, JMEM_PRESSURE_NONE, JMEM_PRESSURE_LOW, JMEM_PRESSURE_FULL
<1>2. WalkOK'
  BY RequestFact
  DEF IInv, Types, WalkOK, RaiseDone, list, Nodes, Return, Copying
<1>. QED
  BY <1>1, <1>2, SameHeap DEF RaiseDone, Return

\* The invariant is kept by RaiseCopied.
LEMMA RaiseCopiedIInv ==
  ASSUME IInv, RaiseCopied
  PROVE  IInv'
<1>1. Types'
  BY RequestFact, HeapAssumption
  DEF IInv, Types, RaiseCopied, list, Nodes, Area
<1>2. WalkOK'
  BY RequestFact
  DEF IInv, Types, WalkOK, RaiseCopied, list, Nodes, Copying, NoReq
<1>. QED
  BY <1>1, <1>2, SameHeap DEF RaiseCopied

\* The invariant is kept by EnterFree.
LEMMA EnterFreeIInv ==
  ASSUME IInv, EnterFree
  PROVE  IInv'
<1>1. Types'
  BY RequestFact, HeapAssumption
  DEF IInv, Types, EnterFree, list, Nodes, Area
<1>2. WalkOK'
  BY RequestFact
  DEF IInv, Types, WalkOK, EnterFree, list, Nodes, Freeing, Pending
<1>. QED
  BY <1>1, <1>2, SameHeap DEF EnterFree

\* The invariant is kept by StartRelease.
LEMMA StartReleaseIInv ==
  ASSUME IInv, StartRelease
  PROVE  IInv'
<1>1. Types'
  BY HeapAssumption
  DEF IInv, Types, StartRelease, list, Nodes, FindStart, WalkOK, ListOK, Linked
<1>2. WalkOK'
  BY RequestFact, HeapAssumption
  DEF IInv, Types, WalkOK, StartRelease, list, Nodes, FindStart, Area, ListOK, Linked, Freeing, Finding, Copying, Pending, Extra, BlockUnits
<1>. QED
  BY <1>1, <1>2, SameHeap DEF StartRelease, FindStart

\* The invariant is kept by FindStep.
LEMMA FindStepIInv ==
  ASSUME IInv, FindStep
  PROVE  IInv'
<1>1. Types'
  BY HeapAssumption, EndAssumption
  DEF IInv, Types, FindStep, list, Nodes, WalkOK, Finding, ListOK, Linked
<1>2. WalkOK'
  BY RequestFact, HeapAssumption, EndAssumption
  DEF IInv, Types, WalkOK, FindStep, list, Nodes, ListOK, Linked, Finding, Freeing, Pending, Copying, Growing, Extra, BlockUnits, RegionEnd
<1>. QED
  BY <1>1, <1>2, SameHeap DEF FindStep

\* The invariant is kept by LowerStep.
LEMMA LowerStepIInv ==
  ASSUME IInv, LowerStep
  PROVE  IInv'
<1>1. Types'
  BY HeapAssumption
  DEF IInv, Types, LowerStep, list, Nodes, control
<1>2. WalkOK'
  BY RequestFact
  DEF IInv, Types, WalkOK, LowerStep, list, Nodes, control, Pending, Extra, BlockUnits
<1>. QED
  BY <1>1, <1>2, SameHeap DEF LowerStep

\* The invariant is kept by LowerDone.
LEMMA LowerDoneIInv ==
  ASSUME IInv, LowerDone
  PROVE  IInv'
<1>1. Types'
  BY HeapAssumption
  DEF IInv, Types, LowerDone, list, Nodes, Return, JMEM_PRESSURE_NONE, JMEM_PRESSURE_LOW, JMEM_PRESSURE_FULL
<1>2. WalkOK'
  BY RequestFact
  DEF IInv, Types, WalkOK, LowerDone, list, Nodes, Return
<1>. QED
  BY <1>1, <1>2, SameHeap DEF LowerDone, Return

\* The invariant is kept by LowerGc.
LEMMA LowerGcIInv ==
  ASSUME IInv, LowerGc
  PROVE  IInv'
<1>1. Types'
  BY HeapAssumption
  DEF IInv, Types, LowerGc, list, Nodes
<1>2. WalkOK'
  BY RequestFact
  DEF IInv, Types, WalkOK, LowerGc, list, Nodes, Pending, Extra, BlockUnits
<1>. QED
  BY <1>1, <1>2, SameHeap DEF LowerGc

\* The invariant is kept by ReallocShrink.
LEMMA ReallocShrinkIInv ==
  ASSUME IInv, ReallocShrink
  PROVE  IInv'
<1>1. Types'
  BY RequestFact, HeapAssumption
  DEF IInv, Types, ReallocShrink, list, Nodes, FindStart, WalkOK, ListOK, Linked, Area
<1>2. WalkOK'
  BY RequestFact, HeapAssumption
  DEF IInv, Types, WalkOK, ReallocShrink, list, Nodes, FindStart, Area, ListOK, Linked, Finding, Extra, BlockUnits
<1>. QED
  BY <1>1, <1>2, SameHeap DEF ReallocShrink, FindStart

\* The invariant is kept by ReallocGrow.
LEMMA ReallocGrowIInv ==
  ASSUME IInv, ReallocGrow
  PROVE  IInv'
<1>1. Types'
  BY HeapAssumption
  DEF IInv, Types, ReallocGrow, list, Nodes, JMEM_PRESSURE_NONE, JMEM_PRESSURE_LOW, JMEM_PRESSURE_FULL
<1>2. WalkOK'
  BY RequestFact
  DEF IInv, Types, WalkOK, ReallocGrow, list, Nodes, Pending, Growing, Extra, BlockUnits
<1>. QED
  BY <1>1, <1>2, SameHeap DEF ReallocGrow

\* The invariant is kept by GrowFind.
LEMMA GrowFindIInv ==
  ASSUME IInv, GrowFind
  PROVE  IInv'
<1>1. Types'
  BY RequestFact, HeapAssumption
  DEF IInv, Types, GrowFind, list, Nodes, FindStart, WalkOK, Growing, ListOK, Linked, Area
<1>2. WalkOK'
  BY RequestFact, HeapAssumption
  DEF IInv, Types, WalkOK, GrowFind, list, Nodes, FindStart, Area, ListOK, Linked, Finding, Growing, Extra, BlockUnits
<1>. QED
  BY <1>1, <1>2, SameHeap DEF GrowFind, FindStart

\* The invariant is kept by ExtendFrontWhole.
LEMMA ExtendFrontWholeIInv ==
  ASSUME IInv, ExtendFrontWhole
  PROVE  IInv'
<1>1. Types'
  BY HeapAssumption
  DEF IInv, Types, ExtendFrontWhole, list, Nodes, FindStart, Found, WalkOK, Finding, ListOK, Linked
<1>2. WalkOK'
  BY RequestFact, HeapAssumption
  DEF IInv, Types, WalkOK, ExtendFrontWhole, list, Nodes, FindStart, Found, FitsPrev, NextAdjoins, PrevAdjoins, Area, ListOK, Linked, Coalesced, Finding, Growing, Extra, BlockUnits, RegionEnd
<1>. QED
  BY <1>1, <1>2, SameHeap DEF ExtendFrontWhole, FindStart

\* The invariant is kept by GrowByCopy.
LEMMA GrowByCopyIInv ==
  ASSUME IInv, GrowByCopy
  PROVE  IInv'
<1>1. Types'
  BY HeapAssumption
  DEF IInv, Types, GrowByCopy, list, Nodes, StartFit, JMEM_PRESSURE_NONE, JMEM_PRESSURE_LOW, JMEM_PRESSURE_FULL
<1>2. WalkOK'
  BY RequestFact, HeapAssumption
  DEF IInv, Types, WalkOK, GrowByCopy, list, Nodes, StartFit, Found, Finding, Growing, ListOK, Pending
<1>. QED
  BY <1>1, <1>2, SameHeap DEF GrowByCopy, StartFit


\* The units of a block, and that they are not free.
LEMMA BlockFact ==
  ASSUME IInv, NEW b \in DOMAIN blocks
  PROVE  /\ b \in Area /\ b \in Nat /\ b >= 1
         /\ BlockUnits(b) \in Nat /\ BlockUnits(b) > 1
         /\ b + BlockUnits(b) <= HeapUnits + 1
         /\ Span(b, blocks[b]) = b .. (b + BlockUnits(b) - 1)
         /\ Span(b, blocks[b]) \subseteq Owned(blocks)
         /\ Span(b, blocks[b]) \cap FreeUnits = {}
         /\ b \in Span(b, blocks[b])
<1>1. b \in Area /\ b \in Nat /\ b >= 1 /\ HeapUnits \in Nat
  BY HeapAssumption DEF IInv, Types, Area
<1>2. BlockUnits(b) \in Nat /\ BlockUnits(b) > 1
  BY UnitsFact DEF IInv, Types, BlockUnits
<1>3. Span(b, blocks[b]) = b .. (b + BlockUnits(b) - 1)
  BY DEF Span, BlockUnits
<1>4. Span(b, blocks[b]) \subseteq Owned(blocks)
  BY OwnedFact
<1>5. Span(b, blocks[b]) \cap FreeUnits = {}
  BY <1>4 DEF IInv, Partitioned
<1>6. b + BlockUnits(b) - 1 \in Area
  BY <1>1, <1>2, <1>3, <1>4 DEF IInv, Partitioned
<1>. QED
  BY <1>1, <1>2, <1>3, <1>4, <1>5, <1>6 DEF Area

\* A block put where the list gave up units.
LEMMA PlaceBlock ==
  ASSUME NEW f, Apart(f), NEW a \in Area, NEW s \in Sizes,
         \A b \in DOMAIN f : f[b] \in Sizes,
         a + Units(s) <= HeapUnits + 1,
         Span(a, s) \cap Owned(f) = {}
  PROVE  /\ a \notin DOMAIN f
         /\ Apart(Put(f, a, s))
         /\ Owned(Put(f, a, s)) = Owned(f) \cup Span(a, s)
         /\ Span(a, s) \subseteq Area
         /\ DOMAIN Put(f, a, s) = DOMAIN f \cup {a}
         /\ \A b \in DOMAIN f \cup {a} : Put(f, a, s)[b] = IF b = a THEN s ELSE f[b]
<1>1. a \in Nat /\ HeapUnits \in Nat /\ a >= 1 /\ Units(s) \in Nat /\ Units(s) > 1
  BY HeapAssumption, UnitsFact DEF Area
<1>2. a \in Span(a, s) /\ Span(a, s) \subseteq Area
  BY <1>1 DEF Span, Area
<1>3. a \notin DOMAIN f
  <2>1. SUFFICES ASSUME a \in DOMAIN f PROVE FALSE
    OBVIOUS
  <2>2. Units(f[a]) \in Nat /\ Units(f[a]) > 1
    BY <2>1, UnitsFact
  <2>3. a \in Span(a, f[a])
    BY <1>1, <2>2 DEF Span
  <2>. QED
    BY <1>2, <2>1, <2>3, OwnedFact
<1>. QED
  BY <1>2, <1>3, PutBlock DEF Put

\* The invariant is kept by FitTake.
LEMMA FitTakeIInv ==
  ASSUME IInv, FitTake
  PROVE  IInv'
<1> DEFINE cur == next[prev]
           n   == Units(op.size)
<1>1. op.size \in Sizes /\ op.kind \in {"alloc", "realloc"} /\ n \in Nat /\ n > 1
  BY RequestFact, UnitsFact DEF IInv, WalkOK, FitTake, Pending
<1>2. /\ ListOK'
      /\ Nodes' \subseteq 0 .. HeapUnits /\ DOMAIN size' = Nodes'
      /\ FreeUnits' = FreeUnits \ (cur .. (cur + n - 1))
      /\ cur .. (cur + n - 1) \subseteq FreeUnits
      /\ cur \in Area /\ cur + n <= HeapUnits + 1
  BY <1>1, TakeFrontKeepsList DEF IInv, WalkOK, FitTake
<1>3. Span(cur, op.size) = cur .. (cur + n - 1)
  BY DEF Span
<1>4. Span(cur, op.size) \cap Owned(blocks) = {}
  BY <1>2, <1>3 DEF IInv, Partitioned
<1>5. /\ cur \notin DOMAIN blocks
      /\ Apart(blocks')
      /\ Owned(blocks') = Owned(blocks) \cup Span(cur, op.size)
      /\ Span(cur, op.size) \subseteq Area
      /\ DOMAIN blocks' = DOMAIN blocks \cup {cur}
      /\ \A b \in DOMAIN blocks' : blocks'[b] = IF b = cur THEN op.size ELSE blocks[b]
  <2>1. blocks' = Put(blocks, cur, op.size)
    BY DEF FitTake
  <2>2. Apart(blocks) /\ \A b \in DOMAIN blocks : blocks[b] \in Sizes
    BY DEF IInv, Types, Disjoint
  <2>3. op.size \in Sizes /\ cur \in Area /\ cur + Units(op.size) <= HeapUnits + 1
    BY <1>1, <1>2
  <2>4. /\ cur \notin DOMAIN blocks
        /\ Apart(Put(blocks, cur, op.size))
        /\ Owned(Put(blocks, cur, op.size)) = Owned(blocks) \cup Span(cur, op.size)
        /\ Span(cur, op.size) \subseteq Area
        /\ DOMAIN Put(blocks, cur, op.size) = DOMAIN blocks \cup {cur}
    BY <1>4, <2>2, <2>3, PlaceBlock
  <2>5. \A b \in DOMAIN blocks \cup {cur} :
          Put(blocks, cur, op.size)[b] = IF b = cur THEN op.size ELSE blocks[b]
    BY DEF Put
  <2>. QED
    BY <2>1, <2>4, <2>5
<1>6. Disjoint' /\ Partitioned'
  BY <1>2, <1>3, <1>5 DEF IInv, Disjoint, Partitioned
<1>7. Types'
  BY <1>1, <1>2, <1>5, HeapAssumption DEF IInv, Types, FitTake, Area
<1>8. WalkOK'
  BY <1>1, <1>2, <1>5, HeapAssumption, RequestFact
  DEF IInv, Types, WalkOK, FitTake, Copying, Pending, Area, NoReq
<1>. QED
  BY <1>2, <1>6, <1>7, <1>8 DEF IInv

\* A whole block goes back to the list after prev_p.
LEMMA GiveBack ==
  ASSUME IInv, NEW b \in DOMAIN blocks,
         prev \in Nodes, prev < b, next[prev] >= b,
         Insert(b, BlockUnits(b)), blocks' = Drop(blocks, b)
  PROVE  /\ ListOK' /\ Disjoint' /\ Partitioned'
         /\ Nodes' \subseteq 0 .. HeapUnits /\ DOMAIN size' = Nodes'
         /\ DOMAIN blocks' = DOMAIN blocks \ {b}
         /\ \A x \in DOMAIN blocks' : blocks'[x] = blocks[x]
<1>1. /\ ListOK'
      /\ Nodes' \subseteq 0 .. HeapUnits /\ DOMAIN size' = Nodes'
      /\ FreeUnits' = FreeUnits \cup Span(b, blocks[b])
  <2>1. /\ b \in Area /\ BlockUnits(b) \in Nat /\ BlockUnits(b) > 0
        /\ b + BlockUnits(b) <= HeapUnits + 1
        /\ Span(b, blocks[b]) = b .. (b + BlockUnits(b) - 1)
        /\ (b .. (b + BlockUnits(b) - 1)) \cap FreeUnits = {}
    BY BlockFact
  <2>2. Types /\ ListOK
    BY DEF IInv
  <2>3. FreeUnits' = FreeUnits \cup (b .. (b + BlockUnits(b) - 1)) /\ ListOK'
        /\ Nodes' \subseteq 0 .. HeapUnits /\ DOMAIN size' = Nodes'
    BY <2>1, <2>2, InsertKeepsList
  <2>. QED
    BY <2>1, <2>3
<1>2. /\ Apart(blocks')
      /\ Owned(blocks') = Owned(blocks) \ Span(b, blocks[b])
      /\ Span(b, blocks[b]) \subseteq Owned(blocks)
  BY DropBlock DEF IInv, Disjoint
<1>3. Disjoint' /\ Partitioned'
  BY <1>1, <1>2 DEF IInv, Disjoint, Partitioned
<1>. QED
  BY <1>1, <1>3 DEF Drop

\* The invariant is kept by FreeInsert.
LEMMA FreeInsertIInv ==
  ASSUME IInv, FreeInsert
  PROVE  IInv'
<1>1. /\ prev \in Nodes /\ prev < target /\ next[prev] >= target
      /\ Freeing
  BY DEF IInv, WalkOK, FreeInsert, Found, Finding
<1>2. /\ ListOK' /\ Disjoint' /\ Partitioned'
      /\ Nodes' \subseteq 0 .. HeapUnits /\ DOMAIN size' = Nodes'
      /\ DOMAIN blocks' = DOMAIN blocks \ {target}
      /\ \A x \in DOMAIN blocks' : blocks'[x] = blocks[x]
  BY <1>1, GiveBack DEF FreeInsert, Freeing
<1>3. Types'
  BY <1>1, <1>2 DEF IInv, Types, FreeInsert
<1>4. WalkOK'
  BY <1>1, <1>2, RequestFact
  DEF IInv, Types, WalkOK, FreeInsert, Freeing, Pending, Extra, BlockUnits, NoReq
<1>. QED
  BY <1>2, <1>3, <1>4 DEF IInv

\* The invariant is kept by CopiedInsert.
LEMMA CopiedInsertIInv ==
  ASSUME IInv, CopiedInsert
  PROVE  IInv'
<1>1. /\ prev \in Nodes /\ prev < target /\ next[prev] >= target
      /\ Copying /\ target = op.ptr /\ target \in DOMAIN blocks
  BY DEF IInv, WalkOK, CopiedInsert, Found, Finding, Copying
<1>2. /\ ListOK' /\ Disjoint' /\ Partitioned'
      /\ Nodes' \subseteq 0 .. HeapUnits /\ DOMAIN size' = Nodes'
      /\ DOMAIN blocks' = DOMAIN blocks \ {target}
      /\ \A x \in DOMAIN blocks' : blocks'[x] = blocks[x]
  BY <1>1, GiveBack DEF CopiedInsert
<1>3. Types'
  BY <1>1, <1>2, HeapAssumption
  DEF IInv, Types, CopiedInsert, Return, JMEM_PRESSURE_NONE, JMEM_PRESSURE_FULL
<1>4. WalkOK'
  BY DEF WalkOK, CopiedInsert, Return, NoReq
<1>. QED
  BY <1>2, <1>3, <1>4 DEF IInv

\* A block that is resized or moved to units that are free or its own.
LEMMA MoveBlock ==
  ASSUME IInv, NEW p \in DOMAIN blocks, NEW a \in Area, NEW s \in Sizes,
         a + Units(s) <= HeapUnits + 1,
         Span(a, s) \cap (Owned(blocks) \ Span(p, blocks[p])) = {},
         blocks' = Put(Drop(blocks, p), a, s)
  PROVE  /\ Disjoint'
         /\ Owned(blocks') = (Owned(blocks) \ Span(p, blocks[p])) \cup Span(a, s)
         /\ Owned(blocks') \subseteq Area
         /\ DOMAIN blocks' \subseteq Area
         /\ \A b \in DOMAIN blocks' : blocks'[b] \in Sizes
<1> DEFINE f == Drop(blocks, p)
<1>1. Apart(f) /\ Owned(f) = Owned(blocks) \ Span(p, blocks[p])
  BY DropBlock DEF IInv, Disjoint
<1>2. DOMAIN f \subseteq Area /\ \A b \in DOMAIN f : f[b] \in Sizes
  BY DEF IInv, Types, Drop
<1>. HIDE DEF f
<1>3. /\ Apart(Put(f, a, s))
      /\ Owned(Put(f, a, s)) = Owned(f) \cup Span(a, s)
      /\ Span(a, s) \subseteq Area
      /\ DOMAIN Put(f, a, s) = DOMAIN f \cup {a}
      /\ \A b \in DOMAIN f \cup {a} : Put(f, a, s)[b] = IF b = a THEN s ELSE f[b]
  BY <1>1, <1>2, PlaceBlock
<1>4. blocks' = Put(f, a, s)
  BY DEF f
<1>. QED
  BY <1>1, <1>2, <1>3, <1>4 DEF IInv, Disjoint, Partitioned

\* The block named by a reallocation.
LEMMA ReallocFact ==
  ASSUME IInv, op.kind = "realloc"
  PROVE  /\ op.ptr \in DOMAIN blocks /\ op.ptr \in Nat /\ op.ptr >= 1
         /\ op.size \in Sizes /\ Units(op.size) \in Nat /\ Units(op.size) > 1
         /\ BlockUnits(op.ptr) \in Nat
         /\ Extra \in Int /\ Units(op.size) = BlockUnits(op.ptr) + Extra
<1>1. op.ptr \in DOMAIN blocks
  BY DEF IInv, WalkOK
<1>2. op.size \in Sizes /\ Units(op.size) \in Nat /\ Units(op.size) > 1
  BY RequestFact, UnitsFact DEF IInv
<1>. QED
  BY <1>1, <1>2, BlockFact DEF Extra

\* The invariant is kept by ReallocSame.
LEMMA ReallocSameIInv ==
  ASSUME IInv, ReallocSame
  PROVE  IInv'
<1>1. op.kind = "realloc" /\ Extra = 0
  BY DEF ReallocSame
<1>2. /\ op.ptr \in DOMAIN blocks /\ op.size \in Sizes
      /\ Units(op.size) = BlockUnits(op.ptr)
  BY <1>1, ReallocFact
<1>3. Span(op.ptr, op.size) = Span(op.ptr, blocks[op.ptr])
  BY <1>2 DEF Span, BlockUnits
<1>4. blocks' = Put(Drop(blocks, op.ptr), op.ptr, op.size)
  BY <1>2, PutDropBlock DEF ReallocSame
<1>5. op.ptr \in Area /\ op.ptr + Units(op.size) <= HeapUnits + 1
  BY <1>2, BlockFact
<1>6. Span(op.ptr, blocks[op.ptr]) \subseteq Owned(blocks)
  BY <1>2, BlockFact
<1>7. /\ Disjoint'
      /\ Owned(blocks') = (Owned(blocks) \ Span(op.ptr, blocks[op.ptr])) \cup Span(op.ptr, op.size)
      /\ Owned(blocks') \subseteq Area
      /\ DOMAIN blocks' \subseteq Area
      /\ \A b \in DOMAIN blocks' : blocks'[b] \in Sizes
  <2>1. Span(op.ptr, op.size) \cap (Owned(blocks) \ Span(op.ptr, blocks[op.ptr])) = {}
    BY <1>3
  <2>. QED
    BY <1>2, <1>4, <1>5, <2>1, MoveBlock
<1>8. Owned(blocks') = Owned(blocks)
  BY <1>3, <1>6, <1>7
<1>9. ListOK' /\ FreeUnits' = FreeUnits /\ Nodes' = Nodes
  BY DEF IInv, ReallocSame, list, ListOK, Linked, Coalesced, RegionEnd, FreeUnits, Nodes
<1>10. Partitioned'
  BY <1>7, <1>8, <1>9 DEF IInv, Partitioned
<1>11. Types'
  BY <1>7, <1>9, HeapAssumption
  DEF IInv, Types, ReallocSame, list, Return, JMEM_PRESSURE_NONE, JMEM_PRESSURE_FULL
<1>12. WalkOK'
  BY DEF WalkOK, ReallocSame, Return, NoReq
<1>. QED
  BY <1>7, <1>9, <1>10, <1>11, <1>12 DEF IInv

\* The invariant is kept by ShrinkInsert.
LEMMA ShrinkInsertIInv ==
  ASSUME IInv, ShrinkInsert
  PROVE  IInv'
<1> DEFINE tail == op.ptr + Units(op.size)
           less == -Extra
<1>1. /\ op.kind = "realloc" /\ Extra < 0 /\ back = "idle" /\ ret = 0
      /\ prev \in Nodes /\ prev < op.ptr /\ next[prev] >= op.ptr
  BY DEF IInv, WalkOK, ShrinkInsert, Found, Finding
<1>2. /\ op.ptr \in DOMAIN blocks /\ op.ptr \in Nat /\ op.ptr >= 1
      /\ op.size \in Sizes /\ Units(op.size) \in Nat /\ Units(op.size) > 1
      /\ BlockUnits(op.ptr) \in Nat
      /\ Extra \in Int /\ Units(op.size) = BlockUnits(op.ptr) + Extra
  BY <1>1, ReallocFact
<1>3. /\ op.ptr \in Area /\ op.ptr + BlockUnits(op.ptr) <= HeapUnits + 1
      /\ Span(op.ptr, blocks[op.ptr]) = op.ptr .. (op.ptr + BlockUnits(op.ptr) - 1)
      /\ Span(op.ptr, blocks[op.ptr]) \subseteq Owned(blocks)
      /\ Span(op.ptr, blocks[op.ptr]) \cap FreeUnits = {}
  BY <1>2, BlockFact
<1>4. HeapUnits \in Nat /\ EndOfList \in Nat /\ EndOfList > HeapUnits + 1
  BY HeapAssumption, EndAssumption
<1>5. tail \in Area /\ less \in Nat /\ less > 0 /\ tail + less = op.ptr + BlockUnits(op.ptr)
  BY <1>1, <1>2, <1>3, <1>4 DEF Area
<1>6. tail .. (tail + less - 1) \subseteq Span(op.ptr, blocks[op.ptr])
  BY <1>1, <1>2, <1>3
<1>7. next[prev] >= tail /\ prev < tail
  <2>1. next[prev] = EndOfList \/ next[prev] \in Nodes
    BY <1>1 DEF IInv, ListOK, Linked
  <2>2. ASSUME next[prev] \in Nodes
        PROVE  RegionEnd(next[prev]) <= op.ptr \/ op.ptr + BlockUnits(op.ptr) <= next[prev]
    <3>1. Types /\ ListOK
      BY DEF IInv
    <3>2. (op.ptr .. (op.ptr + BlockUnits(op.ptr) - 1)) \cap FreeUnits = {}
      BY <1>3
    <3>3. BlockUnits(op.ptr) > 0
      BY <1>1, <1>2
    <3>. QED
      BY <1>2, <1>3, <2>2, <3>1, <3>2, <3>3, RunBetweenRegions
  <2>3. next[prev] \in Nodes => next[prev] # 0 /\ size[next[prev]] > 0 /\ size[next[prev]] \in Nat /\ next[prev] \in Nat
    BY <1>1, <1>2, <1>4 DEF IInv, Types, ListOK, Coalesced
  <2>4. prev \in Nat
    BY <1>1, <1>4 DEF IInv, Types
  <2>5. tail <= op.ptr + BlockUnits(op.ptr)
    BY <1>1, <1>2
  <2>6. CASE next[prev] = EndOfList
    BY <1>1, <1>2, <1>3, <1>4, <2>4, <2>5, <2>6
  <2>7. CASE next[prev] \in Nodes
    <3>1. op.ptr + BlockUnits(op.ptr) <= next[prev]
      BY <1>1, <1>2, <2>2, <2>3, <2>7 DEF RegionEnd
    <3>. QED
      BY <1>1, <1>2, <2>3, <2>4, <2>5, <2>7, <3>1
  <2>. QED
    BY <2>1, <2>6, <2>7
<1>8. /\ ListOK'
      /\ Nodes' \subseteq 0 .. HeapUnits /\ DOMAIN size' = Nodes'
      /\ FreeUnits' = FreeUnits \cup (tail .. (tail + less - 1))
  <2>1. Types /\ ListOK
    BY DEF IInv
  <2>2. (tail .. (tail + less - 1)) \cap FreeUnits = {} /\ tail + less <= HeapUnits + 1
    BY <1>3, <1>5, <1>6
  <2>3. Insert(tail, less)
    BY DEF ShrinkInsert
  <2>. HIDE DEF tail, less
  <2>. QED
    BY <1>1, <1>5, <1>7, <2>1, <2>2, <2>3, InsertKeepsList
<1>9. blocks' = Put(Drop(blocks, op.ptr), op.ptr, op.size)
  BY <1>2, PutDropBlock DEF ShrinkInsert
<1>10. Span(op.ptr, op.size) = op.ptr .. (op.ptr + Units(op.size) - 1)
  BY DEF Span
<1>11. Span(op.ptr, op.size) \subseteq Span(op.ptr, blocks[op.ptr])
  BY <1>1, <1>2, <1>3, <1>10
<1>12. /\ Disjoint'
       /\ Owned(blocks') = (Owned(blocks) \ Span(op.ptr, blocks[op.ptr])) \cup Span(op.ptr, op.size)
       /\ Owned(blocks') \subseteq Area
       /\ DOMAIN blocks' \subseteq Area
       /\ \A b \in DOMAIN blocks' : blocks'[b] \in Sizes
  <2>1. Span(op.ptr, op.size) \cap (Owned(blocks) \ Span(op.ptr, blocks[op.ptr])) = {}
    BY <1>11
  <2>2. op.ptr + Units(op.size) <= HeapUnits + 1
    BY <1>1, <1>2, <1>3, <1>4
  <2>. QED
    BY <1>2, <1>3, <1>9, <2>1, <2>2, MoveBlock
<1>13. Span(op.ptr, blocks[op.ptr]) = Span(op.ptr, op.size) \cup (tail .. (tail + less - 1))
  BY <1>1, <1>2, <1>3, <1>10
<1>14. Span(op.ptr, op.size) \cap (tail .. (tail + less - 1)) = {}
  BY <1>1, <1>2, <1>10
<1>15. Partitioned'
  <2>. HIDE DEF tail, less
  <2>. QED
    BY <1>3, <1>8, <1>12, <1>13, <1>14 DEF IInv, Partitioned
<1>16. Types'
  BY <1>1, <1>8, <1>12 DEF IInv, Types, ShrinkInsert
<1>17. WalkOK'
  BY <1>1 DEF IInv, WalkOK, ShrinkInsert, NoReq
<1>. QED
  BY <1>8, <1>12, <1>15, <1>16, <1>17 DEF IInv

\* "Managed to extend the block": what the three ways to grow in place share.
LEMMA ExtendedIInv ==
  ASSUME IInv, NEW a \in Area, Extended(a),
         op.kind = "realloc", ret = 0,
         a + Units(op.size) <= HeapUnits + 1,
         NEW run, run \subseteq FreeUnits,
         Span(a, op.size) = Span(op.ptr, blocks[op.ptr]) \cup run,
         ListOK', Nodes' \subseteq 0 .. HeapUnits, DOMAIN size' = Nodes',
         FreeUnits' = FreeUnits \ run
  PROVE  IInv'
<1>1. /\ op.ptr \in DOMAIN blocks /\ op.size \in Sizes
  BY ReallocFact
<1>2. /\ Span(op.ptr, blocks[op.ptr]) \subseteq Owned(blocks)
      /\ Span(op.ptr, blocks[op.ptr]) \cap FreeUnits = {}
  BY <1>1, BlockFact
<1>3. FreeUnits = Area \ Owned(blocks)
  BY DEF IInv, Partitioned
<1>4. Span(a, op.size) \cap (Owned(blocks) \ Span(op.ptr, blocks[op.ptr])) = {}
  BY <1>3
<1>5. blocks' = Put(Drop(blocks, op.ptr), a, op.size)
  BY DEF Extended
<1>6. /\ Disjoint'
      /\ Owned(blocks') = (Owned(blocks) \ Span(op.ptr, blocks[op.ptr])) \cup Span(a, op.size)
      /\ Owned(blocks') \subseteq Area
      /\ DOMAIN blocks' \subseteq Area
      /\ \A b \in DOMAIN blocks' : blocks'[b] \in Sizes
  BY <1>1, <1>4, <1>5, MoveBlock
<1>7. Partitioned'
  BY <1>2, <1>3, <1>6 DEF Partitioned
<1>8. Types'
  BY <1>6 DEF IInv, Types, Extended
<1>9. WalkOK'
  BY DEF WalkOK, Extended, NoReq
<1>. QED
  BY <1>6, <1>7, <1>8, <1>9 DEF IInv

\* The walk of a reallocation has found the predecessor of the block.
LEMMA GrowFact ==
  ASSUME IInv, Found("grow")
  PROVE  /\ op.kind = "realloc" /\ ret = 0 /\ Extra \in Nat /\ Extra > 0
         /\ prev \in Nodes /\ prev \in Nat /\ prev < op.ptr /\ next[prev] >= op.ptr
         /\ op.ptr \in DOMAIN blocks /\ op.ptr \in Area /\ op.ptr \in Nat
         /\ op.size \in Sizes /\ Units(op.size) \in Nat /\ BlockUnits(op.ptr) \in Nat
         /\ Units(op.size) = BlockUnits(op.ptr) + Extra
         /\ op.ptr + BlockUnits(op.ptr) <= HeapUnits + 1
         /\ Span(op.ptr, blocks[op.ptr]) = op.ptr .. (op.ptr + BlockUnits(op.ptr) - 1)
         /\ size[prev] \in Nat /\ next[prev] \in Nat
<1>1. /\ op.kind = "realloc" /\ ret = 0 /\ Extra > 0
      /\ prev \in Nodes /\ prev < op.ptr /\ next[prev] >= op.ptr
  BY DEF IInv, WalkOK, Found, Finding, Growing
<1>2. prev \in Nat /\ size[prev] \in Nat /\ next[prev] \in Nat
  BY <1>1, HeapAssumption DEF IInv, Types, ListOK
<1>3. /\ op.ptr \in DOMAIN blocks /\ op.size \in Sizes
      /\ Units(op.size) \in Nat /\ BlockUnits(op.ptr) \in Nat
      /\ Extra \in Int /\ Units(op.size) = BlockUnits(op.ptr) + Extra
  BY <1>1, ReallocFact
<1>. QED
  BY <1>1, <1>2, <1>3, BlockFact

\* The invariant is kept by ExtendEnd.
LEMMA ExtendEndIInv ==
  ASSUME IInv, ExtendEnd
  PROVE  IInv'
<1> DEFINE nxt == next[prev]
<1>1. Found("grow") /\ FitsNext /\ TakeFront(Extra) /\ Extended(op.ptr) /\ skip' = prev
  BY DEF ExtendEnd, Extended
<1>2. /\ op.kind = "realloc" /\ ret = 0 /\ Extra \in Nat /\ Extra > 0
      /\ prev \in Nodes
      /\ op.ptr \in Area /\ op.ptr \in Nat
      /\ Units(op.size) \in Nat /\ BlockUnits(op.ptr) \in Nat
      /\ Units(op.size) = BlockUnits(op.ptr) + Extra
      /\ op.ptr + BlockUnits(op.ptr) <= HeapUnits + 1
      /\ Span(op.ptr, blocks[op.ptr]) = op.ptr .. (op.ptr + BlockUnits(op.ptr) - 1)
  BY <1>1, GrowFact
<1>3. nxt = op.ptr + BlockUnits(op.ptr) /\ nxt # EndOfList /\ Extra <= size[nxt]
  BY <1>1, <1>2, EndAssumption, HeapAssumption DEF FitsNext, NextAdjoins
<1>4. /\ ListOK'
      /\ Nodes' \subseteq 0 .. HeapUnits /\ DOMAIN size' = Nodes'
      /\ FreeUnits' = FreeUnits \ (nxt .. (nxt + Extra - 1))
      /\ nxt .. (nxt + Extra - 1) \subseteq FreeUnits
      /\ nxt + Extra <= HeapUnits + 1
  BY <1>1, <1>2, <1>3, TakeFrontKeepsList DEF IInv
<1>5. Span(op.ptr, op.size) = op.ptr .. (op.ptr + Units(op.size) - 1)
  BY DEF Span
<1>6. Span(op.ptr, op.size) = Span(op.ptr, blocks[op.ptr]) \cup (nxt .. (nxt + Extra - 1))
  BY <1>2, <1>3, <1>5
<1>7. op.ptr + Units(op.size) <= HeapUnits + 1
  BY <1>2, <1>3, <1>4
<1>. QED
  BY <1>1, <1>2, <1>4, <1>6, <1>7, ExtendedIInv

\* The invariant is kept by ExtendFrontPart.
LEMMA ExtendFrontPartIInv ==
  ASSUME IInv, ExtendFrontPart
  PROVE  IInv'
<1> DEFINE a == op.ptr - Extra
<1>1. /\ Found("grow") /\ FitsPrev /\ Extra # size[prev] /\ Extended(a) /\ skip' = prev
      /\ Relink(Nodes, prev, next[prev], size[prev] - Extra, prev, 0, 0)
  BY DEF ExtendFrontPart, Extended
<1>2. /\ op.kind = "realloc" /\ ret = 0 /\ Extra \in Nat /\ Extra > 0
      /\ prev \in Nodes /\ prev \in Nat /\ size[prev] \in Nat
      /\ op.ptr \in Area /\ op.ptr \in Nat
      /\ Units(op.size) \in Nat /\ BlockUnits(op.ptr) \in Nat
      /\ Units(op.size) = BlockUnits(op.ptr) + Extra
      /\ op.ptr + BlockUnits(op.ptr) <= HeapUnits + 1
      /\ Span(op.ptr, blocks[op.ptr]) = op.ptr .. (op.ptr + BlockUnits(op.ptr) - 1)
  BY <1>1, GrowFact
<1>3. RegionEnd(prev) = op.ptr /\ Extra < size[prev]
  BY <1>1, <1>2 DEF FitsPrev, PrevAdjoins
<1>4. /\ ListOK'
      /\ Nodes' \subseteq 0 .. HeapUnits /\ DOMAIN size' = Nodes'
      /\ FreeUnits' = FreeUnits \ (a .. (op.ptr - 1))
      /\ a .. (op.ptr - 1) \subseteq FreeUnits
      /\ a \in Area
  <2>1. Types /\ ListOK
    BY DEF IInv
  <2>. QED
    BY <1>1, <1>2, <1>3, <2>1, TakeEndKeepsList
<1>5. Span(a, op.size) = a .. (a + Units(op.size) - 1)
  BY DEF Span
<1>6. Span(a, op.size) = Span(op.ptr, blocks[op.ptr]) \cup (a .. (op.ptr - 1))
  <2>1. /\ op.ptr \in Nat /\ Extra \in Nat /\ BlockUnits(op.ptr) \in Nat
        /\ Units(op.size) = BlockUnits(op.ptr) + Extra
    BY <1>2
  <2>2. a \in Int /\ a <= op.ptr
    BY <2>1
  <2>3. a + Units(op.size) - 1 = op.ptr + BlockUnits(op.ptr) - 1
    BY <2>1
  <2>4. Span(op.ptr, blocks[op.ptr]) = op.ptr .. (op.ptr + BlockUnits(op.ptr) - 1)
    BY <1>2
  <2>. HIDE DEF a
  <2>5. a .. (op.ptr + BlockUnits(op.ptr) - 1)
          = (op.ptr .. (op.ptr + BlockUnits(op.ptr) - 1)) \cup (a .. (op.ptr - 1))
    BY <2>1, <2>2, SplitRun
  <2>. QED
    BY <1>5, <2>3, <2>4, <2>5
<1>7. a + Units(op.size) <= HeapUnits + 1
  BY <1>2
<1>. HIDE DEF a
<1>. QED
  BY <1>1, <1>2, <1>4, <1>6, <1>7, ExtendedIInv

\* The invariant is kept by FrontUnlink.
LEMMA FrontUnlinkIInv ==
  ASSUME IInv, FrontUnlink
  PROVE  IInv'
<1>1. /\ Found("front") /\ TakeFront(size[target]) /\ Extended(target) /\ skip' = prev
  BY DEF FrontUnlink, Extended
<1>2. /\ op.kind = "realloc" /\ ret = 0 /\ Extra > 0
      /\ prev \in Nodes /\ prev < target /\ next[prev] >= target
      /\ target \in Nodes /\ target + size[target] = op.ptr /\ size[target] = Extra
  BY <1>1 DEF IInv, WalkOK, Found, Finding, Growing, RegionEnd
<1>3. /\ op.ptr \in DOMAIN blocks
      /\ Units(op.size) \in Nat /\ BlockUnits(op.ptr) \in Nat
      /\ Extra \in Int /\ Units(op.size) = BlockUnits(op.ptr) + Extra
  BY <1>2, ReallocFact
<1>4. /\ op.ptr \in Area /\ op.ptr \in Nat
      /\ op.ptr + BlockUnits(op.ptr) <= HeapUnits + 1
      /\ Span(op.ptr, blocks[op.ptr]) = op.ptr .. (op.ptr + BlockUnits(op.ptr) - 1)
  BY <1>3, BlockFact
<1>5. HeapUnits \in Nat /\ EndOfList \in Nat /\ EndOfList > HeapUnits + 1
  BY HeapAssumption, EndAssumption
<1>6. next[prev] = target /\ target # EndOfList /\ target \in Nat
  BY <1>2, <1>5 DEF IInv, Types, ListOK, Linked
<1>7. /\ ListOK'
      /\ Nodes' \subseteq 0 .. HeapUnits /\ DOMAIN size' = Nodes'
      /\ FreeUnits' = FreeUnits \ (target .. (target + Extra - 1))
      /\ target .. (target + Extra - 1) \subseteq FreeUnits
      /\ target \in Area
  <2>1. Types /\ ListOK
    BY DEF IInv
  <2>2. Extra \in Nat
    BY <1>2, <1>3
  <2>. QED
    BY <1>1, <1>2, <1>6, <2>1, <2>2, TakeFrontKeepsList
<1>8. Span(target, op.size) = target .. (target + Units(op.size) - 1)
  BY DEF Span
<1>9. Span(target, op.size) = Span(op.ptr, blocks[op.ptr]) \cup (target .. (target + Extra - 1))
  <2>1. /\ target <= op.ptr /\ target + Extra - 1 = op.ptr - 1
        /\ target + Units(op.size) - 1 = op.ptr + BlockUnits(op.ptr) - 1
    BY <1>2, <1>3, <1>4, <1>6
  <2>. QED
    BY <1>3, <1>4, <1>6, <1>8, <2>1, SplitRun
<1>10. target + Units(op.size) <= HeapUnits + 1
  BY <1>2, <1>3, <1>4, <1>5, <1>6
<1>. QED
  BY <1>1, <1>2, <1>7, <1>9, <1>10, ExtendedIInv

\* Every step keeps the invariant.
LEMMA NextIInv ==
  ASSUME IInv, [Next]_vars
  PROVE  IInv'
<1>1. CASE UNCHANGED vars
  <2>1. Types' /\ WalkOK'
    BY <1>1 DEF IInv, Types, WalkOK, Pending, Growing, Copying, Freeing, Finding,
       Extra, BlockUnits, RegionEnd, Nodes, vars, list, account, control
  <2>. QED
    BY <1>1, <2>1, SameHeap DEF vars
<1>2. CASE Fatal
  BY <1>1, <1>2 DEF Fatal
<1>3. CASE \E r \in Requests : Call(r)
  BY <1>3, CallIInv
<1>4. CASE AllocStep
  BY <1>4, EnterAllocIInv, FitSkipIInv, FitTakeIInv, FitRetryIInv, FitNullIInv,
     RaiseStepIInv, RaiseDoneIInv, RaiseCopiedIInv DEF AllocStep
<1>5. CASE FreeStep
  BY <1>5, EnterFreeIInv, StartReleaseIInv, FindStepIInv, FreeInsertIInv,
     LowerStepIInv, LowerDoneIInv, LowerGcIInv DEF FreeStep
<1>6. CASE ReallocStep
  BY <1>6, ReallocSameIInv, ReallocShrinkIInv, ShrinkInsertIInv, ReallocGrowIInv,
     GrowFindIInv, ExtendEndIInv, ExtendFrontPartIInv, ExtendFrontWholeIInv,
     FrontUnlinkIInv, GrowByCopyIInv, CopiedInsertIInv DEF ReallocStep
<1>7. CASE GcStep
  BY <1>7, GcDoneIInv, GcFreeIInv DEF GcStep
<1>. QED
  BY <1>1, <1>2, <1>3, <1>4, <1>5, <1>6, <1>7 DEF Next, Step

\* The inductive invariant holds in every state of every behaviour.
LEMMA HeapInvariant == Spec => []IInv
<1>1. Init => IInv
  BY InitIInv
<1>2. IInv /\ [Next]_vars => IInv'
  BY NextIInv
<1>. QED
  BY <1>1, <1>2, PTL DEF Spec

-----------------------------------------------------------------------------
(* What follows for the callers                                            *)

\* When jmem_heap_alloc reaches the end of the list there is no room: the run
\* that would hold the request lies within one free region, because no two
\* regions touch, and every region has been found too small.
LEMMA ExhaustedMeansFull == IInv => NoRoomMissed
<1>. SUFFICES ASSUME IInv, pc = "fit", next[prev] = EndOfList, Room(blocks, op.size)
              PROVE  FALSE
  BY DEF NoRoomMissed
<1> DEFINE n == Units(op.size)
<1>1. HeapUnits \in Nat /\ EndOfList \in Nat /\ EndOfList > HeapUnits + 1
  BY HeapAssumption, EndAssumption
<1>2. prev \in Nodes /\ \A a \in Nodes \ {0} : a <= prev => size[a] < n
  BY DEF IInv, WalkOK
<1>3. n \in Nat /\ n > 1
  BY RequestFact, UnitsFact DEF IInv, WalkOK, Pending
<1>4. \A a \in Nodes : a \in Nat /\ a <= HeapUnits /\ size[a] \in Nat
  BY <1>1 DEF IInv, Types, ListOK
<1>5. \A a \in Nodes : a <= prev
  BY <1>1, <1>2, <1>4 DEF IInv, ListOK, Linked
<1>6. PICK a \in Area : Span(a, op.size) \subseteq Area \ Owned(blocks)
  BY DEF Room, FreeFor
<1>7. a \in Nat /\ Span(a, op.size) = a .. (a + n - 1)
  BY <1>1 DEF Area, Span
<1>8. \A u \in a .. (a + n - 1) : \E r \in Nodes : u \in r .. (RegionEnd(r) - 1)
  BY <1>6, <1>7, FreeUnitsFact DEF IInv, Partitioned
<1>9. PICK r \in Nodes : a \in r .. (RegionEnd(r) - 1)
  BY <1>3, <1>7, <1>8
<1>10. r <= a /\ a < r + size[r] /\ r # 0 /\ size[r] < n
  BY <1>2, <1>4, <1>5, <1>7, <1>9 DEF RegionEnd, IInv, ListOK, Coalesced
<1>11. r + size[r] \in a .. (a + n - 1)
  BY <1>3, <1>4, <1>7, <1>10
<1>12. PICK q \in Nodes : r + size[r] \in q .. (RegionEnd(q) - 1)
  BY <1>8, <1>11
<1>13. q <= r + size[r] /\ r + size[r] < q + size[q]
  BY <1>4, <1>12 DEF RegionEnd
<1>14. (q < r => q + size[q] < r) /\ (r < q => r + size[r] < q)
  BY <1>4 DEF IInv, ListOK, Coalesced, RegionEnd
<1>. QED
  BY <1>4, <1>13, <1>14

\* The free list stays in address order and merged, blocks never overlap, and
\* every unit is free or in a block, through every allocation, free and
\* reallocation with collections in between (jmem-heap.c).
THEOREM FreeListCorrect == Spec => []FreeListSound
<1>1. IInv => FreeListSound
  BY DEF IInv, ListOK, FreeListSound
<1>. QED
  BY <1>1, HeapInvariant, PTL

\* jmem_heap_alloc gives up only when no contiguous free run would do.
THEOREM NoRoomIsMissed == Spec => []NoRoomMissed
BY ExhaustedMeansFull, HeapInvariant, PTL


-----------------------------------------------------------------------------
(* The refinement                                                          *)

\* What the refinement needs beyond IInv: the pressure reaches FULL only in
\* jjs_fatal, and the region taken for a copy has the requested size.
ContractInv ==
  /\ blocks = [b \in DOMAIN blocks |-> blocks[b]]
  /\ pressure = JMEM_PRESSURE_FULL => pc = "fatal"
  /\ ret # 0 => ret \in DOMAIN blocks /\ blocks[ret] = op.size

\* jmem_heap_init establishes it.
LEMMA InitContract == Init => ContractInv
BY DEF Init, ContractInv, JMEM_PRESSURE_NONE, JMEM_PRESSURE_FULL

\* Steps that leave the blocks and the copy alone.
LEMMA QuietContract ==
  ASSUME ContractInv, UNCHANGED <<blocks, op>>, ret' = ret \/ ret' = 0,
         pressure' = JMEM_PRESSURE_FULL => pc' = "fatal"
  PROVE  ContractInv'
BY DEF ContractInv

\* The allocation steps keep it.
LEMMA AllocContract ==
  ASSUME IInv, ContractInv, AllocStep
  PROVE  ContractInv'
<1> USE DEF JMEM_PRESSURE_NONE, JMEM_PRESSURE_LOW, JMEM_PRESSURE_HIGH, JMEM_PRESSURE_FULL
<1>1. CASE EnterAlloc
  BY <1>1, QuietContract DEF EnterAlloc, StartFit, ContractInv
<1>2. CASE FitSkip
  BY <1>2, QuietContract DEF FitSkip, ContractInv
<1>3. CASE FitTake
  BY <1>3 DEF FitTake, ContractInv, Put
<1>4. CASE FitRetry
  BY <1>4, QuietContract DEF FitRetry, ContractInv
<1>5. CASE FitNull
  BY <1>5 DEF FitNull, Return, ContractInv
<1>6. CASE RaiseStep \/ RaiseDone \/ RaiseCopied
  BY <1>6, QuietContract DEF RaiseStep, RaiseDone, RaiseCopied, Return, control, ContractInv
<1>. QED
  BY <1>1, <1>2, <1>3, <1>4, <1>5, <1>6 DEF AllocStep

\* The steps of jmem_heap_free_block keep it.
LEMMA FreeContract ==
  ASSUME IInv, ContractInv, FreeStep
  PROVE  ContractInv'
<1> USE DEF JMEM_PRESSURE_NONE, JMEM_PRESSURE_FULL
<1>1. CASE EnterFree \/ StartRelease \/ FindStep
  BY <1>1, QuietContract DEF EnterFree, StartRelease, FindStep, FindStart, ContractInv
<1>2. CASE FreeInsert
  <2>1. ret = 0
    BY <1>2 DEF FreeInsert, Found, IInv, WalkOK, Finding, Freeing
  <2>. QED
    BY <1>2, <2>1 DEF FreeInsert, Found, ContractInv, Drop
<1>3. CASE LowerStep \/ LowerDone \/ LowerGc
  BY <1>3, QuietContract DEF LowerStep, LowerDone, LowerGc, Return, control, ContractInv
<1>. QED
  BY <1>1, <1>2, <1>3 DEF FreeStep

\* "Managed to extend the block" keeps it.
LEMMA ExtendedContract ==
  ASSUME IInv, ContractInv, NEW a, Extended(a), pc = "find", todo \in {"grow", "front"}
  PROVE  ContractInv'
<1>1. ret = 0
  BY DEF IInv, WalkOK, Finding
<1>. QED
  BY <1>1 DEF Extended, ContractInv, Put, Drop

\* The steps of jmem_heap_realloc_block keep it.
LEMMA ReallocContract ==
  ASSUME IInv, ContractInv, ReallocStep
  PROVE  ContractInv'
<1> USE DEF JMEM_PRESSURE_NONE, JMEM_PRESSURE_LOW, JMEM_PRESSURE_FULL
<1>1. CASE ReallocSame
  BY <1>1 DEF ReallocSame, Return, ContractInv, Put
<1>2. CASE ReallocShrink \/ ReallocGrow \/ GrowFind \/ ExtendFrontWhole
  BY <1>2, QuietContract
  DEF ReallocShrink, ReallocGrow, GrowFind, ExtendFrontWhole, FindStart, Found, ContractInv
<1>3. CASE ShrinkInsert
  <2>1. ret = 0
    BY <1>3 DEF ShrinkInsert, Found, IInv, WalkOK, Finding
  <2>. QED
    BY <1>3, <2>1 DEF ShrinkInsert, Found, ContractInv, Put
<1>4. CASE ExtendEnd \/ ExtendFrontPart \/ FrontUnlink
  BY <1>4, ExtendedContract DEF ExtendEnd, ExtendFrontPart, FrontUnlink, Found
<1>5. CASE GrowByCopy
  BY <1>5, QuietContract DEF GrowByCopy, StartFit, ContractInv
<1>6. CASE CopiedInsert
  BY <1>6 DEF CopiedInsert, Return, ContractInv, Drop
<1>. QED
  BY <1>1, <1>2, <1>3, <1>4, <1>5, <1>6 DEF ReallocStep

\* Every step keeps it.
LEMMA NextContract ==
  ASSUME IInv, ContractInv, [Next]_vars
  PROVE  ContractInv'
<1>1. CASE UNCHANGED vars \/ Fatal
  BY <1>1, QuietContract DEF Fatal, vars, control, ContractInv
<1>2. CASE \E r \in Requests : Call(r)
  <2>1. ret = 0
    BY <1>2 DEF Call, IInv, WalkOK
  <2>. QED
    BY <1>2, <2>1 DEF Call, ContractInv, JMEM_PRESSURE_FULL
<1>3. CASE GcStep
  BY <1>3, QuietContract DEF GcStep, GcFree, GcDone, ContractInv
<1>. QED
  BY <1>1, <1>2, <1>3, AllocContract, FreeContract, ReallocContract DEF Next, Step

\* The two invariants together hold in every state of every behaviour.
LEMMA ContractInvariant == Spec => [](IInv /\ ContractInv)
<1>1. Init => ContractInv
  BY InitContract
<1>2. IInv /\ ContractInv /\ [Next]_vars => ContractInv'
  BY NextContract
<1>. QED
  BY <1>1, <1>2, HeapInvariant, PTL DEF Spec

-----------------------------------------------------------------------------
(* Every step is a step of JmemRegions or leaves its variables alone       *)

\* Taking away a block and putting another one back in, on functions.
LEMMA DropPut ==
  ASSUME NEW f, NEW a, NEW s, f = [x \in DOMAIN f |-> f[x]], a \notin DOMAIN f
  PROVE  Drop(Put(f, a, s), a) = f
<1>1. DOMAIN Put(f, a, s) = DOMAIN f \cup {a} /\ \A x \in DOMAIN f : Put(f, a, s)[x] = f[x]
  BY DEF Put
<1>. HIDE DEF Put
<1>2. Drop(Put(f, a, s), a) = [x \in DOMAIN f |-> f[x]]
  BY <1>1 DEF Drop
<1>. QED
  BY <1>2

\* Two different blocks: the order in which they leave does not matter.
LEMMA PutOverDrop ==
  ASSUME NEW f, NEW a \in DOMAIN f, NEW p \in DOMAIN f, a # p
  PROVE  Put(Drop(Drop(f, a), p), a, f[a]) = Drop(f, p)
<1>1. DOMAIN Drop(Drop(f, a), p) = DOMAIN f \ {a, p}
      /\ \A x \in DOMAIN f \ {a, p} : Drop(Drop(f, a), p)[x] = f[x]
  BY DEF Drop
<1>2. (DOMAIN f \ {a, p}) \cup {a} = DOMAIN f \ {p}
  OBVIOUS
<1>3. \A x \in DOMAIN f \ {p} : x # a => x \in DOMAIN f \ {a, p}
  OBVIOUS
<1>4. Put(Drop(Drop(f, a), p), a, f[a]) = [x \in DOMAIN f \ {p} |-> f[x]]
  BY <1>1, <1>2, <1>3 DEF Put
<1>. QED
  BY <1>4 DEF Drop

\* The operators of JmemUnits inside the instance are those outside it.
LEMMA RegionsOperators ==
  /\ Regions!Requests = Requests /\ Regions!NoReq = NoReq /\ Regions!Area = Area
  /\ \A f, a, s : Regions!FreeFor(f, a, s) <=> FreeFor(f, a, s)
  /\ \A f, s : Regions!Room(f, s) <=> Room(f, s)
  /\ \A f, a, s : Regions!Put(f, a, s) = Put(f, a, s)
  /\ \A f, a : Regions!Drop(f, a) = Drop(f, a)
  /\ Regions!JMEM_PRESSURE_FULL = JMEM_PRESSURE_FULL
<1> USE DEF JMEM_PRESSURE_FULL, Regions!JMEM_PRESSURE_FULL
<1>1. Regions!Requests = Requests
  BY DEF Requests, MaxPressures, JMEM_PRESSURE_HIGH, Area, Regions!Area,
     Regions!Requests, Regions!MaxPressures, Regions!JMEM_PRESSURE_HIGH
<1>2. Regions!NoReq = NoReq /\ Regions!Area = Area
  BY DEF NoReq, Regions!NoReq, Area, Regions!Area
<1>3. \A a, s : Regions!Span(a, s) = Span(a, s)
  BY DEF Span, Regions!Span, Units, Regions!Units, JMEM_ALIGNMENT, Regions!JMEM_ALIGNMENT
<1>4. \A f : Regions!Owned(f) = Owned(f)
  BY <1>3 DEF Owned, Regions!Owned
<1>5. \A f, a, s : Regions!FreeFor(f, a, s) <=> FreeFor(f, a, s)
  BY <1>2, <1>3, <1>4 DEF FreeFor, Regions!FreeFor
<1>6. \A f, s : Regions!Room(f, s) <=> Room(f, s)
  BY <1>2, <1>5 DEF Room, Regions!Room
<1>. QED
  BY <1>1, <1>2, <1>5, <1>6 DEF Put, Regions!Put, Drop, Regions!Drop

\* Steps the callers cannot see.
LEMMA QuietRegions ==
  ASSUME UNCHANGED <<blocks, op, ret>>, pc # "fatal", pc' # "fatal"
  PROVE  UNCHANGED Regions!vars
BY DEF Regions!vars, ClientBlocks

\* A free unit is not the address of a block.
LEMMA FreeNotBlock ==
  ASSUME IInv, NEW u \in FreeUnits
  PROVE  u \notin DOMAIN blocks
BY BlockFact

\* The abstract request is made when the call starts.
LEMMA CallRegions ==
  ASSUME IInv, NEW r \in Requests, Call(r)
  PROVE  Regions!Call(r)
<1>1. op = NoReq /\ ret = 0 /\ ret' = 0 /\ blocks' = blocks /\ pc = "idle" /\ pc' = "enter"
  BY DEF Call, IInv, WalkOK
<1>. QED
  BY <1>1, RegionsOperators DEF Call, Regions!Call, Regions!Idle, ClientBlocks

\* jmem_heap_alloc takes a region: the allocation is granted, and a copy is
\* not visible yet.
LEMMA FitTakeRegions ==
  ASSUME IInv, ContractInv, FitTake
  PROVE  (\E a \in Area : Regions!Grant(a)) \/ UNCHANGED Regions!vars
<1> DEFINE cur == next[prev]
           n   == Units(op.size)
<1>1. op.size \in Sizes /\ op.kind \in {"alloc", "realloc"} /\ n \in Nat /\ n > 1 /\ ret = 0
  BY RequestFact, UnitsFact DEF IInv, WalkOK, FitTake, Pending
<1>2. /\ cur .. (cur + n - 1) \subseteq FreeUnits
      /\ cur \in Area /\ cur + n <= HeapUnits + 1
  BY <1>1, TakeFrontKeepsList DEF IInv, WalkOK, FitTake
<1>3. Span(cur, op.size) = cur .. (cur + n - 1)
  BY DEF Span
<1>4. Span(cur, op.size) \subseteq Area \ Owned(blocks)
  BY <1>2, <1>3 DEF IInv, Partitioned
<1>5. cur \notin DOMAIN blocks
  <2>1. cur \in cur .. (cur + n - 1)
    BY <1>1, <1>2, HeapAssumption DEF Area
  <2>. QED
    BY <1>2, <2>1, FreeNotBlock
<1>6. blocks' = Put(blocks, cur, op.size) /\ pc = "fit" /\ pc' = "raise"
  BY DEF FitTake
<1>7. CASE op.kind = "alloc"
  <2>1. op' = NoReq /\ ret' = 0
    BY <1>7 DEF FitTake
  <2>2. Regions!Grant(cur)
    BY <1>1, <1>4, <1>6, <1>7, <2>1, RegionsOperators DEF Regions!Grant, FreeFor, ClientBlocks
  <2>. QED
    BY <1>2, <2>2
<1>8. CASE op.kind = "realloc"
  <2>1. op' = op /\ ret' = cur /\ cur # 0
    BY <1>2, <1>8, HeapAssumption DEF FitTake, Area
  <2>2. Drop(Put(blocks, cur, op.size), cur) = blocks
    BY <1>5, DropPut DEF ContractInv
  <2>3. ClientBlocks' = ClientBlocks
    BY <1>1, <1>6, <2>1, <2>2 DEF ClientBlocks
  <2>. QED
    BY <1>6, <2>1, <2>3 DEF Regions!vars
<1>. QED
  BY <1>1, <1>7, <1>8

\* NULL is returned, and the engine ends, only when there is no room.
LEMMA FitEndRegions ==
  ASSUME IInv, ContractInv, FitRetry \/ FitNull
  PROVE  Regions!OutOfMemory \/ Regions!Deny \/ UNCHANGED Regions!vars
<1> USE DEF JMEM_PRESSURE_NONE, JMEM_PRESSURE_HIGH, JMEM_PRESSURE_FULL
<1>1. ~Room(blocks, op.size)
  BY ExhaustedMeansFull DEF NoRoomMissed, FitRetry, FitNull
<1>2. /\ pc = "fit" /\ ret = 0 /\ op.kind \in {"alloc", "realloc"}
      /\ pressure \in 0 .. 3 /\ pressure # 3 /\ blocks' = blocks /\ ret' = 0
  BY DEF IInv, Types, WalkOK, Pending, ContractInv, FitRetry, FitNull, Return
<1>3. op.max \in {2, 3} /\ (op.kind = "realloc" => op.max = 3)
  BY <1>2 DEF IInv, Types, Requests, NoReq, MaxPressures
<1>4. ClientBlocks = blocks /\ ClientBlocks' = blocks
  BY <1>2 DEF ClientBlocks
<1>5. CASE FitNull
  <2>1. op.max < 3 /\ op.kind = "alloc" /\ op' = NoReq /\ pc' = "idle"
    BY <1>2, <1>3, <1>5 DEF FitNull, Return
  <2>2. Regions!Deny
    BY <1>1, <1>2, <1>4, <2>1, RegionsOperators DEF Regions!Deny
  <2>. QED
    BY <2>2
<1>6. CASE FitRetry /\ pressure + 1 = 3
  <2>1. op.max = 3 /\ op' = op /\ pc' = "fatal"
    BY <1>2, <1>3, <1>6 DEF FitRetry
  <2>2. Regions!OutOfMemory
    BY <1>1, <1>2, <1>4, <2>1, RegionsOperators DEF Regions!OutOfMemory
  <2>. QED
    BY <2>2
<1>7. CASE FitRetry /\ pressure + 1 # 3
  BY <1>2, <1>7, QuietRegions DEF FitRetry
<1>. QED
  BY <1>5, <1>6, <1>7

\* A block goes back: released by its owner or reclaimed by the collector.
LEMMA FreeInsertRegions ==
  ASSUME IInv, FreeInsert
  PROVE  Regions!Release \/ (\E a \in Area : Regions!Reclaim(a))
<1>1. /\ Freeing /\ pc = "find" /\ pc' = "lower" /\ ret = 0 /\ ret' = 0
      /\ target \in DOMAIN blocks /\ target \in Area
      /\ blocks' = Drop(blocks, target)
  BY DEF FreeInsert, Found, IInv, Types, WalkOK, Finding, Freeing
<1>2. CASE back = "idle"
  <2>1. op.kind = "free" /\ target = op.ptr /\ op' = NoReq
    BY <1>1, <1>2 DEF Freeing, FreeInsert
  <2>. QED
    BY <1>1, <2>1, RegionsOperators DEF Regions!Release, ClientBlocks
<1>3. CASE back = "gc"
  <2>1. op.kind \in {"alloc", "realloc"} /\ target # op.ptr /\ op' = op
    BY <1>1, <1>3 DEF Freeing, Pending, FreeInsert
  <2>2. Regions!Reclaim(target)
    BY <1>1, <2>1, RegionsOperators DEF Regions!Reclaim, ClientBlocks
  <2>. QED
    BY <1>1, <2>2
<1>. QED
  BY <1>2, <1>3 DEF IInv, Types

\* A reallocation that has put the block at a, which no other block has, took
\* units that were free or the block's own.
LEMMA ResizeSpace ==
  ASSUME IInv', NEW a, a \notin DOMAIN blocks \ {op.ptr},
         blocks' = Put(Drop(blocks, op.ptr), a, op.size)
  PROVE  FreeFor(Drop(blocks, op.ptr), a, op.size)
<1> DEFINE f == Drop(blocks, op.ptr)
<1>1. a \notin DOMAIN f
  BY DEF Drop
<1>2. /\ blocks'[a] = op.size /\ a \in DOMAIN blocks'
      /\ \A x \in DOMAIN f : x # a /\ x \in DOMAIN blocks' /\ blocks'[x] = f[x]
  BY <1>1 DEF Put
<1>3. Apart(blocks') /\ Owned(blocks') \subseteq Area
  BY DEF IInv, Disjoint, Partitioned
<1>. HIDE DEF f
<1>4. Span(a, op.size) \subseteq Area
  BY <1>2, <1>3, OwnedFact
<1>5. \A u \in Owned(f) : u \notin Span(a, op.size)
  BY <1>2, <1>3, OwnedFact DEF Apart
<1>6. FreeFor(f, a, op.size)
  BY <1>4, <1>5 DEF FreeFor
<1>. QED
  BY <1>6 DEF f

\* Such a reallocation is a Resize.
LEMMA ResizeRegions ==
  ASSUME IInv', op.kind = "realloc", op' = NoReq, ret = 0, ret' = 0,
         pc # "fatal", pc' # "fatal",
         NEW a \in Area, a \notin DOMAIN blocks \ {op.ptr},
         blocks' = Put(Drop(blocks, op.ptr), a, op.size)
  PROVE  Regions!Resize(a)
BY ResizeSpace, RegionsOperators DEF Regions!Resize, ClientBlocks

\* The reallocations that end in one step, and the tail of a shrunk block.
LEMMA InPlaceRegions ==
  ASSUME IInv, IInv', ReallocSame \/ ShrinkInsert
  PROVE  \E a \in Area : Regions!Resize(a)
<1>1. op.kind = "realloc" /\ ret = 0 /\ ret' = 0 /\ op' = NoReq
      /\ pc # "fatal" /\ pc' # "fatal" /\ blocks' = Put(blocks, op.ptr, op.size)
  BY DEF ReallocSame, ShrinkInsert, Return, Found, IInv, WalkOK, Finding
<1>2. op.ptr \in DOMAIN blocks /\ op.ptr \in Area
  BY <1>1, ReallocFact, BlockFact
<1>3. blocks' = Put(Drop(blocks, op.ptr), op.ptr, op.size)
  BY <1>1, <1>2, PutDropBlock
<1>. QED
  BY <1>1, <1>2, <1>3, ResizeRegions

\* The ways to grow a block without a copy: where the block is afterwards no
\* other block was.
LEMMA ExtendPlace ==
  ASSUME IInv, ExtendEnd \/ ExtendFrontPart \/ FrontUnlink
  PROVE  /\ op.kind = "realloc" /\ after = "grow" /\ ret = 0 /\ pc = "find"
         /\ \E a \in Area : Extended(a) /\ a \notin DOMAIN blocks \ {op.ptr}
<1>1. op.kind = "realloc" /\ after = "grow" /\ ret = 0 /\ pc = "find"
  BY DEF ExtendEnd, ExtendFrontPart, FrontUnlink, Found, IInv, WalkOK, Finding, Growing
<1>2. CASE ExtendEnd
  <2>1. Found("grow") /\ Extended(op.ptr)
    BY <1>2 DEF ExtendEnd
  <2>. QED
    BY <1>1, <2>1, GrowFact
<1>3. CASE ExtendFrontPart
  <2>1. Found("grow") /\ FitsPrev /\ Extra # size[prev] /\ Extended(op.ptr - Extra)
    BY <1>3 DEF ExtendFrontPart
  <2>2. /\ op.kind = "realloc" /\ ret = 0 /\ Extra \in Nat /\ Extra > 0
        /\ prev \in Nodes /\ prev \in Nat /\ size[prev] \in Nat
        /\ op.ptr \in Area /\ op.ptr \in Nat
    BY <2>1, GrowFact
  <2>3. op.ptr = prev + size[prev] /\ Extra < size[prev]
    BY <2>1, <2>2 DEF FitsPrev, PrevAdjoins, RegionEnd
  <2>4. op.ptr - Extra \in prev .. (RegionEnd(prev) - 1) /\ op.ptr - Extra \in Area
    BY <2>2, <2>3, HeapAssumption DEF RegionEnd, Area
  <2>5. op.ptr - Extra \notin DOMAIN blocks
    BY <2>2, <2>4, FreeUnitsFact, FreeNotBlock
  <2>. QED
    BY <1>1, <2>1, <2>4, <2>5
<1>4. CASE FrontUnlink
  <2>1. /\ Extended(target) /\ op.kind = "realloc" /\ ret = 0 /\ pc = "find"
        /\ target \in Nodes /\ prev \in Nodes /\ prev < target
    BY <1>4 DEF FrontUnlink, Found, IInv, WalkOK, Finding, Growing
  <2>2. target \in Area /\ target \in target .. (RegionEnd(target) - 1)
    BY <2>1, HeapAssumption DEF IInv, Types, ListOK, Coalesced, RegionEnd, Area
  <2>3. target \notin DOMAIN blocks
    BY <2>1, <2>2, FreeUnitsFact, FreeNotBlock
  <2>. QED
    BY <1>1, <2>1, <2>2, <2>3
<1>. QED
  BY <1>2, <1>3, <1>4

\* Growing without a copy is a Resize.
LEMMA ExtendRegions ==
  ASSUME IInv, IInv', ExtendEnd \/ ExtendFrontPart \/ FrontUnlink
  PROVE  \E a \in Area : Regions!Resize(a)
<1>1. PICK a \in Area : Extended(a) /\ a \notin DOMAIN blocks \ {op.ptr}
  BY ExtendPlace
<1>2. op.kind = "realloc" /\ ret = 0 /\ pc = "find"
  BY ExtendPlace
<1>3. Regions!Resize(a)
  BY <1>1, <1>2, ResizeRegions DEF Extended
<1>. QED
  BY <1>1, <1>3

\* The old block of a copy goes back: the block has moved to the new region.
LEMMA CopiedRegions ==
  ASSUME IInv, ContractInv, CopiedInsert
  PROVE  \E a \in Area : Regions!Resize(a)
<1>1. /\ op.kind = "realloc" /\ ret \in DOMAIN blocks /\ ret # 0 /\ ret # op.ptr
      /\ op.ptr \in DOMAIN blocks /\ blocks[ret] = op.size
      /\ blocks' = Drop(blocks, op.ptr)
      /\ op' = NoReq /\ ret' = 0 /\ pc = "find" /\ pc' = "idle"
  BY DEF CopiedInsert, Found, Return, IInv, WalkOK, Finding, Copying, ContractInv
<1> DEFINE f == Drop(Drop(blocks, ret), op.ptr)
<1>2. blocks' = Put(f, ret, op.size)
  BY <1>1, PutOverDrop
<1>3. DOMAIN f = DOMAIN blocks \ {ret, op.ptr} /\ \A x \in DOMAIN f : f[x] = blocks[x]
  BY DEF Drop
<1>. HIDE DEF f
<1>4. Span(ret, op.size) \subseteq Area /\ ret \in Area
  <2>1. Span(ret, blocks[ret]) \subseteq Owned(blocks) /\ ret \in Area
    BY <1>1, BlockFact
  <2>. QED
    BY <1>1, <2>1 DEF IInv, Partitioned
<1>5. \A u \in Owned(f) : u \notin Span(ret, op.size)
  BY <1>1, <1>3, OwnedFact DEF IInv, Disjoint, Apart
<1>6. FreeFor(f, ret, op.size)
  BY <1>4, <1>5 DEF FreeFor
<1>7. Regions!Resize(ret)
  BY <1>1, <1>2, <1>6, RegionsOperators DEF Regions!Resize, ClientBlocks, f
<1>. QED
  BY <1>4, <1>7

\* Every step is a step of the abstract allocator or invisible to it.
LEMMA NextRegions ==
  ASSUME IInv, ContractInv, IInv', [Next]_vars
  PROVE  [Regions!Next]_Regions!vars
<1>1. CASE UNCHANGED vars \/ Fatal
  BY <1>1 DEF Fatal, vars, control, Regions!vars, ClientBlocks
<1>2. CASE \E r \in Requests : Call(r)
  BY <1>2, CallRegions, RegionsOperators DEF Regions!Next
<1>3. CASE AllocStep
  <2>1. CASE EnterAlloc \/ FitSkip \/ RaiseStep \/ RaiseDone \/ RaiseCopied
    <3>1. UNCHANGED <<blocks, op>> /\ pc # "fatal" /\ pc' # "fatal"
      BY <2>1 DEF EnterAlloc, StartFit, FitSkip, RaiseStep, RaiseDone, RaiseCopied, Return, control
    <3>2. ret' = ret
      BY <2>1 DEF EnterAlloc, FitSkip, RaiseStep, RaiseDone, RaiseCopied, Return, control,
         IInv, WalkOK, Copying
    <3>. QED
      BY <3>1, <3>2, QuietRegions
  <2>. QED
    BY <1>3, <2>1, FitTakeRegions, FitEndRegions, RegionsOperators DEF AllocStep, Regions!Next
<1>4. CASE FreeStep
  <2>1. CASE EnterFree \/ StartRelease \/ FindStep \/ LowerStep \/ LowerDone \/ LowerGc
    <3>1. UNCHANGED <<blocks, op>> /\ pc # "fatal" /\ pc' # "fatal"
      BY <2>1 DEF EnterFree, StartRelease, FindStart, FindStep, LowerStep, LowerDone, LowerGc,
         Return, control
    <3>2. ret' = ret
      BY <2>1 DEF EnterFree, StartRelease, FindStep, LowerStep, LowerDone, LowerGc,
         Return, control, IInv, WalkOK
    <3>. QED
      BY <3>1, <3>2, QuietRegions
  <2>. QED
    BY <1>4, <2>1, FreeInsertRegions, RegionsOperators DEF FreeStep, Regions!Next
<1>5. CASE ReallocStep
  <2>1. CASE ReallocShrink \/ ReallocGrow \/ GrowFind \/ ExtendFrontWhole \/ GrowByCopy
    <3>1. UNCHANGED <<blocks, op, ret>> /\ pc # "fatal" /\ pc' # "fatal"
      BY <2>1 DEF ReallocShrink, ReallocGrow, GrowFind, ExtendFrontWhole, GrowByCopy,
         FindStart, StartFit, Found
    <3>. QED
      BY <3>1, QuietRegions
  <2>. QED
    BY <1>5, <2>1, InPlaceRegions, ExtendRegions, CopiedRegions, RegionsOperators
    DEF ReallocStep, Regions!Next
<1>6. CASE GcStep
  <2>1. UNCHANGED <<blocks, op, ret>> /\ pc # "fatal" /\ pc' # "fatal"
    BY <1>6 DEF GcStep, GcFree, GcDone
  <2>. QED
    BY <2>1, QuietRegions
<1>. QED
  BY <1>1, <1>2, <1>3, <1>4, <1>5, <1>6 DEF Next, Step

\* The free list of jmem-heap.c, with its splits, merges, skip pointer and
\* reallocation by copy, implements the allocator of JmemRegions: a block is
\* handed out on units nobody owns, moves only onto free units or its own, is
\* given back by its owner or by the collector, and a request is refused or
\* fatal only when no run of free units would hold it.
THEOREM HeapImplementsRegions == Spec => ImplementsRegions
<1>1. Init => Regions!Init
  BY RegionsOperators DEF Init, Regions!Init, ClientBlocks
<1>2. IInv /\ ContractInv /\ IInv' /\ [Next]_vars => [Regions!Next]_Regions!vars
  BY NextRegions
<1>. QED
  BY <1>1, <1>2, ContractInvariant, PTL DEF Spec, ImplementsRegions, Regions!Spec

-----------------------------------------------------------------------------
(* The account                                                             *)

\* A reallocation by copy grows its block, so the bytes taken off the account
\* come back with the new region.  The limit is never more than one gc_limit
\* above what was in use before the block left the account; only inside
\* jmem_heap_free_block, whose last loop lowers it, may it be higher.
AccountInv ==
  /\ allocated = JMEM_ALIGNMENT * (Cardinality(Owned(blocks)) - Suspended)
  /\ limit \in Nat
  /\ op.kind = "realloc" /\ after = "fit" => Extra > 0
  /\ pc # "raise" => limit >= allocated
  /\ pc # "lower" => limit <= allocated + GcLimit
                              + (IF ret = 0 THEN JMEM_ALIGNMENT * Suspended ELSE 0)

\* The blocks own finitely many units, and a block as many as its size says.
LEMMA OwnedFinite ==
  ASSUME IInv
  PROVE  /\ IsFiniteSet(Owned(blocks)) /\ Cardinality(Owned(blocks)) \in Nat
         /\ \A b \in DOMAIN blocks :
              /\ IsFiniteSet(Span(b, blocks[b]))
              /\ Cardinality(Span(b, blocks[b])) = BlockUnits(b)
              /\ BlockUnits(b) <= Cardinality(Owned(blocks))
<1>1. IsFiniteSet(Area)
  BY HeapAssumption, FS_Interval DEF Area
<1>2. IsFiniteSet(Owned(blocks)) /\ Cardinality(Owned(blocks)) \in Nat
  BY <1>1, FS_Subset, FS_CardinalityType DEF IInv, Partitioned
<1>3. ASSUME NEW b \in DOMAIN blocks
      PROVE  /\ IsFiniteSet(Span(b, blocks[b]))
             /\ Cardinality(Span(b, blocks[b])) = BlockUnits(b)
             /\ BlockUnits(b) <= Cardinality(Owned(blocks))
  <2>1. /\ b \in Nat /\ BlockUnits(b) \in Nat /\ BlockUnits(b) > 1
        /\ Span(b, blocks[b]) = b .. (b + BlockUnits(b) - 1)
        /\ Span(b, blocks[b]) \subseteq Owned(blocks)
    BY BlockFact
  <2>2. /\ IsFiniteSet(b .. (b + BlockUnits(b) - 1))
        /\ Cardinality(b .. (b + BlockUnits(b) - 1)) = BlockUnits(b)
    BY <2>1, FS_Interval
  <2>3. Cardinality(Span(b, blocks[b])) <= Cardinality(Owned(blocks))
    BY <1>2, <2>1, FS_Subset
  <2>. QED
    BY <2>1, <2>2, <2>3
<1>. QED
  BY <1>2, <1>3

\* The size of the union of two sets that share nothing.
LEMMA DisjointUnion ==
  ASSUME NEW S, NEW T, IsFiniteSet(S), IsFiniteSet(T), S \cap T = {}
  PROVE  IsFiniteSet(S \cup T) /\ Cardinality(S \cup T) = Cardinality(S) + Cardinality(T)
<1>1. Cardinality(S \cap T) = 0
  BY FS_EmptySet
<1>2. Cardinality(S) \in Nat /\ Cardinality(T) \in Nat
  BY FS_CardinalityType
<1>3. /\ IsFiniteSet(S \cup T)
      /\ Cardinality(S \cup T) = Cardinality(S) + Cardinality(T) - Cardinality(S \cap T)
  BY FS_Union
<1>. QED
  BY <1>1, <1>2, <1>3

\* Two different blocks fit into what is owned.
LEMMA TwoBlocks ==
  ASSUME IInv, NEW b \in DOMAIN blocks, NEW c \in DOMAIN blocks, b # c
  PROVE  BlockUnits(b) + BlockUnits(c) <= Cardinality(Owned(blocks))
<1> DEFINE S == Span(b, blocks[b])
           T == Span(c, blocks[c])
<1>1. /\ IsFiniteSet(S) /\ Cardinality(S) = BlockUnits(b)
      /\ IsFiniteSet(T) /\ Cardinality(T) = BlockUnits(c)
      /\ BlockUnits(b) \in Nat /\ BlockUnits(c) \in Nat
      /\ S \subseteq Owned(blocks) /\ T \subseteq Owned(blocks)
      /\ IsFiniteSet(Owned(blocks))
  BY OwnedFinite, BlockFact
<1>2. S \cap T = {}
  BY DEF IInv, Disjoint, Apart
<1>. HIDE DEF S, T
<1>3. Cardinality(S \cup T) = BlockUnits(b) + BlockUnits(c)
  BY <1>1, <1>2, DisjointUnion
<1>4. S \cup T \in SUBSET Owned(blocks)
  BY <1>1
<1>5. Cardinality(S \cup T) <= Cardinality(Owned(blocks))
  BY <1>1, <1>4, FS_Subset
<1>. QED
  BY <1>3, <1>5

\* What is suspended is part of what is owned, so the account is a number.
LEMMA AccountIsNat ==
  ASSUME IInv, AccountInv
  PROVE  /\ allocated \in Nat /\ Suspended \in Nat
         /\ Cardinality(Owned(blocks)) \in Nat /\ Suspended <= Cardinality(Owned(blocks))
<1>1. Suspended \in Nat /\ Suspended <= Cardinality(Owned(blocks)) /\ Cardinality(Owned(blocks)) \in Nat
  BY OwnedFinite, ReallocFact DEF Suspended
<1>. QED
  BY <1>1 DEF AccountInv, JMEM_ALIGNMENT

\* Freeing a block finds its bytes on the account.
LEMMA FreeingCovered ==
  ASSUME IInv, AccountInv, Freeing
  PROVE  allocated >= JMEM_ALIGNMENT * BlockUnits(target) /\ allocated > 0
<1>1. /\ target \in DOMAIN blocks /\ BlockUnits(target) \in Nat /\ BlockUnits(target) > 1
      /\ back \in {"idle", "gc"}
  BY BlockFact DEF Freeing, IInv, Types
<1>2. BlockUnits(target) + Suspended <= Cardinality(Owned(blocks))
  <2>1. CASE op.kind = "realloc" /\ after = "fit"
    <3>1. target # op.ptr /\ op.ptr \in DOMAIN blocks
      BY <1>1, <2>1, ReallocFact DEF Freeing
    <3>. QED
      BY <1>1, <2>1, <3>1, TwoBlocks DEF Suspended
  <2>2. CASE ~(op.kind = "realloc" /\ after = "fit")
    BY <1>1, <2>2, OwnedFinite DEF Suspended
  <2>. QED
    BY <2>1, <2>2
<1>. QED
  BY <1>1, <1>2, AccountIsNat DEF AccountInv, JMEM_ALIGNMENT


\* A new block on free units is counted.
LEMMA CountPut ==
  ASSUME NEW f, NEW a \in Area, NEW s \in Sizes, IsFiniteSet(Owned(f)), Apart(f),
         a \notin DOMAIN f, FreeFor(f, a, s)
  PROVE  Cardinality(Owned(Put(f, a, s))) = Cardinality(Owned(f)) + Units(s)
<1>1. a \in Nat /\ Units(s) \in Nat /\ Units(s) > 1
  BY UnitsFact, HeapAssumption DEF Area
<1>2. IsFiniteSet(Span(a, s)) /\ Cardinality(Span(a, s)) = Units(s)
  <2> DEFINE z == a + Units(s) - 1
  <2>1. a \in Int /\ z \in Int /\ ~(a > z) /\ z - a + 1 = Units(s)
    BY <1>1
  <2>. HIDE DEF z
  <2>2. IsFiniteSet(a .. z) /\ Cardinality(a .. z) = Units(s)
    BY <2>1, FS_Interval
  <2>. QED
    BY <2>2 DEF Span, z
<1>3. Owned(f) \cap Span(a, s) = {}
  BY DEF FreeFor
<1>4. Owned(Put(f, a, s)) = Owned(f) \cup Span(a, s)
  BY <1>3, PutBlock
<1>. QED
  BY <1>2, <1>3, <1>4, DisjointUnion

\* A block given back is not counted any more.
LEMMA CountDrop ==
  ASSUME IInv, NEW b \in DOMAIN blocks
  PROVE  /\ IsFiniteSet(Owned(Drop(blocks, b)))
         /\ Cardinality(Owned(Drop(blocks, b))) \in Nat
         /\ Cardinality(Owned(blocks)) = Cardinality(Owned(Drop(blocks, b))) + BlockUnits(b)
<1> DEFINE R == Owned(Drop(blocks, b))
           S == Span(b, blocks[b])
<1>1. R = Owned(blocks) \ S /\ S \subseteq Owned(blocks)
  BY DropBlock DEF IInv, Disjoint
<1>2. /\ IsFiniteSet(Owned(blocks)) /\ IsFiniteSet(S) /\ Cardinality(S) = BlockUnits(b)
  BY OwnedFinite
<1>. HIDE DEF R, S
<1>3. IsFiniteSet(R) /\ Cardinality(R) \in Nat
  <2>1. IsFiniteSet(Owned(blocks) \ S)
    BY <1>2, FS_Difference
  <2>2. IsFiniteSet(R)
    BY <1>1, <2>1
  <2>. QED
    BY <2>2, FS_CardinalityType
<1>4. R \cap S = {} /\ R \cup S = Owned(blocks)
  BY <1>1
<1>5. Cardinality(Owned(blocks)) = Cardinality(R) + Cardinality(S)
  BY <1>2, <1>3, <1>4, DisjointUnion
<1>. QED
  BY <1>2, <1>3, <1>5 DEF R

\* A resized block counts with its new size.
LEMMA CountResize ==
  ASSUME IInv, IInv', op.kind = "realloc",
         NEW a \in Area, a \notin DOMAIN blocks \ {op.ptr},
         blocks' = Put(Drop(blocks, op.ptr), a, op.size)
  PROVE  Cardinality(Owned(blocks')) = Cardinality(Owned(blocks)) + Extra
<1> DEFINE f == Drop(blocks, op.ptr)
<1>1. /\ op.ptr \in DOMAIN blocks /\ op.size \in Sizes /\ BlockUnits(op.ptr) \in Nat
      /\ Units(op.size) = BlockUnits(op.ptr) + Extra /\ Extra \in Int
  BY ReallocFact
<1>2. FreeFor(f, a, op.size)
  BY ResizeSpace
<1>3. /\ IsFiniteSet(Owned(f)) /\ Cardinality(Owned(f)) \in Nat
      /\ Cardinality(Owned(blocks)) = Cardinality(Owned(f)) + BlockUnits(op.ptr)
  BY <1>1, CountDrop
<1>4. Apart(f) /\ a \notin DOMAIN f
  BY <1>1, DropBlock DEF IInv, Disjoint, Drop
<1>. HIDE DEF f
<1>5. Cardinality(Owned(Put(f, a, op.size))) = Cardinality(Owned(f)) + Units(op.size)
  BY <1>1, <1>2, <1>3, <1>4, CountPut
<1>. QED
  BY <1>1, <1>3, <1>5 DEF f


\* Steps that leave the blocks and the account alone and neither start nor
\* end a copy.
LEMMA QuietAccount ==
  ASSUME IInv, AccountInv, UNCHANGED <<blocks, allocated, limit, ret>>,
         op'.kind = "realloc" /\ after' = "fit" <=> op.kind = "realloc" /\ after = "fit",
         op.kind = "realloc" /\ after = "fit" => op' = op,
         pc' # "raise" => limit >= allocated,
         pc' # "lower" => pc # "lower" \/ limit <= allocated + GcLimit
  PROVE  AccountInv'
<1>1. Suspended' = Suspended /\ Suspended \in Nat /\ allocated \in Nat
  BY AccountIsNat DEF Suspended, BlockUnits
<1>2. op'.kind = "realloc" /\ after' = "fit" => (Extra > 0)'
  BY DEF AccountInv, Extra, BlockUnits
<1>3. limit \in Nat /\ GcLimit \in Nat
  BY GcLimitAssumption DEF AccountInv
<1>4. pc' # "lower" => limit <= allocated + GcLimit
                              + (IF ret = 0 THEN JMEM_ALIGNMENT * Suspended ELSE 0)
  BY <1>1, <1>3 DEF AccountInv, JMEM_ALIGNMENT
<1>. QED
  BY <1>1, <1>2, <1>4 DEF AccountInv

\* The steps that move the limit.
LEMMA LimitAccount ==
  ASSUME IInv, AccountInv, RaiseStep \/ LowerStep
  PROVE  AccountInv'
<1>1. UNCHANGED <<blocks, allocated, op, after, ret, pc>>
  BY DEF RaiseStep, LowerStep, control
<1>2. Suspended' = Suspended /\ Suspended \in Nat /\ allocated \in Nat
  BY <1>1, AccountIsNat DEF Suspended, BlockUnits
<1>3. op'.kind = "realloc" /\ after' = "fit" => (Extra > 0)'
  BY <1>1 DEF AccountInv, Extra, BlockUnits
<1>4. limit \in Nat /\ GcLimit \in Nat
  BY GcLimitAssumption DEF AccountInv
<1>5. CASE RaiseStep
  <2>1. pc = "raise" /\ allocated >= limit /\ limit' = limit + GcLimit
    BY <1>5 DEF RaiseStep
  <2>2. limit' \in Nat /\ limit' <= allocated + GcLimit
                              + (IF ret = 0 THEN JMEM_ALIGNMENT * Suspended ELSE 0)
    BY <1>2, <1>4, <2>1 DEF JMEM_ALIGNMENT
  <2>. QED
    BY <1>1, <1>2, <1>3, <2>1, <2>2 DEF AccountInv
<1>6. CASE LowerStep
  <2>1. pc = "lower" /\ allocated + GcLimit <= limit /\ limit' = limit - GcLimit
    BY <1>6 DEF LowerStep
  <2>2. limit' \in Nat /\ limit' >= allocated
    BY <1>2, <1>4, <2>1
  <2>. QED
    BY <1>1, <1>2, <1>3, <2>1, <2>2 DEF AccountInv
<1>. QED
  BY <1>5, <1>6

\* A region is taken: for an allocation, or for a copy whose old block is off
\* the account.
LEMMA FitTakeAccount ==
  ASSUME IInv, AccountInv, FitTake
  PROVE  AccountInv'
<1> DEFINE cur == next[prev]
           n   == Units(op.size)
           C   == Cardinality(Owned(blocks))
<1>1. /\ op.size \in Sizes /\ op.kind \in {"alloc", "realloc"} /\ n \in Nat /\ n > 1
      /\ ret = 0 /\ after = "fit" /\ pc = "fit"
  BY RequestFact, UnitsFact DEF IInv, WalkOK, FitTake, Pending
<1>2. /\ cur .. (cur + n - 1) \subseteq FreeUnits
      /\ cur \in Area /\ cur + n <= HeapUnits + 1
  BY <1>1, TakeFrontKeepsList DEF IInv, WalkOK, FitTake
<1>3. FreeFor(blocks, cur, op.size)
  BY <1>2 DEF FreeFor, Span, IInv, Partitioned
<1>4. cur \notin DOMAIN blocks
  <2>1. cur \in cur .. (cur + n - 1)
    BY <1>1, <1>2, HeapAssumption DEF Area
  <2>. QED
    BY <1>2, <2>1, FreeNotBlock
<1>5. /\ blocks' = Put(blocks, cur, op.size) /\ pc' = "raise" /\ limit' = limit /\ after' = after
      /\ allocated' = allocated + n * JMEM_ALIGNMENT
  BY DEF FitTake
<1>6. Cardinality(Owned(blocks')) = C + n
  <2>1. IsFiniteSet(Owned(blocks)) /\ Apart(blocks)
    BY OwnedFinite DEF IInv, Disjoint
  <2>. QED
    BY <1>1, <1>2, <1>3, <1>4, <1>5, <2>1, CountPut
<1>7. allocated \in Nat /\ Suspended \in Nat /\ C \in Nat /\ limit \in Nat /\ GcLimit \in Nat
  BY AccountIsNat, GcLimitAssumption DEF AccountInv
<1>8. CASE op.kind = "alloc"
  <2>1. op' = NoReq /\ ret' = 0
    BY <1>8 DEF FitTake
  <2>2. Suspended = 0 /\ Suspended' = 0
    BY <1>8, <2>1 DEF Suspended, NoReq
  <2>3. limit <= allocated + GcLimit
    BY <1>1, <1>7, <2>2 DEF AccountInv, JMEM_ALIGNMENT
  <2>. QED
    BY <1>1, <1>5, <1>6, <1>7, <2>1, <2>2, <2>3 DEF AccountInv, JMEM_ALIGNMENT, NoReq
<1>9. CASE op.kind = "realloc"
  <2>1. op' = op /\ ret' = cur /\ cur # 0 /\ op.ptr \in DOMAIN blocks
    BY <1>2, <1>9, HeapAssumption, ReallocFact DEF FitTake, Area
  <2>2. blocks'[op.ptr] = blocks[op.ptr]
    BY <1>4, <1>5, <2>1 DEF Put
  <2>3. Suspended = BlockUnits(op.ptr) /\ Suspended' = Suspended
    BY <1>1, <1>5, <1>9, <2>1, <2>2 DEF Suspended, BlockUnits
  <2>4. Extra > 0 /\ n = BlockUnits(op.ptr) + Extra /\ Extra \in Int /\ (Extra > 0)'
    BY <1>1, <1>9, <2>1, <2>2, ReallocFact DEF AccountInv, Extra, BlockUnits
  <2>5. limit <= allocated + GcLimit + JMEM_ALIGNMENT * Suspended
    BY <1>1, <1>9 DEF AccountInv
  <2>6. limit <= allocated' + GcLimit
    BY <1>5, <1>7, <2>3, <2>4, <2>5 DEF JMEM_ALIGNMENT
  <2>7. allocated' = JMEM_ALIGNMENT * (Cardinality(Owned(blocks')) - Suspended')
    BY <1>1, <1>5, <1>6, <1>7, <2>3 DEF AccountInv, JMEM_ALIGNMENT
  <2>. QED
    BY <1>5, <1>7, <2>1, <2>4, <2>6, <2>7 DEF AccountInv
<1>. QED
  BY <1>1, <1>8, <1>9

\* A block freed by its owner or by the collector leaves the account.
LEMMA FreeInsertAccount ==
  ASSUME IInv, AccountInv, FreeInsert
  PROVE  AccountInv'
<1> DEFINE C == Cardinality(Owned(blocks))
           D == Cardinality(Owned(Drop(blocks, target)))
<1>1. /\ Freeing /\ pc = "find" /\ pc' = "lower" /\ ret = 0 /\ ret' = 0
      /\ target \in DOMAIN blocks
      /\ blocks' = Drop(blocks, target) /\ after' = after /\ limit' = limit
      /\ allocated' = allocated - BlockUnits(target) * JMEM_ALIGNMENT
  BY DEF FreeInsert, Found, IInv, WalkOK, Finding, Freeing
<1>2. C = D + BlockUnits(target) /\ D \in Nat /\ BlockUnits(target) \in Nat
  BY <1>1, CountDrop, BlockFact
<1>3. allocated \in Nat /\ Suspended \in Nat /\ limit \in Nat /\ limit >= allocated
  BY <1>1, AccountIsNat DEF AccountInv
<1>4. Suspended' = Suspended /\ (op'.kind = "realloc" /\ after' = "fit" => (Extra > 0)')
  <2>1. CASE op.kind = "realloc" /\ after = "fit"
    <3>1. back = "gc" /\ target # op.ptr /\ op.ptr \in DOMAIN blocks
      BY <1>1, <2>1, ReallocFact DEF Freeing, IInv, Types
    <3>2. op' = op /\ blocks'[op.ptr] = blocks[op.ptr]
      BY <1>1, <3>1 DEF FreeInsert, Drop
    <3>. QED
      BY <1>1, <2>1, <3>2 DEF Suspended, Extra, BlockUnits, AccountInv
  <2>2. CASE ~(op.kind = "realloc" /\ after = "fit")
    <3>1. ~(op'.kind = "realloc" /\ after' = "fit")
      BY <1>1, <2>2 DEF FreeInsert, NoReq
    <3>. QED
      BY <2>2, <3>1 DEF Suspended
  <2>. QED
    BY <2>1, <2>2
<1>5. allocated' = JMEM_ALIGNMENT * (D - Suspended) /\ limit >= allocated'
  BY <1>1, <1>2, <1>3 DEF AccountInv, JMEM_ALIGNMENT
<1>. QED
  BY <1>1, <1>3, <1>4, <1>5 DEF AccountInv

\* The old block of a copy goes back: its bytes are already off the account.
LEMMA CopiedAccount ==
  ASSUME IInv, AccountInv, CopiedInsert
  PROVE  AccountInv'
<1>1. /\ op.kind = "realloc" /\ after = "fit" /\ ret # 0 /\ pc = "find"
      /\ op.ptr \in DOMAIN blocks /\ blocks' = Drop(blocks, op.ptr)
      /\ op' = NoReq /\ after' = "none" /\ ret' = 0 /\ pc' = "idle"
      /\ allocated' = allocated /\ limit' = limit
  BY DEF CopiedInsert, Found, Return, IInv, WalkOK, Finding, Copying, account
<1>2. Suspended = BlockUnits(op.ptr) /\ Suspended' = 0
  BY <1>1 DEF Suspended, NoReq
<1>3. /\ Cardinality(Owned(blocks)) = Cardinality(Owned(blocks')) + BlockUnits(op.ptr)
      /\ Cardinality(Owned(blocks')) \in Nat /\ BlockUnits(op.ptr) \in Nat
  BY <1>1, CountDrop, BlockFact
<1>4. allocated = JMEM_ALIGNMENT * Cardinality(Owned(blocks'))
  BY <1>2, <1>3 DEF AccountInv, JMEM_ALIGNMENT
<1>5. limit >= allocated /\ limit <= allocated + GcLimit /\ limit \in Nat /\ allocated \in Nat /\ GcLimit \in Nat
  BY <1>1, AccountIsNat, GcLimitAssumption DEF AccountInv
<1>. QED
  BY <1>1, <1>2, <1>3, <1>4, <1>5 DEF AccountInv, NoReq, JMEM_ALIGNMENT

\* A block resized in place counts with its new size.
LEMMA ResizeAccount ==
  ASSUME IInv, IInv', AccountInv,
         op.kind = "realloc", op' = NoReq, after # "fit", ret = 0, ret' = 0,
         pc \in {"enter", "find"}, limit' = limit,
         NEW a \in Area, a \notin DOMAIN blocks \ {op.ptr},
         blocks' = Put(Drop(blocks, op.ptr), a, op.size),
         allocated' = allocated + Extra * JMEM_ALIGNMENT,
         \/ Extra = 0 /\ pc' = "idle"
         \/ Extra < 0 /\ pc' = "lower"
         \/ Extra > 0 /\ pc' = "raise"
  PROVE  AccountInv'
<1>1. Cardinality(Owned(blocks')) = Cardinality(Owned(blocks)) + Extra /\ Extra \in Int
  BY CountResize, ReallocFact
<1>2. Suspended = 0 /\ Suspended' = 0
  BY DEF Suspended, NoReq
<1>3. allocated \in Nat /\ Cardinality(Owned(blocks)) \in Nat
  BY AccountIsNat
<1>4. /\ limit >= allocated /\ limit <= allocated + GcLimit
      /\ limit \in Nat /\ GcLimit \in Nat
  BY <1>2, <1>3, GcLimitAssumption DEF AccountInv, JMEM_ALIGNMENT
<1>5. allocated' = JMEM_ALIGNMENT * (Cardinality(Owned(blocks')) - 0)
  BY <1>1, <1>2, <1>3 DEF AccountInv, JMEM_ALIGNMENT
<1>6. /\ pc' # "raise" => limit >= allocated'
      /\ pc' # "lower" => limit <= allocated' + GcLimit + 0
  BY <1>1, <1>3, <1>4 DEF JMEM_ALIGNMENT
<1>. QED
  BY <1>2, <1>4, <1>5, <1>6 DEF AccountInv, NoReq, JMEM_ALIGNMENT

\* Neither neighbour helps: the old block leaves the account.
LEMMA GrowByCopyAccount ==
  ASSUME IInv, AccountInv, GrowByCopy
  PROVE  AccountInv'
<1>1. /\ op.kind = "realloc" /\ after = "grow" /\ Extra > 0 /\ ret = 0 /\ pc = "find"
      /\ op' = op /\ after' = "fit" /\ ret' = 0 /\ blocks' = blocks /\ limit' = limit
      /\ pc' \in {"gc", "fit"}
      /\ allocated' = allocated - BlockUnits(op.ptr) * JMEM_ALIGNMENT
  BY DEF GrowByCopy, StartFit, Found, IInv, WalkOK, Finding, Growing
<1>2. BlockUnits(op.ptr) \in Nat /\ BlockUnits(op.ptr) <= Cardinality(Owned(blocks))
  BY <1>1, ReallocFact, OwnedFinite
<1>3. Suspended = 0 /\ Suspended' = BlockUnits(op.ptr) /\ (Extra > 0)'
  BY <1>1 DEF Suspended, BlockUnits, Extra
<1>4. allocated \in Nat /\ Cardinality(Owned(blocks)) \in Nat /\ limit \in Nat /\ GcLimit \in Nat
      /\ limit >= allocated /\ limit <= allocated + GcLimit
  BY <1>1, <1>3, AccountIsNat, GcLimitAssumption DEF AccountInv, JMEM_ALIGNMENT
<1>5. /\ allocated' = JMEM_ALIGNMENT * (Cardinality(Owned(blocks)) - BlockUnits(op.ptr))
      /\ limit >= allocated'
      /\ limit <= allocated' + GcLimit + JMEM_ALIGNMENT * BlockUnits(op.ptr)
  BY <1>1, <1>2, <1>3, <1>4 DEF AccountInv, JMEM_ALIGNMENT
<1>. QED
  BY <1>1, <1>3, <1>4, <1>5 DEF AccountInv

\* Every step keeps the account.
LEMMA NextAccount ==
  ASSUME IInv, ContractInv, IInv', AccountInv, [Next]_vars
  PROVE  AccountInv'
<1>1. CASE UNCHANGED vars \/ Fatal
  BY <1>1 DEF Fatal, vars, account, control, AccountInv, Suspended, Extra, BlockUnits
<1>2. CASE \E r \in Requests : Call(r)
  <2>1. /\ UNCHANGED <<blocks, allocated, limit, ret, after>>
        /\ pc = "idle" /\ pc' = "enter" /\ after = "none"
    BY <1>2 DEF Call, account, IInv, WalkOK
  <2>. QED
    BY <2>1, QuietAccount DEF AccountInv
<1>3. CASE GcStep
  <2>1. /\ UNCHANGED <<blocks, allocated, limit, ret, op, after>>
        /\ pc = "gc" /\ pc' \in {"fit", "grow", "release"}
    BY <1>3 DEF GcStep, GcFree, GcDone, account
  <2>. QED
    BY <2>1, QuietAccount DEF AccountInv
<1>4. CASE AllocStep
  <2>1. CASE EnterAlloc
    <3>1. /\ UNCHANGED <<blocks, allocated, limit, ret, op>> /\ op.kind = "alloc"
          /\ pc = "enter" /\ pc' \in {"gc", "fit"}
      BY <2>1 DEF EnterAlloc, StartFit, account
    <3>. QED
      BY <3>1, QuietAccount DEF AccountInv
  <2>2. CASE FitSkip \/ FitRetry
    <3>1. /\ UNCHANGED <<blocks, allocated, limit, ret, op, after>>
          /\ pc = "fit" /\ pc' \in {"gc", "fit", "fatal"}
      BY <2>2 DEF FitSkip, FitRetry, account
    <3>. QED
      BY <3>1, QuietAccount DEF AccountInv
  <2>3. CASE FitNull
    <3>1. op.kind = "alloc"
      <4>1. /\ op.kind \in {"alloc", "realloc"} /\ pressure \in 0 .. 3 /\ pressure # 3
            /\ pressure >= op.max
        BY <2>3 DEF FitNull, IInv, Types, WalkOK, Pending, ContractInv,
           JMEM_PRESSURE_NONE, JMEM_PRESSURE_FULL
      <4>2. op.kind = "realloc" => op.max = 3
        BY DEF IInv, Types, Requests, NoReq, JMEM_PRESSURE_FULL
      <4>. QED
        BY <4>1, <4>2
    <3>2. /\ UNCHANGED <<blocks, allocated, limit>> /\ ret = 0 /\ ret' = 0 /\ op' = NoReq
          /\ pc = "fit" /\ pc' = "idle"
      BY <2>3 DEF FitNull, Return, account, IInv, WalkOK
    <3>. QED
      BY <3>1, <3>2, QuietAccount DEF AccountInv, NoReq
  <2>4. CASE RaiseDone
    <3>1. /\ UNCHANGED <<blocks, allocated, limit, op>> /\ ret = 0 /\ ret' = 0
          /\ op.kind # "realloc" /\ pc = "raise" /\ pc' = "idle" /\ allocated < limit
      BY <2>4 DEF RaiseDone, Return, account, IInv, WalkOK, Copying
    <3>2. limit >= allocated
      BY <3>1, AccountIsNat DEF AccountInv
    <3>. QED
      BY <3>1, <3>2, QuietAccount
  <2>5. CASE RaiseCopied
    <3>1. /\ UNCHANGED <<blocks, allocated, limit, op, after, ret>>
          /\ pc = "raise" /\ pc' = "release" /\ allocated < limit
      BY <2>5 DEF RaiseCopied, account
    <3>2. limit >= allocated
      BY <3>1, AccountIsNat DEF AccountInv
    <3>. QED
      BY <3>1, <3>2, QuietAccount
  <2>. QED
    BY <1>4, <2>1, <2>2, <2>3, <2>4, <2>5, FitTakeAccount, LimitAccount DEF AllocStep
<1>5. CASE FreeStep
  <2>1. CASE EnterFree \/ StartRelease \/ FindStep
    <3>1. /\ UNCHANGED <<blocks, allocated, limit, ret, op, after>>
          /\ pc \in {"enter", "release", "find"} /\ pc' \in {"release", "find"}
      BY <2>1 DEF EnterFree, StartRelease, FindStart, FindStep, account
    <3>. QED
      BY <3>1, QuietAccount DEF AccountInv
  <2>2. CASE LowerDone \/ LowerGc
    <3>1. /\ UNCHANGED <<blocks, allocated, limit, ret, op>>
          /\ after' = after \/ op = NoReq
          /\ pc = "lower" /\ pc' \in {"idle", "gc"} /\ allocated + GcLimit > limit
      BY <2>2 DEF LowerDone, LowerGc, Return, account, IInv, WalkOK
    <3>2. limit <= allocated + GcLimit /\ limit >= allocated
      BY <3>1, AccountIsNat, GcLimitAssumption DEF AccountInv
    <3>. QED
      BY <3>1, <3>2, QuietAccount DEF NoReq
  <2>. QED
    BY <1>5, <2>1, <2>2, FreeInsertAccount, LimitAccount DEF FreeStep
<1>6. CASE ReallocStep
  <2>1. CASE ReallocShrink \/ ReallocGrow \/ GrowFind \/ ExtendFrontWhole
    <3>1. /\ UNCHANGED <<blocks, allocated, limit, ret, op>>
          /\ after # "fit" /\ after' # "fit"
          /\ pc \in {"enter", "grow", "find"} /\ pc' \in {"find", "gc", "grow"}
      BY <2>1 DEF ReallocShrink, ReallocGrow, GrowFind, ExtendFrontWhole, FindStart, Found,
         account, IInv, WalkOK, Finding, Growing
    <3>. QED
      BY <3>1, QuietAccount DEF AccountInv
  <2>2. CASE ReallocSame \/ ShrinkInsert
    <3>1. /\ op.kind = "realloc" /\ op' = NoReq /\ ret = 0 /\ ret' = 0
          /\ pc \in {"enter", "find"} /\ limit' = limit
          /\ blocks' = Put(blocks, op.ptr, op.size)
      BY <2>2 DEF ReallocSame, ShrinkInsert, Return, Found, account, IInv, WalkOK, Finding
    <3>2. op.ptr \in DOMAIN blocks /\ op.ptr \in Area
      BY <3>1, ReallocFact, BlockFact
    <3>3. blocks' = Put(Drop(blocks, op.ptr), op.ptr, op.size)
      BY <3>1, <3>2, PutDropBlock
    <3>4. /\ allocated' = allocated + Extra * JMEM_ALIGNMENT
          /\ (Extra = 0 /\ pc' = "idle") \/ (Extra < 0 /\ pc' = "lower")
      <4>1. CASE ReallocSame
        BY <4>1, AccountIsNat DEF ReallocSame, Return, account, JMEM_ALIGNMENT
      <4>2. CASE ShrinkInsert
        BY <4>2 DEF ShrinkInsert, Found, IInv, WalkOK, Finding
      <4>. QED
        BY <2>2, <4>1, <4>2
    <3>5. after # "fit"
      BY <3>1, <3>4, ReallocFact DEF AccountInv
    <3>. QED
      BY <3>1, <3>2, <3>3, <3>4, <3>5, ResizeAccount
  <2>3. CASE ExtendEnd \/ ExtendFrontPart \/ FrontUnlink
    <3>1. PICK a \in Area : Extended(a) /\ a \notin DOMAIN blocks \ {op.ptr}
      BY <2>3, ExtendPlace
    <3>2. op.kind = "realloc" /\ after = "grow" /\ ret = 0 /\ pc = "find"
      BY <2>3, ExtendPlace
    <3>3. Extra > 0
      BY <2>3 DEF ExtendEnd, ExtendFrontPart, FrontUnlink, Found, IInv, WalkOK, Finding, Growing
    <3>. QED
      BY <3>1, <3>2, <3>3, ResizeAccount DEF Extended
  <2>. QED
    BY <1>6, <2>1, <2>2, <2>3, GrowByCopyAccount, CopiedAccount DEF ReallocStep
<1>. QED
  BY <1>1, <1>2, <1>3, <1>4, <1>5, <1>6 DEF Next, Step

\* An empty heap has an empty account.
LEMMA InitAccount == Init => AccountInv
<1>. SUFFICES ASSUME Init PROVE AccountInv
  OBVIOUS
<1>1. Owned(blocks) = {}
  BY OwnedFact DEF Init
<1>2. Cardinality(Owned(blocks)) = 0 /\ Suspended = 0
  BY <1>1, FS_EmptySet DEF Init, Suspended, NoReq
<1>. QED
  BY <1>2, GcLimitAssumption DEF Init, AccountInv, NoReq, JMEM_ALIGNMENT

\* What the invariants say of the account and of the types.
LEMMA AccountImplied == IInv /\ AccountInv => AccountSound
<1>. SUFFICES ASSUME IInv, AccountInv PROVE AccountSound
  OBVIOUS
<1>1. /\ allocated \in Nat /\ Suspended \in Nat /\ Cardinality(Owned(blocks)) \in Nat
      /\ limit \in Nat /\ GcLimit \in Nat
  BY AccountIsNat, GcLimitAssumption DEF AccountInv
<1>2. TypeOK
  <2>1. HeapUnits \in Nat /\ Nodes \subseteq 0 .. HeapUnits /\ 0 \in Nodes /\ skip \in Nodes
    BY HeapAssumption DEF IInv, Types, ListOK, Linked
  <2>2. \A a \in Nodes : next[a] \in Area \cup {EndOfList} /\ size[a] \in Nat
    BY <2>1 DEF IInv, ListOK, Linked, Area
  <2>. QED
    BY <1>1, <2>1, <2>2 DEF TypeOK, IInv, Types
<1>3. Accounted
  BY DEF Accounted, AccountInv
<1>4. LimitCovers
  <2>1. pc = "release" /\ ret = 0 => Freeing
    BY DEF IInv, WalkOK, Copying
  <2>. QED
    BY <2>1, FreeingCovered DEF LimitCovers, AccountInv
<1>5. LimitTight
  <2>1. pc = "idle" => Suspended = 0 /\ ret = 0
    BY DEF IInv, WalkOK, Suspended, NoReq
  <2>. QED
    BY <1>1, <2>1 DEF LimitTight, AccountInv, JMEM_ALIGNMENT
<1>. QED
  BY <1>2, <1>3, <1>4, <1>5 DEF AccountSound

\* jmem_heap_allocated_size is what the blocks occupy at every step, the
\* assertions of jmem_heap_free_block_internal hold, and the next collection is
\* never put off by more than gc_limit bytes, whatever blocks the collector
\* frees in the middle of an allocation or a reallocation.
THEOREM AccountCorrect == Spec => []AccountSound
<1>1. Init => AccountInv
  BY InitAccount
<1>2. IInv /\ ContractInv /\ IInv' /\ AccountInv /\ [Next]_vars => AccountInv'
  BY NextAccount
<1>3. IInv /\ AccountInv => AccountSound
  BY AccountImplied
<1>. QED
  BY <1>1, <1>2, <1>3, ContractInvariant, PTL DEF Spec

=============================================================================
