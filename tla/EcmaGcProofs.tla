---------------------------- MODULE EcmaGcProofs ----------------------------
(***************************************************************************)
(* Proofs about the collector, for every number of objects, every object   *)
(* graph and every recursion limit but 0 (with the limit 0 ecma_gc_run     *)
(* moves objects to the black list that ecma_gc_mark was never called      *)
(* for).                                                                   *)
(***************************************************************************)
EXTENDS EcmaGc, FiniteSetTheorems, SequenceTheorems, TLAPS

-----------------------------------------------------------------------------
(* The inductive invariant                                                 *)

\* Where a collection is: the lists, the pass and the calls of ecma_gc_mark.
PhaseInv ==
  /\ pc \in {"run", "sweep"} => black = {}
  /\ pc = "run" => white = {}
  /\ pc \in {"roots", "scan", "swap"} => objs = {}
  /\ black \cap white = {} /\ objs \cap white = {}
  /\ pc = "roots" => pass \subseteq black
  /\ pc = "scan" => pass \subseteq white
  /\ pc \notin {"roots", "scan"} => stack = <<>>
  /\ limit = MarkLimit - (IF stack = <<>> THEN 0 ELSE Len(stack) - 1)
  /\ \A o \in Objects : todo[o] # {} => \E i \in 1..Len(stack) : stack[i] = o

\* The objects with no memory.
FreeObjects == Objects \ Allocated
HoldersOf(b) == { a \in Objects : native[a] = b }

\* An object that is not allocated holds nothing and is held by nobody; only
\* WeakRefs have a target; a native pointer has its handle.
GraphInv ==
  /\ \A o \in FreeObjects : /\ fields[o] = {} /\ native[o] = NoObj
                            /\ handles[o] = 0 /\ refs[o] = 0
  /\ \A w \in Objects : target[w] # NoObj => w \in WeakRefs
  /\ \A b \in Objects : handles[b] >= Cardinality(HoldersOf(b))

\* The objects the program may still reach: during the sweep the white ones may
\* refer to freed memory.
Kept == IF pc = "sweep" THEN objs ELSE Allocated

KeptInv == Closed(Kept)

\* The reference counts of the objects that stay are those of their holders.
CountInv ==
  /\ \A o \in objs \cup black : refs[o] = handles[o]
  /\ \A o \in white : handles[o] = 0 /\ refs[o] \in {0, 1, NonVisited}

\* Whatever was visited is reachable, and what ecma_gc_mark has still to do are
\* items of the object.
SoundInv ==
  pc \in {"roots", "scan", "swap"} =>
    /\ \A o \in Allocated : Visited(o) => o \in Live
    /\ \A i \in 1..Len(stack) : stack[i] \in Allocated /\ Visited(stack[i])
    /\ \A o \in Objects : todo[o] \subseteq Items(o)

\* ecma_gc_mark was called for o.
Entered(o) ==
  \/ o \in black /\ ~ (pc = "roots" /\ o \in pass)
  \/ o \in white /\ refs[o] = 0

\* What a marked object refers to is visited or still to be done.
CompleteInv ==
  pc \in {"roots", "scan"} =>
    /\ \A o \in Objects : Entered(o) =>
         \A c \in fields[o] : Visited(c) \/ <<o, c>> \in todo[o]
    /\ \A e \in entries : Entered(e[1]) /\ Entered(e[2]) =>
         \/ Visited(e[3])
         \/ <<e[2], e[3]>> \in todo[e[1]]
         \/ <<e[1], e[3]>> \in todo[e[2]]

\* A pass that has marked nothing so far leaves only white objects behind.
PassInv ==
  pc = "scan" /\ ~ marked => stack = <<>> /\ \A o \in white \ pass : ~ Visited(o)

GcInv ==
  /\ TypeOK /\ PhaseInv /\ GraphInv /\ WeakConsistent /\ KeptInv /\ CountInv
  /\ SoundInv /\ CompleteInv /\ PassInv /\ MarkExact

-----------------------------------------------------------------------------
(* What the program can reach                                              *)

\* The fields of a WeakMap entry.
LEMMA EntryFields ==
  ASSUME TypeOK, NEW e \in entries
  PROVE  e[1] \in WeakMaps /\ e[1] \in Objects /\ e[2] \in Objects /\ e[3] \in Objects
<1>1. e \in WeakMaps \X Objects \X Objects
  BY DEF TypeOK
<1>. QED
  BY <1>1, GcAssumption

\* The objects that the program can reach are closed.
LEMMA LiveClosed ==
  ASSUME TypeOK
  PROVE  Live \subseteq Objects /\ Closed(Live)
<1>1. Live \subseteq Objects
  BY DEF Live
<1>2. \A o \in Objects : handles[o] > 0 => o \in Live
  BY DEF Live, Closed
<1>3. ASSUME NEW o \in Live, NEW c \in fields[o] PROVE c \in Live
  <2>1. c \in Objects
    BY <1>1 DEF TypeOK
  <2>2. \A S \in SUBSET Objects : Closed(S) => o \in S
    BY DEF Live
  <2>3. \A S \in SUBSET Objects : Closed(S) => c \in S
    BY <2>2 DEF Closed
  <2>. QED
    BY <2>1, <2>3 DEF Live
<1>4. ASSUME NEW e \in entries, e[1] \in Live, e[2] \in Live PROVE e[3] \in Live
  <2>1. e[3] \in Objects
    BY EntryFields
  <2>2. \A S \in SUBSET Objects : Closed(S) => e[1] \in S /\ e[2] \in S
    BY <1>4 DEF Live
  <2>3. \A S \in SUBSET Objects : Closed(S) => e[3] \in S
    BY <2>2 DEF Closed
  <2>. QED
    BY <2>1, <2>3 DEF Live
<1>. QED
  BY <1>1, <1>2, <1>3, <1>4 DEF Closed

\* They are the least closed set.
LEMMA LiveLeast ==
  ASSUME NEW S \in SUBSET Objects, Closed(S)
  PROVE  Live \subseteq S
BY DEF Live

\* Nothing the program can reach is freed.
LEMMA LiveKept ==
  ASSUME TypeOK, KeptInv
  PROVE  Live \subseteq Kept /\ Kept \subseteq Allocated /\ LiveAllocated
<1>1. Kept \in SUBSET Objects /\ Kept \subseteq Allocated
  BY DEF TypeOK, Kept, Allocated
<1>2. Live \subseteq Kept
  BY <1>1, LiveLeast DEF KeptInv
<1>. QED
  BY <1>1, <1>2 DEF LiveAllocated

\* What is reachable depends on the graph alone.
LEMMA SameGraph ==
  ASSUME UNCHANGED <<handles, fields, entries>>
  PROVE  Live' = Live
BY DEF Live, Closed

\* The map and the key of an entry and the holders of an object are allocated.
LEMMA WeakAllocated ==
  ASSUME TypeOK, WeakConsistent
  PROVE  /\ \A e \in entries : e[1] \in Allocated /\ e[2] \in Allocated /\ e[1] \in weak[e[2]]
         /\ \A w \in Objects : target[w] # NoObj => w \in Allocated /\ target[w] \in Allocated
<1>1. ASSUME NEW e \in entries
      PROVE  e[1] \in Allocated /\ e[2] \in Allocated /\ e[1] \in weak[e[2]]
  <2>1. e[1] \in Objects /\ e[2] \in Objects
    BY EntryFields
  <2>2. e[1] \in weak[e[2]]
    BY <2>1 DEF WeakConsistent
  <2>. QED
    BY <2>1, <2>2 DEF WeakConsistent
<1>2. ASSUME NEW w \in Objects, target[w] # NoObj
      PROVE  w \in Allocated /\ target[w] \in Allocated
  <2>1. target[w] \in Objects
    BY <1>2 DEF TypeOK
  <2>2. w \in weak[target[w]]
    BY <2>1 DEF WeakConsistent
  <2>. QED
    BY <2>1, <2>2 DEF WeakConsistent
<1>. QED
  BY <1>1, <1>2

\* The items of an object: its properties, the entries of a map and those of a
\* key.
LEMMA ItemKinds ==
  ASSUME NEW o, NEW i \in Items(o)
  PROVE  \/ i[1] = o /\ i[2] \in fields[o]
         \/ \E e \in entries : e[1] = o /\ i[1] = e[2] /\ i[2] = e[3]
         \/ \E e \in entries : e[2] = o /\ i[1] = e[1] /\ i[2] = e[3]
BY DEF Items

\* Every property and every WeakMap entry is an item of its object, of its map
\* and of its key.
LEMMA ItemsThere ==
  ASSUME TypeOK, WeakConsistent
  PROVE  /\ \A o \in Objects : \A c \in fields[o] : <<o, c>> \in Items(o)
         /\ \A e \in entries : <<e[2], e[3]>> \in Items(e[1]) /\ <<e[1], e[3]>> \in Items(e[2])
         /\ \A o \in Objects : Items(o) \subseteq AllItems
<1>1. \A o \in Objects : \A c \in fields[o] : <<o, c>> \in Items(o)
  BY DEF Items
<1>2. \A e \in entries : <<e[2], e[3]>> \in Items(e[1])
  BY DEF Items
<1>3. \A e \in entries : <<e[1], e[3]>> \in Items(e[2])
  BY WeakAllocated DEF Items
<1>4. ASSUME NEW o \in Objects PROVE Items(o) \subseteq AllItems
  <2>1. \A c \in fields[o] : <<o, c>> \in AllItems
    BY DEF TypeOK, AllItems
  <2>2. \A e \in entries : <<e[2], e[3]>> \in AllItems /\ <<e[1], e[3]>> \in AllItems
    BY EntryFields DEF AllItems
  <2>. QED
    BY <2>1, <2>2 DEF Items
<1>. QED
  BY <1>1, <1>2, <1>3, <1>4

-----------------------------------------------------------------------------
(* The steps of a collection                                               *)

\* While the objects are marked the graph is as it was.
LEMMA MarkingKeeps ==
  ASSUME GcInv, UNCHANGED graph, Allocated' = Allocated, pc # "sweep", pc' # "sweep",
         \A o \in Objects : refs[o] = 0 => refs'[o] = 0
  PROVE  /\ GraphInv' /\ WeakConsistent' /\ KeptInv' /\ Live' = Live
         /\ \A o \in Objects : Items(o)' = Items(o)
<1>1. UNCHANGED <<handles, fields, entries, weak, target, native>>
  BY DEF graph
<1>2. GraphInv'
  BY <1>1 DEF GcInv, GraphInv, FreeObjects, HoldersOf
<1>3. WeakConsistent'
  BY <1>1 DEF GcInv, WeakConsistent
<1>4. KeptInv'
  BY <1>1 DEF GcInv, KeptInv, Kept, Closed
<1>5. \A o \in Objects : Items(o)' = Items(o)
  BY <1>1 DEF Items
<1>. QED
  BY <1>1, <1>2, <1>3, <1>4, <1>5, SameGraph

\* Visiting goes on from visited objects.
LEMMA SoundStep ==
  ASSUME GcInv, UNCHANGED graph, Allocated' = Allocated,
         pc \in {"roots", "scan"}, pc' \in {"roots", "scan", "swap"},
         \A o \in Allocated : Visited(o)' => Visited(o) \/ o \in Live,
         (\A i \in 1..Len(stack) : stack[i] \in Allocated /\ Visited(stack[i]))',
         \A o \in Objects : todo'[o] \subseteq Items(o)
  PROVE  SoundInv'
<1>1. UNCHANGED <<handles, fields, entries, weak, target, native>>
  BY DEF graph
<1>2. Live' = Live /\ \A o \in Objects : Items(o)' = Items(o)
  BY <1>1, SameGraph DEF Items
<1>3. \A o \in Allocated' : Visited(o)' => o \in Live'
  BY <1>2 DEF GcInv, SoundInv
<1>4. (\A i \in 1..Len(stack) : stack[i] \in Allocated /\ Visited(stack[i]))'
  OBVIOUS
<1>5. \A o \in Objects : todo'[o] \subseteq Items(o)'
  BY <1>2
<1>. QED
  BY <1>3, <1>4, <1>5 DEF SoundInv, Visited

\* Nothing that has still to be done is forgotten: an item goes when its object
\* is visited, or while the other half of its entry is not visited.
LEMMA CompleteStep ==
  ASSUME GcInv, UNCHANGED graph, pc \in {"roots", "scan"},
         \A o \in Objects : Visited(o) => Visited(o)',
         \A o \in Objects : Entered(o)' => Visited(o)',
         \A o \in Objects : Entered(o)' => Entered(o) \/ todo'[o] = Items(o),
         \A o \in Objects : \A j \in todo[o] :
           j \in todo'[o] \/ Visited(j[2])' \/ ~ Visited(j[1])'
  PROVE  CompleteInv'
<1>1. UNCHANGED <<handles, fields, entries, weak, target, native>>
  BY DEF graph
<1>2. TypeOK /\ WeakConsistent
  BY DEF GcInv
<1>3. ASSUME NEW o \in Objects, Entered(o)', NEW c \in fields[o]
      PROVE  Visited(c)' \/ <<o, c>> \in todo'[o]
  <2>0. c \in Objects
    BY <1>2 DEF TypeOK
  <2>1. CASE todo'[o] = Items(o)
    BY <1>2, <2>1, ItemsThere
  <2>2. CASE Entered(o)
    <3>1. Visited(c) \/ <<o, c>> \in todo[o]
      BY <2>2 DEF GcInv, CompleteInv
    <3>2. <<o, c>>[1] = o /\ <<o, c>>[2] = c
      OBVIOUS
    <3>3. Visited(o)'
      BY <1>3
    <3>. QED
      BY <2>0, <3>1, <3>2, <3>3
  <2>. QED
    BY <1>3, <2>1, <2>2
<1>4. ASSUME NEW e \in entries, Entered(e[1])', Entered(e[2])'
      PROVE  \/ Visited(e[3])'
             \/ <<e[2], e[3]>> \in todo'[e[1]]
             \/ <<e[1], e[3]>> \in todo'[e[2]]
  <2>0. e[1] \in Objects /\ e[2] \in Objects /\ e[3] \in Objects
    BY <1>2, EntryFields
  <2>1. CASE todo'[e[1]] = Items(e[1])
    BY <1>2, <2>1, ItemsThere
  <2>2. CASE todo'[e[2]] = Items(e[2])
    BY <1>2, <2>2, ItemsThere
  <2>3. CASE Entered(e[1]) /\ Entered(e[2])
    <3>1. \/ Visited(e[3])
          \/ <<e[2], e[3]>> \in todo[e[1]]
          \/ <<e[1], e[3]>> \in todo[e[2]]
      BY <2>3 DEF GcInv, CompleteInv
    <3>2. /\ <<e[2], e[3]>>[1] = e[2] /\ <<e[2], e[3]>>[2] = e[3]
          /\ <<e[1], e[3]>>[1] = e[1] /\ <<e[1], e[3]>>[2] = e[3]
      OBVIOUS
    <3>3. Visited(e[1])' /\ Visited(e[2])'
      BY <1>4, <2>0
    <3>. QED
      BY <2>0, <3>1, <3>2, <3>3
  <2>. QED
    BY <1>4, <2>0, <2>1, <2>2, <2>3
<1>. QED
  BY <1>1, <1>3, <1>4 DEF CompleteInv, Visited, Entered

\* The types and the colours, in the form the steps need.
LEMMA Colours ==
  ASSUME GcInv, MarkLimit # 0
  PROVE  /\ NonVisited \in Nat /\ NonVisited > 1 /\ MarkLimit \in Nat
         /\ \A o \in black : Visited(o) /\ refs[o] # NonVisited
         /\ \A o \in FreeObjects : Visited(o)
         /\ \A o \in Objects : Visited(o) <=> refs[o] # NonVisited
         /\ \A o \in Objects : refs[o] = NonVisited /\ pc # "run" /\ pc # "sweep" => o \in white
         /\ \A o \in Objects : Entered(o) => Visited(o)
<1>1. /\ NonVisited \in Nat /\ NonVisited > 1 /\ MarkLimit \in Nat /\ MaxRefs \in Nat
      /\ NonVisited = MaxRefs + 1
  BY GcAssumption DEF NonVisited
<1>2. /\ refs \in [Objects -> 0 .. NonVisited] /\ handles \in [Objects -> 0 .. MaxRefs]
      /\ black \subseteq Objects /\ white \subseteq Objects /\ objs \subseteq Objects
  BY DEF GcInv, TypeOK
<1>3. \A o \in Objects : Visited(o) <=> refs[o] # NonVisited
  BY <1>1, <1>2 DEF Visited
<1>4. \A o \in black : refs[o] # NonVisited
  <2>1. \A o \in black : refs[o] = handles[o] /\ o \in Objects
    BY <1>2 DEF GcInv, CountInv
  <2>. QED
    BY <1>1, <1>2, <2>1
<1>5. \A o \in FreeObjects : refs[o] = 0 /\ o \in Objects
  BY DEF GcInv, GraphInv, FreeObjects
<1>6. \A o \in Objects : refs[o] = NonVisited /\ pc # "run" /\ pc # "sweep" => o \in white
  <2>1. \A o \in Objects : o \in FreeObjects \/ o \in objs \/ o \in black \/ o \in white
    BY DEF FreeObjects, Allocated
  <2>2. pc # "run" /\ pc # "sweep" => objs = {}
    BY DEF GcInv, PhaseInv, TypeOK
  <2>. QED
    BY <1>1, <1>4, <1>5, <2>1, <2>2
<1>7. \A o \in Objects : Entered(o) => refs[o] # NonVisited
  BY <1>1, <1>4 DEF Entered
<1>. QED
  BY <1>1, <1>2, <1>3, <1>4, <1>5, <1>6, <1>7

\* A call of ecma_gc_mark is put on the stack.
LEMMA PushMark ==
  ASSUME NEW s \in Seq(Objects), NEW x \in Objects
  PROVE  /\ Append(s, x) \in Seq(Objects) /\ Append(s, x) # <<>>
         /\ Len(s) \in Nat /\ Len(Append(s, x)) = Len(s) + 1
         /\ \A i \in 1..Len(Append(s, x)) :
              Append(s, x)[i] = x \/ (i \in 1..Len(s) /\ Append(s, x)[i] = s[i])
         /\ \A y : y = x \/ (\E i \in 1..Len(s) : s[i] = y) =>
              \E i \in 1..Len(Append(s, x)) : Append(s, x)[i] = y
<1> DEFINE v == Append(s, x)
<1>1. /\ v \in Seq(Objects) /\ Len(s) \in Nat /\ Len(v) = Len(s) + 1 /\ v[Len(s) + 1] = x
      /\ \A i \in 1..Len(s) : v[i] = s[i]
  OBVIOUS
<1>. HIDE DEF v
<1>2. v # <<>>
  BY <1>1
<1>3. \A i \in 1..Len(v) : i = Len(s) + 1 \/ i \in 1..Len(s)
  BY <1>1
<1>4. Len(s) + 1 \in 1..Len(v) /\ \A i \in 1..Len(s) : i \in 1..Len(v)
  BY <1>1
<1>5. \A y : y = x \/ (\E i \in 1..Len(s) : s[i] = y) => \E i \in 1..Len(v) : v[i] = y
  BY <1>1, <1>4
<1>. QED
  BY <1>1, <1>2, <1>3, <1>5 DEF v

\* A call of ecma_gc_mark returns.
LEMMA PopMark ==
  ASSUME NEW s \in Seq(Objects), s # <<>>
  PROVE  /\ SubSeq(s, 1, Len(s) - 1) \in Seq(Objects)
         /\ Len(s) \in Nat \ {0} /\ Len(SubSeq(s, 1, Len(s) - 1)) = Len(s) - 1
         /\ (SubSeq(s, 1, Len(s) - 1) = <<>> <=> Len(s) = 1)
         /\ \A i \in 1..Len(SubSeq(s, 1, Len(s) - 1)) :
              i \in 1..Len(s) /\ SubSeq(s, 1, Len(s) - 1)[i] = s[i]
         /\ \A y : y # s[Len(s)] /\ (\E i \in 1..Len(s) : s[i] = y) =>
              \E i \in 1..Len(SubSeq(s, 1, Len(s) - 1)) : SubSeq(s, 1, Len(s) - 1)[i] = y
<1> DEFINE m == Len(s) - 1
           v == SubSeq(s, 1, m)
<1>1. Len(s) \in Nat \ {0} /\ m \in Nat /\ Len(s) = m + 1
  OBVIOUS
<1>2. v \in Seq(Objects) /\ Len(v) = m /\ \A i \in 1..m : v[i] = s[i]
  <2>. HIDE DEF m
  <2>. QED
    BY <1>1
<1>. HIDE DEF m, v
<1>3. v = <<>> <=> m = 0
  BY <1>1, <1>2
<1>4. \A i \in 1..m : i \in 1..Len(s)
  BY <1>1
<1>5. \A i \in 1..Len(s) : i = Len(s) \/ i \in 1..m
  BY <1>1
<1>6. \A y : y # s[Len(s)] /\ (\E i \in 1..Len(s) : s[i] = y) => \E i \in 1..Len(v) : v[i] = y
  BY <1>2, <1>5
<1>7. m = 0 <=> Len(s) = 1
  BY <1>1
<1>. QED
  BY <1>1, <1>2, <1>3, <1>4, <1>6, <1>7 DEF m, v

\* The innermost call of ecma_gc_mark.
LEMMA TopFacts ==
  ASSUME GcInv, stack # <<>>
  PROVE  /\ pc \in {"roots", "scan"} /\ Len(stack) \in Nat /\ Len(stack) \in 1..Len(stack)
         /\ Top \in Objects /\ Top \in Allocated /\ Visited(Top) /\ Top \in Live
         /\ todo[Top] \subseteq Items(Top) /\ todo[Top] \subseteq AllItems
<1>1. pc \in {"roots", "scan"}
  BY DEF GcInv, PhaseInv
<1>2. stack \in Seq(Objects) /\ Len(stack) \in Nat /\ Len(stack) \in 1..Len(stack)
  BY DEF GcInv, TypeOK
<1>3. Top \in Objects /\ Top \in Allocated /\ Visited(Top)
  BY <1>1, <1>2 DEF GcInv, SoundInv, Top
<1>4. Top \in Live /\ todo[Top] \subseteq Items(Top)
  BY <1>1, <1>3 DEF GcInv, SoundInv
<1>5. todo[Top] \subseteq AllItems
  BY <1>3 DEF GcInv, TypeOK
<1>. QED
  BY <1>1, <1>2, <1>3, <1>4, <1>5

\* An item of a reachable object leads to a reachable one once its guard is
\* visited.
LEMMA ItemLive ==
  ASSUME GcInv, pc \in {"roots", "scan"}, NEW o \in Live, NEW i \in Items(o), i[1] \in Objects,
         Visited(i[1])
  PROVE  i[2] \in Live
<1>1. TypeOK /\ WeakConsistent /\ Closed(Live)
  BY LiveClosed DEF GcInv
<1>2. \A e \in entries : e[1] \in Allocated /\ e[2] \in Allocated
  BY <1>1, WeakAllocated
<1>3. \A x \in Allocated : Visited(x) => x \in Live
  BY DEF GcInv, SoundInv
<1>4. \/ i[1] = o /\ i[2] \in fields[o]
      \/ \E e \in entries : e[1] = o /\ i[1] = e[2] /\ i[2] = e[3]
      \/ \E e \in entries : e[2] = o /\ i[1] = e[1] /\ i[2] = e[3]
  BY ItemKinds
<1>5. CASE i[2] \in fields[o]
  BY <1>1, <1>5 DEF Closed
<1>6. ASSUME NEW e \in entries, e[1] = o /\ i[1] = e[2] /\ i[2] = e[3] PROVE i[2] \in Live
  <2>1. e[1] \in Live /\ e[2] \in Live
    BY <1>2, <1>3, <1>6
  <2>. QED
    BY <1>1, <1>6, <2>1 DEF Closed
<1>7. ASSUME NEW e \in entries, e[2] = o /\ i[1] = e[1] /\ i[2] = e[3] PROVE i[2] \in Live
  <2>1. e[1] \in Live /\ e[2] \in Live
    BY <1>2, <1>3, <1>7
  <2>. QED
    BY <1>1, <1>7, <2>1 DEF Closed
<1>. QED
  BY <1>4, <1>5, <1>6, <1>7

\* A collection starts: the objects with references are black, the others white.
LEMMA CollectStep ==
  ASSUME GcInv, MarkLimit # 0, Collect
  PROVE  GcInv'
<1>1. /\ pc = "run" /\ pc' = "roots" /\ objs' = {}
      /\ black' = { o \in objs : refs[o] >= 1 } /\ white' = { o \in objs : refs[o] < 1 }
      /\ refs' = [o \in Objects |-> IF o \in white' THEN NonVisited ELSE refs[o]]
      /\ pass' = black' /\ UNCHANGED <<graph, marking, marked>>
  BY DEF Collect, MoveRoots
<1>2. /\ objs \subseteq Objects /\ refs \in [Objects -> 0 .. NonVisited] /\ NonVisited \in Nat
      /\ NonVisited > 1 /\ handles \in [Objects -> 0 .. MaxRefs] /\ MaxRefs \in Nat
      /\ NonVisited = MaxRefs + 1
  BY Colours, GcAssumption DEF GcInv, TypeOK, NonVisited
<1>3. black = {} /\ white = {} /\ stack = <<>> /\ \A o \in Objects : todo[o] = {}
  BY <1>1 DEF GcInv, PhaseInv
<1>4. Allocated' = Allocated /\ black' \cap white' = {}
  BY <1>1, <1>2, <1>3 DEF Allocated
<1>5. \A o \in objs : refs[o] = handles[o] /\ o \in Objects
  BY <1>2 DEF GcInv, CountInv
<1>6. TypeOK'
  BY <1>1, <1>2 DEF GcInv, TypeOK, graph, marking
<1>7. PhaseInv'
  BY <1>1, <1>3, <1>4 DEF GcInv, PhaseInv, marking
<1>8. \A o \in FreeObjects : refs'[o] = refs[o]
  BY <1>1, <1>3 DEF FreeObjects, Allocated
<1>9. GraphInv' /\ WeakConsistent' /\ KeptInv' /\ Live' = Live
  <2>1. UNCHANGED <<handles, fields, entries, weak, target, native>>
    BY <1>1 DEF graph
  <2>2. GraphInv'
    BY <1>4, <1>8, <2>1 DEF GcInv, GraphInv, FreeObjects, HoldersOf
  <2>3. WeakConsistent'
    BY <1>4, <2>1 DEF GcInv, WeakConsistent
  <2>4. KeptInv'
    BY <1>1, <1>4, <2>1 DEF GcInv, KeptInv, Kept, Closed
  <2>. QED
    BY <2>1, <2>2, <2>3, <2>4, SameGraph
<1>10. CountInv'
  <2>1. \A o \in black' : refs'[o] = handles'[o]
    BY <1>1, <1>4, <1>5 DEF graph
  <2>2. \A o \in white' : handles'[o] = 0 /\ refs'[o] = NonVisited
    BY <1>1, <1>2, <1>5 DEF graph
  <2>. QED
    BY <1>1, <2>1, <2>2 DEF CountInv
<1>11. SoundInv'
  <2>1. \A o \in black' : handles[o] > 0 /\ o \in Objects
    BY <1>1, <1>2, <1>5
  <2>2. \A o \in black' : o \in Live
    BY <2>1, LiveClosed DEF Closed, GcInv
  <2>3. \A o \in white' : ~ Visited(o)'
    BY <1>1, <1>2 DEF Visited
  <2>4. stack' = <<>> /\ \A o \in Objects : todo'[o] = {}
    BY <1>1, <1>3 DEF marking
  <2>5. \A o \in Allocated' : Visited(o)' => o \in Live'
    BY <1>1, <1>9, <2>2, <2>3 DEF Allocated
  <2>. QED
    BY <2>4, <2>5 DEF SoundInv
<1>12. CompleteInv'
  <2>1. \A o : ~ Entered(o)'
    BY <1>1, <1>2 DEF Entered
  <2>. QED
    BY <2>1 DEF CompleteInv
<1>13. PassInv' /\ MarkExact'
  BY <1>1 DEF PassInv, MarkExact
<1>. QED
  BY <1>6, <1>7, <1>9, <1>10, <1>11, <1>12, <1>13 DEF GcInv

\* ecma_gc_mark is called for a root.
LEMMA MarkRootStep ==
  ASSUME GcInv, MarkLimit # 0, NEW o \in Objects, MarkRoot(o)
  PROVE  GcInv'
<1>1. /\ pc = "roots" /\ stack = <<>> /\ o \in pass /\ pass' = pass \ {o}
      /\ stack' = Append(stack, o) /\ todo' = [todo EXCEPT ![o] = Items(o)]
      /\ objs' = objs /\ black' = black /\ white' = white
      /\ UNCHANGED <<refs, graph, pc, limit, marked>>
  BY DEF MarkRoot, Enter, lists
<1>2. TypeOK /\ WeakConsistent /\ stack \in Seq(Objects) /\ todo \in [Objects -> SUBSET AllItems]
  BY DEF GcInv, TypeOK
<1>3. o \in black /\ o \in Allocated /\ Visited(o) /\ Items(o) \subseteq AllItems
  BY <1>1, <1>2, Colours, ItemsThere DEF GcInv, PhaseInv, Allocated
<1>4. Allocated' = Allocated
  BY <1>1 DEF Allocated
<1>5. /\ stack' \in Seq(Objects) /\ stack' # <<>> /\ Len(stack') = 1
      /\ \A i \in 1..Len(stack') : stack'[i] = o
      /\ \E i \in 1..Len(stack') : stack'[i] = o
  <2>1. Len(stack) = 0
    BY <1>1
  <2>. QED
    BY <1>1, <1>2, <2>1, PushMark
<1>6. TypeOK'
  BY <1>1, <1>2, <1>3, <1>5 DEF TypeOK, graph
<1>7. \A x \in Objects : x # o => todo'[x] = {}
  BY <1>1, <1>2 DEF GcInv, PhaseInv
<1>8. PhaseInv'
  <2>1. limit' = MarkLimit - (Len(stack') - 1)
    BY <1>1, <1>5, Colours DEF GcInv, PhaseInv
  <2>2. \A x \in Objects : todo'[x] # {} => \E i \in 1..Len(stack') : stack'[i] = x
    BY <1>5, <1>7
  <2>. QED
    BY <1>1, <1>5, <2>1, <2>2 DEF GcInv, PhaseInv
<1>9. GraphInv' /\ WeakConsistent' /\ KeptInv' /\ Live' = Live
  BY <1>1, <1>4, MarkingKeeps
<1>10. CountInv'
  BY <1>1 DEF GcInv, CountInv, graph
<1>11. \A x : Visited(x)' <=> Visited(x)
  BY <1>1 DEF Visited
<1>12. SoundInv'
  <2>1. \A x \in Objects : todo'[x] \subseteq Items(x)
    BY <1>1, <1>2, <1>7
  <2>2. (\A i \in 1..Len(stack) : stack[i] \in Allocated /\ Visited(stack[i]))'
    BY <1>3, <1>4, <1>5, <1>1 DEF Visited
  <2>. QED
    BY <1>1, <1>4, <1>11, <2>1, <2>2, SoundStep
<1>13. CompleteInv'
  <2>1. \A x \in Objects : Entered(x)' => Entered(x) \/ x = o
    BY <1>1 DEF Entered
  <2>2. todo'[o] = Items(o)
    BY <1>1, <1>2
  <2>3. \A x \in Objects : Entered(x)' => Visited(x)'
    BY <1>3, <1>11, <2>1, Colours
  <2>4. \A x \in Objects : todo[x] = {}
    BY <1>1 DEF GcInv, PhaseInv
  <2>5. \A x \in Objects : Entered(x)' => Entered(x) \/ todo'[x] = Items(x)
    BY <2>1, <2>2
  <2>. QED
    BY <1>1, <1>11, <2>3, <2>4, <2>5, CompleteStep
<1>14. PassInv' /\ MarkExact'
  BY <1>1 DEF PassInv, MarkExact
<1>. QED
  BY <1>6, <1>8, <1>9, <1>10, <1>12, <1>13, <1>14 DEF GcInv

\* An item is done: its object was visited before, or is visited now, with a call
\* of ecma_gc_mark or without one.
LEMMA MarkItemStep ==
  ASSUME GcInv, MarkLimit # 0, NEW i \in AllItems, MarkItem(i)
  PROVE  GcInv'
<1> DEFINE c == i[2]
           t == Top
<1>1. /\ stack # <<>> /\ i \in todo[t] /\ Visited(i[1])
      /\ UNCHANGED <<objs, black, white>> /\ UNCHANGED <<graph, pc, pass, marked>>
  BY DEF MarkItem, Marking, lists
<1>2. \/ /\ VisitDeeper(c)
         /\ todo' = [o \in Objects |-> IF o = t THEN todo[o] \ {i}
                                       ELSE IF o = c THEN Items(o) ELSE todo[o]]
      \/ /\ VisitLater(c) \/ VisitOnly(c) \/ VisitAgain(c)
         /\ todo' = [todo EXCEPT ![t] = @ \ {i}]
  BY DEF MarkItem
<1>3. /\ pc \in {"roots", "scan"} /\ Len(stack) \in Nat /\ Len(stack) \in 1..Len(stack)
      /\ t \in Objects /\ t \in Allocated /\ Visited(t) /\ t \in Live
      /\ todo[t] \subseteq Items(t) /\ i[1] \in Objects /\ c \in Objects
  BY <1>1, TopFacts DEF AllItems
<1>4. c \in Live /\ i \in Items(t)
  BY <1>1, <1>3, ItemLive
<1>5. /\ TypeOK /\ WeakConsistent /\ stack \in Seq(Objects) /\ todo \in [Objects -> SUBSET AllItems]
      /\ refs \in [Objects -> 0 .. NonVisited] /\ limit \in 0 .. MarkLimit
      /\ NonVisited \in Nat /\ NonVisited > 1 /\ MarkLimit \in Nat
  BY Colours DEF GcInv, TypeOK
<1>6. Allocated' = Allocated
  BY <1>1 DEF Allocated
<1>7. refs[c] = NonVisited => c \in white /\ c # t /\ ~ Visited(c)
  BY <1>3, Colours
<1>. HIDE DEF c, t
<1>8. /\ refs' \in [Objects -> 0 .. NonVisited]
      /\ \A o \in Objects : o # c => refs'[o] = refs[o]
      /\ refs'[c] = refs[c] \/ (refs[c] = NonVisited /\ refs'[c] \in {0, 1})
      /\ refs'[c] < NonVisited
  <2>1. CASE VisitAgain(c)
    BY <1>3, <1>5, <2>1, Colours DEF VisitAgain, Visited
  <2>2. CASE VisitDeeper(c) \/ VisitLater(c) \/ VisitOnly(c)
    BY <1>3, <1>5, <2>2 DEF VisitDeeper, VisitLater, VisitOnly
  <2>. QED
    BY <1>2, <2>1, <2>2
<1>9. \A o \in Objects : Visited(o)' <=> Visited(o) \/ o = c
  BY <1>3, <1>5, <1>7, <1>8 DEF Visited
<1>10. /\ todo' \in [Objects -> SUBSET AllItems]
       /\ todo'[t] = todo[t] \ {i}
       /\ \A o \in Objects : o # t /\ o # c => todo'[o] = todo[o]
       /\ VisitDeeper(c) => todo'[c] = Items(c)
       /\ ~ VisitDeeper(c) /\ c # t => todo'[c] = todo[c]
  <2>1. Items(c) \subseteq AllItems
    BY <1>3, <1>5, ItemsThere
  <2>2. VisitDeeper(c) => c # t
    BY <1>7 DEF VisitDeeper
  <2>3. VisitDeeper(c) => ~ VisitLater(c) /\ ~ VisitOnly(c) /\ ~ VisitAgain(c)
    BY DEF VisitDeeper, VisitLater, VisitOnly, VisitAgain
  <2>4. CASE VisitDeeper(c)
    BY <1>2, <1>3, <1>5, <2>1, <2>2, <2>3, <2>4
  <2>5. CASE ~ VisitDeeper(c)
    BY <1>2, <1>3, <1>5, <2>5
  <2>. QED
    BY <2>4, <2>5
<1>11. \/ /\ VisitDeeper(c) /\ stack' = Append(stack, c) /\ limit' = limit - 1 /\ limit # 0
       \/ /\ ~ VisitDeeper(c) /\ stack' = stack /\ limit' = limit
  BY <1>2 DEF VisitDeeper, VisitLater, VisitOnly, VisitAgain
<1>12. /\ stack' \in Seq(Objects) /\ stack' # <<>>
       /\ limit' = MarkLimit - (Len(stack') - 1) /\ limit' \in 0 .. MarkLimit
       /\ \A k \in 1..Len(stack') : stack'[k] = c \/ (k \in 1..Len(stack) /\ stack'[k] = stack[k])
       /\ \A x : (VisitDeeper(c) /\ x = c) \/ (\E k \in 1..Len(stack) : stack[k] = x) =>
            \E k \in 1..Len(stack') : stack'[k] = x
  <2>1. limit = MarkLimit - (Len(stack) - 1)
    BY <1>1 DEF GcInv, PhaseInv
  <2>2. CASE VisitDeeper(c) /\ stack' = Append(stack, c) /\ limit' = limit - 1 /\ limit # 0
    <3>1. /\ stack' \in Seq(Objects) /\ stack' # <<>> /\ Len(stack') = Len(stack) + 1
          /\ \A k \in 1..Len(stack') : stack'[k] = c \/ (k \in 1..Len(stack) /\ stack'[k] = stack[k])
          /\ \A x : x = c \/ (\E k \in 1..Len(stack) : stack[k] = x) =>
               \E k \in 1..Len(stack') : stack'[k] = x
      BY <1>3, <1>5, <2>2, PushMark
    <3>2. limit' = MarkLimit - (Len(stack') - 1) /\ limit' \in 0 .. MarkLimit
      BY <1>3, <1>5, <2>1, <2>2, <3>1
    <3>. QED
      BY <3>1, <3>2
  <2>3. CASE ~ VisitDeeper(c) /\ stack' = stack /\ limit' = limit
    BY <1>1, <1>5, <2>1, <2>3
  <2>. QED
    BY <1>11, <2>2, <2>3
<1>13. TypeOK'
  BY <1>1, <1>5, <1>8, <1>10, <1>12 DEF TypeOK, graph
<1>14. PhaseInv'
  <2>1. \A x \in Objects : todo[x] # {} => \E k \in 1..Len(stack) : stack[k] = x
    BY DEF GcInv, PhaseInv
  <2>2. \A x \in Objects : todo'[x] # {} => todo[x] # {} \/ (VisitDeeper(c) /\ x = c)
    BY <1>3, <1>10
  <2>3. \A x \in Objects : todo'[x] # {} => \E k \in 1..Len(stack') : stack'[k] = x
    BY <1>12, <2>1, <2>2
  <2>. QED
    BY <1>1, <1>3, <1>12, <2>3 DEF GcInv, PhaseInv
<1>15. GraphInv' /\ WeakConsistent' /\ KeptInv' /\ Live' = Live
  <2>1. \A o \in Objects : refs[o] = 0 => refs'[o] = 0
    BY <1>5, <1>8
  <2>. QED
    BY <1>1, <1>3, <1>6, <2>1, MarkingKeeps
<1>16. CountInv'
  <2>1. c \in objs \cup black => refs'[c] = refs[c]
    BY <1>7, <1>8 DEF GcInv, PhaseInv
  <2>2. c \in white => refs'[c] \in {0, 1, NonVisited}
    BY <1>8 DEF GcInv, CountInv
  <2>3. objs \cup black \subseteq Objects /\ white \subseteq Objects
    BY <1>5 DEF TypeOK
  <2>4. \A o \in objs \cup black : refs'[o] = handles[o]
    BY <1>8, <2>1, <2>3 DEF GcInv, CountInv
  <2>5. \A o \in white : handles[o] = 0 /\ refs'[o] \in {0, 1, NonVisited}
    BY <1>8, <2>2, <2>3 DEF GcInv, CountInv
  <2>. QED
    BY <1>1, <2>4, <2>5 DEF CountInv, graph
<1>17. SoundInv'
  <2>1. \A o \in Objects : todo[o] \subseteq Items(o)
    BY <1>3 DEF GcInv, SoundInv
  <2>2. \A o \in Objects : todo'[o] \subseteq Items(o)
    BY <1>3, <1>10, <2>1
  <2>3. \A k \in 1..Len(stack) : stack[k] \in Allocated /\ stack[k] \in Objects /\ Visited(stack[k])
    BY <1>3, <1>5 DEF GcInv, SoundInv
  <2>4. c \in Allocated
    BY <1>4, LiveKept DEF GcInv, LiveAllocated
  <2>5. (\A k \in 1..Len(stack) : stack[k] \in Allocated /\ Visited(stack[k]))'
    <3>1. \A k \in 1..Len(stack') : /\ stack'[k] \in Objects /\ stack'[k] \in Allocated
                                    /\ stack'[k] = c \/ Visited(stack'[k])
      BY <1>3, <1>12, <2>3, <2>4
    <3>2. \A o \in Objects : (Visited(o) \/ o = c) => refs'[o] < NonVisited
      BY <1>9 DEF Visited
    <3>. QED
      BY <1>6, <3>1, <3>2 DEF Visited
  <2>6. \A o \in Allocated : Visited(o)' => Visited(o) \/ o \in Live
    <3>1. Allocated \subseteq Objects
      BY <1>5 DEF TypeOK, Allocated
    <3>. QED
      BY <1>4, <1>9, <3>1
  <2>. QED
    BY <1>1, <1>3, <1>6, <2>2, <2>5, <2>6, SoundStep
<1>18. CompleteInv'
  <2>1. \A o \in Objects : Entered(o)' => Visited(o)'
    <3>1. \A o \in black : Visited(o) /\ o \in Objects
      BY <1>5, Colours DEF TypeOK
    <3>2. \A o \in Objects : o \in white' /\ refs'[o] = 0 => Visited(o)'
      BY <1>5 DEF Visited
    <3>. QED
      BY <1>1, <1>9, <3>1, <3>2 DEF Entered
  <2>2. \A o \in Objects : o # c /\ Entered(o)' => Entered(o)
    BY <1>1, <1>8 DEF Entered
  <2>3. Entered(c)' => Entered(c) \/ todo'[c] = Items(c)
    <3>1. CASE VisitDeeper(c)
      BY <1>10, <3>1
    <3>2. CASE VisitAgain(c)
      BY <1>1, <3>2 DEF Entered, VisitAgain
    <3>3. CASE VisitLater(c)
      <4>1. c \in white /\ c \notin black /\ refs'[c] = 1
        BY <1>3, <1>5, <1>7, <3>3 DEF VisitLater, GcInv, PhaseInv
      <4>. QED
        BY <1>1, <4>1 DEF Entered
    <3>4. CASE VisitOnly(c)
      BY <3>4 DEF VisitOnly
    <3>. QED
      BY <1>2, <3>1, <3>2, <3>3, <3>4
  <2>4. \A o \in Objects : \A j \in todo[o] : j \in todo'[o] \/ Visited(j[2])' \/ ~ Visited(j[1])'
    <3>1. Visited(i[2])'
      BY <1>3, <1>9 DEF c
    <3>2. \A j \in todo[t] : j \in todo'[t] \/ j = i
      BY <1>10
    <3>3. \A o \in Objects : o # t /\ o # c => todo'[o] = todo[o]
      BY <1>10
    <3>4. c # t => todo[c] \subseteq todo'[c]
      <4>1. todo[c] \subseteq Items(c)
        BY <1>3 DEF GcInv, SoundInv
      <4>. QED
        BY <1>10, <4>1
    <3>. QED
      BY <1>3, <3>1, <3>2, <3>3, <3>4
  <2>5. \A o \in Objects : Visited(o) => Visited(o)'
    BY <1>9
  <2>6. \A o \in Objects : Entered(o)' => Entered(o) \/ todo'[o] = Items(o)
    BY <2>2, <2>3
  <2>. QED
    BY <1>1, <1>3, <2>1, <2>4, <2>5, <2>6, CompleteStep
<1>19. PassInv' /\ MarkExact'
  <2>1. ~ (pc = "scan" /\ ~ marked)
    BY <1>1 DEF GcInv, PassInv
  <2>. QED
    BY <1>1, <1>3, <2>1 DEF PassInv, MarkExact
<1>. QED
  BY <1>13, <1>14, <1>15, <1>16, <1>17, <1>18, <1>19 DEF GcInv

\* An item is given up: the other half of its entry is not visited.
LEMMA MarkSkipStep ==
  ASSUME GcInv, MarkLimit # 0, NEW i \in AllItems, MarkSkip(i)
  PROVE  GcInv'
<1> DEFINE t == Top
<1>1. /\ stack # <<>> /\ i \in todo[t] /\ ~ Visited(i[1])
      /\ todo' = [todo EXCEPT ![t] = @ \ {i}]
      /\ UNCHANGED <<objs, black, white>> /\ UNCHANGED <<refs, graph, pc, pass, stack, limit, marked>>
  BY DEF MarkSkip, Marking, lists
<1>2. pc \in {"roots", "scan"} /\ t \in Objects
  BY <1>1, TopFacts
<1>3. TypeOK /\ todo \in [Objects -> SUBSET AllItems]
  BY DEF GcInv, TypeOK
<1>. HIDE DEF t
<1>4. /\ todo' \in [Objects -> SUBSET AllItems]
      /\ \A o \in Objects : todo'[o] \subseteq todo[o]
      /\ \A o \in Objects : \A j \in todo[o] : j \in todo'[o] \/ j = i
  BY <1>1, <1>2, <1>3
<1>5. Allocated' = Allocated
  BY <1>1 DEF Allocated
<1>6. TypeOK'
  BY <1>1, <1>3, <1>4 DEF TypeOK, graph
<1>7. PhaseInv'
  BY <1>1, <1>4 DEF GcInv, PhaseInv
<1>8. GraphInv' /\ WeakConsistent' /\ KeptInv' /\ Live' = Live
  BY <1>1, <1>2, <1>5, MarkingKeeps
<1>9. CountInv'
  BY <1>1 DEF GcInv, CountInv, graph
<1>10. \A x : (Visited(x)' <=> Visited(x)) /\ (Entered(x)' <=> Entered(x))
  BY <1>1 DEF Visited, Entered
<1>11. SoundInv'
  <2>1. \A x \in Objects : todo'[x] \subseteq Items(x)
    BY <1>2, <1>4 DEF GcInv, SoundInv
  <2>2. (\A k \in 1..Len(stack) : stack[k] \in Allocated /\ Visited(stack[k]))'
    BY <1>1, <1>2, <1>5 DEF Visited, GcInv, SoundInv
  <2>. QED
    BY <1>1, <1>2, <1>5, <1>10, <2>1, <2>2, SoundStep
<1>12. CompleteInv'
  <2>1. \A x \in Objects : Entered(x)' => Visited(x)'
    BY <1>10, Colours
  <2>2. \A o \in Objects : \A j \in todo[o] : j \in todo'[o] \/ Visited(j[2])' \/ ~ Visited(j[1])'
    BY <1>1, <1>4, <1>10
  <2>. QED
    BY <1>1, <1>2, <1>10, <2>1, <2>2, CompleteStep
<1>13. PassInv' /\ MarkExact'
  BY <1>1, <1>2, <1>10 DEF GcInv, PassInv, MarkExact
<1>. QED
  BY <1>6, <1>7, <1>8, <1>9, <1>11, <1>12, <1>13 DEF GcInv

\* ecma_gc_mark returns and gives its depth back.
LEMMA MarkReturnStep ==
  ASSUME GcInv, MarkLimit # 0, MarkReturn
  PROVE  GcInv'
<1> DEFINE t == Top
<1>1. /\ stack # <<>> /\ todo[t] = {}
      /\ stack' = SubSeq(stack, 1, Len(stack) - 1)
      /\ limit' = (IF Len(stack) > 1 THEN limit + 1 ELSE limit)
      /\ UNCHANGED <<objs, black, white>> /\ UNCHANGED <<refs, graph, pc, pass, todo, marked>>
  BY DEF MarkReturn, Marking, lists
<1>2. pc \in {"roots", "scan"} /\ t \in Objects /\ t = stack[Len(stack)]
  BY <1>1, TopFacts DEF Top
<1>3. TypeOK /\ stack \in Seq(Objects) /\ MarkLimit \in Nat /\ limit \in 0 .. MarkLimit
  BY Colours DEF GcInv, TypeOK
<1>. HIDE DEF t
<1>4. /\ stack' \in Seq(Objects) /\ Len(stack) \in Nat \ {0} /\ Len(stack') = Len(stack) - 1
      /\ (stack' = <<>> <=> Len(stack) = 1)
      /\ \A i \in 1..Len(stack') : i \in 1..Len(stack) /\ stack'[i] = stack[i]
      /\ \A y : y # t /\ (\E i \in 1..Len(stack) : stack[i] = y) =>
              \E i \in 1..Len(stack') : stack'[i] = y
  <2> DEFINE v == SubSeq(stack, 1, Len(stack) - 1)
  <2>1. /\ v \in Seq(Objects) /\ Len(stack) \in Nat \ {0} /\ Len(v) = Len(stack) - 1
        /\ (v = <<>> <=> Len(stack) = 1)
        /\ \A i \in 1..Len(v) : i \in 1..Len(stack) /\ v[i] = stack[i]
        /\ \A y : y # stack[Len(stack)] /\ (\E i \in 1..Len(stack) : stack[i] = y) =>
              \E i \in 1..Len(v) : v[i] = y
    BY <1>1, <1>3, PopMark, Zenon
  <2>2. stack' = v
    BY <1>1
  <2>. HIDE DEF v
  <2>. QED
    BY <1>2, <2>1, <2>2, Zenon
<1>5. /\ limit' = MarkLimit - (IF stack' = <<>> THEN 0 ELSE Len(stack') - 1)
      /\ limit' \in 0 .. MarkLimit
  <2>1. limit = MarkLimit - (Len(stack) - 1)
    BY <1>1 DEF GcInv, PhaseInv
  <2>2. limit' = (IF Len(stack) > 1 THEN limit + 1 ELSE limit)
    BY <1>1
  <2>3. CASE Len(stack) = 1
    BY <1>3, <1>4, <2>1, <2>2, <2>3
  <2>4. CASE Len(stack) # 1
    <3>1. limit' = limit + 1 /\ stack' # <<>>
      BY <1>4, <2>2, <2>4
    <3>. QED
      BY <1>3, <1>4, <2>1, <2>4, <3>1
  <2>. QED
    BY <2>3, <2>4
<1>6. Allocated' = Allocated
  BY <1>1 DEF Allocated
<1>7. TypeOK'
  BY <1>1, <1>3, <1>4, <1>5 DEF TypeOK, graph
<1>8. PhaseInv'
  <2>1. \A x \in Objects : todo'[x] # {} => \E i \in 1..Len(stack') : stack'[i] = x
    BY <1>1, <1>4 DEF GcInv, PhaseInv
  <2>. QED
    BY <1>1, <1>2, <1>5, <2>1 DEF GcInv, PhaseInv
<1>9. GraphInv' /\ WeakConsistent' /\ KeptInv' /\ Live' = Live
  BY <1>1, <1>2, <1>6, MarkingKeeps
<1>10. CountInv'
  BY <1>1 DEF GcInv, CountInv, graph
<1>11. \A x : (Visited(x)' <=> Visited(x)) /\ (Entered(x)' <=> Entered(x))
  BY <1>1 DEF Visited, Entered
<1>12. SoundInv'
  <2>1. \A x \in Objects : todo'[x] \subseteq Items(x)
    BY <1>1, <1>2 DEF GcInv, SoundInv
  <2>2. (\A k \in 1..Len(stack) : stack[k] \in Allocated /\ Visited(stack[k]))'
    BY <1>1, <1>2, <1>4, <1>6 DEF Visited, GcInv, SoundInv
  <2>. QED
    BY <1>1, <1>2, <1>6, <1>11, <2>1, <2>2, SoundStep
<1>13. CompleteInv'
  <2>1. \A x \in Objects : Entered(x)' => Visited(x)'
    BY <1>11, Colours
  <2>. QED
    BY <1>1, <1>2, <1>11, <2>1, CompleteStep
<1>14. PassInv' /\ MarkExact'
  BY <1>1, <1>2, <1>11 DEF GcInv, PassInv, MarkExact
<1>. QED
  BY <1>7, <1>8, <1>9, <1>10, <1>12, <1>13, <1>14 DEF GcInv

\* A pass over the white list starts, the first one or another one.
LEMMA StartPassStep ==
  ASSUME GcInv, MarkLimit # 0, RootsDone \/ ScanAgain
  PROVE  GcInv'
<1>1. /\ pc \in {"roots", "scan"} /\ stack = <<>> /\ pass = {}
      /\ pc' = "scan" /\ pass' = white /\ marked' = FALSE
      /\ UNCHANGED <<objs, black, white>> /\ UNCHANGED <<refs, graph, stack, todo, limit>>
  BY DEF RootsDone, ScanAgain, StartPass, lists, marking
<1>2. Allocated' = Allocated /\ TypeOK
  BY <1>1 DEF Allocated, GcInv
<1>3. TypeOK'
  BY <1>1, <1>2 DEF TypeOK, graph
<1>4. PhaseInv'
  BY <1>1 DEF GcInv, PhaseInv
<1>5. GraphInv' /\ WeakConsistent' /\ KeptInv' /\ Live' = Live
  BY <1>1, <1>2, MarkingKeeps
<1>6. CountInv'
  BY <1>1 DEF GcInv, CountInv, graph
<1>7. \A x : (Visited(x)' <=> Visited(x)) /\ (Entered(x)' <=> Entered(x))
  BY <1>1 DEF Visited, Entered
<1>8. SoundInv'
  <2>1. \A x \in Objects : todo'[x] \subseteq Items(x)
    BY <1>1 DEF GcInv, SoundInv
  <2>2. (\A k \in 1..Len(stack) : stack[k] \in Allocated /\ Visited(stack[k]))'
    BY <1>1
  <2>. QED
    BY <1>1, <1>2, <1>7, <2>1, <2>2, SoundStep
<1>9. CompleteInv'
  <2>1. \A x \in Objects : Entered(x)' => Visited(x)'
    BY <1>7, Colours
  <2>. QED
    BY <1>1, <1>7, <2>1, CompleteStep
<1>10. PassInv' /\ MarkExact'
  BY <1>1 DEF PassInv, MarkExact
<1>. QED
  BY <1>3, <1>4, <1>5, <1>6, <1>8, <1>9, <1>10 DEF GcInv

\* A marked object moves to the black list.
LEMMA ScanVisitedStep ==
  ASSUME GcInv, MarkLimit # 0, NEW o \in Objects, ScanVisited(o)
  PROVE  GcInv'
<1>1. /\ pc = "scan" /\ stack = <<>> /\ o \in pass /\ Visited(o) /\ refs[o] < 1
      /\ pass' = pass \ {o} /\ white' = white \ {o} /\ black' = black \cup {o}
      /\ marked' = (marked \/ MarkLimit = 0)
      /\ objs' = objs /\ UNCHANGED <<refs, graph, pc, stack, todo, limit>>
  BY DEF ScanVisited, marking
<1>2. TypeOK /\ o \in white /\ pass \subseteq white /\ marked \in BOOLEAN
  BY <1>1 DEF GcInv, PhaseInv, TypeOK
<1>3. refs[o] = 0 /\ handles[o] = 0
  BY <1>1, <1>2, Colours DEF GcInv, CountInv
<1>4. marked' = marked
  BY <1>1, <1>2
<1>5. Allocated' = Allocated
  BY <1>1, <1>2 DEF Allocated
<1>6. TypeOK'
  BY <1>1, <1>2, <1>4 DEF TypeOK, graph
<1>7. PhaseInv'
  <2>1. black' \cap white' = {} /\ objs' \cap white' = {} /\ objs' = {} /\ pass' \subseteq white'
    BY <1>1, <1>2 DEF GcInv, PhaseInv
  <2>. QED
    BY <1>1, <2>1 DEF GcInv, PhaseInv
<1>8. GraphInv' /\ WeakConsistent' /\ KeptInv' /\ Live' = Live
  BY <1>1, <1>5, MarkingKeeps
<1>9. CountInv'
  BY <1>1, <1>3 DEF GcInv, CountInv, graph
<1>10. \A x : Visited(x)' <=> Visited(x)
  BY <1>1 DEF Visited
<1>11. \A x : Entered(x)' <=> Entered(x)
  BY <1>1, <1>2, <1>3 DEF Entered
<1>12. SoundInv'
  <2>1. \A x \in Objects : todo'[x] \subseteq Items(x)
    BY <1>1 DEF GcInv, SoundInv
  <2>2. (\A k \in 1..Len(stack) : stack[k] \in Allocated /\ Visited(stack[k]))'
    BY <1>1
  <2>. QED
    BY <1>1, <1>5, <1>10, <2>1, <2>2, SoundStep
<1>13. CompleteInv'
  <2>1. \A x \in Objects : Entered(x)' => Visited(x)'
    BY <1>10, <1>11, Colours
  <2>. QED
    BY <1>1, <1>10, <1>11, <2>1, CompleteStep
<1>14. PassInv' /\ MarkExact'
  <2>1. white' \ pass' \subseteq white \ pass
    BY <1>1
  <2>. QED
    BY <1>1, <1>4, <1>10, <2>1 DEF GcInv, PassInv, MarkExact
<1>. QED
  BY <1>6, <1>7, <1>8, <1>9, <1>12, <1>13, <1>14 DEF GcInv

\* An object whose marking was put off moves to the black list and is marked.
LEMMA ScanGrayStep ==
  ASSUME GcInv, MarkLimit # 0, NEW o \in Objects, ScanGray(o)
  PROVE  GcInv'
<1>1. /\ pc = "scan" /\ stack = <<>> /\ o \in pass /\ Visited(o) /\ refs[o] >= 1
      /\ pass' = pass \ {o} /\ white' = white \ {o} /\ black' = black \cup {o}
      /\ refs' = [refs EXCEPT ![o] = 0] /\ marked' = TRUE
      /\ stack' = Append(stack, o) /\ todo' = [todo EXCEPT ![o] = Items(o)]
      /\ objs' = objs /\ UNCHANGED <<graph, pc, limit>>
  BY DEF ScanGray, Enter
<1>2. /\ TypeOK /\ WeakConsistent /\ stack \in Seq(Objects) /\ todo \in [Objects -> SUBSET AllItems]
      /\ refs \in [Objects -> 0 .. NonVisited] /\ o \in white /\ pass \subseteq white
      /\ NonVisited \in Nat /\ NonVisited > 1 /\ MarkLimit \in Nat
  BY <1>1, Colours DEF GcInv, PhaseInv, TypeOK
<1>3. /\ handles[o] = 0 /\ o \notin black /\ refs[o] # 0 /\ Items(o) \subseteq AllItems
      /\ o \in Allocated
  BY <1>1, <1>2, ItemsThere DEF GcInv, CountInv, PhaseInv, Allocated
<1>4. refs' \in [Objects -> 0 .. NonVisited] /\ refs'[o] = 0 /\ \A x \in Objects : x # o => refs'[x] = refs[x]
  BY <1>1, <1>2
<1>5. Allocated' = Allocated
  BY <1>1, <1>2 DEF Allocated
<1>6. /\ stack' \in Seq(Objects) /\ stack' # <<>> /\ Len(stack') = 1
      /\ \A i \in 1..Len(stack') : stack'[i] = o
      /\ \E i \in 1..Len(stack') : stack'[i] = o
  <2>1. Len(stack) = 0
    BY <1>1
  <2>. QED
    BY <1>1, <1>2, <2>1, PushMark
<1>7. TypeOK'
  BY <1>1, <1>2, <1>3, <1>4, <1>6 DEF TypeOK, graph
<1>8. \A x \in Objects : todo[x] = {} /\ (x # o => todo'[x] = {})
  BY <1>1, <1>2 DEF GcInv, PhaseInv
<1>9. PhaseInv'
  <2>1. limit' = MarkLimit - (Len(stack') - 1)
    BY <1>1, <1>6, Colours DEF GcInv, PhaseInv
  <2>2. \A x \in Objects : todo'[x] # {} => \E i \in 1..Len(stack') : stack'[i] = x
    BY <1>6, <1>8
  <2>3. black' \cap white' = {} /\ objs' \cap white' = {} /\ objs' = {} /\ pass' \subseteq white'
    BY <1>1, <1>2 DEF GcInv, PhaseInv
  <2>. QED
    BY <1>1, <1>6, <2>1, <2>2, <2>3 DEF PhaseInv
<1>10. GraphInv' /\ WeakConsistent' /\ KeptInv' /\ Live' = Live
  <2>1. \A x \in Objects : refs[x] = 0 => refs'[x] = 0
    BY <1>4
  <2>. QED
    BY <1>1, <1>5, <2>1, MarkingKeeps
<1>11. CountInv'
  <2>1. objs \cup black \subseteq Objects /\ white \subseteq Objects
    BY <1>2 DEF TypeOK
  <2>2. \A x \in objs' \cup black' : x = o \/ (x \in objs \cup black /\ x # o)
    BY <1>1
  <2>3. \A x \in objs' \cup black' : refs'[x] = handles[x]
    BY <1>3, <1>4, <2>1, <2>2 DEF GcInv, CountInv
  <2>4. \A x \in white' : handles[x] = 0 /\ refs'[x] \in {0, 1, NonVisited}
    BY <1>1, <1>4, <2>1 DEF GcInv, CountInv
  <2>. QED
    BY <1>1, <2>3, <2>4 DEF CountInv, graph
<1>12. \A x \in Objects : Visited(x)' <=> Visited(x)
  BY <1>1, <1>2, <1>4 DEF Visited
<1>13. SoundInv'
  <2>1. \A x \in Objects : todo'[x] \subseteq Items(x)
    BY <1>1, <1>2, <1>8
  <2>2. (\A i \in 1..Len(stack) : stack[i] \in Allocated /\ Visited(stack[i]))'
    BY <1>2, <1>3, <1>4, <1>5, <1>6 DEF Visited
  <2>3. \A x \in Allocated : Visited(x)' => Visited(x)
    BY <1>2, <1>12 DEF TypeOK, Allocated
  <2>. QED
    BY <1>1, <1>5, <2>1, <2>2, <2>3, SoundStep
<1>14. CompleteInv'
  <2>1. \A x \in Objects : Entered(x)' => Entered(x) \/ x = o
    BY <1>1, <1>4 DEF Entered
  <2>2. todo'[o] = Items(o)
    BY <1>1, <1>2
  <2>3. \A x \in Objects : Entered(x)' => Visited(x)'
    BY <1>1, <1>12, <2>1, Colours
  <2>4. \A x \in Objects : Entered(x)' => Entered(x) \/ todo'[x] = Items(x)
    BY <2>1, <2>2
  <2>. QED
    BY <1>1, <1>8, <1>12, <2>3, <2>4, CompleteStep
<1>15. PassInv' /\ MarkExact'
  BY <1>1 DEF PassInv, MarkExact
<1>. QED
  BY <1>7, <1>9, <1>10, <1>11, <1>13, <1>14, <1>15 DEF GcInv

\* A white object stays where it is.
LEMMA ScanWhiteStep ==
  ASSUME GcInv, MarkLimit # 0, NEW o \in Objects, ScanWhite(o)
  PROVE  GcInv'
<1>1. /\ pc = "scan" /\ stack = <<>> /\ o \in pass /\ ~ Visited(o) /\ pass' = pass \ {o}
      /\ UNCHANGED <<objs, black, white>>
      /\ UNCHANGED <<refs, graph, pc, stack, todo, limit, marked>>
  BY DEF ScanWhite, marking, lists
<1>2. Allocated' = Allocated /\ TypeOK
  BY <1>1 DEF Allocated, GcInv
<1>3. TypeOK'
  BY <1>1, <1>2 DEF TypeOK, graph
<1>4. PhaseInv'
  BY <1>1 DEF GcInv, PhaseInv
<1>5. GraphInv' /\ WeakConsistent' /\ KeptInv' /\ Live' = Live
  BY <1>1, <1>2, MarkingKeeps
<1>6. CountInv'
  BY <1>1 DEF GcInv, CountInv, graph
<1>7. \A x : (Visited(x)' <=> Visited(x)) /\ (Entered(x)' <=> Entered(x))
  BY <1>1 DEF Visited, Entered
<1>8. SoundInv'
  <2>1. \A x \in Objects : todo'[x] \subseteq Items(x)
    BY <1>1 DEF GcInv, SoundInv
  <2>2. (\A k \in 1..Len(stack) : stack[k] \in Allocated /\ Visited(stack[k]))'
    BY <1>1
  <2>. QED
    BY <1>1, <1>2, <1>7, <2>1, <2>2, SoundStep
<1>9. CompleteInv'
  <2>1. \A x \in Objects : Entered(x)' => Visited(x)'
    BY <1>7, Colours
  <2>. QED
    BY <1>1, <1>7, <2>1, CompleteStep
<1>10. PassInv' /\ MarkExact'
  <2>1. \A x \in white' \ pass' : x \in white \ pass \/ x = o
    BY <1>1
  <2>. QED
    BY <1>1, <1>7, <2>1 DEF GcInv, PassInv, MarkExact
<1>. QED
  BY <1>3, <1>4, <1>5, <1>6, <1>8, <1>9, <1>10 DEF GcInv

\* A pass that marked nothing is the last one: then what was visited is closed,
\* so the black list is what the program can reach.
LEMMA BlackIsLive ==
  ASSUME GcInv, MarkLimit # 0, ScanDone
  PROVE  black = Live
<1>1. pc = "scan" /\ stack = <<>> /\ pass = {} /\ ~ marked
  BY DEF ScanDone
<1>2. TypeOK /\ objs = {} /\ \A o \in Objects : todo[o] = {}
  BY <1>1 DEF GcInv, PhaseInv
<1>3. \A o \in white : ~ Visited(o) /\ handles[o] = 0
  BY <1>1 DEF GcInv, PassInv, CountInv
<1>4. \A o \in black : Visited(o) /\ o \in Live /\ Entered(o) /\ o \in Objects
  BY <1>1, <1>2, Colours DEF GcInv, SoundInv, Allocated, Entered, TypeOK
<1>5. Live \subseteq black \cup white
  BY <1>2, LiveKept DEF GcInv, LiveAllocated, Allocated
<1>6. Closed(Live) /\ Live \subseteq Objects
  BY <1>2, LiveClosed
<1>7. ASSUME NEW o \in Objects, handles[o] > 0 PROVE o \in black
  <2>1. o \in Live
    BY <1>6, <1>7 DEF Closed
  <2>. QED
    BY <1>3, <1>5, <1>7, <2>1
<1>8. ASSUME NEW o \in black, NEW c \in fields[o] PROVE c \in black
  <2>1. c \in Live
    BY <1>4, <1>6 DEF Closed
  <2>2. Visited(c)
    BY <1>1, <1>2, <1>4 DEF GcInv, CompleteInv
  <2>. QED
    BY <1>3, <1>5, <2>1, <2>2
<1>9. ASSUME NEW e \in entries, e[1] \in black, e[2] \in black PROVE e[3] \in black
  <2>1. e[3] \in Live
    BY <1>4, <1>6, <1>9 DEF Closed
  <2>2. Visited(e[3])
    BY <1>1, <1>2, <1>4, <1>9 DEF GcInv, CompleteInv
  <2>. QED
    BY <1>3, <1>5, <2>1, <2>2
<1>10. Closed(black) /\ black \in SUBSET Objects
  BY <1>2, <1>7, <1>8, <1>9 DEF Closed, TypeOK
<1>. QED
  BY <1>4, <1>10, LiveLeast

\* The marking ends.
LEMMA ScanDoneStep ==
  ASSUME GcInv, MarkLimit # 0, ScanDone
  PROVE  GcInv'
<1>1. /\ pc = "scan" /\ stack = <<>> /\ pass = {} /\ pc' = "swap"
      /\ UNCHANGED <<objs, black, white>>
      /\ UNCHANGED <<refs, graph, pass, stack, todo, limit, marked>>
  BY DEF ScanDone, marking, lists
<1>2. Allocated' = Allocated /\ TypeOK
  BY <1>1 DEF Allocated, GcInv
<1>3. TypeOK'
  BY <1>1, <1>2 DEF TypeOK, graph
<1>4. PhaseInv'
  BY <1>1 DEF GcInv, PhaseInv
<1>5. GraphInv' /\ WeakConsistent' /\ KeptInv' /\ Live' = Live
  BY <1>1, <1>2, MarkingKeeps
<1>6. CountInv'
  BY <1>1 DEF GcInv, CountInv, graph
<1>7. SoundInv'
  <2>1. \A x \in Objects : todo'[x] \subseteq Items(x)
    BY <1>1 DEF GcInv, SoundInv
  <2>2. (\A k \in 1..Len(stack) : stack[k] \in Allocated /\ Visited(stack[k]))'
    BY <1>1
  <2>3. \A x : Visited(x)' <=> Visited(x)
    BY <1>1 DEF Visited
  <2>. QED
    BY <1>1, <1>2, <2>1, <2>2, <2>3, SoundStep
<1>8. CompleteInv' /\ PassInv'
  BY <1>1 DEF CompleteInv, PassInv
<1>9. MarkExact'
  BY <1>1, <1>5, BlackIsLive DEF MarkExact
<1>. QED
  BY <1>3, <1>4, <1>5, <1>6, <1>7, <1>8, <1>9 DEF GcInv

\* The black list becomes the list of the objects.
LEMMA SwapStep ==
  ASSUME GcInv, MarkLimit # 0, Swap
  PROVE  GcInv'
<1>1. /\ pc = "swap" /\ pc' = "sweep" /\ objs' = black /\ black' = {} /\ white' = white
      /\ UNCHANGED <<refs, pass, stack, todo, limit, marked>>
      /\ UNCHANGED <<handles, fields, entries, weak, target, native>>
  BY DEF Swap, graph, marking
<1>2. TypeOK /\ objs = {} /\ black = Live
  BY <1>1 DEF GcInv, PhaseInv, MarkExact
<1>3. Allocated' = Allocated
  BY <1>1, <1>2 DEF Allocated
<1>4. TypeOK'
  BY <1>1, <1>2 DEF TypeOK
<1>5. PhaseInv'
  <2>1. black' \cap white' = {} /\ objs' \cap white' = {}
    BY <1>1 DEF GcInv, PhaseInv
  <2>. QED
    BY <1>1, <2>1 DEF GcInv, PhaseInv
<1>6. GraphInv' /\ WeakConsistent'
  BY <1>1, <1>3 DEF GcInv, GraphInv, WeakConsistent, FreeObjects, HoldersOf
<1>7. KeptInv'
  <2>1. Closed(black)
    BY <1>2, LiveClosed
  <2>2. Kept' = black
    BY <1>1 DEF Kept
  <2>. QED
    BY <1>1, <2>1, <2>2 DEF KeptInv, Closed
<1>8. CountInv'
  BY <1>1 DEF GcInv, CountInv
<1>9. SoundInv' /\ CompleteInv' /\ PassInv' /\ MarkExact'
  BY <1>1 DEF SoundInv, CompleteInv, PassInv, MarkExact
<1>. QED
  BY <1>4, <1>5, <1>6, <1>7, <1>8, <1>9 DEF GcInv

\* The collection ends.
LEMMA SweepDoneStep ==
  ASSUME GcInv, SweepDone
  PROVE  GcInv'
<1>1. /\ pc = "sweep" /\ white = {} /\ pc' = "run"
      /\ UNCHANGED <<objs, black, white>> /\ UNCHANGED <<refs, pass, stack, todo, limit, marked>>
      /\ UNCHANGED <<handles, fields, entries, weak, target, native>>
  BY DEF SweepDone, graph, marking, lists
<1>2. TypeOK /\ black = {}
  BY <1>1 DEF GcInv, PhaseInv
<1>3. Allocated' = Allocated /\ Kept' = Kept
  BY <1>1, <1>2 DEF Allocated, Kept
<1>4. TypeOK'
  BY <1>1, <1>2 DEF TypeOK
<1>5. PhaseInv'
  BY <1>1 DEF GcInv, PhaseInv
<1>6. GraphInv' /\ WeakConsistent'
  BY <1>1, <1>3 DEF GcInv, GraphInv, WeakConsistent, FreeObjects, HoldersOf
<1>7. KeptInv'
  BY <1>1, <1>3 DEF GcInv, KeptInv, Closed
<1>8. CountInv'
  BY <1>1 DEF GcInv, CountInv
<1>9. SoundInv' /\ CompleteInv' /\ PassInv' /\ MarkExact'
  BY <1>1 DEF SoundInv, CompleteInv, PassInv, MarkExact
<1>. QED
  BY <1>4, <1>5, <1>6, <1>7, <1>8, <1>9 DEF GcInv

\* The object of a native pointer has a handle, and its holders are finitely
\* many.
LEMMA Holders ==
  ASSUME GcInv, NEW b \in Objects
  PROVE  /\ IsFiniteSet(HoldersOf(b)) /\ Cardinality(HoldersOf(b)) \in Nat
         /\ HoldersOf(b) # {} => handles[b] > 0
<1>1. IsFiniteSet(HoldersOf(b))
  BY GcAssumption, FS_Subset DEF HoldersOf
<1>2. Cardinality(HoldersOf(b)) \in Nat /\ (HoldersOf(b) # {} => Cardinality(HoldersOf(b)) > 0)
  <2> DEFINE H == HoldersOf(b)
  <2>1. IsFiniteSet(H)
    BY <1>1
  <2>. HIDE DEF H
  <2>2. Cardinality(H) \in Nat /\ (Cardinality(H) = 0 <=> H = {})
    BY <2>1, FS_CardinalityType, FS_EmptySet
  <2>3. Cardinality(H) \in Nat /\ (H # {} => Cardinality(H) > 0)
    BY <2>2
  <2>. QED
    BY <2>3 DEF H
<1>3. handles[b] >= Cardinality(HoldersOf(b)) /\ handles[b] \in Nat
  BY GcAssumption DEF GcInv, GraphInv, TypeOK
<1>4. ASSUME HoldersOf(b) # {} PROVE handles[b] > 0
  <2>. DEFINE n == Cardinality(HoldersOf(b))
  <2>1. n \in Nat /\ n > 0 /\ handles[b] >= n /\ handles[b] \in Nat
    BY <1>2, <1>3, <1>4
  <2>. HIDE DEF n
  <2>. QED
    BY <2>1
<1>. QED
  BY <1>1, <1>2, <1>4

\* A handle more or less and a holder more or less.
LEMMA HolderRemoved ==
  ASSUME NEW S, IsFiniteSet(S), NEW x, NEW n \in Nat, n >= Cardinality(S)
  PROVE  n >= Cardinality(S \ {x}) /\ (x \in S => n > 0 /\ n - 1 >= Cardinality(S \ {x}))
<1> DEFINE c == Cardinality(S)
           d == Cardinality(S \ {x})
<1>1. c \in Nat
  BY FS_CardinalityType
<1>2. d = IF x \in S THEN c - 1 ELSE c
  BY FS_RemoveElement
<1>3. x \in S => c # 0
  BY FS_EmptySet
<1>4. n >= c
  OBVIOUS
<1>. HIDE DEF c, d
<1>5. n >= d /\ (x \in S => n > 0 /\ n - 1 >= d)
  BY <1>1, <1>2, <1>3, <1>4
<1>. QED
  BY <1>5 DEF d

\* The native pointer that is added comes with its own handle.
LEMMA HolderAdded ==
  ASSUME NEW S, IsFiniteSet(S), NEW x, NEW n \in Nat, n >= Cardinality(S)
  PROVE  n + 1 >= Cardinality(S \cup {x})
<1> DEFINE c == Cardinality(S)
           d == Cardinality(S \cup {x})
<1>1. c \in Nat /\ n >= c
  BY FS_CardinalityType
<1>2. d = IF x \in S THEN c ELSE c + 1
  BY FS_AddElement
<1>. HIDE DEF c, d
<1>3. n + 1 >= d
  BY <1>1, <1>2
<1>. QED
  BY <1>3 DEF d

\* A white object is freed.  It may hold the last handle of another object, which
\* is then freed by a later collection.
LEMMA SweepStep ==
  ASSUME GcInv, MarkLimit # 0, NEW o \in Objects, Sweep(o)
  PROVE  GcInv'
<1>1. /\ pc = "sweep" /\ o \in white /\ white' = white \ {o}
      /\ entries' = { e \in entries : e[1] # o /\ e[2] # o }
      /\ weak' = [k \in Objects |-> IF k = o THEN {} ELSE weak[k] \ {o}]
      /\ target' = [w \in Objects |-> IF w = o \/ target[w] = o THEN NoObj ELSE target[w]]
      /\ fields' = [fields EXCEPT ![o] = {}]
      /\ native' = [native EXCEPT ![o] = NoObj]
      /\ Release(o)
      /\ UNCHANGED <<objs, black, pc, pass, stack, todo, limit, marked>>
  BY DEF Sweep, marking
<1>2. /\ TypeOK /\ black = {} /\ o \notin objs /\ handles[o] = 0 /\ Allocated = objs \cup white
      /\ refs \in [Objects -> 0 .. NonVisited] /\ handles \in [Objects -> 0 .. MaxRefs]
      /\ NonVisited \in Nat /\ MaxRefs \in Nat /\ NoObj \notin Objects
      /\ objs \subseteq Objects /\ white \subseteq Objects /\ stack = <<>>
      /\ native \in [Objects -> Objects \cup {NoObj}]
  BY <1>1, Colours, GcAssumption DEF GcInv, PhaseInv, CountInv, TypeOK, Allocated
<1>3. Closed(objs)
  BY <1>1 DEF GcInv, KeptInv, Kept
<1>4. Allocated' = Allocated \ {o} /\ FreeObjects' = FreeObjects \cup {o}
  BY <1>1, <1>2 DEF Allocated, FreeObjects
<1> DEFINE b == native[o]
<1>5. ASSUME b # NoObj
      PROVE  b \in Objects /\ b \in objs /\ b # o /\ handles[b] > 0 /\ refs[b] = handles[b]
  <2>1. b \in Objects /\ o \in HoldersOf(b)
    BY <1>2, <1>5 DEF HoldersOf
  <2>2. handles[b] > 0
    BY <2>1, Holders
  <2>3. b \in objs
    BY <1>3, <2>1, <2>2 DEF Closed
  <2>. QED
    BY <1>2, <2>1, <2>2, <2>3 DEF GcInv, CountInv
<1>6. IF b = NoObj
        THEN handles' = handles /\ refs' = [refs EXCEPT ![o] = 0]
        ELSE /\ handles' = [handles EXCEPT ![b] = @ - 1]
             /\ refs' = [refs EXCEPT ![o] = 0, ![b] = @ - 1]
  BY <1>1 DEF Release
<1>. HIDE DEF b
<1>7. /\ refs' \in [Objects -> 0 .. NonVisited] /\ handles' \in [Objects -> 0 .. MaxRefs]
      /\ refs'[o] = 0 /\ handles'[o] = 0
      /\ \A x \in Objects : x # o /\ x # b => refs'[x] = refs[x] /\ handles'[x] = handles[x]
      /\ b # NoObj => refs'[b] = handles[b] - 1 /\ handles'[b] = handles[b] - 1
      /\ \A x \in Objects : handles'[x] > 0 => handles[x] > 0
  <2>1. CASE b = NoObj
    <3>1. handles' = handles /\ refs' = [refs EXCEPT ![o] = 0]
      BY <1>6, <2>1
    <3>2. refs' \in [Objects -> 0 .. NonVisited] /\ refs'[o] = 0
      BY <1>2, <3>1
    <3>3. \A x \in Objects : x # o => refs'[x] = refs[x]
      BY <1>2, <3>1
    <3>. QED
      BY <1>2, <2>1, <3>1, <3>2, <3>3
  <2>2. CASE b # NoObj
    <3>1. /\ handles' = [handles EXCEPT ![b] = @ - 1]
          /\ refs' = [refs EXCEPT ![o] = 0, ![b] = @ - 1]
      BY <1>6, <2>2
    <3>2. /\ b \in Objects /\ b # o /\ handles[b] \in 0 .. MaxRefs /\ handles[b] > 0
          /\ refs[b] = handles[b] /\ refs[b] \in 0 .. NonVisited
      BY <1>2, <1>5, <2>2
    <3>3. handles[b] - 1 \in 0 .. MaxRefs /\ handles[b] - 1 \in 0 .. NonVisited
      BY <1>2, <3>2
    <3>4. /\ handles' \in [Objects -> 0 .. MaxRefs] /\ handles'[b] = handles[b] - 1
          /\ \A x \in Objects : x # b => handles'[x] = handles[x]
      BY <1>2, <3>1, <3>2, <3>3
    <3>5. /\ refs' \in [Objects -> 0 .. NonVisited] /\ refs'[b] = handles[b] - 1 /\ refs'[o] = 0
          /\ \A x \in Objects : x # b /\ x # o => refs'[x] = refs[x]
      BY <1>2, <3>1, <3>2, <3>3
    <3>. QED
      BY <1>2, <3>2, <3>4, <3>5
  <2>. QED
    BY <2>1, <2>2
<1>8. TypeOK'
  <2>1. /\ fields' \in [Objects -> SUBSET Objects]
        /\ entries' \subseteq WeakMaps \X Objects \X Objects
        /\ weak' \in [Objects -> SUBSET (WeakMaps \cup WeakRefs)]
        /\ target' \in [Objects -> Objects \cup {NoObj}]
        /\ native' \in [Objects -> Objects \cup {NoObj}]
    BY <1>1, <1>2 DEF TypeOK
  <2>. QED
    BY <1>1, <1>2, <1>7, <2>1 DEF TypeOK
<1>9. PhaseInv'
  BY <1>1, <1>2 DEF GcInv, PhaseInv
<1>10. GraphInv'
  <2>1. ASSUME NEW x \in FreeObjects'
        PROVE  fields'[x] = {} /\ native'[x] = NoObj /\ handles'[x] = 0 /\ refs'[x] = 0
    <3>1. CASE x = o
      BY <1>1, <1>2, <1>7, <3>1 DEF TypeOK
    <3>2. CASE x # o
      <4>1. x \in FreeObjects /\ x \in Objects /\ x \notin objs
        BY <1>4, <2>1, <3>2 DEF FreeObjects, Allocated
      <4>2. x # b
        BY <1>2, <1>5, <4>1
      <4>. QED
        BY <1>1, <1>2, <1>7, <3>2, <4>1, <4>2 DEF GcInv, GraphInv, TypeOK
    <3>. QED
      BY <3>1, <3>2
  <2>2. \A w \in Objects : target'[w] # NoObj => w \in WeakRefs
    BY <1>1 DEF GcInv, GraphInv
  <2>3. ASSUME NEW x \in Objects
        PROVE  handles'[x] >= Cardinality(HoldersOf(x)')
    <3>1. HoldersOf(x)' = HoldersOf(x) \ {o}
      BY <1>1, <1>2 DEF HoldersOf
    <3>2. IsFiniteSet(HoldersOf(x)) /\ handles[x] \in Nat /\ handles[x] >= Cardinality(HoldersOf(x))
      BY <1>2, Holders DEF GcInv, GraphInv
    <3>3. x # o => /\ handles[x] >= Cardinality(HoldersOf(x) \ {o})
                   /\ (o \in HoldersOf(x) => handles[x] - 1 >= Cardinality(HoldersOf(x) \ {o}))
      BY <3>2, HolderRemoved
    <3>4. CASE x = b
      <4>1. o \in HoldersOf(x) /\ x # o /\ b # NoObj
        BY <1>2, <1>5, <3>4 DEF HoldersOf, b
      <4>2. handles'[x] = handles[x] - 1
        BY <1>7, <3>4, <4>1
      <4>. QED
        BY <3>1, <3>3, <4>1, <4>2
    <3>5. CASE x # b /\ x # o
      BY <1>7, <3>1, <3>3, <3>5
    <3>6. CASE x = o
      <4>1. handles'[x] = handles[x]
        BY <1>2, <1>7, <3>6
      <4>2. handles[x] >= Cardinality(HoldersOf(x) \ {o})
        BY <3>2, HolderRemoved
      <4>. QED
        BY <3>1, <4>1, <4>2
    <3>. QED
      BY <3>4, <3>5, <3>6
  <2>. QED
    BY <2>1, <2>2, <2>3 DEF GraphInv
<1>11. WeakConsistent'
  <2>1. ASSUME NEW k \in Objects, NEW h \in Objects
        PROVE  h \in weak'[k] <=> (target'[h] = k \/ \E e \in entries' : e[1] = h /\ e[2] = k)
    <3>1. h \in weak[k] <=> (target[h] = k \/ \E e \in entries : e[1] = h /\ e[2] = k)
      BY DEF GcInv, WeakConsistent
    <3>2. CASE k = o \/ h = o
      BY <1>1, <1>2, <3>2
    <3>3. CASE k # o /\ h # o
      <4>1. h \in weak'[k] <=> h \in weak[k]
        BY <1>1, <3>3
      <4>2. target'[h] = k <=> target[h] = k
        BY <1>1, <1>2, <3>3
      <4>3. (\E e \in entries' : e[1] = h /\ e[2] = k) <=> (\E e \in entries : e[1] = h /\ e[2] = k)
        BY <1>1, <3>3
      <4>. QED
        BY <3>1, <4>1, <4>2, <4>3
    <3>. QED
      BY <3>2, <3>3
  <2>2. ASSUME NEW k \in Objects, weak'[k] # {}
        PROVE  {k} \cup weak'[k] \subseteq Allocated'
    <3>1. k # o /\ weak'[k] = weak[k] \ {o}
      BY <1>1, <2>2
    <3>2. weak[k] # {}
      BY <2>2, <3>1
    <3>3. {k} \cup weak[k] \subseteq Allocated
      BY <3>2 DEF GcInv, WeakConsistent
    <3>. QED
      BY <1>4, <3>1, <3>3
  <2>. QED
    BY <2>1, <2>2 DEF WeakConsistent
<1>12. KeptInv'
  <2>1. \A x \in Objects : handles'[x] > 0 => x \in objs
    BY <1>3, <1>7 DEF Closed
  <2>2. \A x \in objs : fields'[x] \subseteq objs
    BY <1>1, <1>2, <1>3 DEF Closed, TypeOK
  <2>3. \A e \in entries' : e[1] \in objs /\ e[2] \in objs => e[3] \in objs
    BY <1>1, <1>3 DEF Closed
  <2>4. Kept' = objs
    BY <1>1 DEF Kept
  <2>. QED
    BY <2>1, <2>2, <2>3, <2>4 DEF KeptInv, Closed
<1>13. CountInv'
  <2>1. \A x \in objs : refs'[x] = handles'[x]
    <3>1. \A x \in objs : x \in Objects /\ x # o /\ refs[x] = handles[x]
      BY <1>2 DEF GcInv, CountInv
    <3>. QED
      BY <1>2, <1>5, <1>7, <3>1
  <2>2. \A x \in white' : handles'[x] = 0 /\ refs'[x] \in {0, 1, NonVisited}
    <3>1. \A x \in white' : /\ x \in Objects /\ x # o /\ x # b
                            /\ handles[x] = 0 /\ refs[x] \in {0, 1, NonVisited}
      <4>1. b # NoObj => b \notin white
        BY <1>5 DEF GcInv, PhaseInv
      <4>. QED
        BY <1>1, <1>2, <4>1 DEF GcInv, CountInv
    <3>. QED
      BY <1>7, <3>1
  <2>. QED
    BY <1>1, <1>2, <2>1, <2>2 DEF CountInv
<1>14. SoundInv' /\ CompleteInv' /\ PassInv' /\ MarkExact'
  BY <1>1 DEF SoundInv, CompleteInv, PassInv, MarkExact
<1>. QED
  BY <1>8, <1>9, <1>10, <1>11, <1>12, <1>13, <1>14 DEF GcInv

-----------------------------------------------------------------------------
(* The steps of the program                                                *)

\* Between two collections all allocated objects are in one list.
LEMMA RunFacts ==
  ASSUME GcInv, pc = "run"
  PROVE  /\ TypeOK /\ black = {} /\ white = {} /\ Allocated = objs /\ Kept = objs
         /\ objs \subseteq Objects /\ Live \subseteq objs /\ Live \subseteq Objects /\ Closed(objs)
         /\ \A o \in objs : refs[o] = handles[o]
         /\ FreeObjects = Objects \ objs
         /\ MaxRefs \in Nat \ {0} /\ NonVisited \in Nat /\ NonVisited = MaxRefs + 1
         /\ handles \in [Objects -> 0 .. MaxRefs] /\ refs \in [Objects -> 0 .. NonVisited]
<1>1. TypeOK /\ black = {} /\ white = {}
  BY DEF GcInv, PhaseInv
<1>2. Allocated = objs /\ Kept = objs
  BY <1>1 DEF Allocated, Kept
<1>3. Live \subseteq objs /\ Closed(objs)
  BY <1>1, <1>2, LiveKept DEF GcInv, KeptInv
<1>4. MaxRefs \in Nat \ {0} /\ NonVisited \in Nat /\ NonVisited = MaxRefs + 1
  BY GcAssumption DEF NonVisited
<1>5. \A o \in objs : refs[o] = handles[o]
  BY DEF GcInv, CountInv
<1>. QED
  BY <1>1, <1>2, <1>3, <1>4, <1>5 DEF TypeOK, FreeObjects

\* A step of the program leaves the collector alone.
LEMMA ProgramStep ==
  ASSUME GcInv, pc = "run", UNCHANGED collector, TypeOK', GraphInv', WeakConsistent',
         Closed(objs)', \A o \in objs' : refs'[o] = handles'[o]
  PROVE  GcInv'
<1>1. /\ UNCHANGED <<pc, black, white, pass, stack, todo, limit, marked>>
      /\ black = {} /\ white = {}
  BY RunFacts DEF collector, marking
<1>2. PhaseInv'
  BY <1>1 DEF GcInv, PhaseInv
<1>3. KeptInv'
  <2>1. Kept' = objs'
    BY <1>1 DEF Kept, Allocated
  <2>. QED
    BY <2>1 DEF KeptInv, Closed
<1>4. CountInv' /\ SoundInv' /\ CompleteInv' /\ PassInv' /\ MarkExact'
  BY <1>1 DEF CountInv, SoundInv, CompleteInv, PassInv, MarkExact
<1>. QED
  BY <1>2, <1>3, <1>4 DEF GcInv

\* The reference count of one object changes with its handles.
LEMMA CountStep ==
  ASSUME GcInv, pc = "run", NEW o \in objs, NEW n \in 0 .. MaxRefs,
         refs' = [refs EXCEPT ![o] = n], handles' = [handles EXCEPT ![o] = n],
         UNCHANGED <<objs, fields, entries, weak, target, native, collector>>,
         n >= Cardinality(HoldersOf(o))
  PROVE  GcInv'
<1>1. /\ TypeOK /\ objs \subseteq Objects /\ Closed(objs) /\ FreeObjects = Objects \ objs
      /\ MaxRefs \in Nat \ {0} /\ NonVisited \in Nat /\ NonVisited = MaxRefs + 1
      /\ handles \in [Objects -> 0 .. MaxRefs] /\ refs \in [Objects -> 0 .. NonVisited]
      /\ \A x \in objs : refs[x] = handles[x]
  BY RunFacts
<1>2. n \in 0 .. NonVisited
  BY <1>1
<1>3. /\ handles' \in [Objects -> 0 .. MaxRefs] /\ refs' \in [Objects -> 0 .. NonVisited]
      /\ handles'[o] = n /\ refs'[o] = n
      /\ \A x \in Objects : x # o => refs'[x] = refs[x] /\ handles'[x] = handles[x]
  BY <1>1, <1>2
<1>4. UNCHANGED <<pc, black, white, pass, stack, todo, limit, marked>>
  BY DEF collector, marking
<1>5. TypeOK'
  BY <1>1, <1>3, <1>4 DEF TypeOK
<1>6. FreeObjects' = FreeObjects /\ Allocated' = Allocated
  BY <1>4 DEF FreeObjects, Allocated
<1>7. GraphInv'
  <2>1. \A x \in FreeObjects' : fields'[x] = {} /\ native'[x] = NoObj /\ handles'[x] = 0 /\ refs'[x] = 0
    BY <1>1, <1>3, <1>6 DEF GcInv, GraphInv
  <2>2. \A x \in Objects : handles'[x] >= Cardinality(HoldersOf(x)')
    BY <1>3 DEF GcInv, GraphInv, HoldersOf
  <2>. QED
    BY <2>1, <2>2 DEF GcInv, GraphInv
<1>8. WeakConsistent'
  BY <1>6 DEF GcInv, WeakConsistent
<1>9. Closed(objs)'
  BY <1>1, <1>3 DEF Closed
<1>10. \A x \in objs' : refs'[x] = handles'[x]
  BY <1>1, <1>3
<1>. QED
  BY <1>5, <1>7, <1>8, <1>9, <1>10, ProgramStep

\* ecma_ref_object, also of an object that only a WeakRef had.
LEMMA RefStep ==
  ASSUME GcInv, NEW o \in Objects, Ref(o)
  PROVE  GcInv'
<1>1. /\ pc = "run" /\ (o \in Live \/ \E w \in Live : target[w] = o)
      /\ refs[o] < MaxRefs
      /\ refs' = [refs EXCEPT ![o] = refs[o] + 1]
      /\ handles' = [handles EXCEPT ![o] = handles[o] + 1]
      /\ UNCHANGED <<objs, fields, entries, weak, target, native, collector>>
  BY DEF Ref
<1>2. o \in objs
  <2>1. Live \subseteq objs /\ Allocated = objs /\ Live \subseteq Objects /\ TypeOK
    BY <1>1, RunFacts
  <2>2. \A w \in Objects : target[w] # NoObj => target[w] \in objs
    BY <2>1, WeakAllocated DEF GcInv
  <2>3. o # NoObj
    BY GcAssumption
  <2>. QED
    BY <1>1, <2>1, <2>2, <2>3
<1>3. /\ refs[o] = handles[o] /\ handles[o] \in 0 .. MaxRefs /\ MaxRefs \in Nat
      /\ handles[o] >= Cardinality(HoldersOf(o)) /\ Cardinality(HoldersOf(o)) \in Nat
  BY <1>1, <1>2, RunFacts, Holders DEF GcInv, GraphInv
<1> DEFINE n == handles[o] + 1
           d == Cardinality(HoldersOf(o))
<1>4. n \in 0 .. MaxRefs /\ n >= d
  <2>1. d \in Nat /\ handles[o] >= d
    BY <1>3
  <2>. HIDE DEF d
  <2>. QED
    BY <1>1, <1>3, <2>1
<1>5. refs' = [refs EXCEPT ![o] = n] /\ handles' = [handles EXCEPT ![o] = n]
  BY <1>1, <1>3
<1>. HIDE DEF n
<1>. QED
  BY <1>1, <1>2, <1>4, <1>5, CountStep

\* ecma_deref_object of a handle that no native pointer holds.
LEMMA DerefStep ==
  ASSUME GcInv, NEW o \in Objects, Deref(o)
  PROVE  GcInv'
<1>1. /\ pc = "run" /\ handles[o] > Cardinality(HoldersOf(o))
      /\ refs' = [refs EXCEPT ![o] = refs[o] - 1]
      /\ handles' = [handles EXCEPT ![o] = handles[o] - 1]
      /\ UNCHANGED <<objs, fields, entries, weak, target, native, collector>>
  BY DEF Deref, HoldersOf
<1> DEFINE d == Cardinality(HoldersOf(o))
           n == handles[o] - 1
<1>2. d \in Nat /\ handles[o] > d
  BY <1>1, Holders
<1>3. handles[o] \in 0 .. MaxRefs /\ MaxRefs \in Nat
  BY <1>1, RunFacts
<1>4. n \in 0 .. MaxRefs /\ n >= d /\ handles[o] > 0
  <2>. HIDE DEF d
  <2>. QED
    BY <1>2, <1>3
<1>5. o \in objs /\ refs[o] = handles[o]
  BY <1>1, <1>4, RunFacts DEF Closed
<1>6. refs' = [refs EXCEPT ![o] = n] /\ handles' = [handles EXCEPT ![o] = n]
  BY <1>1, <1>5
<1>. HIDE DEF n
<1>. QED
  BY <1>1, <1>4, <1>5, <1>6, CountStep

\* A new object refers to nothing, and no entry or handle refers to it.
LEMMA NewStep ==
  ASSUME GcInv, NEW o \in Objects, New(o)
  PROVE  GcInv'
<1>1. /\ pc = "run" /\ o \notin objs /\ objs' = objs \cup {o}
      /\ refs' = [refs EXCEPT ![o] = 1] /\ handles' = [handles EXCEPT ![o] = 1]
      /\ UNCHANGED <<fields, entries, weak, target, native, collector>>
  BY DEF New
<1>2. /\ TypeOK /\ objs \subseteq Objects /\ Closed(objs) /\ FreeObjects = Objects \ objs
      /\ MaxRefs \in Nat \ {0} /\ NonVisited \in Nat /\ NonVisited = MaxRefs + 1
      /\ handles \in [Objects -> 0 .. MaxRefs] /\ refs \in [Objects -> 0 .. NonVisited]
      /\ Allocated = objs /\ \A x \in objs : refs[x] = handles[x]
  BY <1>1, RunFacts
<1>3. 1 \in 0 .. MaxRefs /\ 1 \in 0 .. NonVisited
  BY <1>2
<1>4. /\ handles' \in [Objects -> 0 .. MaxRefs] /\ refs' \in [Objects -> 0 .. NonVisited]
      /\ handles'[o] = 1 /\ refs'[o] = 1
      /\ \A x \in Objects : x # o => refs'[x] = refs[x] /\ handles'[x] = handles[x]
  BY <1>1, <1>2, <1>3
<1>5. UNCHANGED <<pc, black, white, pass, stack, todo, limit, marked>> /\ black = {} /\ white = {}
  BY <1>1, RunFacts DEF collector, marking
<1>6. TypeOK'
  BY <1>1, <1>2, <1>4, <1>5 DEF TypeOK
<1>7. FreeObjects' = FreeObjects \ {o} /\ Allocated' = Allocated \cup {o}
  BY <1>1, <1>5 DEF FreeObjects, Allocated
<1>8. o \in FreeObjects /\ fields[o] = {} /\ handles[o] = 0
  BY <1>1, <1>2 DEF GcInv, GraphInv
<1>9. GraphInv'
  <2>1. \A x \in FreeObjects' : fields'[x] = {} /\ native'[x] = NoObj /\ handles'[x] = 0 /\ refs'[x] = 0
    BY <1>1, <1>2, <1>4, <1>7 DEF GcInv, GraphInv
  <2>2. \A x \in Objects : handles'[x] >= Cardinality(HoldersOf(x)')
    <3>1. ASSUME NEW x \in Objects PROVE handles'[x] >= Cardinality(HoldersOf(x))
      <4> DEFINE d == Cardinality(HoldersOf(x))
      <4>1. d \in Nat /\ handles[x] >= d
        BY Holders DEF GcInv, GraphInv
      <4>2. handles'[x] >= handles[x] /\ handles'[x] \in Nat /\ handles[x] \in Nat
        BY <1>2, <1>4, <1>8
      <4>. HIDE DEF d
      <4>3. handles'[x] >= d
        BY <4>1, <4>2
      <4>. QED
        BY <4>3 DEF d
    <3>. QED
      BY <1>1, <3>1 DEF HoldersOf
  <2>. QED
    BY <1>1, <2>1, <2>2 DEF GcInv, GraphInv
<1>10. WeakConsistent'
  BY <1>1, <1>7 DEF GcInv, WeakConsistent
<1>11. Closed(objs)'
  <2>1. \A x \in Objects : handles'[x] > 0 => x \in objs'
    BY <1>1, <1>2, <1>4 DEF Closed
  <2>2. \A x \in objs' : fields'[x] \subseteq objs'
    BY <1>1, <1>2, <1>8 DEF Closed
  <2>3. \A e \in entries' : e[3] \in objs'
    <3>1. \A e \in entries : e[1] \in objs /\ e[2] \in objs
      BY <1>2, WeakAllocated DEF GcInv
    <3>. QED
      BY <1>1, <1>2, <3>1 DEF Closed
  <2>. QED
    BY <2>1, <2>2, <2>3 DEF Closed
<1>12. \A x \in objs' : refs'[x] = handles'[x]
  BY <1>1, <1>2, <1>4
<1>. QED
  BY <1>1, <1>6, <1>9, <1>10, <1>11, <1>12, ProgramStep

\* A property is set or deleted: both ends are reachable, so allocated.
LEMMA LinkStep ==
  ASSUME GcInv, NEW a \in Objects, NEW b \in Objects, Link(a, b) \/ Unlink(a, b)
  PROVE  GcInv'
<1>1. /\ pc = "run" /\ a \in Live
      /\ \/ b \in Live /\ fields' = [fields EXCEPT ![a] = @ \cup {b}]
         \/ fields' = [fields EXCEPT ![a] = @ \ {b}]
      /\ UNCHANGED <<objs, refs, handles, entries, weak, target, native, collector>>
  BY DEF Link, Unlink
<1>2. /\ TypeOK /\ objs \subseteq Objects /\ Closed(objs) /\ Live \subseteq objs
      /\ FreeObjects = Objects \ objs /\ fields \in [Objects -> SUBSET Objects]
      /\ \A x \in objs : refs[x] = handles[x]
  BY <1>1, RunFacts DEF TypeOK
<1>3. /\ fields' \in [Objects -> SUBSET Objects]
      /\ \A x \in Objects : x # a => fields'[x] = fields[x]
      /\ \A x \in objs : fields'[x] \subseteq objs
  BY <1>1, <1>2 DEF Closed
<1>4. UNCHANGED <<pc, black, white, pass, stack, todo, limit, marked>>
  BY <1>1 DEF collector, marking
<1>5. TypeOK'
  BY <1>1, <1>2, <1>3, <1>4 DEF TypeOK
<1>6. FreeObjects' = FreeObjects /\ Allocated' = Allocated
  BY <1>1, <1>4 DEF FreeObjects, Allocated
<1>7. GraphInv'
  BY <1>1, <1>2, <1>3, <1>6 DEF GcInv, GraphInv, HoldersOf
<1>8. WeakConsistent'
  BY <1>1, <1>6 DEF GcInv, WeakConsistent
<1>9. Closed(objs)'
  BY <1>1, <1>2, <1>3 DEF Closed
<1>. QED
  BY <1>1, <1>2, <1>5, <1>7, <1>8, <1>9, ProgramStep

\* Only the weak containers and the WEAK_REFS change.
LEMMA WeakStep ==
  ASSUME GcInv, pc = "run", UNCHANGED <<objs, refs, handles, fields, native, collector>>,
         entries' \subseteq WeakMaps \X Objects \X Objects,
         \A e \in entries' : e[1] \in objs /\ e[2] \in objs => e[3] \in objs,
         weak' \in [Objects -> SUBSET (WeakMaps \cup WeakRefs)],
         target' \in [Objects -> Objects \cup {NoObj}],
         \A w \in Objects : target'[w] # NoObj => w \in WeakRefs,
         \A k, h \in Objects :
           h \in weak'[k] <=> (target'[h] = k \/ \E e \in entries' : e[1] = h /\ e[2] = k),
         \A k \in Objects : weak'[k] # {} => {k} \cup weak'[k] \subseteq objs
  PROVE  GcInv'
<1>1. /\ TypeOK /\ objs \subseteq Objects /\ Closed(objs) /\ Allocated = objs
      /\ \A x \in objs : refs[x] = handles[x]
  BY RunFacts
<1>2. UNCHANGED <<pc, black, white, pass, stack, todo, limit, marked>>
  BY DEF collector, marking
<1>3. TypeOK'
  BY <1>1, <1>2 DEF TypeOK
<1>4. FreeObjects' = FreeObjects /\ Allocated' = objs
  BY <1>1, <1>2 DEF FreeObjects, Allocated
<1>5. GraphInv'
  BY <1>4 DEF GcInv, GraphInv, HoldersOf
<1>6. WeakConsistent'
  BY <1>4 DEF WeakConsistent
<1>7. Closed(objs)'
  BY <1>1 DEF Closed
<1>. QED
  BY <1>1, <1>3, <1>5, <1>6, <1>7, ProgramStep

\* A WeakMap entry is added or replaced.
LEMMA MapSetStep ==
  ASSUME GcInv, NEW m \in Objects, NEW k \in Objects, NEW v \in Objects, MapSet(m, k, v)
  PROVE  GcInv'
<1> DEFINE old == { e \in entries : e[1] = m /\ e[2] = k }
<1>1. /\ pc = "run" /\ m \in WeakMaps /\ {m, k, v} \subseteq Live
      /\ entries' = (entries \ old) \cup {<<m, k, v>>}
      /\ weak' = [weak EXCEPT ![k] = @ \cup {m}]
      /\ UNCHANGED <<objs, refs, handles, fields, target, native, collector>>
  BY DEF MapSet
<1>2. /\ TypeOK /\ objs \subseteq Objects /\ Closed(objs) /\ Allocated = objs
      /\ m \in objs /\ k \in objs /\ v \in objs
      /\ entries \subseteq WeakMaps \X Objects \X Objects
      /\ weak \in [Objects -> SUBSET (WeakMaps \cup WeakRefs)]
      /\ target \in [Objects -> Objects \cup {NoObj}]
  BY <1>1, RunFacts DEF TypeOK
<1>3. \A e : e \in entries' <=> (e \in entries /\ ~ (e[1] = m /\ e[2] = k)) \/ e = <<m, k, v>>
  BY <1>1
<1>4. entries' \subseteq WeakMaps \X Objects \X Objects
  BY <1>1, <1>2
<1>5. \A e \in entries' : e[1] \in objs /\ e[2] \in objs => e[3] \in objs
  <2>1. <<m, k, v>>[3] = v
    OBVIOUS
  <2>. QED
    BY <1>2, <1>3, <2>1 DEF Closed
<1>6. weak' \in [Objects -> SUBSET (WeakMaps \cup WeakRefs)]
  BY <1>1, <1>2
<1>7. ASSUME NEW x \in Objects, NEW h \in Objects
      PROVE  h \in weak'[x] <=> (target[h] = x \/ \E e \in entries' : e[1] = h /\ e[2] = x)
  <2>1. h \in weak[x] <=> (target[h] = x \/ \E e \in entries : e[1] = h /\ e[2] = x)
    BY DEF GcInv, WeakConsistent
  <2>2. <<m, k, v>>[1] = m /\ <<m, k, v>>[2] = k
    OBVIOUS
  <2>3. CASE x = k /\ h = m
    <3>1. h \in weak'[x]
      BY <1>1, <1>2, <2>3
    <3>2. \E e \in entries' : e[1] = h /\ e[2] = x
      BY <1>3, <2>2, <2>3
    <3>. QED
      BY <3>1, <3>2
  <2>4. CASE ~ (x = k /\ h = m)
    <3>1. h \in weak'[x] <=> h \in weak[x]
      BY <1>1, <1>2, <2>4
    <3>. HIDE DEF old
    <3>2. (\E e \in entries' : e[1] = h /\ e[2] = x) <=> (\E e \in entries : e[1] = h /\ e[2] = x)
      BY <1>3, <2>2, <2>4
    <3>. QED
      BY <2>1, <3>1, <3>2
  <2>. QED
    BY <2>3, <2>4
<1>8. \A x \in Objects : weak'[x] # {} => {x} \cup weak'[x] \subseteq objs
  <2>1. \A x \in Objects : weak[x] # {} => {x} \cup weak[x] \subseteq objs
    BY <1>2 DEF GcInv, WeakConsistent
  <2>. QED
    BY <1>1, <1>2, <2>1
<1>9. \A w \in Objects : target[w] # NoObj => w \in WeakRefs
  BY DEF GcInv, GraphInv
<1>. QED
  BY <1>1, <1>2, <1>4, <1>5, <1>6, <1>7, <1>8, <1>9, WeakStep

\* A WeakMap entry is deleted; the holder leaves the WEAK_REFS of the key.
LEMMA MapDeleteStep ==
  ASSUME GcInv, NEW m \in Objects, NEW k \in Objects, MapDelete(m, k)
  PROVE  GcInv'
<1>1. /\ pc = "run" /\ (\E e \in entries : e[1] = m /\ e[2] = k)
      /\ entries' = { e \in entries : ~ (e[1] = m /\ e[2] = k) }
      /\ weak' = [weak EXCEPT ![k] = @ \ {m}]
      /\ UNCHANGED <<objs, refs, handles, fields, target, native, collector>>
  BY DEF MapDelete
<1>2. /\ TypeOK /\ Closed(objs) /\ Allocated = objs
      /\ entries \subseteq WeakMaps \X Objects \X Objects
      /\ weak \in [Objects -> SUBSET (WeakMaps \cup WeakRefs)]
      /\ target \in [Objects -> Objects \cup {NoObj}]
  BY <1>1, RunFacts DEF TypeOK
<1>3. target[m] = NoObj
  <2>1. m \in WeakMaps
    BY <1>1, <1>2, EntryFields
  <2>. QED
    BY <2>1, GcAssumption DEF GcInv, GraphInv
<1>4. entries' \subseteq entries /\ weak' \in [Objects -> SUBSET (WeakMaps \cup WeakRefs)]
  BY <1>1, <1>2
<1>5. ASSUME NEW x \in Objects, NEW h \in Objects
      PROVE  h \in weak'[x] <=> (target[h] = x \/ \E e \in entries' : e[1] = h /\ e[2] = x)
  <2>1. h \in weak[x] <=> (target[h] = x \/ \E e \in entries : e[1] = h /\ e[2] = x)
    BY DEF GcInv, WeakConsistent
  <2>2. CASE x = k /\ h = m
    <3>1. h \notin weak'[x]
      BY <1>1, <1>2, <2>2
    <3>2. ~ \E e \in entries' : e[1] = h /\ e[2] = x
      BY <1>1, <2>2
    <3>3. target[h] # x
      BY <1>3, <2>2, GcAssumption
    <3>. QED
      BY <3>1, <3>2, <3>3
  <2>3. CASE ~ (x = k /\ h = m)
    <3>1. h \in weak'[x] <=> h \in weak[x]
      BY <1>1, <1>2, <2>3
    <3>2. (\E e \in entries' : e[1] = h /\ e[2] = x) <=> (\E e \in entries : e[1] = h /\ e[2] = x)
      BY <1>1, <2>3
    <3>. QED
      BY <2>1, <3>1, <3>2
  <2>. QED
    BY <2>2, <2>3
<1>6. \A x \in Objects : weak'[x] # {} => {x} \cup weak'[x] \subseteq objs
  <2>1. \A x \in Objects : weak[x] # {} => {x} \cup weak[x] \subseteq objs
    BY <1>2 DEF GcInv, WeakConsistent
  <2>2. \A x \in Objects : weak'[x] \subseteq weak[x]
    BY <1>1, <1>2
  <2>. QED
    BY <2>1, <2>2
<1>7. \A w \in Objects : target[w] # NoObj => w \in WeakRefs
  BY DEF GcInv, GraphInv
<1>8. \A e \in entries' : e[1] \in objs /\ e[2] \in objs => e[3] \in objs
  BY <1>2, <1>4 DEF Closed
<1>9. entries' \subseteq WeakMaps \X Objects \X Objects
  BY <1>2, <1>4
<1>. QED
  BY <1>1, <1>2, <1>4, <1>5, <1>6, <1>7, <1>8, <1>9, WeakStep

\* A WeakRef gets its target.
LEMMA SetTargetStep ==
  ASSUME GcInv, NEW w \in Objects, NEW o \in Objects, SetTarget(w, o)
  PROVE  GcInv'
<1>1. /\ pc = "run" /\ w \in WeakRefs /\ {w, o} \subseteq Live /\ target[w] = NoObj
      /\ target' = [target EXCEPT ![w] = o]
      /\ weak' = [weak EXCEPT ![o] = @ \cup {w}]
      /\ UNCHANGED <<objs, refs, handles, fields, entries, native, collector>>
  BY DEF SetTarget
<1>2. /\ TypeOK /\ Closed(objs) /\ Allocated = objs /\ w \in objs /\ o \in objs
      /\ entries \subseteq WeakMaps \X Objects \X Objects
      /\ weak \in [Objects -> SUBSET (WeakMaps \cup WeakRefs)]
      /\ target \in [Objects -> Objects \cup {NoObj}]
  BY <1>1, RunFacts DEF TypeOK
<1>3. /\ weak' \in [Objects -> SUBSET (WeakMaps \cup WeakRefs)]
      /\ target' \in [Objects -> Objects \cup {NoObj}]
  BY <1>1, <1>2
<1>4. ASSUME NEW x \in Objects, NEW h \in Objects
      PROVE  h \in weak'[x] <=> (target'[h] = x \/ \E e \in entries : e[1] = h /\ e[2] = x)
  <2>1. h \in weak[x] <=> (target[h] = x \/ \E e \in entries : e[1] = h /\ e[2] = x)
    BY DEF GcInv, WeakConsistent
  <2>2. CASE x = o /\ h = w
    BY <1>1, <1>2, <2>2
  <2>3. CASE ~ (x = o /\ h = w)
    <3>1. h \in weak'[x] <=> h \in weak[x]
      BY <1>1, <1>2, <2>3
    <3>2. target'[h] = x <=> target[h] = x
      <4>1. NoObj # x
        BY GcAssumption
      <4>. QED
        BY <1>1, <1>2, <2>3, <4>1
    <3>. QED
      BY <2>1, <3>1, <3>2
  <2>. QED
    BY <2>2, <2>3
<1>5. \A x \in Objects : weak'[x] # {} => {x} \cup weak'[x] \subseteq objs
  <2>1. \A x \in Objects : weak[x] # {} => {x} \cup weak[x] \subseteq objs
    BY <1>2 DEF GcInv, WeakConsistent
  <2>. QED
    BY <1>1, <1>2, <2>1
<1>6. \A x \in Objects : target'[x] # NoObj => x \in WeakRefs
  BY <1>1, <1>2 DEF GcInv, GraphInv
<1>7. \A e \in entries : e[1] \in objs /\ e[2] \in objs => e[3] \in objs
  BY <1>2 DEF Closed
<1>. QED
  BY <1>1, <1>2, <1>3, <1>4, <1>5, <1>6, <1>7, WeakStep

\* A native pointer takes a handle of another object.
LEMMA SetNativeStep ==
  ASSUME GcInv, NEW a \in Objects, NEW b \in Objects, SetNative(a, b)
  PROVE  GcInv'
<1>1. /\ pc = "run" /\ {a, b} \subseteq Live /\ native[a] = NoObj /\ refs[b] < MaxRefs
      /\ native' = [native EXCEPT ![a] = b]
      /\ refs' = [refs EXCEPT ![b] = refs[b] + 1]
      /\ handles' = [handles EXCEPT ![b] = handles[b] + 1]
      /\ UNCHANGED <<objs, fields, entries, weak, target, collector>>
  BY DEF SetNative
<1>2. /\ TypeOK /\ objs \subseteq Objects /\ Closed(objs) /\ FreeObjects = Objects \ objs
      /\ MaxRefs \in Nat \ {0} /\ NonVisited \in Nat /\ NonVisited = MaxRefs + 1
      /\ handles \in [Objects -> 0 .. MaxRefs] /\ refs \in [Objects -> 0 .. NonVisited]
      /\ native \in [Objects -> Objects \cup {NoObj}]
      /\ a \in objs /\ b \in objs /\ \A x \in objs : refs[x] = handles[x]
  BY <1>1, RunFacts DEF TypeOK
<1>3. handles[b] + 1 \in 0 .. MaxRefs /\ refs[b] = handles[b] /\ handles[b] + 1 \in 0 .. NonVisited
  BY <1>1, <1>2
<1>4. /\ handles' \in [Objects -> 0 .. MaxRefs] /\ refs' \in [Objects -> 0 .. NonVisited]
      /\ handles'[b] = handles[b] + 1 /\ refs'[b] = handles[b] + 1
      /\ \A x \in Objects : x # b => refs'[x] = refs[x] /\ handles'[x] = handles[x]
      /\ native' \in [Objects -> Objects \cup {NoObj}]
      /\ native'[a] = b /\ \A x \in Objects : x # a => native'[x] = native[x]
  BY <1>1, <1>2, <1>3
<1>5. UNCHANGED <<pc, black, white, pass, stack, todo, limit, marked>>
  BY <1>1 DEF collector, marking
<1>6. TypeOK'
  BY <1>1, <1>2, <1>4, <1>5 DEF TypeOK
<1>7. FreeObjects' = FreeObjects /\ Allocated' = Allocated
  BY <1>1, <1>5 DEF FreeObjects, Allocated
<1>8. GraphInv'
  <2>1. \A x \in FreeObjects' : fields'[x] = {} /\ native'[x] = NoObj /\ handles'[x] = 0 /\ refs'[x] = 0
    BY <1>1, <1>2, <1>4, <1>7 DEF GcInv, GraphInv
  <2>2. ASSUME NEW x \in Objects PROVE handles'[x] >= Cardinality(HoldersOf(x)')
    <3>1. /\ IsFiniteSet(HoldersOf(x)) /\ handles[x] \in Nat
          /\ handles[x] >= Cardinality(HoldersOf(x))
      BY <1>2, Holders DEF GcInv, GraphInv
    <3>2. CASE x = b
      <4>1. HoldersOf(x)' = HoldersOf(x) \cup {a}
        BY <1>4, <3>2 DEF HoldersOf
      <4>2. handles[x] + 1 >= Cardinality(HoldersOf(x) \cup {a})
        BY <3>1, HolderAdded
      <4>. QED
        BY <1>4, <3>2, <4>1, <4>2
    <3>3. CASE x # b
      <4>1. x # NoObj
        BY GcAssumption
      <4>2. HoldersOf(x)' = HoldersOf(x)
        BY <1>1, <1>4, <3>3, <4>1 DEF HoldersOf
      <4>. QED
        BY <1>4, <3>1, <3>3, <4>2
    <3>. QED
      BY <3>2, <3>3
  <2>. QED
    BY <1>1, <2>1, <2>2 DEF GcInv, GraphInv
<1>9. WeakConsistent'
  BY <1>1, <1>7 DEF GcInv, WeakConsistent
<1>10. Closed(objs)'
  BY <1>1, <1>2, <1>4 DEF Closed
<1>11. \A x \in objs' : refs'[x] = handles'[x]
  BY <1>1, <1>2, <1>4
<1>. QED
  BY <1>1, <1>6, <1>8, <1>9, <1>10, <1>11, ProgramStep

-----------------------------------------------------------------------------
(* The theorems                                                            *)

\* The invariant holds before the first object is created.
LEMMA InitInv ==
  ASSUME Init
  PROVE  GcInv
<1>1. MaxRefs \in Nat \ {0} /\ NonVisited \in Nat /\ MarkLimit \in Nat /\ NoObj \notin Objects
  BY GcAssumption DEF NonVisited
<1>2. TypeOK
  <2>1. 0 \in 0 .. NonVisited /\ 0 \in 0 .. MaxRefs /\ MarkLimit \in 0 .. MarkLimit
    BY <1>1
  <2>2. refs \in [Objects -> 0 .. NonVisited] /\ handles \in [Objects -> 0 .. MaxRefs]
    BY <2>1 DEF Init
  <2>3. /\ fields \in [Objects -> SUBSET Objects]
        /\ weak \in [Objects -> SUBSET (WeakMaps \cup WeakRefs)]
        /\ target \in [Objects -> Objects \cup {NoObj}]
        /\ native \in [Objects -> Objects \cup {NoObj}]
        /\ todo \in [Objects -> SUBSET AllItems]
    BY DEF Init
  <2>4. stack \in Seq(Objects) /\ limit \in 0 .. MarkLimit
    BY <2>1 DEF Init
  <2>. QED
    BY <2>2, <2>3, <2>4 DEF Init, TypeOK
<1>3. PhaseInv
  BY <1>1 DEF Init, PhaseInv
<1>4. GraphInv
  <2>1. \A b \in Objects : HoldersOf(b) = {} /\ handles[b] = 0
    BY <1>1 DEF Init, HoldersOf
  <2>2. Cardinality({}) = 0
    BY FS_EmptySet
  <2>3. \A b \in Objects : handles[b] >= Cardinality(HoldersOf(b))
    BY <2>1, <2>2
  <2>. QED
    BY <2>3 DEF Init, GraphInv, FreeObjects
<1>5. WeakConsistent
  BY <1>1 DEF Init, WeakConsistent
<1>6. KeptInv
  BY DEF Init, KeptInv, Kept, Closed, Allocated
<1>7. CountInv /\ SoundInv /\ CompleteInv /\ PassInv /\ MarkExact
  BY DEF Init, CountInv, SoundInv, CompleteInv, PassInv, MarkExact
<1>. QED
  BY <1>2, <1>3, <1>4, <1>5, <1>6, <1>7 DEF GcInv

\* A step that changes nothing.
LEMMA StutterInv ==
  ASSUME GcInv, UNCHANGED vars
  PROVE  GcInv'
<1>1. /\ UNCHANGED <<objs, refs, handles, fields, entries, weak, target, native>>
      /\ UNCHANGED <<pc, black, white, pass, stack, todo, limit, marked>>
  BY DEF vars
<1>2. TypeOK' /\ PhaseInv'
  BY <1>1 DEF GcInv, TypeOK, PhaseInv
<1>3. Allocated' = Allocated /\ Kept' = Kept /\ Live' = Live
  BY <1>1, SameGraph DEF Allocated, Kept
<1>4. GraphInv' /\ WeakConsistent' /\ KeptInv' /\ CountInv'
  BY <1>1, <1>3 DEF GcInv, GraphInv, WeakConsistent, KeptInv, CountInv, FreeObjects, HoldersOf, Closed
<1>5. SoundInv'
  BY <1>1, <1>3 DEF GcInv, SoundInv, Visited, Items
<1>6. CompleteInv'
  BY <1>1 DEF GcInv, CompleteInv, Visited, Entered
<1>7. PassInv' /\ MarkExact'
  BY <1>1, <1>3 DEF GcInv, PassInv, MarkExact, Visited
<1>. QED
  BY <1>2, <1>4, <1>5, <1>6, <1>7 DEF GcInv

\* Every step keeps the invariant.
LEMMA NextInv ==
  ASSUME GcInv, MarkLimit # 0, [Next]_vars
  PROVE  GcInv'
<1>1. CASE UNCHANGED vars
  BY <1>1, StutterInv
<1>2. CASE Program
  <2>1. ASSUME NEW o \in Objects, New(o) \/ Ref(o) \/ Deref(o) PROVE GcInv'
    BY <2>1, NewStep, RefStep, DerefStep
  <2>2. ASSUME NEW a \in Objects, NEW b \in Objects,
               \/ Link(a, b) \/ Unlink(a, b) \/ MapDelete(a, b) \/ SetTarget(a, b) \/ SetNative(a, b)
        PROVE  GcInv'
    BY <2>2, LinkStep, MapDeleteStep, SetTargetStep, SetNativeStep
  <2>3. ASSUME NEW m \in Objects, NEW k \in Objects, NEW v \in Objects, MapSet(m, k, v)
        PROVE  GcInv'
    BY <2>3, MapSetStep
  <2>. QED
    BY <1>2, <2>1, <2>2, <2>3, CollectStep DEF Program
<1>3. CASE GcStep
  <2>1. ASSUME NEW o \in Objects,
               MarkRoot(o) \/ ScanVisited(o) \/ ScanGray(o) \/ ScanWhite(o) \/ Sweep(o)
        PROVE  GcInv'
    BY <2>1, MarkRootStep, ScanVisitedStep, ScanGrayStep, ScanWhiteStep, SweepStep
  <2>2. ASSUME NEW i \in AllItems, MarkItem(i) \/ MarkSkip(i) PROVE GcInv'
    BY <2>2, MarkItemStep, MarkSkipStep
  <2>. QED
    BY <1>3, <2>1, <2>2, MarkReturnStep, StartPassStep, ScanDoneStep, SwapStep, SweepDoneStep
       DEF GcStep
<1>. QED
  BY <1>1, <1>2, <1>3 DEF Next

\* The inductive invariant holds for every object graph and every way the
\* collector walks through it.
THEOREM CollectorInvariant ==
  ASSUME MarkLimit # 0
  PROVE  Spec => []GcInv
<1>1. Init => GcInv
  BY InitInv
<1>2. GcInv /\ [Next]_vars => GcInv'
  BY NextInv
<1>. QED
  BY <1>1, <1>2, PTL DEF Spec

\* ecma_gc_run frees nothing the program can still reach, directly or through a
\* WeakMap entry whose map and key it can reach, and the WEAK_REFS collections
\* and the weak containers agree in every state of a collection.
THEOREM NothingDanglesCorrect ==
  ASSUME MarkLimit # 0
  PROVE  Spec => []NothingDangles
<1>1. GcInv => NothingDangles
  BY LiveKept DEF GcInv, NothingDangles
<1>. QED
  BY <1>1, CollectorInvariant, PTL

\* When ecma_gc_run has finished its passes over the white list, the black list
\* is exactly what the program can reach, for every recursion limit: nothing
\* that ecma_gc_set_object_visited put off is lost, nothing else is kept.
THEOREM MarkExactCorrect ==
  ASSUME MarkLimit # 0
  PROVE  Spec => []MarkExact
<1>1. GcInv => MarkExact
  BY DEF GcInv
<1>. QED
  BY <1>1, CollectorInvariant, PTL

\* After a collection every reference count is again the number of the handles,
\* and ecma_gc_mark_recursion_limit is back at its start value.
THEOREM CountsCorrect ==
  ASSUME MarkLimit # 0
  PROVE  Spec => []CountsRestored
<1>1. ASSUME GcInv PROVE CountsRestored
  <2>1. \A o \in objs : refs[o] = handles[o]
    BY <1>1 DEF GcInv, CountInv
  <2>2. stack = <<>> => limit = MarkLimit
    BY <1>1, GcAssumption DEF GcInv, PhaseInv
  <2>. QED
    BY <2>1, <2>2 DEF CountsRestored
<1>. QED
  BY <1>1, CollectorInvariant, PTL

=============================================================================
