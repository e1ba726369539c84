------------------------------- MODULE EcmaGc -------------------------------
(***************************************************************************)
(* The garbage collector of ecma-gc.c: reference counted roots, marking    *)
(* with a bounded recursion depth, WeakMap entries that keep their value   *)
(* alive only while map and key are, WeakRefs, and the sweep.              *)
(*                                                                         *)
(* As in ecma_object_t the reference count field serves the collector too: *)
(* NonVisited (all bits set) marks a white object, 1 in a white list       *)
(* object a visited one that still has to be marked ("non-marked gray"),   *)
(* 0 a visited and marked one.  The gc_next_cp lists are sets: the order   *)
(* in which a pass visits a list is left open.                             *)
(***************************************************************************)
EXTENDS Integers, FiniteSets, Sequences

CONSTANTS
  Objects,     \* the objects that can be allocated
  WeakMaps,    \* those created as WeakMaps
  WeakRefs,    \* those created as WeakRefs
  NoObj,       \* undefined: the cleared target of a WeakRef
  MarkLimit,   \* context_p->gc_mark_limit
  MaxRefs,     \* bound: references held to one object
  MaxLinks     \* bound: references between objects

ASSUME GcAssumption ==
  /\ IsFiniteSet(Objects)
  /\ WeakMaps \subseteq Objects /\ WeakRefs \subseteq Objects
  /\ WeakMaps \cap WeakRefs = {}
  /\ NoObj \notin Objects
  /\ MarkLimit \in Nat /\ MaxLinks \in Nat
  /\ MaxRefs \in Nat \ {0}

VARIABLES
  objs,        \* the objects of the list ecma_gc_objects_cp
  refs,        \* type_flags_refs >> ECMA_OBJECT_REF_SHIFT
  handles,     \* how many references the stack and native code hold
  fields,      \* object -> the objects it refers to strongly
  entries,     \* <<map, key, value>> of the WeakMaps
  weak,        \* object -> the holders in its WEAK_REFS collection
  target,      \* WeakRef -> its target
  native,      \* object -> the object its native pointer holds a handle of
  pc,
  black, white,\* the two lists of ecma_gc_run
  pass,        \* what the current pass over a list has still to visit
  stack,       \* the objects whose ecma_gc_mark is running, outermost first
  todo,        \* what the running ecma_gc_mark of an object has still to do
  limit,       \* ecma_gc_mark_recursion_limit
  marked       \* marked_anything_during_current_iteration

graph == <<handles, fields, entries, weak, target, native>>
lists == <<objs, black, white>>
marking == <<stack, todo, limit>>
vars == <<objs, refs, handles, fields, entries, weak, target, native,
          pc, black, white, pass, stack, todo, limit, marked>>

NonVisited == MaxRefs + 1
Allocated == objs \cup black \cup white

\* ecma_gc_is_object_visited
Visited(o) == refs[o] < NonVisited

-----------------------------------------------------------------------------
(* What the program can still reach: the least set that holds the          *)
(* referenced objects, what these refer to, and the value of every WeakMap *)
(* entry whose map and key it holds.                                       *)
Closed(S) ==
  /\ \A o \in Objects : handles[o] > 0 => o \in S
  /\ \A o \in S : fields[o] \subseteq S
  /\ \A e \in entries : e[1] \in S /\ e[2] \in S => e[3] \in S

Live == { o \in Objects : \A S \in SUBSET Objects : Closed(S) => o \in S }

-----------------------------------------------------------------------------
Init ==
  /\ objs = {} /\ black = {} /\ white = {} /\ pass = {}
  /\ refs = [o \in Objects |-> 0]
  /\ handles = [o \in Objects |-> 0]
  /\ fields = [o \in Objects |-> {}]
  /\ entries = {}
  /\ weak = [o \in Objects |-> {}]
  /\ target = [o \in Objects |-> NoObj]
  /\ native = [o \in Objects |-> NoObj]
  /\ pc = "run"
  /\ stack = <<>>
  /\ todo = [o \in Objects |-> {}]
  /\ limit = MarkLimit
  /\ marked = FALSE

-----------------------------------------------------------------------------
(* The running program, between two collections                            *)

Targets == { o \in Objects : target[o] # NoObj }
Natives == { o \in Objects : native[o] # NoObj }
Pairs == { p \in Objects \X Objects : p[2] \in fields[p[1]] }
Links == Cardinality(Pairs) + Cardinality(entries)
           + Cardinality(Targets) + Cardinality(Natives)

collector == <<pc, black, white, pass, marking, marked>>

\* ecma_init_gc_info: a new object has one reference.
New(o) ==
  /\ pc = "run" /\ o \notin objs
  /\ objs' = objs \cup {o}
  /\ refs' = [refs EXCEPT ![o] = 1]
  /\ handles' = [handles EXCEPT ![o] = 1]
  /\ UNCHANGED <<fields, entries, weak, target, native, collector>>

\* ecma_ref_object on something the program can get hold of: reachable, or the
\* target of a reachable WeakRef.
Ref(o) ==
  /\ pc = "run"
  /\ o \in Live \/ \E w \in Live : target[w] = o
  /\ refs[o] < MaxRefs
  /\ refs' = [refs EXCEPT ![o] = @ + 1]
  /\ handles' = [handles EXCEPT ![o] = @ + 1]
  /\ UNCHANGED <<objs, fields, entries, weak, target, native, collector>>

\* ecma_deref_object by a holder other than a native pointer.
Deref(o) ==
  /\ pc = "run"
  /\ handles[o] > Cardinality({ a \in Objects : native[a] = o })
  /\ refs' = [refs EXCEPT ![o] = @ - 1]
  /\ handles' = [handles EXCEPT ![o] = @ - 1]
  /\ UNCHANGED <<objs, fields, entries, weak, target, native, collector>>

\* A property of a is given the value b, or loses it.
Link(a, b) ==
  /\ pc = "run" /\ {a, b} \subseteq Live /\ Links < MaxLinks
  /\ b \notin fields[a]
  /\ fields' = [fields EXCEPT ![a] = @ \cup {b}]
  /\ UNCHANGED <<objs, refs, handles, entries, weak, target, native, collector>>

Unlink(a, b) ==
  /\ pc = "run" /\ a \in Live
  /\ b \in fields[a]
  /\ fields' = [fields EXCEPT ![a] = @ \ {b}]
  /\ UNCHANGED <<objs, refs, handles, entries, weak, target, native, collector>>

\* ecma_op_container_set: a new key gets a reference back to the map, an
\* existing one a new value.
MapSet(m, k, v) ==
  /\ pc = "run" /\ m \in WeakMaps /\ {m, k, v} \subseteq Live
  /\ LET old == { e \in entries : e[1] = m /\ e[2] = k }
     IN  /\ old = {} => Links < MaxLinks
         /\ entries' = (entries \ old) \cup {<<m, k, v>>}
  /\ weak' = [weak EXCEPT ![k] = @ \cup {m}]
  /\ UNCHANGED <<objs, refs, handles, fields, target, native, collector>>

\* ecma_op_container_delete_weak
MapDelete(m, k) ==
  /\ pc = "run" /\ {m, k} \subseteq Live
  /\ \E e \in entries : e[1] = m /\ e[2] = k
  /\ entries' = { e \in entries : ~(e[1] = m /\ e[2] = k) }
  /\ weak' = [weak EXCEPT ![k] = @ \ {m}]
  /\ UNCHANGED <<objs, refs, handles, fields, target, native, collector>>

\* The WeakRef constructor.
SetTarget(w, o) ==
  /\ pc = "run" /\ w \in WeakRefs /\ {w, o} \subseteq Live /\ Links < MaxLinks
  /\ target[w] = NoObj
  /\ target' = [target EXCEPT ![w] = o]
  /\ weak' = [weak EXCEPT ![o] = @ \cup {w}]
  /\ UNCHANGED <<objs, refs, handles, fields, entries, native, collector>>

\* jjs_object_set_native_ptr with native data that keeps a reference to b.
SetNative(a, b) ==
  /\ pc = "run" /\ {a, b} \subseteq Live /\ Links < MaxLinks
  /\ native[a] = NoObj /\ refs[b] < MaxRefs
  /\ native' = [native EXCEPT ![a] = b]
  /\ refs' = [refs EXCEPT ![b] = @ + 1]
  /\ handles' = [handles EXCEPT ![b] = @ + 1]
  /\ UNCHANGED <<objs, fields, entries, weak, target, collector>>

-----------------------------------------------------------------------------
(* ecma_gc_run                                                             *)

\* Move the objects with references to the black list.
MoveRoots ==
  /\ black' = { o \in objs : refs[o] >= 1 }
  /\ white' = { o \in objs : refs[o] < 1 }
  /\ refs' = [o \in Objects |-> IF o \in white' THEN NonVisited ELSE refs[o]]
  /\ pass' = black'
  /\ objs' = {}
  /\ pc' = "roots"

\* ecma_gc_run starts: on jjs_heap_gc, or in ecma_free_unused_memory (with low
\* pressure if enough objects are new: the counters are not modelled).
Collect ==
  /\ pc = "run"
  /\ MoveRoots
  /\ UNCHANGED <<graph, marking, marked>>

\* Mutant: a key does not look at the maps that hold it.
ItemsNoBack(o) ==
  { <<o, c>> : c \in fields[o] }
    \cup { <<e[2], e[3]>> : e \in { x \in entries : x[1] = o } }

\* Mutant: a WeakMap keeps its values alive like a Map.
ItemsStrong(o) ==
  { <<o, c>> : c \in fields[o] } \cup { <<o, e[3]>> : e \in { x \in entries : x[1] = o } }

\* What ecma_gc_mark looks at: <<g, c>> stands for "if g is visited, visit c".
\* A WeakMap looks at its keys, a key at the maps in its WEAK_REFS.
Items(o) ==
  { <<o, c>> : c \in fields[o] }
    \cup { <<e[2], e[3]>> : e \in { x \in entries : x[1] = o } }
    \cup { <<e[1], e[3]>> : e \in { x \in entries : x[1] \in weak[o] /\ x[2] = o } }

\* Enter ecma_gc_mark of o.
Enter(o) ==
  /\ stack' = Append(stack, o)
  /\ todo' = [todo EXCEPT ![o] = Items(o)]

\* Mark the next object of the black list.
MarkRoot(o) ==
  /\ pc = "roots" /\ stack = <<>> /\ o \in pass
  /\ pass' = pass \ {o}
  /\ Enter(o)
  /\ UNCHANGED <<lists, refs, graph, pc, limit, marked>>

StartPass ==
  /\ marked' = FALSE
  /\ pass' = white
  /\ pc' = "scan"

RootsDone ==
  /\ pc = "roots" /\ stack = <<>> /\ pass = {}
  /\ StartPass
  /\ UNCHANGED <<lists, refs, graph, marking>>

Top == stack[Len(stack)]

\* The call ecma_gc_set_object_visited (c) of the running ecma_gc_mark.
VisitDeeper(c) ==
  /\ refs[c] = NonVisited /\ MarkLimit # 0 /\ limit # 0
  /\ limit' = limit - 1
  /\ refs' = [refs EXCEPT ![c] = 0]
  /\ stack' = Append(stack, c)

VisitLater(c) ==
  /\ refs[c] = NonVisited /\ MarkLimit # 0 /\ limit = 0
  /\ refs' = [refs EXCEPT ![c] = 1]
  /\ UNCHANGED <<limit, stack>>

VisitOnly(c) ==
  /\ refs[c] = NonVisited /\ MarkLimit = 0
  /\ refs' = [refs EXCEPT ![c] = 0]
  /\ UNCHANGED <<limit, stack>>

VisitAgain(c) ==
  /\ refs[c] # NonVisited
  /\ UNCHANGED <<refs, limit, stack>>

Marking == stack # <<>>

MarkItem(i) ==
  /\ Marking /\ i \in todo[Top]
  /\ Visited(i[1])
  /\ \/ /\ VisitDeeper(i[2])
        /\ todo' = [o \in Objects |-> IF o = Top THEN todo[o] \ {i}
                                      ELSE IF o = i[2] THEN Items(o) ELSE todo[o]]
     \/ /\ VisitLater(i[2]) \/ VisitOnly(i[2]) \/ VisitAgain(i[2])
        /\ todo' = [todo EXCEPT ![Top] = @ \ {i}]
  /\ UNCHANGED <<lists, graph, pc, pass, marked>>

\* The map of this key, or the key of this map, is not visited.
MarkSkip(i) ==
  /\ Marking /\ i \in todo[Top]
  /\ ~Visited(i[1])
  /\ todo' = [todo EXCEPT ![Top] = @ \ {i}]
  /\ UNCHANGED <<lists, refs, graph, pc, pass, stack, limit, marked>>

\* Return from ecma_gc_mark, into the ecma_gc_set_object_visited that called it
\* unless it was called by ecma_gc_run.
MarkReturn ==
  /\ Marking /\ todo[Top] = {}
  /\ stack' = SubSeq(stack, 1, Len(stack) - 1)
  /\ limit' = IF Len(stack) > 1 THEN limit + 1 ELSE limit
  /\ UNCHANGED <<lists, refs, graph, pc, pass, todo, marked>>

\* A pass over the white list: visited objects are moved to the black list ...
ScanVisited(o) ==
  /\ pc = "scan" /\ stack = <<>> /\ o \in pass
  /\ Visited(o)
  /\ MarkLimit = 0 \/ refs[o] < 1
  /\ pass' = pass \ {o}
  /\ white' = white \ {o}
  /\ black' = black \cup {o}
  /\ marked' = (marked \/ MarkLimit = 0)
  /\ UNCHANGED <<objs, refs, graph, pc, marking>>

\* Mutant: the reference count of the gray object is not set back.
ScanGrayKeepsOne(o) ==
  /\ pc = "scan" /\ stack = <<>> /\ o \in pass
  /\ Visited(o)
  /\ MarkLimit # 0 /\ refs[o] >= 1
  /\ pass' = pass \ {o}
  /\ white' = white \ {o}
  /\ black' = black \cup {o}
  /\ Enter(o)
  /\ marked' = TRUE
  /\ UNCHANGED <<objs, refs, graph, pc, limit>>

\* Mutant: the gray object is not moved to the black list.
ScanGrayStays(o) ==
  /\ pc = "scan" /\ stack = <<>> /\ o \in pass
  /\ Visited(o)
  /\ MarkLimit # 0 /\ refs[o] >= 1
  /\ pass' = pass \ {o}
  /\ Enter(o)
  /\ marked' = TRUE
  /\ UNCHANGED <<lists, refs, graph, pc, limit>>

\* ... and marked if the recursion limit had prevented that.
ScanGray(o) ==
  /\ pc = "scan" /\ stack = <<>> /\ o \in pass
  /\ Visited(o)
  /\ MarkLimit # 0 /\ refs[o] >= 1
  /\ pass' = pass \ {o}
  /\ white' = white \ {o}
  /\ black' = black \cup {o}
  /\ refs' = [refs EXCEPT ![o] = 0]
  /\ Enter(o)
  /\ marked' = TRUE
  /\ UNCHANGED <<objs, graph, pc, limit>>

ScanWhite(o) ==
  /\ pc = "scan" /\ stack = <<>> /\ o \in pass
  /\ ~Visited(o)
  /\ pass' = pass \ {o}
  /\ UNCHANGED <<lists, refs, graph, pc, marking, marked>>

ScanAgain ==
  /\ pc = "scan" /\ stack = <<>> /\ pass = {} /\ marked
  /\ StartPass
  /\ UNCHANGED <<lists, refs, graph, marking>>

ScanDone ==
  /\ pc = "scan" /\ stack = <<>> /\ pass = {} /\ ~marked
  /\ pc' = "swap"
  /\ UNCHANGED <<lists, refs, graph, pass, marking, marked>>

\* ecma_gc_objects_cp = black_list_head.gc_next_cp
Swap ==
  /\ pc = "swap"
  /\ objs' = black
  /\ black' = {}
  /\ pc' = "sweep"
  /\ UNCHANGED <<white, refs, graph, pass, marking, marked>>

\* ecma_gc_free_object: a WeakRef and a WeakMap leave the WEAK_REFS of their
\* targets, an object leaves the WeakRefs and WeakMaps of its WEAK_REFS, and
\* the callback of its native pointer releases the reference it kept.
Release(o) ==
  IF native[o] = NoObj
    THEN UNCHANGED handles /\ refs' = [refs EXCEPT ![o] = 0]
    ELSE /\ handles' = [handles EXCEPT ![native[o]] = @ - 1]
         /\ refs' = [refs EXCEPT ![o] = 0, ![native[o]] = @ - 1]

Sweep(o) ==
  /\ pc = "sweep" /\ o \in white
  /\ white' = white \ {o}
  /\ entries' = { e \in entries : e[1] # o /\ e[2] # o }
  /\ weak' = [k \in Objects |-> IF k = o THEN {} ELSE weak[k] \ {o}]
  /\ target' = [w \in Objects |-> IF w = o \/ target[w] = o THEN NoObj ELSE target[w]]
  /\ fields' = [fields EXCEPT ![o] = {}]
  /\ native' = [native EXCEPT ![o] = NoObj]
  /\ Release(o)
  /\ UNCHANGED <<objs, black, pc, pass, marking, marked>>

SweepDone ==
  /\ pc = "sweep" /\ white = {}
  /\ pc' = "run"
  /\ UNCHANGED <<lists, refs, graph, pass, marking, marked>>

-----------------------------------------------------------------------------
AllItems == Objects \X Objects

Program ==
  \/ \E o \in Objects : New(o) \/ Ref(o) \/ Deref(o)
  \/ \E a, b \in Objects :
       Link(a, b) \/ Unlink(a, b) \/ MapDelete(a, b) \/ SetTarget(a, b) \/ SetNative(a, b)
  \/ \E m, k, v \in Objects : MapSet(m, k, v)
  \/ Collect

GcStep ==
  \/ \E o \in Objects :
       MarkRoot(o) \/ ScanVisited(o) \/ ScanGray(o) \/ ScanWhite(o) \/ Sweep(o)
  \/ \E i \in AllItems : MarkItem(i) \/ MarkSkip(i)
  \/ MarkReturn \/ RootsDone \/ ScanAgain \/ ScanDone \/ Swap \/ SweepDone

Next == Program \/ GcStep

Spec == Init /\ [][Next]_vars

\* A collection, once started, runs to its end.
FairSpec == Spec /\ WF_vars(GcStep)

-----------------------------------------------------------------------------
TypeOK ==
  /\ objs \subseteq Objects /\ black \subseteq Objects /\ white \subseteq Objects
  /\ pass \subseteq Objects
  /\ refs \in [Objects -> 0 .. NonVisited]
  /\ handles \in [Objects -> 0 .. MaxRefs]
  /\ fields \in [Objects -> SUBSET Objects]
  /\ entries \subseteq WeakMaps \X Objects \X Objects
  /\ weak \in [Objects -> SUBSET (WeakMaps \cup WeakRefs)]
  /\ target \in [Objects -> Objects \cup {NoObj}]
  /\ native \in [Objects -> Objects \cup {NoObj}]
  /\ pc \in {"run", "roots", "scan", "swap", "sweep"}
  /\ stack \in Seq(Objects)
  /\ todo \in [Objects -> SUBSET AllItems]
  /\ limit \in 0 .. MarkLimit
  /\ marked \in BOOLEAN

\* Nothing the program can reach is freed.
LiveAllocated == Live \subseteq Allocated

\* The marking is exact: when it ends, the black list is what the program can
\* reach, whatever the recursion limit postponed and in whatever order the keys,
\* the maps and the values of WeakMap entries were found.
MarkExact == pc = "swap" => black = Live

\* After a collection the reference counts are those of the holders again: no
\* trace of the colours is left, or the object would never be freed.  The
\* recursion limit is given back as well.
CountsRestored ==
  /\ pc = "run" => \A o \in objs : refs[o] = handles[o]
  /\ stack = <<>> => limit = MarkLimit

\* WEAK_REFS and the weak containers agree, also in the middle of a sweep, and
\* refer to no freed object: ecma_op_object_unref_weak always finds the holder
\* it looks for, ecma_op_container_remove_weak_entry the entry.
WeakConsistent ==
  /\ \A k, h \in Objects :
       h \in weak[k] <=> (target[h] = k \/ \E e \in entries : e[1] = h /\ e[2] = k)
  /\ \A k \in Objects : weak[k] # {} => {k} \cup weak[k] \subseteq Allocated

\* No reference dangles, be it a strong one the program can follow or a weak
\* one, in any state of a collection.
NothingDangles == TypeOK /\ LiveAllocated /\ WeakConsistent

\* Every collection ends.
CollectionEnds == (pc # "run") ~> (pc = "run")

=============================================================================
