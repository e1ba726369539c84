--------------------------- MODULE EcmaModuleInv ---------------------------
(***************************************************************************)
(* The inductive invariants of the linking and evaluation of modules: that *)
(* of the search and the calls in progress (ModuleInv), that of the        *)
(* resolution of an export (WalkInv) and what linking comes to             *)
(* (OutcomeInv).  EcmaModuleProofs proves them.                            *)
(***************************************************************************)
EXTENDS EcmaModule

-----------------------------------------------------------------------------
(* The graph of imports                                                    *)

\* The number of import nodes of a module, and the modules they name.
Arity(c, m) == Len(c[m].imports)
Goals(c, m) == [i \in 1..Arity(c, m) |-> c[m].imports[i].to]
Succ(c, m) == {Goals(c, m)[i] : i \in 1..Arity(c, m)}

\* C contains what its members import out of L.
Closed(c, C, L) == \A m \in C : \A t \in Succ(c, m) : t \in L => t \in C

\* Imports through modules of L lead from m to k.
Leads(c, m, k, L) == \A C \in SUBSET Modules : m \in C /\ Closed(c, C, L) => k \in C

\* The modules of some states, st being the states.
LinkingIn(st) == {m \in Modules : st[m] = "linking"}
IncompleteIn(st) == {m \in Modules : st[m] \notin Complete}
StartedIn(st) == {m \in Modules : st[m] # "unlinked"}

-----------------------------------------------------------------------------
(* A link in progress                                                      *)

\* A link searches, or closes a component that it has found.
Searching == {"resolve", "find"}
Closing == {"namespace", "connect", "linked"}

\* The frames of the three calls.
ImportFrames == [op : {"import"}, m : Modules, pc : {"link", "evaluate", "done"}]
EvalFrames ==
  [op : {"evaluate"}, m : Modules, node : Nat \ {0}, pc : {"imports", "code", "failed"}]
StackItems == [m : Modules, node : Nat \ {0}, dfs : Nat, parent : Nat]
LinkFrames ==
  [op : {"link"}, pc : Searching \cup Closing, module : Modules, dfs : Nat,
   stack : Seq(StackItems), cur : Nat, base : Nat, it : Nat]
Frames == ImportFrames \cup EvalFrames \cup LinkFrames

\* The modules of LINKING are those on the stack of the link f.
StackInv(f, st) ==
  \A m \in Modules : st[m] = "linking" <=> \E k \in 1..Len(f.stack) : f.stack[k].m = m

\* The part of the stack that the search still works on.
Live(f) == IF f.pc \in Searching THEN Len(f.stack) ELSE f.base - 1

\* The stack is the walk through a tree, the parent of an item below it.
TreeInv(c, s) ==
  /\ \A i, k \in 1..Len(s) : s[i].m = s[k].m => i = k
  /\ \A i, k \in 1..Len(s) : i < k => s[i].dfs < s[k].dfs
  /\ \A i \in 1..Len(s) :
       /\ s[i].node <= Arity(c, s[i].m) + 1
       /\ i = 1 => s[i].parent = 0
       /\ i # 1 => s[i].parent \in 1..(i - 1) /\ s[i].m \in Succ(c, s[s[i].parent].m)
  /\ \A i, k \in 1..Len(s) : s[k].parent < i /\ i < k => s[i].parent >= s[k].parent

\* Where the search is.
PlaceInv(c, f) ==
  /\ f.stack # <<>>
  /\ \A i \in 1..Len(f.stack) : f.stack[i].dfs <= f.dfs
  /\ f.pc \in Searching => f.cur \in 1..Len(f.stack)
  /\ f.pc = "resolve" =>
       /\ f.cur = Len(f.stack) /\ f.stack[f.cur].node = 1
       /\ f.it \in 1..(Arity(c, f.stack[f.cur].m) + 1)
  /\ f.pc \in Closing => f.base \in 1..Len(f.stack) /\ f.stack[f.base].parent = f.cur
  /\ f.pc \in {"namespace", "connect"} => f.it \in f.base..Len(f.stack)
  /\ \A i \in (f.cur + 1)..Live(f) : f.stack[i].parent >= f.cur

\* The items on the way to the current one; the search is done with the others.
Active(s, cur, i) == i <= cur /\ \A k \in (i + 1)..cur : s[k].parent >= i

\* The nodes of item i that the search has passed.
Examined(c, s, cur, i) ==
  IF Active(s, cur, i) THEN 1..(s[i].node - 1) ELSE 1..Arity(c, s[i].m)

\* What the ancestor index of item i says: it is not above the index of the
\* item, below it when the search is done with the item, and then known to the
\* parent; it is not above what the item imports; and the item leads to the
\* item that has it.
ItemInv(c, s, cur, st, anc, i) ==
  /\ anc[s[i].m] <= s[i].dfs
  /\ ~ Active(s, cur, i) =>
       anc[s[i].m] < s[i].dfs /\ anc[s[s[i].parent].m] <= anc[s[i].m]
  /\ \A x \in Examined(c, s, cur, i) :
       /\ st[Goals(c, s[i].m)[x]] \in Complete \cup {"linking"}
       /\ \A k \in 1..Len(s) : s[k].m = Goals(c, s[i].m)[x] => anc[s[i].m] <= s[k].dfs
  /\ \E k \in 1..i : s[k].dfs = anc[s[i].m] /\ Leads(c, s[i].m, s[k].m, LinkingIn(st))

\* What the search knows of the items that it still works on.
SearchInv(c, f, st, anc) ==
  \A i \in 1..Live(f) : ItemInv(c, f.stack, f.cur, st, anc, i)

\* The nodes of item i that hold a module.
DoneNodes(c, f, i) ==
  IF f.pc = "resolve" /\ i = f.cur THEN 1..(f.it - 1) ELSE 1..Arity(c, f.stack[i].m)

\* The imports of what is on the stack are resolved to modules that did not fail.
ResolvedInv(c, f, st, res) ==
  \A i \in 1..Len(f.stack) :
    /\ DoneNodes(c, f, i) \subseteq res[f.stack[i].m]
    /\ \A x \in DoneNodes(c, f, i) : st[Goals(c, f.stack[i].m)[x]] # "error"

\* The component from base on imports nothing below it, and is connected as
\* long as none of it is linked.
ComponentInv(c, f, st) ==
  f.pc \in Closing =>
    /\ \A i \in f.base..Len(f.stack) : \A t \in Succ(c, f.stack[i].m) :
         st[t] \in Complete \/ \E k \in f.base..Len(f.stack) : f.stack[k].m = t
    /\ f.pc # "linked" => \A i \in f.base..Len(f.stack) :
         /\ Leads(c, f.stack[f.base].m, f.stack[i].m, LinkingIn(st))
         /\ Leads(c, f.stack[i].m, f.stack[f.base].m, LinkingIn(st))

\* The indexes are not more than the modules that are not UNLINKED.
CountInv(f, st) == f.dfs + 1 <= Cardinality(StartedIn(st))

\* The link f.
LinkOK(c, f, st, anc, res) ==
  /\ StackInv(f, st) /\ TreeInv(c, f.stack) /\ PlaceInv(c, f)
  /\ SearchInv(c, f, st, anc) /\ ResolvedInv(c, f, st, res)
  /\ ComponentInv(c, f, st) /\ CountInv(f, st)

-----------------------------------------------------------------------------
(* The calls in progress                                                   *)

\* A link is the innermost call.
LinkTop(fs) == fs # <<>> /\ Last(fs).op = "link"

\* A frame by itself.
FrameInv(c, f, ca) ==
  /\ f.op = "import" => f.m \in ca
  /\ f.op = "evaluate" => f.node <= Arity(c, f.m) + 1

\* The frame f has called g.
Calls(c, f, g) ==
  /\ f.op # "link"
  /\ f.op = "import" => g.op = (IF f.pc = "link" THEN "link" ELSE "evaluate")
  /\ f.op = "evaluate" =>
       \/ f.pc = "code"
       \/ /\ f.pc = "imports" /\ f.node <= Arity(c, f.m)
          /\ g.op = "evaluate" /\ g.m = Goals(c, f.m)[f.node]

\* The calls fs, ca being what was read.
CallsOK(c, fs, ca) ==
  /\ fs \in Seq(Frames)
  /\ \A i \in 1..Len(fs) : FrameInv(c, fs[i], ca)
  /\ \A i \in 1..(Len(fs) - 1) : Calls(c, fs[i], fs[i + 1])

\* The frame i evaluates m.
EvalAt(fs, i, m) == fs[i].op = "evaluate" /\ fs[i].m = m

\* What frame i has passed is evaluated or being evaluated further out.
FramePassed(c, fs, st, i) ==
  fs[i].op = "evaluate" =>
    \A x \in 1..Arity(c, fs[i].m) :
      x < fs[i].node \/ fs[i].pc = "code" =>
        \/ st[Goals(c, fs[i].m)[x]] = "evaluated"
        \/ \E k \in 1..i : EvalAt(fs, k, Goals(c, fs[i].m)[x])

\* The modules in EVALUATING are those with a frame, and they have one.
EvalsOK(c, fs, st) ==
  /\ \A m \in Modules : st[m] = "evaluating" <=> \E i \in 1..Len(fs) : EvalAt(fs, i, m)
  /\ \A i, k \in 1..Len(fs) : \A m : EvalAt(fs, i, m) /\ EvalAt(fs, k, m) => i = k
  /\ \A i \in 1..Len(fs) : FramePassed(c, fs, st, i)

\* The modules of LINKING are those of the link that is the innermost call.
LinkPart(c, fs, st, anc, res) ==
  /\ LinkTop(fs) => LinkOK(c, Last(fs), st, anc, res)
  /\ ~ LinkTop(fs) => \A m \in Modules : st[m] # "linking"

-----------------------------------------------------------------------------
(* The invariant of linking and evaluation                                 *)

\* Only what was read has a state or is held by a node.
CacheOK(c, ca, st, res) ==
  /\ \A m \in Modules : m \notin ca => st[m] = "unlinked"
  /\ \A m \in Modules : \A x \in res[m] : Goals(c, m)[x] \in ca

\* What is complete imports what is complete, has failed or is in P.
ClosedUp(c, st, res, P) ==
  \A m \in Modules : st[m] \in Complete =>
    /\ res[m] = 1..Arity(c, m)
    /\ \A t \in Succ(c, m) : st[t] \in Complete \cup {"error"} \/ t \in P

\* The component that is being announced.
Pending(f) == IF f.pc = "linked" THEN Component(f) ELSE {}
PendingIn(fs) == IF LinkTop(fs) THEN Pending(Last(fs)) ELSE {}

\* Incomplete modules lead from m to one that failed: m cannot be linked again.
Doomed(c, st, m) ==
  \A C \in SUBSET Modules :
    m \in C /\ Closed(c, C, IncompleteIn(st)) => \E k \in C : st[k] = "error"

\* The modules that got their namespaces from the link f.
Granted(f) ==
  {f.stack[i].m : i \in {k \in 1..Len(f.stack) :
     \/ f.pc = "namespace" /\ k > f.it
     \/ f.pc \in {"connect", "linked"} /\ k >= f.base}}
GrantedIn(fs) == IF LinkTop(fs) THEN Granted(Last(fs)) ELSE {}

\* What has a namespace and is not linked is in G or will never be linked.
NamespaceKept(c, st, hn, G) ==
  \A m \in hn : st[m] \in {"unlinked", "linking"} => Doomed(c, st, m) \/ m \in G

\* The modules whose turn to get a namespace comes have none.
NamespaceFirst(f, hn) ==
  f.pc = "namespace" => \A i \in f.base..f.it : f.stack[i].m \notin hn

\* The types, in the state that the arguments give.
TypesOK(c, ca, st, anc, res, hn) ==
  /\ c \in Programs /\ ca \in SUBSET Modules /\ hn \in SUBSET Modules
  /\ st \in [Modules -> States] /\ anc \in [Modules -> 0..Cardinality(Modules)]
  /\ Modules \subseteq DOMAIN res
  /\ \A m \in Modules : res[m] \subseteq 1..Arity(c, m)

\* All of it, in the state that the arguments give.
ModuleOK(c, fs, ca, st, anc, res, hn) ==
  /\ TypesOK(c, ca, st, anc, res, hn)
  /\ CallsOK(c, fs, ca) /\ EvalsOK(c, fs, st) /\ LinkPart(c, fs, st, anc, res)
  /\ CacheOK(c, ca, st, res) /\ ClosedUp(c, st, res, PendingIn(fs))
  /\ NamespaceKept(c, st, hn, GrantedIn(fs))
  /\ LinkTop(fs) => NamespaceFirst(Last(fs), hn)

\* The inductive invariant of linking and evaluation.
ModuleInv ==
  /\ TypeOK /\ Modules \subseteq DOMAIN ns
  /\ ModuleOK(code, frames, cache, state, ancestor, resolved, hasNs)

\* The rest of the state.
RestOK(th, ow, n) ==
  /\ th \in SUBSET Modules /\ ow \in [Modules -> Modules \cup {NoModule}]
  /\ Modules \subseteq DOMAIN n /\ \A m \in Modules : DOMAIN n[m] \subseteq Names

-----------------------------------------------------------------------------
(* What an export means, and its resolution                                *)

\* The references, those that are bindings, and what a reference may stand for.
Refs == Modules \X (Names \cup {Star})
Bound(c, p) == p[2] = Star \/ p[2] \in c[p[1]].local
Meaning(c, p) == Bindings(c, p[1], p[2])

\* The names that k exports by itself stand for something; this holds for all
\* that m imports.
Solid(c, k) == \A n \in OwnNames(c[k]) : Meaning(c, <<k, n>>) # {}
AllSolid(c, m) == \A k \in Modules : Leads(c, m, k, Modules) => Solid(c, k)

\* No module exports by name what is ambiguous in another one.
Plain(c) ==
  \A m \in Modules : \A e \in c[m].indirect : Cardinality(Bindings(c, e.to, e.as)) <= 1

\* The walk of ecma_module_resolve_export: its state, what was found, and what
\* is known of a pair that it meets on the way from p.
Named == Modules \X Names
Walks ==
  [set : Seq(Named), at : Nat \ {0}, type : {"not_found", "circular", "found", "ambiguous", "error"},
   result : Refs \cup {<<>>}, done : BOOLEAN]
Found(w) == IF w.type = "found" THEN {w.result} ELSE {}
Met(c, p, q) == Meaning(c, q) \subseteq Meaning(c, p) /\ Leads(c, p[1], q[1], Modules)
Backed(c, q) == q[2] = Default => Meaning(c, q) # {}

\* Every pair of the set was met once, and what was found is right as far as
\* it goes.
WalkSound(c, fa, p, w) ==
  /\ w \in Walks /\ w.set # <<>> /\ w.set[1] = p
  /\ \A i, j \in 1..Len(w.set) : w.set[i] = w.set[j] => i = j
  /\ \A i \in 1..Len(w.set) : Met(c, p, w.set[i])
  /\ AllSolid(c, p[1]) => \A i \in 1..Len(w.set) : i # 1 => Backed(c, w.set[i])
  /\ w.type \in {"found", "ambiguous"} => w.result \in Meaning(c, p)
  /\ w.type = "ambiguous" => \E x \in Meaning(c, p) : x # w.result
  /\ w.type = "error" => \E k \in fa : Leads(c, p[1], k, Modules)
  /\ w.type \in {"ambiguous", "error"} => w.done

\* Nothing was overlooked in the first k pairs.
WalkCovers(c, p, w, k) ==
  AllSolid(c, p[1]) /\ w.type \notin {"ambiguous", "error"} =>
    \A i \in 1..Len(w.set) : i <= k =>
      \/ Meaning(c, w.set[i]) \subseteq Found(w)
      \/ ~ Bound(c, w.set[i]) /\ LeadsTo(c, w.set[i]) \subseteq ToSet(w.set)

\* The inductive invariant of the walk that resolves p, fa being what failed.
WalkInv(c, fa, p, w) ==
  /\ WalkSound(c, fa, p, w) /\ WalkCovers(c, p, w, w.at - 1)
  /\ ~ w.done => w.at <= Len(w.set)
  /\ w.at = 1 => Len(w.set) = 1
  /\ AllSolid(c, p[1]) /\ w.type \notin {"ambiguous", "error"} /\ w.done => w.at > Len(w.set)

-----------------------------------------------------------------------------
(* What linking comes to                                                   *)

\* The namespace of k is right if it has the names that k exports by itself
\* and others only as far as they mean something, and where all is solid just
\* the names with one meaning.
NsRight(c, k, x) ==
  /\ DOMAIN x \subseteq Names /\ OwnNames(c[k]) \subseteq DOMAIN x
  /\ \A a \in DOMAIN x : x[a] \in Meaning(c, <<k, a>>)
  /\ AllSolid(c, k) => \A a \in Names : a \in DOMAIN x <=> \E y : Meaning(c, <<k, a>>) = {y}
NsOK(c, hn, n) == \A k \in hn : NsRight(c, k, n[k])

\* The imports of m are right if each is the only thing it may stand for.
EnvRight(c, m, e) == DOMAIN e = Requests(c[m]) /\ \A r \in DOMAIN e : Meaning(c, r) = {e[r]}

\* A module was linked, also if its evaluation has thrown since.
WasLinked(st, th, m) == st[m] \in Complete \/ m \in th

\* A reason for m to fail.
Spoiled(c, th, m) ==
  \E k \in Modules : Leads(c, m, k, Modules) /\ (k \in th \/ Broken(c, k))

\* The modules that got their imports from the link f.
Connected(f) ==
  {f.stack[i].m : i \in {k \in 1..Len(f.stack) :
     \/ f.pc = "connect" /\ k > f.it
     \/ f.pc = "linked" /\ k >= f.base}}
ConnectedIn(fs) == IF LinkTop(fs) THEN Connected(Last(fs)) ELSE {}

\* What was linked has a namespace and the right imports, and imports what was
\* linked or is in P.
LinkedRight(c, P, st, hn, e, th, m) ==
  WasLinked(st, th, m) =>
    /\ m \in hn /\ EnvRight(c, m, e[m])
    /\ \A t \in Succ(c, m) : WasLinked(st, th, t) \/ t \in P

\* What linking has come to: the namespaces and the imports are right, and a
\* module failed for a reason.  P, G and K are the modules that the link in
\* progress is announcing, and gave namespaces and imports.
OutcomeOK(c, P, G, K, st, hn, x, e, th) ==
  /\ NsOK(c, hn, x) /\ Modules \subseteq DOMAIN e
  /\ \A m \in Modules : DOMAIN e[m] \subseteq Requests(c[m])
  /\ \A m \in Modules : LinkedRight(c, P, st, hn, e, th, m)
  /\ G \subseteq hn /\ \A m \in K : EnvRight(c, m, e[m])
  /\ \A m \in Modules : st[m] = "error" => Spoiled(c, th, m)
  /\ \A m \in th : st[m] = "error"

\* The same in the current state.
Outcome ==
  OutcomeOK(code, PendingIn(frames), GrantedIn(frames), ConnectedIn(frames),
            state, hasNs, ns, env, threw)

\* The invariant that LinkOutcome needs beside ModuleInv.
OutcomeInv == Plain(code) => Outcome

=============================================================================
