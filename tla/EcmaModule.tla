----------------------------- MODULE EcmaModule -----------------------------
(***************************************************************************)
(* Linking and evaluation of ES modules (ecma-module.c, jjs-module.c), and *)
(* the loader that reads modules into a cache and links and evaluates them *)
(* for import (jjs-annex-esm.c).                                           *)
(*                                                                         *)
(* Linking is a depth-first search over the import nodes that closes the   *)
(* strongly connected components of the graph one by one; evaluation is a  *)
(* recursion over the same nodes.  Calls nest: while the code of a module  *)
(* runs, it can import, link and evaluate other modules.  The calls in     *)
(* progress are the frames, the innermost one last.                        *)
(*                                                                         *)
(* Assumption: the hooks that run while a module is being linked (resolve  *)
(* and load hooks, functions of virtual modules, the state change          *)
(* callback) do not themselves link or evaluate modules.                   *)
(***************************************************************************)
EXTENDS EcmaModuleExports

CONSTANT Programs   \* functions from Modules to Bodies

ASSUME ProgramsAssumption ==
  \A p \in Programs :
    /\ p \in [Modules -> Bodies]
    /\ \A m \in Modules :
         LET to == [i \in DOMAIN p[m].imports |-> p[m].imports[i].to]
         IN /\ {e.to : e \in p[m].indirect} \cup ToSet(p[m].star)
                 \subseteq ToSet(to)
            /\ p[m].kind # "js" => to = <<>>
            /\ \A e, f \in p[m].indirect : e.name = f.name => e = f

States == {"unlinked", "linking", "linked", "evaluating", "evaluated", "error"}

VARIABLES
  code,       \* what the modules are written to be; never changes
  cache,      \* the modules in esm_cache, and those the program parsed itself
  state,      \* module_state
  resolved,   \* resolved[m]: the nodes that hold a module and not a path
  ancestor,   \* dfs_ancestor_index
  hasNs,      \* the modules with the flag ECMA_MODULE_HAS_NAMESPACE
  ns,         \* ns[m]: the exports in the namespace object
  owner,      \* owner[m]: the module that the namespace object refers to
  env,        \* env[m]: the imported bindings in the scope
  frames,     \* the calls in progress
  threw       \* history: the modules whose evaluation threw

link == <<resolved, ancestor, hasNs, ns, owner, env>>
vars == <<code, cache, state, link, frames, threw>>

NoModule == "no module"

Init ==
  /\ code \in Programs
  /\ cache = {} /\ threw = {} /\ hasNs = {}
  /\ state = [m \in Modules |-> "unlinked"]
  /\ resolved = [m \in Modules |-> {}]
  /\ ancestor = [m \in Modules |-> 0]
  /\ ns = [m \in Modules |-> NoExports]
  /\ env = [m \in Modules |-> NoExports]
  /\ owner = [m \in Modules |-> NoModule]
  /\ frames = <<>>

----------------------------------------------------------------------------
(* Frames.                                                                 *)

Top == Last(frames)
Running(op, pc) == frames # <<>> /\ Top.op = op /\ Top.pc = pc

(* The program runs: the host, or the code of a module. *)
UserCode == frames = <<>> \/ Running("evaluate", "code")

(* The innermost call returns; its caller goes on, or fails as well.       *)
(* User code may catch the error.                                          *)
Return(ok) ==
  LET rest == Front(frames)
      caller == Last(rest)
  IN frames' =
       IF rest = <<>> THEN <<>>
       ELSE IF caller.op = "import"
         THEN IF ok /\ caller.pc = "link"
                THEN [rest EXCEPT ![Len(rest)].pc = "evaluate"]
                ELSE Front(rest)
       ELSE IF caller.pc = "imports"
         THEN IF ok THEN [rest EXCEPT ![Len(rest)].node = @ + 1]
                    ELSE [rest EXCEPT ![Len(rest)].pc = "failed"]
       ELSE rest

Goto(pc) == frames' = [frames EXCEPT ![Len(frames)].pc = pc]

(* The innermost call goes on as f. *)
GoOn(f) == frames' = [frames EXCEPT ![Len(frames)] = f]

Targets(m) == [i \in 1..Len(code[m].imports) |-> code[m].imports[i].to]

----------------------------------------------------------------------------
(* The loader.                                                             *)

(* esm_read succeeds: the module is in the cache, or it is loaded, parsed  *)
(* and cached.  A virtual module is linked before it is cached             *)
(* (vmod_get_or_load_module), which is over at once: it imports nothing.   *)
Read(m) ==
  /\ cache' = cache \cup {m}
  /\ IF m \notin cache /\ code[m].kind = "vmod"
       THEN /\ state' = [state EXCEPT ![m] = "linked"]
            /\ hasNs' = hasNs \cup {m}
            /\ ns' = [ns EXCEPT ![m] =
                        CreateNamespace(code, {}, {}, ns, m).exports]
            /\ owner' = [owner EXCEPT ![m] = m]
       ELSE UNCHANGED <<state, hasNs, ns, owner>>

(* jjs_esm_import, jjs_esm_evaluate and import() with the default callback *)
Import(m) ==
  /\ UserCode
  /\ Read(m)
  /\ frames' = Append(frames, [op |-> "import", m |-> m, pc |-> "link"])
  /\ UNCHANGED <<code, resolved, ancestor, env, threw>>

NewLink(m) ==
  [op |-> "link", pc |-> "resolve", module |-> m, dfs |-> 0,
   stack |-> <<[m |-> m, node |-> 1, dfs |-> 0, parent |-> 0]>>,
   cur |-> 1, base |-> 1, it |-> 1]

BeginLink(m, fs) ==
  /\ state' = [state EXCEPT ![m] = "linking"]
  /\ ancestor' = [ancestor EXCEPT ![m] = 0]
  /\ frames' = Append(fs, NewLink(m))

BeginEvaluate(m, fs) ==
  /\ state' = [state EXCEPT ![m] = "evaluating"]
  /\ frames' = Append(fs, [op |-> "evaluate", m |-> m, node |-> 1,
                           pc |-> "imports"])

(* esm_link_and_evaluate: up to the call of jjs_module_link. *)
ImportLink ==
  /\ Running("import", "link")
  /\ IF state[Top.m] = "unlinked"
       THEN BeginLink(Top.m, frames)
       ELSE Goto("evaluate") /\ UNCHANGED <<state, ancestor>>
  /\ UNCHANGED <<code, cache, resolved, hasNs, ns, owner, env, threw>>

(* esm_link_and_evaluate: the rest.  A module that is being evaluated or   *)
(* that failed cannot be imported.                                         *)
ImportEvaluate ==
  /\ Running("import", "evaluate")
  /\ IF state[Top.m] = "linked"
       THEN BeginEvaluate(Top.m, [frames EXCEPT ![Len(frames)].pc = "done"])
       ELSE Return(state[Top.m] = "evaluated") /\ UNCHANGED state
  /\ UNCHANGED <<code, cache, link, threw>>

(* jjs_module_link and jjs_module_evaluate, called by the program for a    *)
(* module that it has from the cache or has just parsed (jjs_parse,        *)
(* jjs_synthetic_module); in another state they throw.                     *)
Link(m) ==
  /\ UserCode
  /\ state[m] = "unlinked"
  /\ cache' = cache \cup {m}
  /\ BeginLink(m, frames)
  /\ UNCHANGED <<code, resolved, hasNs, ns, owner, env, threw>>

Evaluate(m) ==
  /\ UserCode
  /\ m \in cache /\ state[m] = "linked"
  /\ BeginEvaluate(m, frames)
  /\ UNCHANGED <<code, cache, link, threw>>

----------------------------------------------------------------------------
(* ecma_module_link.                                                       *)

Item == Top.stack[Top.cur]

(* The items above i: the component that is being closed. *)
Component(f) == {f.stack[i].m : i \in f.base..Len(f.stack)}

(* Mutant: the modules on the stack stay in the state LINKING. *)
LinkErrorKeeps(st) ==
  /\ state' = st
  /\ Return(FALSE)

(* Mutant: also modules that this link has finished become UNLINKED. *)
LinkErrorUndoes(st) ==
  /\ state' = [m \in Modules |->
                 IF st[m] \in {"linking", "linked"} THEN "unlinked" ELSE st[m]]
  /\ Return(FALSE)

(* Mutant: the module that failed becomes UNLINKED like the others. *)
LinkErrorAll(st) ==
  /\ state' = [m \in Modules |->
                 IF \E i \in 1..Len(Top.stack) : Top.stack[i].m = m
                   THEN "unlinked" ELSE st[m]]
  /\ Return(FALSE)

(* The label error: the modules on the stack become UNLINKED, but not the  *)
(* one that failed itself; st holds the states at that point.              *)
LinkError(st) ==
  /\ state' = [m \in Modules |->
                 IF st[m] # "error"
                      /\ \E i \in 1..Len(Top.stack) : Top.stack[i].m = m
                   THEN "unlinked" ELSE st[m]]
  /\ Return(FALSE)

(* The resolve loop, one node: the callback is esm_link_cb.  It may fail,  *)
(* or return a module that failed.                                         *)
ResolveNode ==
  /\ Running("link", "resolve")
  /\ Top.it <= Len(code[Item.m].imports)
  /\ LET t == Targets(Item.m)[Top.it]
         fresh == Top.it \notin resolved[Item.m]
     IN /\ IF fresh THEN Read(t) ELSE UNCHANGED <<cache, state, hasNs, ns, owner>>
        /\ resolved' = [resolved EXCEPT ![Item.m] = @ \cup {Top.it}]
        /\ state[t] # "error"
        /\ frames' = [frames EXCEPT ![Len(frames)].it = @ + 1]
  /\ UNCHANGED <<code, ancestor, env, threw>>

ResolveNodeFails ==
  /\ Running("link", "resolve")
  /\ Top.it <= Len(code[Item.m].imports)
  /\ LET t == Targets(Item.m)[Top.it]
         fresh == Top.it \notin resolved[Item.m]
     IN \/ /\ fresh
           /\ UNCHANGED resolved
        \/ /\ state[t] = "error"
           /\ resolved' = [resolved EXCEPT ![Item.m] = @ \cup {Top.it}]
  /\ LinkError(state)
  /\ UNCHANGED <<code, cache, ancestor, hasNs, ns, owner, env, threw>>

ResolveEnd ==
  /\ Running("link", "resolve")
  /\ Top.it > Len(code[Item.m].imports)
  /\ Goto("find")
  /\ UNCHANGED <<code, cache, state, link, threw>>

(* Mutant: edges back to modules on the stack are overlooked. *)
LowestOfNone(S) == ancestor[Item.m]

(* The lowest ancestor index of S and of the current module. *)
Lowest(S) ==
  LET linking == {ancestor[k] : k \in {x \in S : state[x] = "linking"}}
                   \cup {ancestor[Item.m]}
  IN CHOOSE d \in linking : \A e \in linking : d <= e

Unlinked(node) ==
  {i \in node..Len(code[Item.m].imports) :
     state[Targets(Item.m)[i]] = "unlinked"}

(* The find loop comes to an unlinked module: it is put on the stack and   *)
(* its own imports are resolved first.                                     *)
Visit ==
  /\ Running("link", "find")
  /\ Unlinked(Item.node) # {}
  /\ LET i == CHOOSE x \in Unlinked(Item.node) :
                \A y \in Unlinked(Item.node) : x <= y
         m == Targets(Item.m)[i]
         passed == {Targets(Item.m)[x] : x \in Item.node..(i - 1)}
         d == Top.dfs + 1
     IN /\ state' = [state EXCEPT ![m] = "linking"]
        /\ ancestor' = [ancestor EXCEPT ![Item.m] = Lowest(passed), ![m] = d]
        /\ GoOn([Top EXCEPT
             !.stack = Append([Top.stack EXCEPT ![Top.cur].node = i + 1],
                              [m |-> m, node |-> 1, dfs |-> d,
                               parent |-> Top.cur]),
             !.cur = Len(Top.stack) + 1,
             !.dfs = d, !.module = m, !.it = 1, !.pc = "resolve"])
  /\ UNCHANGED <<code, cache, resolved, hasNs, ns, owner, env, threw>>

(* Mutant: the parent does not learn the ancestor index of the module. *)
LeaveForgets ==
  /\ Running("link", "find")
  /\ Unlinked(Item.node) = {}
  /\ LET passed == {Targets(Item.m)[x] : x \in
                      Item.node..Len(code[Item.m].imports)}
         low == Lowest(passed)
         module == IF passed = {} THEN Top.module ELSE Last(Targets(Item.m))
     IN /\ owner' = [owner EXCEPT ![Item.m] =
                       IF @ = NoModule THEN module ELSE @]
        /\ ancestor' = [ancestor EXCEPT ![Item.m] = low]
        /\ GoOn(IF low # Item.dfs
                  THEN [Top EXCEPT !.module = module, !.cur = Item.parent]
                  ELSE [Top EXCEPT !.module = module, !.cur = Item.parent,
                                   !.base = Top.cur, !.it = Len(Top.stack),
                                   !.pc = "namespace"])
  /\ UNCHANGED <<code, cache, state, resolved, hasNs, ns, env, threw>>

(* The find loop ends: the scope and the namespace object are created if   *)
(* they are missing, and either the search goes back to the parent or a    *)
(* component is complete.  The namespace object refers to module_p, the    *)
(* module that the search has looked at last.                              *)
Leave ==
  /\ Running("link", "find")
  /\ Unlinked(Item.node) = {}
  /\ LET passed == {Targets(Item.m)[x] : x \in
                      Item.node..Len(code[Item.m].imports)}
         low == Lowest(passed)
         module == IF passed = {} THEN Top.module ELSE Last(Targets(Item.m))
         parent == Top.stack[Item.parent].m
     IN /\ owner' = [owner EXCEPT ![Item.m] =
                       IF @ = NoModule THEN module ELSE @]
        /\ ancestor' = IF low # Item.dfs
                         THEN [ancestor EXCEPT
                                 ![Item.m] = low,
                                 ![parent] = IF low < @ THEN low ELSE @]
                         ELSE [ancestor EXCEPT ![Item.m] = low]
        /\ GoOn(IF low # Item.dfs
                  THEN [Top EXCEPT !.module = module, !.cur = Item.parent]
                  ELSE [Top EXCEPT !.module = module, !.cur = Item.parent,
                                   !.base = Top.cur, !.it = Len(Top.stack),
                                   !.pc = "namespace"])
  /\ UNCHANGED <<code, cache, state, resolved, hasNs, ns, env, threw>>

----------------------------------------------------------------------------
(* A component is complete.                                                *)

Failed == {m \in Modules : state[m] = "error"}

(* The next module of a loop over the component, or the next loop. *)
Advance(pc) ==
  GoOn(IF Top.it > Top.base
         THEN [Top EXCEPT !.it = @ - 1]
         ELSE [Top EXCEPT !.it = Len(Top.stack), !.pc = pc])

(* ecma_module_create_namespace_object for one module. *)
CreateNamespaceObject ==
  /\ Running("link", "namespace")
  /\ LET m == Top.stack[Top.it].m
         result == CreateNamespace(code, Failed, hasNs, ns, m)
     IN IF result.ok
          THEN /\ ns' = [ns EXCEPT ![m] = result.exports]
               /\ hasNs' = hasNs \cup {m}
               /\ Advance("connect")
               /\ UNCHANGED state
          ELSE /\ LinkError([state EXCEPT ![m] = "error"])
               /\ UNCHANGED <<ns, hasNs>>
  /\ UNCHANGED <<code, cache, resolved, ancestor, owner, env, threw>>

(* ecma_module_connect_imports for one module. *)
Connect ==
  /\ Running("link", "connect")
  /\ LET m == Top.stack[Top.it].m
         result == ConnectImports(code, Failed, hasNs, ns, m)
     IN IF result.ok
          THEN /\ env' = [env EXCEPT ![m] = result.imports]
               /\ Advance("linked")
               /\ UNCHANGED state
          ELSE /\ LinkError([state EXCEPT ![m] = "error"])
               /\ UNCHANGED env
  /\ UNCHANGED <<code, cache, resolved, ancestor, hasNs, ns, owner, threw>>

(* The last item of the stack is linked; the state change callback runs. *)
Linked ==
  /\ Running("link", "linked")
  /\ state' = [state EXCEPT ![Last(Top.stack).m] = "linked"]
  /\ IF Len(Top.stack) > Top.base
       THEN GoOn([Top EXCEPT !.stack = Front(@)])
     ELSE IF Top.cur = 0 THEN Return(TRUE)
     ELSE GoOn([Top EXCEPT !.stack = Front(@), !.pc = "find"])
  /\ UNCHANGED <<code, cache, link, threw>>

----------------------------------------------------------------------------
(* ecma_module_evaluate, vm_run_module and ecma_module_initialize.         *)

(* Mutant: an import whose evaluation is in progress is waited for. *)
EvaluateImportWaits ==
  /\ Running("evaluate", "imports")
  /\ Top.node <= Len(code[Top.m].imports)
  /\ LET t == Targets(Top.m)[Top.node]
     IN CASE state[t] = "error" -> Goto("failed") /\ UNCHANGED state
          [] state[t] = "evaluating" -> UNCHANGED <<frames, state>>
          [] state[t] = "evaluated" ->
               /\ frames' = [frames EXCEPT ![Len(frames)].node = @ + 1]
               /\ UNCHANGED state
          [] OTHER -> BeginEvaluate(t, frames)
  /\ UNCHANGED <<code, cache, link, threw>>

(* The next import is evaluated, unless it was or is being evaluated; one  *)
(* that failed is an error.                                                *)
EvaluateImport ==
  /\ Running("evaluate", "imports")
  /\ Top.node <= Len(code[Top.m].imports)
  /\ LET t == Targets(Top.m)[Top.node]
     IN CASE state[t] = "error" -> Goto("failed") /\ UNCHANGED state
          [] state[t] \in {"evaluating", "evaluated"} ->
               /\ frames' = [frames EXCEPT ![Len(frames)].node = @ + 1]
               /\ UNCHANGED state
          [] OTHER -> BeginEvaluate(t, frames)
  /\ UNCHANGED <<code, cache, link, threw>>

(* Mutant: the last import is not evaluated. *)
RunCodeEarly ==
  /\ Running("evaluate", "imports")
  /\ Top.node >= Len(code[Top.m].imports)
  /\ Goto("code")
  /\ UNCHANGED <<code, cache, state, link, threw>>

(* The imports are evaluated: the code of the module, or the callback of a *)
(* synthetic module, starts.                                               *)
RunCode ==
  /\ Running("evaluate", "imports")
  /\ Top.node > Len(code[Top.m].imports)
  /\ Goto("code")
  /\ UNCHANGED <<code, cache, state, link, threw>>

(* The code, or the callback of a synthetic module, returns or throws. *)
CodeReturns ==
  /\ Running("evaluate", "code")
  /\ state' = [state EXCEPT ![Top.m] = "evaluated"]
  /\ Return(TRUE)
  /\ UNCHANGED <<code, cache, link, threw>>

CodeThrows ==
  /\ Running("evaluate", "code")
  /\ state' = [state EXCEPT ![Top.m] = "error"]
  /\ threw' = threw \cup {Top.m}
  /\ Return(FALSE)
  /\ UNCHANGED <<code, cache, link>>

ImportFailed ==
  /\ Running("evaluate", "failed")
  /\ state' = [state EXCEPT ![Top.m] = "error"]
  /\ threw' = threw \cup {Top.m}
  /\ Return(FALSE)
  /\ UNCHANGED <<code, cache, link>>

----------------------------------------------------------------------------

LinkStep ==
  \/ ResolveNode \/ ResolveNodeFails \/ ResolveEnd \/ Visit \/ Leave
  \/ CreateNamespaceObject \/ Connect \/ Linked

(* What the engine does by itself; user code may choose to return. *)
EngineStep ==
  \/ ImportLink \/ ImportEvaluate \/ LinkStep
  \/ EvaluateImport \/ RunCode \/ ImportFailed
  \/ CodeReturns \/ CodeThrows

Next ==
  \/ EngineStep
  \/ \E m \in Modules : Import(m) \/ Link(m) \/ Evaluate(m)

(* The engine goes on, and the code of a module ends: it cannot call into  *)
(* the engine for ever.                                                    *)
Fairness ==
  /\ WF_vars(EngineStep)
  /\ SF_vars(CodeReturns \/ CodeThrows)

Spec == Init /\ [][Next]_vars /\ Fairness

----------------------------------------------------------------------------

TypeOK ==
  /\ code \in Programs
  /\ cache \subseteq Modules /\ hasNs \subseteq Modules
  /\ threw \subseteq Modules
  /\ state \in [Modules -> States]
  /\ ancestor \in [Modules -> 0..Cardinality(Modules)]
  /\ owner \in [Modules -> Modules \cup {NoModule}]
  /\ \A m \in Modules : resolved[m] \subseteq 1..Len(code[m].imports)
  /\ \A m \in Modules : DOMAIN ns[m] \subseteq Names

Complete == {"linked", "evaluating", "evaluated"}

(* What S imports, directly or not, through modules of T. *)
Reach(S, T) ==
  LET reach[i \in 0..Cardinality(Modules)] ==
        IF i = 0 THEN S
        ELSE LET R == reach[i - 1]
             IN R \cup (T \cap UNION {ToSet(Targets(m)) : m \in R})
  IN reach[Cardinality(Modules)]

(* The states tell what the calls in progress do: a module is LINKING if   *)
(* and only if it is on the stack of a link, and EVALUATING if and only if *)
(* one evaluation of it is in progress.  Every way out of ecma_module_link *)
(* and ecma_module_evaluate, the failing ones included, has to see to it.  *)
StatesMatchCalls ==
  /\ TypeOK
  /\ LET links == {i \in 1..Len(frames) : frames[i].op = "link"}
         evals == {i \in 1..Len(frames) : frames[i].op = "evaluate"}
         stacks == UNION {{frames[i].stack[k].m : k \in 1..Len(frames[i].stack)}
                          : i \in links}
     IN /\ {m \in Modules : state[m] = "linking"} = stacks
        /\ {m \in Modules : state[m] = "evaluating"} = {frames[i].m : i \in evals}
        /\ \A i, j \in evals : frames[i].m = frames[j].m => i = j

(* Linking is all or nothing: every import of a linked module was resolved *)
(* and is linked as well, at the latest when the component it belongs to   *)
(* is announced.  ecma_module_evaluate takes it for granted.               *)
LinkedClosed ==
  \A m \in Modules : state[m] \in Complete =>
    /\ resolved[m] = 1..Len(code[m].imports)
    /\ \A t \in ToSet(Targets(m)) :
         \/ state[t] \in Complete \cup {"error"}
         \/ Running("link", "linked") /\ t \in Component(Top)

(* The assertion of ecma_module_create_namespace_object: a module gets its *)
(* exports once.  After a failed link some modules of the component have   *)
(* theirs and are UNLINKED again; linking them anew must fail before it    *)
(* comes to their namespaces.                                              *)
NamespaceOnce ==
  Running("link", "namespace") =>
    \A i \in Top.base..Top.it : Top.stack[i].m \notin hasNs

(* The depth-first search closes exactly the strongly connected components *)
(* of the modules that are being linked.                                   *)
ComponentExact ==
  (Running("link", "namespace") \/ Running("link", "connect")) =>
    LET linking == {m \in Modules : state[m] = "linking"}
        root == Top.stack[Top.base].m
    IN Component(Top) = {m \in linking : /\ m \in Reach({root}, linking)
                                         /\ root \in Reach({m}, linking)}

(* No module exports by name what is ambiguous in another one. *)
NoAmbiguousReexport ==
  \A m \in Modules : \A e \in code[m].indirect :
    Cardinality(Bindings(code, e.to, e.as)) <= 1

(* Whatever the order of the statements and of the calls that linked other *)
(* modules before: the namespace of a linked module holds exactly the      *)
(* names that stand for one binding, each with that binding, and so do its *)
(* imports; and a module fails only if it is, or imports, directly or not, *)
(* a module whose evaluation threw or that cannot be linked.               *)
LinkOutcome ==
  NoAmbiguousReexport =>
    \A m \in Modules :
      /\ state[m] \in Complete =>
           /\ DOMAIN ns[m] =
                {n \in Names : Cardinality(Bindings(code, m, n)) = 1}
           /\ \A n \in DOMAIN ns[m] : Bindings(code, m, n) = {ns[m][n]}
           /\ DOMAIN env[m] = Requests(code[m])
           /\ \A r \in DOMAIN env[m] :
                Bindings(code, r[1], r[2]) = {env[m][r]}
      /\ state[m] = "error" =>
           \E k \in Reach({m}, Modules) : k \in threw \/ Broken(code, k)

(* When the code of a module starts, everything it imports was evaluated,  *)
(* but for modules whose evaluation is in progress further out.            *)
EvaluationOrder ==
  Running("evaluate", "code") =>
    \A t \in ToSet(Targets(Top.m)) :
      \/ state[t] = "evaluated"
      \/ \E i \in 1..Len(frames) :
           frames[i].op = "evaluate" /\ frames[i].m = t

(* A failed link takes back only what it did itself: modules that were     *)
(* linked stay so, and a module that was evaluated or failed is never      *)
(* touched again.                                                          *)
OnlyForward ==
  [][\A m \in Modules :
       /\ state[m] \in Complete => state'[m] \notin {"unlinked", "linking"}
       /\ state[m] \in {"evaluated", "error"} => state'[m] = state[m]]_vars

(* Every import, link and evaluation returns. *)
CallsReturn == []<>(frames = <<>>)

(* A namespace object keeps the scopes that its exports refer to: the      *)
(* collector does not follow the references but marks the module that the  *)
(* namespace object names, and what that module imports (ecma-gc.c).       *)
NamespaceKeepsScopes ==
  \A m \in hasNs : \A n \in DOMAIN ns[m] :
    ns[m][n][2] # Star => ns[m][n][1] \in Reach({owner[m]}, Modules)

============================================================================
