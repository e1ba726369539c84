-------------------------- MODULE EcmaModuleExports --------------------------
(***************************************************************************)
(* How the exports of ES modules are resolved (ecma-module.c), as          *)
(* operators, and the meaning they are meant to compute.                   *)
(*                                                                         *)
(* The code of a module is a record:                                       *)
(*   imports   the import nodes in the order of the statements, each with  *)
(*             the module it names and the names taken from it; the node   *)
(*             of an export-from statement has no names                    *)
(*   local     the exported names that are bound in the module's scope     *)
(*   indirect  the names exported from elsewhere: by an export-from        *)
(*             statement or by exporting an imported binding               *)
(*   star      the modules of "export * from" statements                   *)
(*   shadows   an imported binding has the name of a local one             *)
(*   kind      "js", or a synthetic module made from "commonjs" or "vmod"  *)
(* A reference to a binding is a pair of module and name; the name Star    *)
(* stands for the namespace object of the module.                          *)
(***************************************************************************)
EXTENDS Integers, Sequences, FiniteSets, SequencesExt

CONSTANTS
  Modules,
  Names,       \* the names that are exported or imported
  Default,     \* the name "default"
  Star         \* the name "*"

ASSUME NamesAssumption ==
  /\ IsFiniteSet(Modules) /\ IsFiniteSet(Names)
  /\ Default \in Names /\ Star \notin Names

Bodies ==
  [ imports : Seq([to : Modules, names : SUBSET (Names \cup {Star})]),
    local : SUBSET Names,
    indirect : SUBSET [name : Names, to : Modules, as : Names \cup {Star}],
    star : Seq(Modules),
    shadows : BOOLEAN,
    kind : {"js", "commonjs", "vmod"} ]

(* The names a module exports by itself. *)
OwnNames(body) == body.local \cup {e.name : e \in body.indirect}

NoExports == [n \in {} |-> <<>>]

----------------------------------------------------------------------------
(* ecma_module_resolve_export works through a list of pairs of module and  *)
(* name, the resolve set, which grows while it is processed.               *)

(* ecma_module_resolve_set_append: a pair that is in the set already tells *)
(* a cycle, which is the result unless something was found.                *)
ResolveSetAppend(w, p) ==
  IF p \in ToSet(w.set)
    THEN [w EXCEPT !.type = IF @ = "not_found" THEN "circular" ELSE @]
    ELSE [w EXCEPT !.set = Append(@, p)]

(* The name n of each of the modules of a list of star exports. *)
ResolveStars(w, star, n) ==
  LET v[i \in 0..Len(star)] ==
        IF i = 0 THEN w ELSE ResolveSetAppend(v[i - 1], <<star[i], n>>)
  IN v[Len(star)]

(* Mutant: a second reference replaces the first one. *)
ResolveUpdateLast(w, ref) ==
  [w EXCEPT !.type = "found", !.result = ref]

(* ecma_module_resolve_update *)
ResolveUpdate(w, ref) ==
  IF w.type \in {"not_found", "circular"}
    THEN [w EXCEPT !.type = "found", !.result = ref]
  ELSE IF w.result = ref THEN w
  ELSE [w EXCEPT !.type = "ambiguous", !.done = TRUE]

(* One turn of the loop of ecma_module_resolve_export, for the pair at     *)
(* w.at.  ns[m] is the namespace of a module of hasNs.                     *)
ResolveTurn(code, failed, hasNs, ns, w) ==
  LET m == w.set[w.at][1]
      n == w.set[w.at][2]
      exports == {e \in code[m].indirect : e.name = n}
      turn ==
        CASE m \in failed ->
               [w EXCEPT !.type = "error", !.done = TRUE]
          [] m \notin failed /\ m \in hasNs /\ n \in DOMAIN ns[m] ->
               ResolveUpdate(w, ns[m][n])
          [] m \notin failed \cup hasNs /\ n \in code[m].local ->
               ResolveUpdate(w, <<m, n>>)
          [] m \notin failed \cup hasNs /\ n \notin code[m].local
               /\ exports # {} ->
               LET e == CHOOSE x \in exports : TRUE
               IN IF e.as = Star THEN ResolveUpdate(w, <<e.to, Star>>)
                                 ELSE ResolveSetAppend(w, <<e.to, e.as>>)
          [] OTHER ->
               IF n = Default
                 THEN [w EXCEPT !.done = TRUE]
                 ELSE ResolveStars(w, code[m].star, n)
  IN [turn EXCEPT !.at = @ + 1,
                  !.done = @ \/ turn.at = Len(turn.set)]

(* ecma_module_resolve_export: the only member of w[k] is the resolve set  *)
(* after k turns.  No pair is processed twice.                             *)
ResolveExport(code, failed, hasNs, ns, m, n) ==
  LET turns == Cardinality(Modules) * Cardinality(Names)
      w[k \in 0..turns] ==
        IF k = 0
          THEN {[set |-> <<<<m, n>>>>, at |-> 1, type |-> "not_found",
                 result |-> <<>>, done |-> FALSE]}
          ELSE {IF s.done THEN s ELSE ResolveTurn(code, failed, hasNs, ns, s)
                : s \in w[k - 1]}
  IN CHOOSE s \in w[turns] : TRUE

(* The modules that "export *" leads to from m: the resolve set of         *)
(* ecma_module_create_namespace_object.                                    *)
StarReach(code, m) ==
  LET reach[i \in 0..Cardinality(Modules)] ==
        IF i = 0 THEN {m}
        ELSE LET R == reach[i - 1]
             IN R \cup UNION {ToSet(code[k].star) : k \in R}
  IN reach[Cardinality(Modules)]

(* ecma_module_create_namespace_object: every name it collects is resolved *)
(* from m, an ambiguous one is left out, and one that is not found is an   *)
(* error.                                                                  *)
CreateNamespace(code, failed, hasNs, ns, m) ==
  LET offered(k) ==
        IF k = m THEN OwnNames(code[m])
        ELSE (IF k \in hasNs THEN DOMAIN ns[k] ELSE OwnNames(code[k]))
             \ {Default}
      names == UNION {offered(k) : k \in StarReach(code, m)}
      result == [n \in names |-> ResolveExport(code, failed, hasNs, ns, m, n)]
      found == {n \in names : result[n].type = "found"}
  IN [ok |-> \A n \in names : result[n].type \in {"found", "ambiguous"},
      exports |-> [n \in found |-> result[n].result]]

(* ecma_module_connect_imports: the reference for each name of each node.  *)
Requests(body) ==
  UNION {{<<body.imports[i].to, n>> : n \in body.imports[i].names}
         : i \in 1..Len(body.imports)}

ConnectImports(code, failed, hasNs, ns, m) ==
  LET result == [r \in Requests(code[m]) |->
                   IF r[2] = Star
                     THEN [type |-> "found", result |-> r]
                     ELSE ResolveExport(code, failed, hasNs, ns, r[1], r[2])]
  IN [ok |-> /\ ~ code[m].shadows
             /\ \A r \in DOMAIN result : result[r].type = "found",
      imports |-> [r \in DOMAIN result |-> result[r].result]]

----------------------------------------------------------------------------
(* What an export means: the bindings that it may stand for, whatever the  *)
(* order of statements and of linking.                                     *)

(* The pairs that a pair leads to in one step. *)
LeadsTo(code, p) ==
  LET body == code[p[1]]
      exports == {e \in body.indirect : e.name = p[2]}
  IN IF p[2] = Star \/ p[2] \in body.local THEN {}
     ELSE IF exports # {} THEN {<<e.to, e.as>> : e \in exports}
     ELSE IF p[2] = Default THEN {}
     ELSE {<<t, p[2]>> : t \in ToSet(body.star)}

Bindings(code, m, n) ==
  LET size == Cardinality(Modules) * Cardinality(Names)
      reach[i \in 0..size] ==
        IF i = 0 THEN {<<m, n>>}
        ELSE LET R == reach[i - 1]
             IN R \cup UNION {LeadsTo(code, p) : p \in R}
  IN {p \in reach[size] : p[2] = Star \/ p[2] \in code[p[1]].local}

(* A module that cannot be linked because of its own code. *)
Broken(code, m) ==
  \/ code[m].shadows
  \/ \E n \in OwnNames(code[m]) : Bindings(code, m, n) = {}
  \/ \E r \in Requests(code[m]) : Cardinality(Bindings(code, r[1], r[2])) # 1

============================================================================
