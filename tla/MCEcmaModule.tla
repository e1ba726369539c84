---------------------------- MODULE MCEcmaModule ----------------------------
(* The programs: every choice of one shape for each of the modules.        *)
EXTENDS EcmaModule

CONSTANTS a, b, c, x

Node(to, names) == [to |-> to, names |-> names]
From(name, to, as) == [name |-> name, to |-> to, as |-> as]

Body(imports, local, indirect, star) ==
  [imports |-> imports, local |-> local, indirect |-> indirect,
   star |-> star, shadows |-> FALSE, kind |-> "js"]

(* a is the root in most programs: it takes names from b and c, directly   *)
(* or through export-from statements.                                      *)
ShapesA ==
  { Body(<<Node(b, {x}), Node(c, {})>>, {}, {}, <<>>),
    Body(<<Node(b, {Star}), Node(c, {Default})>>, {x}, {}, <<>>),
    Body(<<Node(b, {}), Node(c, {})>>, {}, {}, <<b, c>>),
    Body(<<Node(c, {}), Node(b, {x})>>, {}, {From(x, c, x)}, <<b>>) }

(* b closes cycles with a, or offers a name of c, which it requests by two *)
(* specifiers, under another one.                                          *)
ShapesB ==
  { Body(<<>>, {x}, {}, <<>>),
    Body(<<Node(a, {}), Node(c, {})>>, {Default}, {}, <<a, c>>),
    Body(<<Node(c, {}), Node(c, {Default})>>, {}, {From(x, c, Default)}, <<>>),
    Body(<<Node(a, {Star}), Node(b, {x})>>, {x}, {}, <<>>),
    [Body(<<Node(a, {x})>>, {Default}, {}, <<a>>) EXCEPT !.shadows = TRUE],
    [Body(<<>>, {Default, x}, {}, <<>>) EXCEPT !.kind = "vmod"] }

(* c is a synthetic module, has the names itself, or goes back to b. *)
ShapesC ==
  { [Body(<<>>, {Default}, {}, <<>>) EXCEPT !.kind = "commonjs"],
    Body(<<>>, {Default, x}, {}, <<>>),
    Body(<<Node(b, {})>>, {}, {From(x, b, x), From(Default, b, Star)}, <<>>),
    Body(<<Node(a, {x})>>, {Default}, {}, <<a>>) }

MCPrograms ==
  {[m \in Modules |-> CASE m = a -> sa [] m = b -> sb [] m = c -> sc]
   : sa \in ShapesA, sb \in ShapesB, sc \in ShapesC}

============================================================================
