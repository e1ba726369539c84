--------------------------- MODULE MCEcmaProperty ---------------------------
(* Two objects share the cache and the memory for pairs; the first one has *)
(* enough names for hashmaps of two sizes, with names that collide in both.*)
EXTENDS EcmaProperty, TLC

CONSTANTS LongNames, ShortNames

MCKeys == ({0} \X LongNames) \cup ({1} \X ShortNames)

(* Pairs are told apart by what they hold only. *)
PairSymmetry == Permutations(Pairs)

============================================================================
