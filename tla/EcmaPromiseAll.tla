--------------------------- MODULE EcmaPromiseAll ---------------------------
(***************************************************************************)
(* Promise.all, Promise.allSettled, Promise.any and Promise.race           *)
(* (ecma-builtin-promise.c) and the element functions they hand out        *)
(* (ecma_promise_all_or_all_settled_handler_cb in ecma-promise-object.c).  *)
(*                                                                         *)
(* One call is followed: the loop over the iterable, and the element       *)
(* functions, which user code may call while the loop still runs (from the *)
(* iterator, or from a `then` method that calls its arguments at once) and *)
(* at any time after it.  When every element's `then` is the built-in one, *)
(* an element calls one of its two functions, once; a `then` of user code  *)
(* may call both of them, and again.                                       *)
(*                                                                         *)
(* The loop and the element functions share a Number object, `remaining`,  *)
(* which counts the elements left plus one for the loop itself.  Its       *)
(* arithmetic is that of uint32_t; a value above INTEGER_MAX is stored as  *)
(* a float, which the next use does not expect.  Modulus and IntegerMax    *)
(* stand for 2^32 and ECMA_INTEGER_NUMBER_MAX, scaled down.                *)
(***************************************************************************)
EXTENDS Integers, FiniteSets

CONSTANTS
  NativeKinds,   \* the routines called with elements whose `then` is built in
  UserKinds,     \* the routines called with elements of user code
  MaxElements,   \* bound: elements of the iterable
  Modulus,       \* 2^32
  IntegerMax     \* the largest value stored as an integer

\* The code stops only at UINT32_MAX - 1 elements; the last conjunct says
\* that the heap is exhausted before the counter can exceed INTEGER_MAX.
ASSUME AllAssumption ==
  /\ NativeKinds \cup UserKinds \subseteq {"all", "allSettled", "any", "race"}
  /\ MaxElements \in Nat /\ Modulus \in Nat /\ IntegerMax \in Nat
  /\ MaxElements + 1 <= IntegerMax /\ IntegerMax + 1 < Modulus

VARIABLES
  kind,        \* the routine
  native,      \* is the `then` of every element the built-in one?
  phase,       \* "iterate", "then" (the element's `then` is called), "done"
               \* or "thrown" (the loop ended by an exception)
  idx,         \* the elements taken from the iterator so far
  remaining,   \* the shared counter
  index,       \* index[i, s]: the index field of the element function of
               \* side s; 0 once it was called or when there is none
  values,      \* the array of results: the side that filled each element
  settled,     \* history: the functions each element has called
  cap          \* the promise that is returned: "pending", "resolved",
               \* "rejected", "aggregate" (by the last rejection) or "thrown"

vars == <<kind, native, phase, idx, remaining, index, values, settled, cap>>

Elements == 1..MaxElements
Sides == {"fulfill", "reject"}

Init ==
  /\ \/ kind \in NativeKinds /\ native = TRUE
     \/ kind \in UserKinds /\ native = FALSE
  /\ phase = "iterate"
  /\ idx = 0
  /\ remaining = 1
  /\ index = [e \in Elements \X Sides |-> 0]
  /\ values = [i \in Elements |-> "hole"]
  /\ settled = [i \in Elements |-> {}]
  /\ cap = "pending"

----------------------------------------------------------------------------

(* The resolvers of the capability: the first call wins.  (EcmaPromise has *)
(* the case in which a resolver takes effect again, while its promise      *)
(* adopts a thenable; the properties here do not tell the two apart.)      *)
Settle(outcome) == cap' = IF cap = "pending" THEN outcome ELSE cap

(* ecma_promise_remaining_inc_or_dec.  The integer read from a value that  *)
(* is stored as a float is arbitrary.                                      *)
Read(r) == IF r <= IntegerMax THEN {r} ELSE 0..(Modulus - 1)
Increased(r) == {(c + 1) % Modulus : c \in Read(r)}
Decreased(r) == {(c + Modulus - 1) % Modulus : c \in Read(r)}

(* The sides for which an element gets an element function; for the other  *)
(* side it gets a resolver of the capability.                              *)
Counted == CASE kind = "all" -> {"fulfill"}
             [] kind = "allSettled" -> Sides
             [] kind = "any" -> {"reject"}
             [] kind = "race" -> {}

(* Mutant: the counter is increased only when the array of results grows   *)
(* past its first element.                                                 *)
TakeElementLate ==
  /\ phase = "iterate"
  /\ idx < MaxElements
  /\ idx' = idx + 1
  /\ index' = [e \in Elements \X Sides |->
                 IF e[1] = idx + 1 /\ e[2] \in Counted THEN idx + 1 ELSE index[e]]
  /\ IF kind = "race" \/ idx = 0 THEN remaining' = remaining
                                 ELSE remaining' \in Increased(remaining)
  /\ phase' = "then"
  /\ UNCHANGED <<kind, native, values, settled, cap>>

(* ecma_builtin_promise_perform: the next element, up to the call of its   *)
(* `then`.  ecma_builtin_promise_perform_race keeps no counter.            *)
TakeElement ==
  /\ phase = "iterate"
  /\ idx < MaxElements
  /\ idx' = idx + 1
  /\ index' = [e \in Elements \X Sides |->
                 IF e[1] = idx + 1 /\ e[2] \in Counted THEN idx + 1 ELSE index[e]]
  /\ IF kind = "race" THEN remaining' = remaining
                      ELSE remaining' \in Increased(remaining)
  /\ phase' = "then"
  /\ UNCHANGED <<kind, native, values, settled, cap>>

ThenReturns ==
  /\ phase = "then"
  /\ phase' = "iterate"
  /\ UNCHANGED <<kind, native, idx, remaining, index, values, settled, cap>>

(* `then`, the resolve method or the iterator throws: the loop ends, and   *)
(* ecma_op_if_abrupt_reject_promise rejects the promise.                   *)
Throws ==
  /\ phase \in {"iterate", "then"}
  /\ native => phase = "iterate"
  /\ phase' = "thrown"
  /\ Settle("thrown")
  /\ UNCHANGED <<kind, native, idx, remaining, index, values, settled>>

(* Mutant: the loop does not give up its unit. *)
IterationDoneKeepsUnit ==
  /\ phase = "iterate"
  /\ phase' = "done"
  /\ UNCHANGED <<kind, native, idx, remaining, index, values, settled, cap>>

(* The iterator is exhausted: the loop gives up its own unit. *)
IterationDone ==
  /\ phase = "iterate"
  /\ phase' = "done"
  /\ IF kind = "race"
       THEN UNCHANGED <<remaining, cap>>
       ELSE /\ remaining' \in Decreased(remaining)
            /\ IF remaining' # 0 THEN UNCHANGED cap
               ELSE IF kind = "any" THEN Settle("aggregate")
               ELSE Settle("resolved")
  /\ UNCHANGED <<kind, native, idx, index, values, settled>>

(* Element i calls its function of side s. *)
MayCall(i, s) ==
  /\ i <= idx
  /\ native => settled[i] = {}
  /\ settled' = [settled EXCEPT ![i] = @ \cup {s}]

(* Mutant: the function is not marked as called. *)
ElementFunctionTwice(i, s) ==
  /\ MayCall(i, s)
  /\ s \in Counted
  /\ index[<<i, s>>] # 0
  /\ values' = [values EXCEPT ![index[<<i, s>>]] = s]
  /\ remaining' \in Decreased(remaining)
  /\ IF remaining' # 0 THEN UNCHANGED cap
     ELSE IF kind = "any" THEN Settle("aggregate")
     ELSE Settle("resolved")
  /\ UNCHANGED <<kind, native, phase, idx, index>>

(* ecma_promise_all_or_all_settled_handler_cb *)
ElementFunction(i, s) ==
  /\ MayCall(i, s)
  /\ s \in Counted
  /\ index[<<i, s>>] # 0
  /\ values' = [values EXCEPT ![index[<<i, s>>]] = s]
  /\ index' = [index EXCEPT ![<<i, s>>] = 0]
  /\ remaining' \in Decreased(remaining)
  /\ IF remaining' # 0 THEN UNCHANGED cap
     ELSE IF kind = "any" THEN Settle("aggregate")
     ELSE Settle("resolved")
  /\ UNCHANGED <<kind, native, phase, idx>>

(* The early return of a function that was called before. *)
ElementAgain(i, s) ==
  /\ MayCall(i, s)
  /\ s \in Counted
  /\ index[<<i, s>>] = 0
  /\ UNCHANGED <<kind, native, phase, idx, remaining, index, values, cap>>

(* The other side is a resolver of the promise itself. *)
CallResolver(i, s) ==
  /\ MayCall(i, s)
  /\ s \notin Counted
  /\ Settle(IF s = "fulfill" THEN "resolved" ELSE "rejected")
  /\ UNCHANGED <<kind, native, phase, idx, remaining, index, values>>

Next ==
  \/ TakeElement \/ ThenReturns \/ Throws \/ IterationDone
  \/ \E i \in Elements, s \in Sides :
       ElementFunction(i, s) \/ ElementAgain(i, s) \/ CallResolver(i, s)

Spec == Init /\ [][Next]_vars

----------------------------------------------------------------------------

TypeOK ==
  /\ kind \in NativeKinds \cup UserKinds
  /\ native \in BOOLEAN
  /\ phase \in {"iterate", "then", "done", "thrown"}
  /\ idx \in 0..MaxElements
  /\ remaining \in 0..(Modulus - 1)
  /\ index \in [Elements \X Sides -> 0..MaxElements]
  /\ values \in [Elements -> Sides \cup {"hole"}]
  /\ settled \in [Elements -> SUBSET Sides]
  /\ cap \in {"pending", "resolved", "rejected", "aggregate", "thrown"}

(* The elements that have not called a function of their own yet. *)
Open == {i \in 1..idx : settled[i] \cap Counted = {}}

(* The shared counter is the number of elements still open, plus one for   *)
(* the loop unless it came to the end of the iterable: element functions   *)
(* that are called twice, or while the loop runs, do not disturb it.       *)
RemainingCounts ==
  kind # "race" =>
    remaining = Cardinality(Open) + (IF phase = "done" THEN 0 ELSE 1)

(* The counter is a counter of open elements that never wraps around. *)
CountSound == TypeOK /\ RemainingCounts

(* The counter decides at the right time: Promise.all and                  *)
(* Promise.allSettled resolve, and Promise.any rejects with all the        *)
(* errors, only when the iterable is exhausted and every element has       *)
(* filled its place in the array of results.                               *)
ResultComplete ==
  \/ kind \in {"all", "allSettled"} /\ cap = "resolved"
  \/ kind = "any" /\ cap = "aggregate"
  => /\ phase = "done"
     /\ \A i \in 1..idx : values[i] \in Counted

(* The promise does not stay pending: when the loop has ended and every    *)
(* element has called one of its functions, it is settled.  (A race of     *)
(* nothing is never decided.)                                              *)
NeverStuck ==
  /\ phase \in {"done", "thrown"}
  /\ \A i \in 1..idx : settled[i] # {}
  /\ kind = "race" => idx > 0
  => cap # "pending"

(* JJS_ASSERT (ecma_is_value_integer_number (...)): whenever the counter   *)
(* is used, the value in the Number object is an integer.                  *)
RemainingInteger ==
  [][remaining' # remaining => remaining <= IntegerMax]_vars
=============================================================================
