------------------------ MODULE EcmaPromiseAllProofs ------------------------
(***************************************************************************)
(* Proofs about EcmaPromiseAll, for iterables of every length: as long as  *)
(* Promise.allSettled gets only elements whose `then` is the built-in one, *)
(* the shared counter is exact, the result complete and the promise never  *)
(* left pending.                                                           *)
(***************************************************************************)
EXTENDS EcmaPromiseAll, FiniteSetTheorems, TLAPS

-----------------------------------------------------------------------------
(* The inductive invariant                                                 *)

\* The index field of an element function is its element, until it is called.
IndexOK ==
  \A i \in Elements, s \in Sides :
    index[<<i, s>>] = IF i <= idx /\ s \in Counted /\ s \notin settled[i] THEN i ELSE 0

\* Elements that the loop has not reached have called nothing.
FutureOK == \A i \in Elements : i > idx => settled[i] = {}

\* An element that has called a function of its own has filled its place.
FilledOK == \A i \in Elements : settled[i] \cap Counted # {} => values[i] \in Counted

\* The promise is decided by the counter only when nothing is open.
CapOK ==
  \/ kind \in {"all", "allSettled"} /\ cap = "resolved"
  \/ kind = "any" /\ cap = "aggregate"
  => phase = "done" /\ Open = {}

\* What makes sure that the promise is decided.
DecidedOK ==
  /\ phase = "thrown" => cap # "pending"
  /\ kind # "race" /\ remaining = 0 => cap # "pending"
  /\ \A i \in Elements : ~(settled[i] \subseteq Counted) => cap # "pending"

IInv ==
  /\ TypeOK
  /\ native \/ kind # "allSettled"
  /\ IndexOK
  /\ FutureOK
  /\ RemainingCounts
  /\ FilledOK
  /\ CapOK
  /\ DecidedOK

-----------------------------------------------------------------------------
(* The counter                                                             *)

\* The counter goes down by one where it does not wrap around.
LEMMA DecreasedFact ==
  ASSUME NEW r \in Nat, r >= 1, r <= MaxElements + 1, NEW x \in Decreased(r)
  PROVE  x = r - 1
<1>1. /\ MaxElements \in Nat /\ Modulus \in Nat /\ IntegerMax \in Nat
      /\ r <= IntegerMax /\ r < Modulus
  BY AllAssumption
<1>2. Read(r) = {r}
  BY <1>1 DEF Read
<1>3. x = (r + Modulus - 1) % Modulus
  BY <1>2 DEF Decreased
<1>. QED
  BY <1>1, <1>3

\* The counter goes up by one where it does not wrap around.
LEMMA IncreasedFact ==
  ASSUME NEW r \in Nat, r <= MaxElements + 1, NEW x \in Increased(r)
  PROVE  x = r + 1
<1>1. /\ MaxElements \in Nat /\ Modulus \in Nat /\ IntegerMax \in Nat
      /\ r <= IntegerMax /\ r + 1 < Modulus
  BY AllAssumption
<1>2. Read(r) = {r}
  BY <1>1 DEF Read
<1>3. x = (r + 1) % Modulus
  BY <1>2 DEF Increased
<1>. QED
  BY <1>1, <1>3

\* For which sides an element has a function of its own.
LEMMA CountedFact ==
  ASSUME TypeOK
  PROVE  /\ kind \in {"all", "allSettled", "any", "race"}
         /\ kind = "all" => Counted = {"fulfill"}
         /\ kind = "allSettled" => Counted = {"fulfill", "reject"}
         /\ kind = "any" => Counted = {"reject"}
         /\ kind = "race" => Counted = {}
<1>1. kind \in {"all", "allSettled", "any", "race"}
  BY AllAssumption DEF TypeOK
<1>. QED
  BY <1>1 DEF Counted, Sides

\* The open elements are finitely many, at most as many as were taken.
LEMMA OpenFact ==
  ASSUME TypeOK
  PROVE  /\ IsFiniteSet(Open) /\ Cardinality(Open) \in Nat
         /\ Cardinality(Open) <= idx
         /\ Cardinality(Open) = 0 <=> Open = {}
<1>1. idx \in Nat
  BY AllAssumption DEF TypeOK
<1>2. IsFiniteSet(1 .. idx) /\ Cardinality(1 .. idx) = idx
  BY <1>1, FS_Interval
<1>3. Open \subseteq 1 .. idx
  BY DEF Open
<1>4. IsFiniteSet(Open) /\ Cardinality(Open) <= idx
  BY <1>2, <1>3, FS_Subset
<1>. QED
  BY <1>4, FS_CardinalityType, FS_EmptySet

-----------------------------------------------------------------------------
(* The invariant holds initially and every action keeps it                 *)

\* Nothing is taken, called or decided when the call starts.
LEMMA InitIInv ==
  ASSUME "allSettled" \notin UserKinds, Init
  PROVE  IInv
<1>1. MaxElements \in Nat /\ Modulus \in Nat /\ Modulus > 1
  BY AllAssumption
<1>2. TypeOK
  <2>1. native \in BOOLEAN /\ kind \in NativeKinds \cup UserKinds
    BY Zenon DEF Init
  <2>2. /\ phase \in {"iterate", "then", "done", "thrown"}
        /\ cap \in {"pending", "resolved", "rejected", "aggregate", "thrown"}
        /\ idx \in 0 .. MaxElements /\ remaining \in 0 .. (Modulus - 1)
    BY <1>1 DEF Init
  <2>3. /\ index \in [Elements \X Sides -> 0 .. MaxElements]
        /\ values \in [Elements -> Sides \cup {"hole"}]
        /\ settled \in [Elements -> SUBSET Sides]
    BY <1>1 DEF Init
  <2>. QED
    BY <2>1, <2>2, <2>3 DEF TypeOK
<1>3. Open = {} /\ Cardinality(Open) = 0
  BY <1>2, OpenFact DEF Open, Init
<1>4. native \/ kind # "allSettled"
  BY DEF Init
<1>5. IndexOK /\ FutureOK /\ FilledOK
  BY DEF IndexOK, FutureOK, FilledOK, Init, Elements
<1>6. RemainingCounts /\ CapOK /\ DecidedOK
  BY <1>3 DEF RemainingCounts, CapOK, DecidedOK, Init
<1>. QED
  BY <1>2, <1>4, <1>5, <1>6 DEF IInv

\* The loop takes an element: one more is open, and counted.
LEMMA TakeElementIInv ==
  ASSUME IInv, TakeElement
  PROVE  IInv'
<1>1. /\ kind' = kind /\ native' = native /\ values' = values /\ settled' = settled
      /\ cap' = cap /\ phase = "iterate" /\ phase' = "then" /\ idx' = idx + 1
      /\ idx < MaxElements /\ TypeOK
  BY DEF TakeElement, IInv
<1>2. MaxElements \in Nat /\ idx \in Nat /\ idx + 1 \in Elements /\ remaining \in Nat
  BY <1>1, AllAssumption DEF TypeOK, Elements
<1>3. Counted' = Counted
  BY <1>1 DEF Counted
<1>4. settled[idx + 1] = {}
  BY <1>2 DEF IInv, FutureOK
<1>5. Open' = Open \cup {idx + 1} /\ idx + 1 \notin Open
  BY <1>1, <1>2, <1>3, <1>4 DEF Open
<1>6. Cardinality(Open') = Cardinality(Open) + 1
  BY <1>1, <1>5, OpenFact, FS_AddElement
<1>7. kind # "race" => remaining' = remaining + 1 /\ remaining <= MaxElements + 1
  <2>1. SUFFICES ASSUME kind # "race" PROVE remaining' = remaining + 1 /\ remaining <= MaxElements + 1
    OBVIOUS
  <2>2. remaining = Cardinality(Open) + 1
    BY <1>1, <2>1 DEF IInv, RemainingCounts
  <2>3. remaining <= MaxElements + 1
    BY <1>1, <1>2, <2>2, OpenFact
  <2>4. remaining' \in Increased(remaining)
    BY <2>1 DEF TakeElement
  <2>. QED
    BY <1>2, <2>3, <2>4, IncreasedFact
<1>8. RemainingCounts'
  BY <1>1, <1>6, <1>7, OpenFact DEF IInv, RemainingCounts
<1>9. TypeOK'
  <2>1. remaining' \in 0 .. (Modulus - 1)
    <3>1. CASE kind = "race"
      BY <1>1, <3>1 DEF TakeElement, TypeOK
    <3>2. CASE kind # "race"
      BY <1>2, <1>7, <3>2, AllAssumption
    <3>. QED
      BY <3>1, <3>2
  <2>2. index' \in [Elements \X Sides -> 0 .. MaxElements]
    BY <1>1, <1>2 DEF TakeElement, TypeOK
  <2>. QED
    BY <1>1, <1>2, <2>1, <2>2 DEF TypeOK
<1>10. IndexOK'
  <2>1. SUFFICES ASSUME NEW i \in Elements, NEW s \in Sides
                 PROVE  index'[<<i, s>>] =
                          IF i <= idx + 1 /\ s \in Counted /\ s \notin settled[i] THEN i ELSE 0
    BY <1>1, <1>3 DEF IndexOK
  <2>2. index'[<<i, s>>] = IF i = idx + 1 /\ s \in Counted THEN idx + 1 ELSE index[<<i, s>>]
    BY DEF TakeElement
  <2>3. index[<<i, s>>] = IF i <= idx /\ s \in Counted /\ s \notin settled[i] THEN i ELSE 0
    BY DEF IInv, IndexOK
  <2>. QED
    BY <1>2, <1>4, <2>2, <2>3 DEF Elements
<1>11. FutureOK' /\ FilledOK'
  BY <1>1, <1>2, <1>3 DEF IInv, FutureOK, FilledOK, Elements
<1>12. CapOK'
  BY <1>1 DEF IInv, CapOK
<1>13. DecidedOK'
  BY <1>1, <1>2, <1>3, <1>7 DEF IInv, DecidedOK
<1>. QED
  BY <1>1, <1>8, <1>9, <1>10, <1>11, <1>12, <1>13 DEF IInv

\* Control goes back to the loop.
LEMMA ThenReturnsIInv ==
  ASSUME IInv, ThenReturns
  PROVE  IInv'
<1>1. /\ UNCHANGED <<kind, native, idx, remaining, index, values, settled, cap>>
      /\ phase = "then" /\ phase' = "iterate" /\ TypeOK
  BY DEF ThenReturns, IInv
<1>2. Counted' = Counted /\ Open' = Open
  BY <1>1 DEF Counted, Open
<1>3. TypeOK' /\ IndexOK' /\ FutureOK' /\ FilledOK'
  BY <1>1, <1>2 DEF IInv, TypeOK, IndexOK, FutureOK, FilledOK
<1>4. RemainingCounts' /\ CapOK' /\ DecidedOK'
  BY <1>1, <1>2 DEF IInv, RemainingCounts, CapOK, DecidedOK
<1>. QED
  BY <1>1, <1>3, <1>4 DEF IInv

\* An exception ends the loop and decides the promise.
LEMMA ThrowsIInv ==
  ASSUME IInv, Throws
  PROVE  IInv'
<1>1. /\ UNCHANGED <<kind, native, idx, remaining, index, values, settled>>
      /\ phase \in {"iterate", "then"} /\ phase' = "thrown" /\ TypeOK
      /\ cap' = (IF cap = "pending" THEN "thrown" ELSE cap)
  BY DEF Throws, IInv, Settle
<1>2. Counted' = Counted /\ Open' = Open
  BY <1>1 DEF Counted, Open
<1>3. TypeOK' /\ IndexOK' /\ FutureOK' /\ FilledOK'
  BY <1>1, <1>2 DEF IInv, TypeOK, IndexOK, FutureOK, FilledOK
<1>4. RemainingCounts' /\ CapOK' /\ DecidedOK'
  BY <1>1, <1>2 DEF IInv, RemainingCounts, CapOK, DecidedOK
<1>. QED
  BY <1>1, <1>3, <1>4 DEF IInv

\* The loop gives up its unit; when nothing is open it decides the promise.
LEMMA IterationDoneIInv ==
  ASSUME IInv, IterationDone
  PROVE  IInv'
<1>1. /\ UNCHANGED <<kind, native, idx, index, values, settled>>
      /\ phase = "iterate" /\ phase' = "done" /\ TypeOK
  BY DEF IterationDone, IInv
<1>2. Counted' = Counted /\ Open' = Open
  BY <1>1 DEF Counted, Open
<1>3. /\ MaxElements \in Nat /\ idx \in Nat /\ idx <= MaxElements /\ remaining \in Nat
      /\ cap \in {"pending", "resolved", "rejected", "aggregate", "thrown"}
  BY <1>1, AllAssumption DEF TypeOK
<1>4. kind = "race" => remaining' = remaining /\ cap' = cap
  BY DEF IterationDone
<1>5. kind # "race" => /\ remaining' = Cardinality(Open) /\ remaining' = remaining - 1
                       /\ remaining = Cardinality(Open) + 1
  <2>1. SUFFICES ASSUME kind # "race"
                 PROVE /\ remaining' = Cardinality(Open) /\ remaining' = remaining - 1
                       /\ remaining = Cardinality(Open) + 1
    OBVIOUS
  <2>2. remaining = Cardinality(Open) + 1
    BY <1>1, <2>1 DEF IInv, RemainingCounts
  <2>3. remaining' \in Decreased(remaining)
    BY <2>1 DEF IterationDone
  <2>4. remaining' = remaining - 1
    BY <1>1, <1>3, <2>2, <2>3, OpenFact, DecreasedFact
  <2>. QED
    BY <1>1, <2>2, <2>4, OpenFact
<1>6. kind # "race" => cap' = IF remaining' # 0 \/ cap # "pending" THEN cap
                              ELSE IF kind = "any" THEN "aggregate" ELSE "resolved"
  BY DEF IterationDone, Settle
<1>7. RemainingCounts'
  BY <1>1, <1>2, <1>5, OpenFact DEF RemainingCounts
<1>8. TypeOK'
  <2>1. remaining' \in 0 .. (Modulus - 1)
    <3>1. Modulus \in Nat /\ remaining <= Modulus - 1 /\ Cardinality(Open) \in Nat
      BY <1>1, AllAssumption, OpenFact DEF TypeOK
    <3>. QED
      BY <1>3, <1>4, <1>5, <3>1
  <2>2. cap' \in {"pending", "resolved", "rejected", "aggregate", "thrown"}
    BY <1>3, <1>4, <1>6
  <2>. QED
    BY <1>1, <2>1, <2>2 DEF TypeOK
<1>9. IndexOK' /\ FutureOK' /\ FilledOK'
  BY <1>1, <1>2 DEF IInv, IndexOK, FutureOK, FilledOK
<1>10. CapOK'
  BY <1>1, <1>2, <1>4, <1>5, <1>6, OpenFact DEF IInv, CapOK
<1>11. DecidedOK'
  BY <1>1, <1>2, <1>4, <1>6 DEF IInv, DecidedOK
<1>. QED
  BY <1>1, <1>7, <1>8, <1>9, <1>10, <1>11 DEF IInv

-----------------------------------------------------------------------------
(* The element functions                                                   *)

\* The first call of an element function: the element was open and is closed.
LEMMA ElementFunctionIInv ==
  ASSUME IInv, NEW i \in Elements, NEW s \in Sides, ElementFunction(i, s)
  PROVE  IInv'
<1>1. /\ UNCHANGED <<kind, native, phase, idx>> /\ TypeOK
      /\ i <= idx /\ s \in Counted /\ index[<<i, s>>] # 0
      /\ native => settled[i] = {}
      /\ settled' = [settled EXCEPT ![i] = @ \cup {s}]
      /\ index' = [index EXCEPT ![<<i, s>>] = 0]
      /\ values' = [values EXCEPT ![index[<<i, s>>]] = s]
      /\ remaining' \in Decreased(remaining)
      /\ cap' = IF remaining' # 0 \/ cap # "pending" THEN cap
                ELSE IF kind = "any" THEN "aggregate" ELSE "resolved"
  BY DEF ElementFunction, MayCall, Settle, IInv
<1>2. Counted' = Counted /\ idx' = idx
  BY <1>1 DEF Counted
<1>3. /\ MaxElements \in Nat /\ idx \in Nat /\ idx <= MaxElements /\ remaining \in Nat
      /\ i \in Nat /\ i >= 1
      /\ cap \in {"pending", "resolved", "rejected", "aggregate", "thrown"}
      /\ settled \in [Elements -> SUBSET Sides]
      /\ index \in [Elements \X Sides -> 0 .. MaxElements]
      /\ values \in [Elements -> Sides \cup {"hole"}]
  BY <1>1, AllAssumption DEF TypeOK, Elements
<1>4. index[<<i, s>>] = i /\ s \notin settled[i]
  BY <1>1, <1>3 DEF IInv, IndexOK
<1>5. kind # "race" /\ settled[i] \cap Counted = {}
  BY <1>1, <1>3, <1>4, CountedFact DEF IInv
<1>6. i \in Open
  BY <1>1, <1>3, <1>5 DEF Open
<1>7. \A j \in Elements : settled'[j] = IF j = i THEN settled[i] \cup {s} ELSE settled[j]
  BY <1>1, <1>3
<1>8. Open' = Open \ {i}
  BY <1>1, <1>2, <1>3, <1>7 DEF Open, Elements
<1>9. Cardinality(Open') = Cardinality(Open) - 1
  BY <1>1, <1>6, <1>8, OpenFact, FS_RemoveElement
<1>10. /\ remaining = Cardinality(Open) + (IF phase = "done" THEN 0 ELSE 1)
       /\ Cardinality(Open) \in Nat /\ Cardinality(Open) # 0 /\ Cardinality(Open) <= idx
  BY <1>1, <1>5, <1>6, OpenFact DEF IInv, RemainingCounts
<1>11. remaining' = remaining - 1
  BY <1>1, <1>3, <1>10, DecreasedFact
<1>12. RemainingCounts'
  BY <1>1, <1>9, <1>10, <1>11 DEF RemainingCounts
<1>13. TypeOK'
  <2>1. remaining' \in 0 .. (Modulus - 1)
    <3>1. Modulus \in Nat /\ remaining <= Modulus - 1
      BY <1>1, AllAssumption DEF TypeOK
    <3>. QED
      BY <1>3, <1>10, <1>11, <3>1
  <2>2. cap' \in {"pending", "resolved", "rejected", "aggregate", "thrown"}
    BY <1>1, <1>3
  <2>3. index' \in [Elements \X Sides -> 0 .. MaxElements]
    BY <1>1, <1>3
  <2>4. values' \in [Elements -> Sides \cup {"hole"}] /\ settled' \in [Elements -> SUBSET Sides]
    BY <1>1, <1>3, <1>4
  <2>. QED
    BY <1>1, <2>1, <2>2, <2>3, <2>4 DEF TypeOK
<1>14. IndexOK'
  <2>1. SUFFICES ASSUME NEW j \in Elements, NEW t \in Sides
                 PROVE  index'[<<j, t>>] =
                          IF j <= idx /\ t \in Counted /\ t \notin settled'[j] THEN j ELSE 0
    BY <1>2 DEF IndexOK
  <2>2. index[<<j, t>>] = IF j <= idx /\ t \in Counted /\ t \notin settled[j] THEN j ELSE 0
    BY DEF IInv, IndexOK
  <2>3. CASE j = i /\ t = s
    BY <1>1, <1>3, <1>7, <2>3
  <2>4. CASE ~(j = i /\ t = s)
    <3>1. index'[<<j, t>>] = index[<<j, t>>]
      BY <1>1, <1>3, <2>4
    <3>2. t \in settled'[j] <=> t \in settled[j]
      BY <1>7, <2>4
    <3>. QED
      BY <2>2, <3>1, <3>2
  <2>. QED
    BY <2>3, <2>4
<1>15. FutureOK'
  BY <1>1, <1>3, <1>7 DEF IInv, FutureOK, Elements
<1>16. FilledOK'
  BY <1>1, <1>2, <1>3, <1>4, <1>7 DEF IInv, FilledOK
<1>17. CapOK'
  <2>. SUFFICES ASSUME \/ kind \in {"all", "allSettled"} /\ cap' = "resolved"
                       \/ kind = "any" /\ cap' = "aggregate"
                PROVE  phase = "done" /\ Open' = {}
    BY <1>1 DEF CapOK
  <2>2. CASE cap' = cap
    BY <2>2, <1>6 DEF IInv, CapOK
  <2>3. CASE remaining' = 0
    <3>1. phase = "done" /\ Cardinality(Open') = 0
      BY <1>9, <1>10, <1>11, <2>3
    <3>2. TypeOK' => Open' = {}
      <4>1. IsFiniteSet(Open')
        BY <1>1, <1>8, OpenFact, FS_RemoveElement
      <4>. QED
        BY <3>1, <4>1, FS_EmptySet
    <3>. QED
      BY <1>13, <3>1, <3>2
  <2>. QED
    BY <1>1, <2>2, <2>3
<1>18. DecidedOK'
  <2>1. \A j \in Elements : ~(settled'[j] \subseteq Counted) => ~(settled[j] \subseteq Counted)
    BY <1>1, <1>7
  <2>2. cap # "pending" => cap' # "pending"
    BY <1>1
  <2>. QED
    BY <1>1, <1>2, <2>1, <2>2 DEF IInv, DecidedOK
<1>. QED
  BY <1>1, <1>12, <1>13, <1>14, <1>15, <1>16, <1>17, <1>18 DEF IInv

\* A further call of an element function changes nothing the counter sees.
LEMMA ElementAgainIInv ==
  ASSUME IInv, NEW i \in Elements, NEW s \in Sides, ElementAgain(i, s)
  PROVE  IInv'
<1>1. /\ UNCHANGED <<kind, native, phase, idx, remaining, index, values, cap>> /\ TypeOK
      /\ i <= idx /\ s \in Counted /\ index[<<i, s>>] = 0
      /\ settled' = [settled EXCEPT ![i] = @ \cup {s}]
      /\ settled \in [Elements -> SUBSET Sides] /\ i \in Nat /\ i >= 1
  BY AllAssumption DEF ElementAgain, MayCall, IInv, TypeOK, Elements
<1>2. s \in settled[i]
  BY <1>1 DEF IInv, IndexOK
<1>3. settled' = settled
  BY <1>1, <1>2
<1>4. Counted' = Counted /\ Open' = Open
  BY <1>1, <1>3 DEF Counted, Open
<1>5. TypeOK' /\ IndexOK' /\ FutureOK' /\ FilledOK'
  BY <1>1, <1>3, <1>4 DEF IInv, TypeOK, IndexOK, FutureOK, FilledOK
<1>6. RemainingCounts' /\ CapOK' /\ DecidedOK'
  BY <1>1, <1>3, <1>4 DEF IInv, RemainingCounts, CapOK, DecidedOK
<1>. QED
  BY <1>1, <1>5, <1>6 DEF IInv

\* The other side decides the promise and leaves the counter alone.
LEMMA CallResolverIInv ==
  ASSUME IInv, NEW i \in Elements, NEW s \in Sides, CallResolver(i, s)
  PROVE  IInv'
<1>1. /\ UNCHANGED <<kind, native, phase, idx, remaining, index, values>> /\ TypeOK
      /\ i <= idx /\ s \notin Counted
      /\ settled' = [settled EXCEPT ![i] = @ \cup {s}]
      /\ cap' = IF cap # "pending" THEN cap
                ELSE IF s = "fulfill" THEN "resolved" ELSE "rejected"
      /\ settled \in [Elements -> SUBSET Sides]
      /\ cap \in {"pending", "resolved", "rejected", "aggregate", "thrown"}
      /\ idx \in Nat /\ MaxElements \in Nat /\ idx <= MaxElements
  BY AllAssumption DEF CallResolver, MayCall, Settle, IInv, TypeOK
<1>2. Counted' = Counted
  BY <1>1 DEF Counted
<1>3. \A j \in Elements : settled'[j] = IF j = i THEN settled[i] \cup {s} ELSE settled[j]
  BY <1>1
<1>4. \A j \in Elements : settled'[j] \cap Counted = settled[j] \cap Counted
  BY <1>1, <1>3
<1>5. Open' = Open
  BY <1>1, <1>2, <1>4 DEF Open, Elements
<1>6. TypeOK'
  BY <1>1 DEF TypeOK
<1>7. IndexOK'
  BY <1>1, <1>2, <1>3 DEF IInv, IndexOK
<1>8. FutureOK' /\ FilledOK'
  BY <1>1, <1>2, <1>3, <1>4 DEF IInv, FutureOK, FilledOK, Elements
<1>9. RemainingCounts'
  BY <1>1, <1>5 DEF IInv, RemainingCounts
<1>10. CapOK'
  BY <1>1, <1>5, CountedFact DEF IInv, CapOK, Sides
<1>11. DecidedOK'
  BY <1>1 DEF IInv, DecidedOK
<1>. QED
  BY <1>1, <1>6, <1>7, <1>8, <1>9, <1>10, <1>11 DEF IInv

-----------------------------------------------------------------------------
(* The theorems                                                            *)

\* Every step keeps the invariant.
LEMMA NextIInv ==
  ASSUME IInv, [Next]_vars
  PROVE  IInv'
<1>1. CASE UNCHANGED vars
  <2>1. Counted' = Counted /\ Open' = Open
    BY <1>1 DEF Counted, Open, vars
  <2>. QED
    BY <1>1, <2>1 DEF IInv, TypeOK, IndexOK, FutureOK, RemainingCounts, FilledOK,
       CapOK, DecidedOK, vars
<1>2. CASE TakeElement
  BY <1>2, TakeElementIInv
<1>3. CASE ThenReturns
  BY <1>3, ThenReturnsIInv
<1>4. CASE Throws
  BY <1>4, ThrowsIInv
<1>5. CASE IterationDone
  BY <1>5, IterationDoneIInv
<1>6. ASSUME NEW i \in Elements, NEW s \in Sides, ElementFunction(i, s)
      PROVE  IInv'
  BY <1>6, ElementFunctionIInv
<1>7. ASSUME NEW i \in Elements, NEW s \in Sides, ElementAgain(i, s)
      PROVE  IInv'
  BY <1>7, ElementAgainIInv
<1>8. ASSUME NEW i \in Elements, NEW s \in Sides, CallResolver(i, s)
      PROVE  IInv'
  BY <1>8, CallResolverIInv
<1>. QED
  BY <1>1, <1>2, <1>3, <1>4, <1>5, <1>6, <1>7, <1>8 DEF Next

\* The invariant, for every number of elements.
LEMMA CounterInvariant ==
  ASSUME "allSettled" \notin UserKinds
  PROVE  Spec => []IInv
<1>1. Init => IInv
  BY InitIInv
<1>2. IInv /\ [Next]_vars => IInv'
  BY NextIInv
<1>. QED
  BY <1>1, <1>2, PTL DEF Spec

\* A decision of the counter finds every place of the array filled.
LEMMA CompleteFact == IInv => ResultComplete
<1>. SUFFICES ASSUME IInv, phase = "done", Open = {}, NEW i \in 1 .. idx
               PROVE  values[i] \in Counted
  BY DEF IInv, CapOK, ResultComplete
<1>2. i \in Elements
  BY AllAssumption DEF IInv, TypeOK, Elements
<1>3. settled[i] \cap Counted # {}
  BY DEF Open
<1>. QED
  BY <1>2, <1>3 DEF IInv, FilledOK

\* When the loop and every element are done, the promise is decided.
LEMMA DecidedFact == IInv => NeverStuck
<1>. SUFFICES ASSUME IInv, phase \in {"done", "thrown"},
                      \A i \in 1 .. idx : settled[i] # {},
                      kind = "race" => idx > 0
               PROVE  cap # "pending"
  BY DEF NeverStuck
<1>2. idx \in Nat /\ (1 .. idx) \subseteq Elements /\ TypeOK
  BY AllAssumption DEF IInv, TypeOK, Elements
<1>3. CASE phase = "thrown"
  BY <1>3 DEF IInv, DecidedOK
<1>4. CASE phase = "done" /\ \E i \in 1 .. idx : ~(settled[i] \subseteq Counted)
  BY <1>2, <1>4 DEF IInv, DecidedOK
<1>5. CASE phase = "done" /\ \A i \in 1 .. idx : settled[i] \subseteq Counted
  <2>1. kind # "race"
    BY <1>2, <1>5, CountedFact
  <2>2. Open = {}
    BY <1>5 DEF Open
  <2>3. remaining = 0
    BY <1>2, <1>5, <2>1, <2>2, FS_EmptySet DEF IInv, RemainingCounts
  <2>. QED
    BY <2>1, <2>3 DEF IInv, DecidedOK
<1>. QED
  BY <1>3, <1>4, <1>5

\* ecma_promise_remaining_inc_or_dec: the shared counter is the number of
\* elements still open, plus the loop, whatever order element functions are
\* called in and however often, for iterables of every length.
THEOREM CounterExact ==
  ASSUME "allSettled" \notin UserKinds
  PROVE  Spec => []CountSound
<1>1. IInv => CountSound
  BY DEF IInv, CountSound
<1>. QED
  BY <1>1, CounterInvariant, PTL

\* Promise.all and Promise.allSettled resolve, and Promise.any rejects with
\* all the errors, only with a complete array of results.
THEOREM DecidedByTheLast ==
  ASSUME "allSettled" \notin UserKinds
  PROVE  Spec => []ResultComplete
BY CompleteFact, CounterInvariant, PTL

\* The promise of a combinator does not stay pending once the loop has ended
\* and every element has called one of its functions.
THEOREM AlwaysDecided ==
  ASSUME "allSettled" \notin UserKinds
  PROVE  Spec => []NeverStuck
BY DecidedFact, CounterInvariant, PTL

=============================================================================
