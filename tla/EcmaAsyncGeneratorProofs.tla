----------------------- MODULE EcmaAsyncGeneratorProofs -----------------------
(***************************************************************************)
(* Proofs about the job queue and the async generator it drives, for every *)
(* number of jobs, of requests and of nested calls.                        *)
(***************************************************************************)
EXTENDS EcmaAsyncGenerator, FiniteSetTheorems, SequenceTheorems, TLAPS

-----------------------------------------------------------------------------
(* The walk along the list                                                 *)

\* Every non-empty set of numbers has a least one.
LEMMA LeastNumber ==
  ASSUME NEW T \in SUBSET Nat, T # {}
  PROVE  \E x \in T : \A y \in T : x <= y
<1>1. PICK x \in T : \A y \in T : ~ (<<y, x>> \in OpToRel(<, Nat))
  BY NatLessThanWellFounded, WFMin
<1>2. \A y \in T : ~ (y < x)
  BY <1>1 DEF OpToRel
<1>. QED
  BY <1>2

\* A number of steps still to take and the job that the walk is at.
Legs(m) == (0..m) \X (Jobs \cup {Null})

\* f is the walk of at most m steps along link: the equation of the recursive
\* function in WalkFrom.
Walks(link, f, m) ==
  f = [x \in Legs(m) |->
        IF x[1] = 0 \/ x[2] = Null
          THEN <<>>
          ELSE <<x[2]>> \o f[<<x[1] - 1, link[x[2]]>>]]

\* There is one, for every number of steps.
LEMMA WalkExists ==
  ASSUME NEW link \in [Jobs -> Jobs \cup {Null}], NEW N \in Nat
  PROVE  \E f : Walks(link, f, N)
<1> DEFINE T == {m \in Nat : ~ \E f : Walks(link, f, m)}
<1>. SUFFICES ASSUME T # {} PROVE FALSE
  OBVIOUS
<1>1. PICK m \in T : \A y \in T : m <= y
  BY LeastNumber
<1>2. CASE m = 0
  <2> DEFINE g == [x \in Legs(0) |-> <<>>]
  <2>1. \A x \in Legs(0) : x[1] = 0
    BY DEF Legs
  <2>2. Walks(link, g, 0)
    BY <2>1 DEF Walks
  <2>. QED
    BY <1>1, <1>2, <2>2
<1>3. CASE m # 0
  <2>1. m \in Nat /\ m - 1 \in Nat /\ m - 1 \notin T
    BY <1>1, <1>3
  <2>2. PICK f : Walks(link, f, m - 1)
    BY <2>1
  <2> DEFINE leg(x) == IF x[1] = 0 \/ x[2] = Null
                         THEN <<>>
                         ELSE <<x[2]>> \o f[<<x[1] - 1, link[x[2]]>>]
             g == [x \in Legs(m) |-> leg(x)]
  <2>3. ASSUME NEW x \in Legs(m - 1) PROVE g[x] = f[x]
    <3>1. x \in Legs(m)
      BY <2>1 DEF Legs
    <3>2. g[x] = leg(x)
      BY <3>1
    <3>3. f[x] = leg(x)
      BY <2>2 DEF Walks
    <3>. QED
      BY <3>2, <3>3
  <2>4. ASSUME NEW x \in Legs(m), ~ (x[1] = 0 \/ x[2] = Null)
        PROVE  g[<<x[1] - 1, link[x[2]]>>] = f[<<x[1] - 1, link[x[2]]>>]
    <3>1. x[1] - 1 \in 0..(m - 1) /\ x[2] \in Jobs
      BY <2>1, <2>4 DEF Legs
    <3>2. link[x[2]] \in Jobs \cup {Null}
      BY <3>1
    <3>3. <<x[1] - 1, link[x[2]]>> \in Legs(m - 1)
      BY <3>1, <3>2 DEF Legs
    <3>. QED
      BY <2>3, <3>3
  <2> DEFINE next_leg(x) == IF x[1] = 0 \/ x[2] = Null
                              THEN <<>>
                              ELSE <<x[2]>> \o g[<<x[1] - 1, link[x[2]]>>]
  <2>5. ASSUME NEW x \in Legs(m) PROVE leg(x) = next_leg(x)
    <3>. HIDE DEF g
    <3>. QED
      BY <2>4
  <2>6. g = [x \in Legs(m) |-> next_leg(x)]
    <3>1. \A x \in Legs(m) : leg(x) = next_leg(x)
      BY <2>5
    <3>. HIDE DEF leg, next_leg
    <3>. QED
      BY <3>1
  <2>7. Walks(link, g, m)
    BY <2>6 DEF Walks
  <2>. QED
    BY <1>1, <2>7
<1>. QED
  BY <1>2, <1>3

\* WalkFrom follows that equation.
LEMMA WalkEquation ==
  ASSUME NEW link \in [Jobs -> Jobs \cup {Null}], NEW first
  PROVE  \E f : /\ Walks(link, f, Cardinality(Jobs))
                /\ WalkFrom(link, first) = f[<<Cardinality(Jobs), first>>]
<1> DEFINE W(f) == Walks(link, f, Cardinality(Jobs))
<1>1. WalkFrom(link, first) = (CHOOSE f : W(f))[<<Cardinality(Jobs), first>>]
  BY DEF WalkFrom, Walks, Legs
<1>2. \E f : W(f)
  BY WalkExists, JobQueueAssumption, FS_CardinalityType
<1>3. W(CHOOSE f : W(f))
  <2>. HIDE DEF W
  <2>. QED
    BY <1>2
<1>. QED
  BY <1>1, <1>3

\* The job at place i of a list, NULL behind its end.
Place(w, i) == IF i <= Len(w) THEN w[i] ELSE Null

\* The pointers link, starting with first, spell the sequence w of different
\* jobs.
Spells(link, first, w) ==
  /\ w \in Seq(Jobs)
  /\ \A i, k \in 1..Len(w) : w[i] = w[k] => i = k
  /\ first = Place(w, 1)
  /\ \A i \in 1..Len(w) : link[w[i]] = Place(w, i + 1)

\* A sequence of different jobs is not longer than there are jobs.
LEMMA DifferentJobs ==
  ASSUME NEW w \in Seq(Jobs), \A i, k \in 1..Len(w) : w[i] = w[k] => i = k
  PROVE  /\ Len(w) \in Nat /\ Len(w) <= Cardinality(Jobs)
         /\ Cardinality({w[i] : i \in 1..Len(w)}) = Len(w)
<1>1. Len(w) \in Nat /\ w \in [1..Len(w) -> Jobs]
  OBVIOUS
<1>2. IsFiniteSet(1..Len(w)) /\ Cardinality(1..Len(w)) = Len(w)
  <2>1. 1 \in Int /\ Len(w) \in Int /\ (1 > Len(w) => Len(w) = 0) /\ Len(w) - 1 + 1 = Len(w)
    BY <1>1
  <2>. QED
    BY <2>1, FS_Interval
<1>3. w \in Injection(1..Len(w), Jobs)
  BY <1>1 DEF Injection, IsInjective
<1>4. Cardinality(1..Len(w)) <= Cardinality(Jobs)
  BY <1>3, JobQueueAssumption, FS_Injection
<1> DEFINE R == {w[i] : i \in 1..Len(w)}
<1>5. w \in Surjection(1..Len(w), R) /\ w \in Injection(1..Len(w), R)
  BY <1>1 DEF Surjection, Injection, IsInjective
<1>6. Cardinality(R) = Cardinality(1..Len(w))
  BY <1>2, <1>5, FS_Surjection
<1>. QED
  BY <1>1, <1>2, <1>4, <1>6

\* What the pointers spell is what the walk meets.
LEMMA SpelledIsWalked ==
  ASSUME NEW link \in [Jobs -> Jobs \cup {Null}], NEW first, NEW w, Spells(link, first, w)
  PROVE  WalkFrom(link, first) = w
<1> DEFINE N == Cardinality(Jobs)
           rest(i) == SubSeq(w, i, Len(w))
<1>1. PICK f : Walks(link, f, N) /\ WalkFrom(link, first) = f[<<N, first>>]
  BY WalkEquation
<1>2. /\ w \in Seq(Jobs) /\ Len(w) \in Nat /\ N \in Nat /\ Len(w) <= N
      /\ \A i \in 1..Len(w) : w[i] \in Jobs
  <2>1. w \in Seq(Jobs) /\ \A i, k \in 1..Len(w) : w[i] = w[k] => i = k
    BY DEF Spells
  <2>2. Len(w) \in Nat /\ Len(w) <= N
    BY <2>1, DifferentJobs
  <2>3. N \in Nat
    BY JobQueueAssumption, FS_CardinalityType
  <2>. QED
    BY <2>1, <2>2, <2>3
<1> DEFINE T == {n \in 0..N : \E i \in 1..(Len(w) + 1) :
                    Len(w) + 1 - i <= n /\ f[<<n, Place(w, i)>>] # rest(i)}
<1>. HIDE DEF N
<1>3. T = {}
  <2>. SUFFICES ASSUME T # {} PROVE FALSE
    OBVIOUS
  <2>1. T \in SUBSET Nat
    BY <1>2
  <2>2. PICK n \in T : \A m \in T : n <= m
    BY <2>1, LeastNumber
  <2>3. PICK i \in 1..(Len(w) + 1) : Len(w) + 1 - i <= n /\ f[<<n, Place(w, i)>>] # rest(i)
    BY <2>2
  <2>4. n \in 0..N /\ i \in Nat /\ n \in Nat
    BY <1>2, <2>2, <2>3
  <2>5. \A j \in Jobs \cup {Null} :
          f[<<n, j>>] = IF n = 0 \/ j = Null THEN <<>> ELSE <<j>> \o f[<<n - 1, link[j]>>]
    <3>1. ASSUME NEW j \in Jobs \cup {Null} PROVE <<n, j>> \in Legs(N)
      BY <2>4 DEF Legs
    <3>. QED
      BY <1>1, <3>1 DEF Walks
  <2>6. CASE i = Len(w) + 1
    <3>1. Place(w, i) = Null
      BY <1>2, <2>6 DEF Place
    <3>2. rest(i) = <<>>
      <4>1. i \in Int /\ Len(w) \in Int /\ Len(w) < i
        BY <1>2, <2>6
      <4>. QED
        BY <4>1, SubSeqEmpty
    <3>. QED
      BY <2>3, <2>5, <3>1, <3>2
  <2>7. CASE i # Len(w) + 1
    <3>1. i \in 1..Len(w) /\ n # 0 /\ n - 1 \in 0..N /\ i + 1 \in 1..(Len(w) + 1)
          /\ Len(w) + 1 - (i + 1) <= n - 1
      <4>. HIDE DEF T, rest
      <4>1. Len(w) \in Nat /\ N \in Nat /\ n \in 0..N /\ i \in 1..(Len(w) + 1)
            /\ Len(w) + 1 - i <= n
        BY <1>2, <2>3, <2>4
      <4>. QED
        BY <2>7, <4>1
    <3>2. Place(w, i) = w[i] /\ w[i] \in Jobs /\ w[i] # Null
      BY <1>2, <3>1, JobQueueAssumption DEF Place
    <3>3. f[<<n, w[i]>>] = <<w[i]>> \o f[<<n - 1, Place(w, i + 1)>>]
      <4>1. link[w[i]] = Place(w, i + 1)
        BY <3>1 DEF Spells
      <4>2. f[<<n, w[i]>>] = <<w[i]>> \o f[<<n - 1, link[w[i]]>>]
        BY <2>5, <3>1, <3>2
      <4>. HIDE DEF T, rest
      <4>. QED
        BY <4>1, <4>2, Zenon
    <3>4. n - 1 \notin T
      <4>. HIDE DEF T
      <4>. QED
        BY <2>2, <2>4
    <3>5. f[<<n - 1, Place(w, i + 1)>>] = rest(i + 1)
      <4>1. n - 1 \in T <=> \E k \in 1..(Len(w) + 1) :
                Len(w) + 1 - k <= n - 1 /\ f[<<n - 1, Place(w, k)>>] # rest(k)
        BY <3>1, Zenon
      <4>. HIDE DEF T, rest
      <4>. QED
        BY <3>1, <3>4, <4>1, Zenon
    <3>6. rest(i) = <<w[i]>> \o rest(i + 1)
      <4>. HIDE DEF T
      <4>. QED
        BY <1>2, <3>1, SubSeqRecursiveFirst
    <3>. QED
      BY <2>3, <3>2, <3>3, <3>5, <3>6
  <2>. QED
    BY <2>6, <2>7
<1>4. f[<<N, Place(w, 1)>>] = rest(1)
  <2>1. N \notin T
    BY <1>3
  <2>2. N \in 0..N /\ 1 \in 1..(Len(w) + 1) /\ Len(w) + 1 - 1 <= N
    <3>. HIDE DEF T, rest
    <3>. QED
      BY <1>2
  <2>. QED
    BY <2>1, <2>2
<1>5. rest(1) = w
  BY <1>2, SubSeqFull
<1>. QED
  BY <1>1, <1>4, <1>5 DEF Spells

-----------------------------------------------------------------------------
(* The inductive invariant                                                 *)

\* The linked list of jobs: what the walk meets is what the pointers spell,
\* and these are the allocated jobs that are not being processed.
ListInv ==
  /\ TypeOK
  /\ Spells(next, head, Walk)
  /\ OnList = allocated \ running
  /\ head # Null => tail = Walk[Len(Walk)]

\* The call at place i of the stack is one of the generator.
GeneratorFrame(i) == stack[i] = Null \/ kind[stack[i]] \in GeneratorKinds

\* The calls in progress: the jobs being processed are on the stack, once, and
\* the generator is on it once, or not at all while it is idle.
StackInv ==
  /\ kind \in [Jobs -> GeneratorKinds \cup {"other"}]
  /\ at \in {"idle", "run", "continue", "throw", "body", "finalize", "leave"}
  /\ stack \in Seq(Jobs \cup {Null})
  /\ running = {stack[i] : i \in 1..Len(stack)} \ {Null}
  /\ \A i, k \in 1..Len(stack) : stack[i] = stack[k] /\ stack[i] # Null => i = k
  /\ \A i, k \in 1..Len(stack) : GeneratorFrame(i) /\ GeneratorFrame(k) => i = k
  /\ at = "idle" <=> \A i \in 1..Len(stack) : ~ GeneratorFrame(i)
  /\ at = "leave" => GeneratorFrame(Len(stack))
  /\ closed => stack = <<>>

\* The jobs on the list that wake the generator, and those of them that begin
\* to serve a task.
WakeJobs == {j \in allocated \ running : kind[j] \in GeneratorKinds}
StartJobs == {j \in allocated \ running : kind[j] = "generator"}

\* The generator's code is in progress.
Active == at \notin {"idle", "leave"}

\* While tasks are open the generator is on the list, or waits for a promise,
\* or is active, and only one of the three.
WakeInv ==
  /\ pending \in BOOLEAN
  /\ ~ closed /\ tasks = <<>> => WakeJobs = {} /\ ~ pending /\ ~ Active
  /\ ~ closed /\ tasks # <<>> =>
       \/ WakeJobs = {} /\ pending /\ ~ Active
       \/ WakeJobs = {} /\ ~ pending /\ Active
       \/ (\E j \in Jobs : WakeJobs = {j}) /\ ~ pending /\ ~ Active

\* The generator is about to serve the task at the head.
Starts == at = "run" \/ StartJobs # {}

\* The await state: what it is where the engine relies on it.
AwaitInv ==
  /\ await \in {"none"} \cup YieldStates \cup ForStates
  /\ iterator = (await \in YieldStates)
  /\ at \in {"body", "finalize"} => await = "none"
  /\ at = "throw" => await = "yieldOperation"
  /\ ~ closed /\ (tasks = <<>> \/ Starts) => await \in {"none", "yieldOperation"}

Tasks == [id : 1..MaxRequests, op : Operations, taken : BOOLEAN]

\* The tasks are numbered in the order of the requests, behind the answered
\* ones, and a completed generator has none left once it was finalized.
OrderInv ==
  /\ tasks \in Seq(Tasks) /\ answered \in Seq(Nat)
  /\ requests \in 0..MaxRequests /\ called \in BOOLEAN /\ completed \in BOOLEAN
  /\ \A i \in 1..Len(answered) : answered[i] = i
  /\ \A i \in 1..Len(tasks) : tasks[i].id = Len(answered) + i
  /\ ~ completed => requests = Len(answered) + Len(tasks)
  /\ completed => tasks = <<>> \/ at = "finalize"

\* Only the first task may have been taken, once the generator serves it.
TakenInv ==
  /\ \A i \in 2..Len(tasks) : ~ tasks[i].taken
  /\ ~ closed /\ tasks # <<>> /\ at # "finalize" => (tasks[1].taken <=> ~ Starts)

AgInv == ListInv /\ StackInv /\ WakeInv /\ AwaitInv /\ OrderInv /\ TakenInv

-----------------------------------------------------------------------------
(* The operations of the queue                                             *)

\* A job that is not on the list is linked behind its last one.
LEMMA SpellAppend ==
  ASSUME NEW link \in [Jobs -> Jobs \cup {Null}], NEW first, NEW w, Spells(link, first, w),
         NEW j \in Jobs, \A i \in 1..Len(w) : w[i] # j,
         NEW link2, NEW first2,
         IF first = Null
           THEN first2 = j /\ link2 = [link EXCEPT ![j] = Null]
           ELSE first2 = first /\ link2 = [link EXCEPT ![j] = Null, ![w[Len(w)]] = j]
  PROVE  Spells(link2, first2, Append(w, j))
<1> DEFINE v == Append(w, j)
<1>1. w \in Seq(Jobs) /\ Len(w) \in Nat /\ \A i \in 1..Len(w) : w[i] \in Jobs
  BY DEF Spells
<1>2. /\ v \in Seq(Jobs) /\ Len(v) = Len(w) + 1 /\ v[Len(w) + 1] = j
      /\ \A i \in 1..Len(w) : v[i] = w[i]
  BY <1>1
<1>. HIDE DEF v
<1>3. (first = Null) <=> (Len(w) = 0)
  BY <1>1, JobQueueAssumption DEF Spells, Place
<1>4. \A i, k \in 1..Len(v) : v[i] = v[k] => i = k
  <2>. SUFFICES ASSUME NEW i \in 1..Len(v), NEW k \in 1..Len(v), v[i] = v[k] PROVE i = k
    OBVIOUS
  <2>1. i \in 1..Len(w) \/ i = Len(w) + 1
    BY <1>1, <1>2
  <2>2. k \in 1..Len(w) \/ k = Len(w) + 1
    BY <1>1, <1>2
  <2>3. i \in 1..Len(w) /\ k \in 1..Len(w) => i = k
    BY <1>2 DEF Spells
  <2>. QED
    BY <1>2, <2>1, <2>2, <2>3
<1>5. first2 = Place(v, 1)
  BY <1>1, <1>2, <1>3 DEF Spells, Place
<1>6. ASSUME NEW i \in 1..Len(v) PROVE link2[v[i]] = Place(v, i + 1)
  <2>1. CASE Len(w) = 0
    BY <1>1, <1>2, <1>3, <2>1 DEF Place
  <2>2. CASE Len(w) # 0 /\ i = Len(v)
    <3>1. link2 = [link EXCEPT ![j] = Null, ![w[Len(w)]] = j] /\ v[i] = j /\ w[Len(w)] # j
      BY <1>1, <1>2, <1>3, <2>2
    <3>2. link2[v[i]] = Null
      BY <1>1, <3>1
    <3>3. Place(v, i + 1) = Null
      BY <1>1, <1>2, <2>2 DEF Place
    <3>. QED
      BY <3>2, <3>3
  <2>3. CASE Len(w) # 0 /\ i = Len(w)
    <3>1. link2 = [link EXCEPT ![j] = Null, ![w[Len(w)]] = j] /\ v[i] = w[Len(w)] /\ w[Len(w)] # j
      BY <1>1, <1>2, <1>3, <2>3
    <3>2. link2[v[i]] = j
      BY <1>1, <2>3, <3>1
    <3>3. Place(v, i + 1) = j
      BY <1>1, <1>2, <2>3 DEF Place
    <3>. QED
      BY <3>2, <3>3
  <2>4. CASE Len(w) # 0 /\ i \in 1..(Len(w) - 1)
    <3>0. i \in 1..Len(w) /\ i + 1 \in 1..Len(w) /\ i # Len(w) /\ Len(w) \in 1..Len(w)
      BY <1>1, <2>4
    <3>1. link2 = [link EXCEPT ![j] = Null, ![w[Len(w)]] = j] /\ v[i] = w[i] /\ w[i] # j
      BY <1>1, <1>2, <1>3, <2>4, <3>0
    <3>2. w[i] # w[Len(w)]
      BY <3>0 DEF Spells
    <3>3. link2[v[i]] = link[w[i]]
      BY <1>1, <3>0, <3>1, <3>2
    <3>4. link[w[i]] = Place(w, i + 1)
      BY <3>0 DEF Spells
    <3>5. Place(v, i + 1) = Place(w, i + 1)
      BY <1>1, <1>2, <3>0 DEF Place
    <3>. QED
      BY <3>3, <3>4, <3>5
  <2>. QED
    BY <1>1, <1>2, <2>1, <2>2, <2>3, <2>4
<1>. QED
  BY <1>2, <1>4, <1>5, <1>6 DEF Spells, v

\* The first job is taken off, and what its memory holds does not matter.
LEMMA SpellTail ==
  ASSUME NEW link, NEW first, NEW w, Spells(link, first, w), first # Null,
         NEW link2, \A j \in Jobs \ {first} : link2[j] = link[j]
  PROVE  /\ w # <<>> /\ first = Head(w) /\ first = w[1]
         /\ link[first] = Place(Tail(w), 1)
         /\ Spells(link2, link[first], Tail(w))
         /\ {Tail(w)[i] : i \in 1..Len(Tail(w))} = {w[i] : i \in 1..Len(w)} \ {first}
<1> DEFINE v == Tail(w)
<1>1. w \in Seq(Jobs) /\ Len(w) \in Nat /\ \A i \in 1..Len(w) : w[i] \in Jobs
  BY DEF Spells
<1>2. Len(w) # 0 /\ w # <<>> /\ first = w[1] /\ first = Head(w) /\ 1 \in 1..Len(w)
  <2>1. Len(w) # 0
    BY <1>1 DEF Spells, Place
  <2>2. first = w[1]
    BY <1>1, <2>1 DEF Spells, Place
  <2>. QED
    BY <1>1, <2>1, <2>2
<1>3. /\ v \in Seq(Jobs) /\ Len(v) = Len(w) - 1 /\ Len(v) \in Nat
      /\ \A i \in 1..Len(v) : v[i] = w[i + 1]
  BY <1>1, <1>2
<1>. HIDE DEF v
<1>4. \A i, k \in 1..Len(v) : v[i] = v[k] => i = k
  <2>. SUFFICES ASSUME NEW i \in 1..Len(v), NEW k \in 1..Len(v), v[i] = v[k] PROVE i = k
    OBVIOUS
  <2>1. i + 1 \in 1..Len(w) /\ k + 1 \in 1..Len(w) /\ w[i + 1] = w[k + 1]
    BY <1>1, <1>3
  <2>2. i + 1 = k + 1
    BY <2>1 DEF Spells
  <2>. QED
    BY <2>2
<1>5. link[first] = Place(v, 1)
  <2>1. link[w[1]] = Place(w, 1 + 1)
    BY <1>2 DEF Spells
  <2>2. Place(w, 1 + 1) = Place(v, 1)
    BY <1>1, <1>3 DEF Place
  <2>. QED
    BY <1>2, <2>1, <2>2
<1>6. ASSUME NEW i \in 1..Len(v) PROVE link2[v[i]] = Place(v, i + 1)
  <2>1. i + 1 \in 1..Len(w) /\ v[i] = w[i + 1] /\ i + 1 # 1
    BY <1>1, <1>3
  <2>2. v[i] # first /\ v[i] \in Jobs
    BY <1>1, <1>2, <2>1 DEF Spells
  <2>3. link[w[i + 1]] = Place(w, i + 1 + 1)
    BY <2>1 DEF Spells
  <2>4. Place(w, i + 1 + 1) = Place(v, i + 1)
    <3>1. i \in Nat /\ ((i + 1 + 1 <= Len(w)) <=> (i + 1 <= Len(v)))
      BY <1>1, <1>3
    <3>2. i + 1 <= Len(v) => v[i + 1] = w[i + 1 + 1]
      BY <1>3, <3>1
    <3>. QED
      BY <3>1, <3>2 DEF Place
  <2>. QED
    BY <2>1, <2>2, <2>3, <2>4
<1>7. {v[i] : i \in 1..Len(v)} = {w[i] : i \in 1..Len(w)} \ {first}
  <2>1. ASSUME NEW i \in 1..Len(v) PROVE v[i] \in {w[k] : k \in 1..Len(w)} \ {first}
    <3>1. i + 1 \in 1..Len(w) /\ v[i] = w[i + 1] /\ i + 1 # 1
      BY <1>1, <1>3
    <3>. QED
      BY <1>2, <3>1 DEF Spells
  <2>2. ASSUME NEW k \in 1..Len(w), w[k] # first PROVE w[k] \in {v[i] : i \in 1..Len(v)}
    <3>1. k # 1
      BY <1>2, <2>2
    <3>2. k - 1 \in 1..Len(v) /\ k - 1 + 1 = k
      BY <1>1, <1>3, <3>1
    <3>3. v[k - 1] = w[k]
      BY <1>3, <3>2
    <3>. QED
      BY <3>2, <3>3
  <2>. QED
    BY <2>1, <2>2
<1>. QED
  BY <1>2, <1>3, <1>4, <1>5, <1>6, <1>7 DEF Spells, v

\* ecma_enqueue_job: the job is the last one of the list.
LEMMA EnqueueList ==
  ASSUME ListInv, NEW j \in Jobs, Enqueue(j)
  PROVE  ListInv' /\ Walk' = Append(Walk, j)
<1>1. \A i \in 1..Len(Walk) : Walk[i] # j
  BY DEF ListInv, OnList, Enqueue
<1>2. Spells(next', head', Append(Walk, j))
  <2>1. next \in [Jobs -> Jobs \cup {Null}] /\ Spells(next, head, Walk)
    BY DEF ListInv, TypeOK
  <2>2. IF head = Null
          THEN head' = j /\ next' = [next EXCEPT ![j] = Null]
          ELSE head' = head /\ next' = [next EXCEPT ![j] = Null, ![Walk[Len(Walk)]] = j]
    BY DEF ListInv, Enqueue
  <2>. QED
    BY <1>1, <2>1, <2>2, SpellAppend
<1>5. TypeOK'
  BY DEF ListInv, TypeOK, Enqueue
<1>3. Walk' = Append(Walk, j)
  BY <1>2, <1>5, SpelledIsWalked DEF Walk, TypeOK
<1>4. Walk \in Seq(Jobs) /\ Len(Walk) \in Nat
  BY DEF ListInv, Spells
<1>6. OnList' = allocated' \ running'
  <2> DEFINE w == Walk
             v == Append(Walk, j)
  <2>1. Len(v) = Len(w) + 1 /\ v[Len(w) + 1] = j /\ \A i \in 1..Len(w) : v[i] = w[i]
    BY <1>4
  <2>. HIDE DEF w, v
  <2>2. {v[i] : i \in 1..Len(v)} = {w[i] : i \in 1..Len(w)} \cup {j}
    <3>1. Len(w) \in Nat
      BY <1>4 DEF w
    <3>2. \A i \in 1..Len(v) : v[i] \in {w[k] : k \in 1..Len(w)} \cup {j}
      BY <2>1, <3>1
    <3>3. \A i \in 1..Len(w) : w[i] \in {v[k] : k \in 1..Len(v)}
      BY <2>1, <3>1
    <3>4. j \in {v[k] : k \in 1..Len(v)}
      BY <2>1, <3>1
    <3>. QED
      BY <3>2, <3>3, <3>4
  <2>3. OnList' = OnList \cup {j}
    BY <1>3, <2>2 DEF OnList, w, v
  <2>. QED
    BY <2>3 DEF ListInv, TypeOK, Enqueue
<1>7. tail' = Walk'[Len(Walk')]
  BY <1>3, <1>4 DEF Enqueue
<1>. QED
  BY <1>2, <1>3, <1>5, <1>6, <1>7 DEF ListInv

\* A job is taken off: by ecma_process_all_enqueued_jobs, or by
\* ecma_free_all_enqueued_jobs, which frees it too.
LEMMA TakeList ==
  ASSUME ListInv, Process \/ (FreeEnqueued /\ running = {})
  PROVE  /\ ListInv' /\ Walk' = Tail(Walk)
         /\ Walk # <<>> /\ head = Head(Walk) /\ head \in Jobs /\ head \in allocated \ running
<1>1. head # Null /\ head' = next[head] /\ tail' = tail
  BY DEF Process, FreeEnqueued
<1>2. next' \in [Jobs -> Jobs \cup {Null}] /\ \A j \in Jobs \ {head} : next'[j] = next[j]
  BY <1>1 DEF Process, FreeEnqueued, Garbage, ListInv, TypeOK
<1>3. Spells(next, head, Walk) /\ Walk \in Seq(Jobs) /\ Len(Walk) \in Nat
  BY DEF ListInv, Spells
<1>4. /\ Walk # <<>> /\ head = Head(Walk) /\ head = Walk[1]
      /\ next[head] = Place(Tail(Walk), 1)
      /\ Spells(next', head', Tail(Walk))
      /\ {Tail(Walk)[i] : i \in 1..Len(Tail(Walk))} = {Walk[i] : i \in 1..Len(Walk)} \ {head}
  BY <1>1, <1>2, <1>3, SpellTail
<1>5. Walk' = Tail(Walk)
  BY <1>2, <1>4, SpelledIsWalked DEF Walk
<1>6. head \in OnList /\ head \in Jobs /\ head \in allocated \ running
  <2>1. 1 \in 1..Len(Walk)
    BY <1>3, <1>4
  <2>. QED
    BY <1>4, <2>1 DEF OnList, ListInv, TypeOK
<1>7. OnList' = OnList \ {head}
  BY <1>4, <1>5 DEF OnList
<1>8. OnList' = allocated' \ running'
  BY <1>6, <1>7 DEF ListInv, TypeOK, Process, FreeEnqueued
<1>9. TypeOK'
  BY <1>1, <1>2, <1>6 DEF ListInv, TypeOK, Process, FreeEnqueued
<1>10. head' # Null => tail' = Walk'[Len(Walk')]
  <2> DEFINE w == Walk
             v == Tail(Walk)
             m == Len(Walk)
  <2>1. /\ m \in Nat /\ m # 0 /\ Len(v) = m - 1
        /\ \A i \in 1..(m - 1) : v[i] = w[i + 1]
    BY <1>3, <1>4
  <2>2. head' = Place(v, 1) /\ tail = w[m]
    BY <1>1, <1>4 DEF ListInv
  <2>3. Walk' = v
    BY <1>5
  <2>. HIDE DEF w, v, m
  <2>4. CASE m = 1
    BY <2>1, <2>2, <2>4 DEF Place
  <2>5. CASE m # 1
    <3>1. m - 1 \in 1..(m - 1) /\ m - 1 + 1 = m
      BY <2>1, <2>5
    <3>2. v[m - 1] = w[m]
      BY <2>1, <3>1
    <3>. QED
      BY <1>1, <2>1, <2>2, <2>3, <3>2
  <2>. QED
    BY <2>4, <2>5
<1>. QED
  BY <1>4, <1>5, <1>6, <1>8, <1>9, <1>10 DEF ListInv

\* A processed job is freed: the list does not lead to it.
LEMMA FreeList ==
  ASSUME ListInv, NEW j \in running, Free(j)
  PROVE  ListInv' /\ Walk' = Walk
<1>1. head' = head /\ tail' = tail
  BY DEF Free
<1>2. next' \in [Jobs -> Jobs \cup {Null}] /\ \A k \in Jobs \ {j} : next'[k] = next[k]
  BY DEF Free, Garbage, ListInv, TypeOK
<1>3. Spells(next', head', Walk)
  <2>1. Walk \in Seq(Jobs) /\ \A i \in 1..Len(Walk) : Walk[i] \in Jobs \ {j}
    BY DEF ListInv, OnList, Spells
  <2>. QED
    BY <1>1, <1>2, <2>1 DEF ListInv, Spells
<1>4. Walk' = Walk
  BY <1>2, <1>3, SpelledIsWalked DEF Walk
<1>5. OnList' = OnList
  BY <1>4 DEF OnList
<1>6. OnList' = allocated' \ running'
  BY <1>5 DEF ListInv, TypeOK, Free
<1>7. TypeOK'
  BY <1>2 DEF ListInv, TypeOK, Free
<1>. QED
  BY <1>1, <1>3, <1>4, <1>6, <1>7 DEF ListInv

\* Steps that leave the queue alone.
LEMMA SameList ==
  ASSUME ListInv, UNCHANGED <<head, tail, next, allocated, running>>, closed' \in BOOLEAN
  PROVE  ListInv' /\ Walk' = Walk
BY DEF ListInv, Walk, OnList, TypeOK

-----------------------------------------------------------------------------
(* What the parts of the actions do                                        *)

Places == {"idle", "run", "continue", "throw", "body", "finalize", "leave"}

\* NoJob leaves the jobs that wake the generator alone.
LEMMA NoJobEffect ==
  ASSUME ListInv, NoJob
  PROVE  /\ ListInv' /\ Walk' = Walk
         /\ WakeJobs' = WakeJobs /\ StartJobs' = StartJobs
         /\ closed' = closed /\ running' = running /\ kind' = kind
<1>1. ListInv' /\ Walk' = Walk
  <2>1. UNCHANGED <<head, tail, next, allocated, running>> /\ closed' \in BOOLEAN
    BY DEF NoJob, queueVars, ListInv, TypeOK
  <2>. QED
    BY <2>1, SameList
<1>. QED
  BY <1>1 DEF NoJob, queueVars, WakeJobs, StartJobs

\* An enqueued job is a new one; whether it wakes the generator depends on its
\* kind.
LEMMA EnqueueEffect ==
  ASSUME ListInv, kind \in [Jobs -> GeneratorKinds \cup {"other"}],
         NEW k \in GeneratorKinds \cup {"other"}, EnqueueJob(k)
  PROVE  /\ ListInv' /\ ~ closed /\ closed' = closed /\ running' = running
         /\ kind' \in [Jobs -> GeneratorKinds \cup {"other"}]
         /\ \A i \in running : kind'[i] = kind[i]
         /\ \E j \in Jobs :
              /\ j \notin allocated /\ Walk' = Append(Walk, j)
              /\ WakeJobs' = WakeJobs \cup (IF k = "other" THEN {} ELSE {j})
              /\ StartJobs' = StartJobs \cup (IF k = "generator" THEN {j} ELSE {})
<1>1. PICK j \in Jobs : Enqueue(j) /\ kind' = [kind EXCEPT ![j] = k]
  BY DEF EnqueueJob
<1>2. ListInv' /\ Walk' = Append(Walk, j)
  BY <1>1, EnqueueList
<1>3. /\ allocated' = allocated \cup {j} /\ running' = running /\ closed' = closed /\ ~ closed
      /\ j \notin allocated /\ j \notin running
  BY <1>1 DEF Enqueue, ListInv, TypeOK
<1>4. /\ kind' \in [Jobs -> GeneratorKinds \cup {"other"}]
      /\ kind'[j] = k /\ \A i \in Jobs \ {j} : kind'[i] = kind[i]
  BY <1>1
<1>5. allocated \subseteq Jobs /\ running \subseteq allocated
  BY DEF ListInv, TypeOK
<1>6. WakeJobs' = WakeJobs \cup (IF k = "other" THEN {} ELSE {j})
  BY <1>3, <1>4, <1>5 DEF WakeJobs, GeneratorKinds
<1>7. StartJobs' = StartJobs \cup (IF k = "generator" THEN {j} ELSE {})
  BY <1>3, <1>4, <1>5 DEF StartJobs
<1>. QED
  BY <1>2, <1>3, <1>4, <1>5, <1>6, <1>7

\* The generator awaits a promise: it will be woken by one job or one promise.
LEMMA AwaitEffect ==
  ASSUME ListInv, kind \in [Jobs -> GeneratorKinds \cup {"other"}], AwaitPromise,
         ~ closed, WakeJobs = {}, pending = FALSE
  PROVE  /\ ListInv' /\ closed' = closed /\ running' = running
         /\ kind' \in [Jobs -> GeneratorKinds \cup {"other"}]
         /\ \A i \in running : kind'[i] = kind[i]
         /\ StartJobs' = {}
         /\ \/ pending' = TRUE /\ WakeJobs' = {}
            \/ pending' = FALSE /\ \E j \in Jobs : WakeJobs' = {j}
<1>0. StartJobs = {}
  BY DEF StartJobs, WakeJobs, GeneratorKinds
<1>1. CASE pending' = TRUE /\ NoJob
  BY <1>0, <1>1, NoJobEffect
<1>2. ASSUME pending' = pending, NEW k \in {"resolved", "rejected"}, EnqueueJob(k)
      PROVE  /\ ListInv' /\ closed' = closed /\ running' = running
             /\ kind' \in [Jobs -> GeneratorKinds \cup {"other"}]
             /\ \A i \in running : kind'[i] = kind[i]
             /\ StartJobs' = {} /\ \E j \in Jobs : WakeJobs' = {j}
  <2>1. k \in GeneratorKinds \cup {"other"} /\ k # "other" /\ k # "generator"
    BY <1>2 DEF GeneratorKinds
  <2>. QED
    BY <1>0, <1>2, <2>1, EnqueueEffect
<1>. QED
  BY <1>1, <1>2 DEF AwaitPromise

\* The stack is as before, and the generator moves only while it is on it.
LEMMA SameFrames ==
  ASSUME StackInv, stack' = stack, running' = running, closed' = closed,
         kind' \in [Jobs -> GeneratorKinds \cup {"other"}],
         \A j \in running : kind'[j] = kind[j],
         at' \in Places, at' = "idle" <=> at = "idle",
         at' = "leave" => GeneratorFrame(Len(stack))
  PROVE  StackInv'
<1>1. \A i \in 1..Len(stack) : stack[i] = Null \/ stack[i] \in running
  BY DEF StackInv
<1>2. \A i \in 1..Len(stack) : GeneratorFrame(i)' <=> GeneratorFrame(i)
  BY <1>1 DEF GeneratorFrame
<1>3. at' = "leave" => GeneratorFrame(Len(stack))'
  <2>. SUFFICES ASSUME at' = "leave" PROVE GeneratorFrame(Len(stack))'
    OBVIOUS
  <2>1. Len(stack) \in Nat /\ (Len(stack) = 0 \/ Len(stack) \in 1..Len(stack))
    BY DEF StackInv
  <2>2. Len(stack) # 0
    <3>1. at # "idle"
      OBVIOUS
    <3>2. \E i \in 1..Len(stack) : TRUE
      BY <3>1 DEF StackInv
    <3>. QED
      BY <3>2
  <2>. QED
    BY <1>2, <2>1, <2>2
<1>. QED
  BY <1>2, <1>3 DEF StackInv, Places

\* The generator is on top of the stack.
LEMMA AtTopFrame ==
  ASSUME StackInv, NEW p, AtTop(p)
  PROVE  ~ closed /\ at = p /\ GeneratorFrame(Len(stack)) /\ Len(stack) \in 1..Len(stack)
BY DEF AtTop, Top, GeneratorFrame, StackInv

\* A call is put on the stack; it is one of the generator only while the
\* generator was idle.
LEMMA PushFrame ==
  ASSUME StackInv, NEW x \in Jobs \cup {Null}, x \notin running, ~ closed',
         stack' = Append(stack, x), kind' = kind,
         running' = IF x = Null THEN running ELSE running \cup {x},
         \/ at = "idle" /\ at' \in Places \ {"idle", "leave"}
            /\ (x = Null \/ kind[x] \in GeneratorKinds)
         \/ at' = at /\ at # "leave" /\ ~ (x = Null \/ kind[x] \in GeneratorKinds)
  PROVE  StackInv'
<1> DEFINE m == Len(stack)
           s == stack'
           g(y) == y = Null \/ kind[y] \in GeneratorKinds
<1>1. /\ m \in Nat /\ Len(s) = m + 1 /\ s[m + 1] = x /\ s \in Seq(Jobs \cup {Null})
      /\ \A i \in 1..m : s[i] = stack[i] /\ stack[i] \in Jobs \cup {Null}
  BY DEF StackInv
<1>2. /\ running = {stack[i] : i \in 1..m} \ {Null}
      /\ \A i, k \in 1..m : stack[i] = stack[k] /\ stack[i] # Null => i = k
      /\ \A i, k \in 1..m : g(stack[i]) /\ g(stack[k]) => i = k
      /\ at = "idle" <=> \A i \in 1..m : ~ g(stack[i])
  BY DEF StackInv, GeneratorFrame
<1>3. \A i : GeneratorFrame(i)' <=> g(s[i])
  BY DEF GeneratorFrame
<1>. HIDE DEF m, s, g
<1>4. \A i \in 1..Len(s) : i \in 1..m \/ i = m + 1
  BY <1>1
<1>5. \A i \in 1..m : i \in 1..Len(s)
  BY <1>1
<1>6. m + 1 \in 1..Len(s)
  BY <1>1
<1>7. running' = {s[i] : i \in 1..Len(s)} \ {Null}
  <2>1. {s[i] : i \in 1..Len(s)} = {stack[i] : i \in 1..m} \cup {x}
    BY <1>1, <1>4, <1>5, <1>6
  <2>. QED
    BY <1>2, <2>1
<1>8. \A i, k \in 1..Len(s) : s[i] = s[k] /\ s[i] # Null => i = k
  <2>1. \A i \in 1..m : stack[i] # Null => stack[i] \in running
    BY <1>2
  <2>. QED
    BY <1>1, <1>2, <1>4, <2>1
<1>9. \A i, k \in 1..Len(s) : g(s[i]) /\ g(s[k]) => i = k
  <2>1. g(x) => \A i \in 1..m : ~ g(stack[i])
    BY <1>2 DEF g
  <2>. QED
    BY <1>1, <1>2, <1>4, <2>1
<1>10. at' = "idle" <=> \A i \in 1..Len(s) : ~ g(s[i])
  BY <1>1, <1>2, <1>4, <1>5, <1>6 DEF g
<1>11. at' # "leave" /\ at' \in Places /\ kind' \in [Jobs -> GeneratorKinds \cup {"other"}]
  BY DEF StackInv, Places
<1>. QED
  BY <1>1, <1>3, <1>7, <1>8, <1>9, <1>10, <1>11 DEF StackInv, Places, s

\* A call returns.
LEMMA PopFrame ==
  ASSUME ListInv, StackInv, stack # <<>>, Return, ~ closed,
         \/ GeneratorFrame(Len(stack)) /\ at' = "idle"
         \/ ~ GeneratorFrame(Len(stack)) /\ at' = at /\ at # "leave"
  PROVE  /\ ListInv' /\ StackInv' /\ Walk' = Walk
         /\ closed' = closed /\ WakeJobs' = WakeJobs /\ StartJobs' = StartJobs
         /\ \/ running' = running
            \/ \E j \in running : running' = running \ {j}
<1> DEFINE m == Len(stack) - 1
           s == stack'
           x == Top
<1>1. /\ m \in Nat /\ Len(s) = m /\ Len(stack) = m + 1 /\ x = stack[m + 1]
      /\ s \in Seq(Jobs \cup {Null}) /\ x \in Jobs \cup {Null}
      /\ \A i \in 1..m : s[i] = stack[i]
  <2>1. m \in Nat /\ stack \in Seq(Jobs \cup {Null}) /\ m + 1 = Len(stack)
    BY DEF StackInv
  <2>2. s = SubSeq(stack, 1, m)
    BY DEF Return
  <2>3. s \in Seq(Jobs \cup {Null}) /\ Len(s) = m /\ \A i \in 1..m : s[i] = stack[i]
    <3>. HIDE DEF m, s
    <3>. QED
      BY <2>1, <2>2
  <2>4. Len(stack) \in 1..Len(stack)
    BY <2>1
  <2>. QED
    BY <2>1, <2>3, <2>4 DEF Top
<1>2. /\ running = {stack[i] : i \in 1..(m + 1)} \ {Null}
      /\ \A i, k \in 1..(m + 1) : stack[i] = stack[k] /\ stack[i] # Null => i = k
      /\ \A i, k \in 1..(m + 1) : GeneratorFrame(i) /\ GeneratorFrame(k) => i = k
      /\ at = "idle" <=> \A i \in 1..(m + 1) : ~ GeneratorFrame(i)
      /\ kind \in [Jobs -> GeneratorKinds \cup {"other"}] /\ at \in Places
  BY <1>1 DEF StackInv, Places
<1>3. \A i \in 1..m : i \in 1..(m + 1) /\ i # m + 1 /\ m + 1 \in 1..(m + 1)
  BY <1>1
<1>4. \A i \in 1..(m + 1) : i \in 1..m \/ i = m + 1
  BY <1>1
<1>5. m + 1 \in 1..(m + 1)
  BY <1>1
<1>6. IF x = Null
        THEN NoJob
        ELSE Free(x) /\ kind' = [kind EXCEPT ![x] = "other"]
  BY DEF Return
<1>7. (GeneratorFrame(m + 1) /\ at' = "idle") \/ (~ GeneratorFrame(m + 1) /\ at' = at /\ at # "leave")
  BY <1>1
<1>. HIDE DEF m, s, x
<1>8. x # Null => x \in running
  BY <1>1, <1>2, <1>5
<1>9. {s[i] : i \in 1..m} \ {Null} = running \ {x}
  <2>1. \A i \in 1..m : s[i] # Null => s[i] \in running /\ s[i] # x
    BY <1>1, <1>2, <1>3
  <2>2. \A y \in running : y # x => \E i \in 1..m : s[i] = y
    BY <1>1, <1>2, <1>4
  <2>3. \A y \in running : y # Null
    BY <1>2
  <2>. QED
    BY <2>1, <2>2, <2>3
<1>10. /\ ListInv' /\ Walk' = Walk /\ closed' = closed /\ running' = running \ {x}
       /\ kind' \in [Jobs -> GeneratorKinds \cup {"other"}]
       /\ \A j \in Jobs \ {x} : kind'[j] = kind[j]
  <2>1. CASE x = Null
    <3>1. Null \notin running
      BY <1>2
    <3>. QED
      BY <1>2, <1>6, <2>1, <3>1, NoJobEffect
  <2>2. CASE x # Null
    <3>1. Free(x) /\ kind' = [kind EXCEPT ![x] = "other"] /\ x \in running
      BY <1>6, <1>8, <2>2
    <3>2. ListInv' /\ Walk' = Walk
      BY <3>1, FreeList
    <3>. QED
      BY <1>2, <3>1, <3>2 DEF Free
  <2>. QED
    BY <2>1, <2>2
<1>11. WakeJobs' = WakeJobs /\ StartJobs' = StartJobs
  <2>1. allocated' \ running' = allocated \ running
    BY <1>6, <1>8 DEF NoJob, queueVars, Free, ListInv, TypeOK
  <2>2. \A j \in allocated \ running : j \in Jobs /\ kind'[j] = kind[j]
    <3>1. \A j \in allocated \ running : j \in Jobs /\ j # Null /\ j # x
      BY <1>8, JobQueueAssumption DEF ListInv, TypeOK
    <3>. QED
      BY <1>10, <3>1
  <2>. QED
    BY <2>1, <2>2 DEF WakeJobs, StartJobs
<1>12. \A i \in 1..m : GeneratorFrame(i)' <=> GeneratorFrame(i)
  <2>1. \A i \in 1..m : stack[i] # Null => stack[i] \in Jobs \ {x}
    <3>1. \A i \in 1..m : stack[i] # Null => stack[i] \in running /\ stack[i] # x
      BY <1>1, <1>2, <1>3
    <3>. QED
      BY <3>1 DEF ListInv, TypeOK
  <2>. QED
    BY <1>1, <1>10, <2>1 DEF GeneratorFrame, s
<1>13. \A i, k \in 1..m : s[i] = s[k] /\ s[i] # Null => i = k
  BY <1>1, <1>2, <1>3
<1>14. \A i, k \in 1..m : GeneratorFrame(i)' /\ GeneratorFrame(k)' => i = k
  BY <1>2, <1>3, <1>12
<1>15. at' = "idle" <=> \A i \in 1..m : ~ GeneratorFrame(i)'
  <2>1. CASE GeneratorFrame(m + 1) /\ at' = "idle"
    BY <1>2, <1>3, <1>12, <2>1
  <2>2. CASE ~ GeneratorFrame(m + 1) /\ at' = at
    BY <1>2, <1>3, <1>4, <1>12, <2>2
  <2>. QED
    BY <1>7, <2>1, <2>2
<1>16. at' # "leave" /\ at' \in Places
  BY <1>2, <1>7 DEF Places
<1>17. StackInv'
  BY <1>1, <1>9, <1>10, <1>13, <1>14, <1>15, <1>16 DEF StackInv, Places, s
<1>. QED
  BY <1>8, <1>10, <1>11, <1>17, JobQueueAssumption DEF ListInv, TypeOK

-----------------------------------------------------------------------------
(* What happens to the tasks                                               *)

\* The part of OrderInv that is about the lists of tasks and answers.
Numbered ==
  /\ tasks \in Seq(Tasks) /\ answered \in Seq(Nat)
  /\ requests \in 0..MaxRequests /\ called \in BOOLEAN
  /\ \A i \in 1..Len(answered) : answered[i] = i
  /\ \A i \in 1..Len(tasks) : tasks[i].id = Len(answered) + i

\* A request appends a task that was not taken.
LEMMA AppendTask ==
  ASSUME OrderInv, TakenInv, NEW op \in Operations, ~ completed, requests < MaxRequests,
         tasks' = Append(tasks, Task(op)), requests' = requests + 1, answered' = answered,
         called' \in BOOLEAN
  PROVE  /\ Numbered' /\ tasks' # <<>>
         /\ requests' = Len(answered') + Len(tasks')
         /\ \A i \in 2..Len(tasks') : ~ tasks'[i].taken
         /\ (tasks = <<>> => tasks'[1].taken = FALSE)
         /\ (tasks # <<>> => tasks'[1] = tasks[1])
<1> DEFINE m == Len(tasks)
           n == Len(answered)
           t == Task(op)
           v == tasks'
<1>1. /\ m \in Nat /\ n \in Nat /\ requests = n + m /\ requests \in Nat
      /\ requests + 1 \in 1..MaxRequests /\ requests + 1 \in 0..MaxRequests
  BY AsyncGeneratorAssumption DEF OrderInv
<1>2. t \in Tasks /\ t.id = requests + 1 /\ t.taken = FALSE
  BY <1>1 DEF Task, Tasks
<1>3. /\ v \in Seq(Tasks) /\ Len(v) = m + 1 /\ v[m + 1] = t
      /\ \A i \in 1..m : v[i] = tasks[i]
  BY <1>2 DEF OrderInv
<1>4. \A i \in 1..m : tasks[i].id = n + i
  BY DEF OrderInv
<1>5. \A i \in 2..m : ~ tasks[i].taken
  BY DEF TakenInv
<1>6. tasks = <<>> <=> m = 0
  BY DEF OrderInv
<1>. HIDE DEF m, t, v
<1>7. \A i \in 1..Len(v) : v[i].id = n + i
  <2>1. \A i \in 1..Len(v) : i \in 1..m \/ i = m + 1
    BY <1>1, <1>3
  <2>2. t.id = n + (m + 1)
    BY <1>1, <1>2
  <2>. QED
    BY <1>3, <1>4, <2>1, <2>2
<1>8. \A i \in 2..Len(v) : ~ v[i].taken
  BY <1>1, <1>2, <1>3, <1>5
<1>9. v # <<>> /\ (m = 0 => v[1] = t) /\ (m # 0 => v[1] = tasks[1])
  BY <1>1, <1>3
<1>10. requests' = Len(answered') + Len(v)
  BY <1>1, <1>3
<1>. QED
  BY <1>1, <1>2, <1>3, <1>6, <1>7, <1>8, <1>9, <1>10 DEF Numbered, OrderInv, v

\* The task at the head is answered.
LEMMA AnswerTask ==
  ASSUME OrderInv, TakenInv, tasks # <<>>,
         answered' = Append(answered, tasks[1].id), tasks' = Tail(tasks),
         requests' = requests, called' = called, completed' = completed
  PROVE  /\ Numbered'
         /\ ~ completed => requests' = Len(answered') + Len(tasks')
         /\ \A i \in 1..Len(tasks') : ~ tasks'[i].taken
         /\ tasks' = <<>> <=> ~ (Len(tasks) > 1)
         /\ tasks' # <<>> => 1 \in 1..Len(tasks')
<1> DEFINE m == Len(tasks)
           n == Len(answered)
           v == tasks'
           a == answered'
<1>1. m \in Nat /\ n \in Nat /\ m # 0 /\ 1 \in 1..m
  BY DEF OrderInv
<1>2. tasks[1].id = n + 1
  BY <1>1 DEF OrderInv
<1>3. /\ v \in Seq(Tasks) /\ Len(v) = m - 1 /\ \A i \in 1..(m - 1) : v[i] = tasks[i + 1]
      /\ v = <<>> <=> Len(v) = 0
  <2>1. tasks \in Seq(Tasks) /\ v = Tail(tasks)
    BY DEF OrderInv
  <2>. HIDE DEF v
  <2>2. v \in Seq(Tasks) /\ Len(v) = m - 1 /\ \A i \in 1..(m - 1) : v[i] = tasks[i + 1]
    BY <1>1, <2>1
  <2>. QED
    BY <2>2
<1>4. /\ a \in Seq(Nat) /\ Len(a) = n + 1 /\ a[n + 1] = n + 1
      /\ \A i \in 1..n : a[i] = answered[i]
  <2>1. n + 1 \in Nat /\ a = Append(answered, n + 1) /\ answered \in Seq(Nat)
    BY <1>1, <1>2 DEF OrderInv
  <2>. HIDE DEF a
  <2>. QED
    BY <2>1
<1>5. \A i \in 1..m : tasks[i].id = n + i
  BY DEF OrderInv
<1>6. \A i \in 2..m : ~ tasks[i].taken
  BY DEF TakenInv
<1>7. \A i \in 1..n : answered[i] = i
  BY DEF OrderInv
<1>8. ~ completed => requests = n + m
  BY DEF OrderInv
<1>. HIDE DEF m, n, v, a
<1>9. \A i \in 1..(m - 1) : i + 1 \in 1..m /\ i + 1 \in 2..m /\ n + (i + 1) = (n + 1) + i
  BY <1>1
<1>10. \A i \in 1..Len(v) : v[i].id = Len(a) + i
  BY <1>3, <1>4, <1>5, <1>9
<1>11. \A i \in 1..Len(v) : ~ v[i].taken
  BY <1>3, <1>6, <1>9
<1>12. \A i \in 1..Len(a) : a[i] = i
  <2>1. \A i \in 1..Len(a) : i \in 1..n \/ i = n + 1
    BY <1>1, <1>4
  <2>. QED
    BY <1>4, <1>7, <2>1
<1>13. ~ completed => requests' = Len(a) + Len(v)
  BY <1>1, <1>3, <1>4, <1>8
<1>14. (v = <<>> <=> ~ (m > 1)) /\ (v # <<>> => 1 \in 1..Len(v))
  BY <1>1, <1>3
<1>. QED
  BY <1>3, <1>4, <1>10, <1>11, <1>12, <1>13, <1>14 DEF Numbered, OrderInv, m, v, a

\* The value of the task at the head is taken.
LEMMA TakeTask ==
  ASSUME OrderInv, TakenInv, tasks # <<>>, Took,
         answered' = answered, requests' = requests, called' = called
  PROVE  /\ Numbered' /\ Len(tasks') = Len(tasks) /\ tasks' # <<>>
         /\ \A i \in 2..Len(tasks') : ~ tasks'[i].taken
         /\ tasks'[1].taken = TRUE
<1> DEFINE m == Len(tasks)
           v == tasks'
<1>1. m \in Nat /\ m # 0 /\ 1 \in 1..m /\ \A i \in 1..m : tasks[i] \in Tasks
  BY DEF OrderInv
<1>2. v = [tasks EXCEPT ![1].taken = TRUE] /\ tasks \in [1..m -> Tasks]
  BY <1>1 DEF Took, OrderInv
<1>3. /\ v[1] = [tasks[1] EXCEPT !.taken = TRUE] /\ \A i \in 1..m : i # 1 => v[i] = tasks[i]
      /\ DOMAIN v = 1..m
  <2>. HIDE DEF m, v
  <2>. QED
    BY <1>1, <1>2
<1>4. v[1] \in Tasks /\ v[1].taken = TRUE /\ v[1].id = tasks[1].id
  BY <1>1, <1>3 DEF Tasks
<1>5. v \in Seq(Tasks) /\ Len(v) = m
  <2>1. v \in [1..m -> Tasks]
    <3>1. \A i \in 1..m : v[i] \in Tasks
      BY <1>1, <1>3, <1>4
    <3>. HIDE DEF m, v
    <3>. QED
      BY <1>2, <1>3, <3>1
  <2>. HIDE DEF m, v
  <2>. QED
    BY <1>1, <2>1, SeqDef, LenProperties
<1>. HIDE DEF m, v
<1>6. \A i \in 1..m : v[i].id = tasks[i].id
  BY <1>3, <1>4
<1>7. \A i \in 2..m : i \in 1..m /\ i # 1
  BY <1>1
<1>. QED
  BY <1>1, <1>3, <1>4, <1>5, <1>6, <1>7 DEF Numbered, OrderInv, TakenInv, m, v

\* The tasks are left alone.
LEMMA SameTasks ==
  ASSUME OrderInv, tasks' = tasks, answered' = answered, called' = called,
         requests' = requests \/ (completed /\ requests < MaxRequests /\ requests' = requests + 1),
         completed' = completed, at' = at \/ tasks = <<>> \/ ~ completed
  PROVE  OrderInv'
<1>1. requests' \in 0..MaxRequests
  BY AsyncGeneratorAssumption DEF OrderInv
<1>. QED
  BY <1>1 DEF OrderInv

-----------------------------------------------------------------------------
(* Every action keeps the invariant                                        *)

\* The types, and what follows at once, in the form the steps need.
LEMMA Typing ==
  ASSUME AgInv
  PROVE  /\ kind \in [Jobs -> GeneratorKinds \cup {"other"}] /\ at \in Places
         /\ pending \in BOOLEAN /\ completed \in BOOLEAN /\ called \in BOOLEAN
         /\ tasks \in Seq(Tasks) /\ closed \in BOOLEAN
         /\ StartJobs \subseteq WakeJobs /\ Null \notin running
         /\ tasks # <<>> => 1 \in 1..Len(tasks) /\ tasks[1] \in Tasks /\ tasks[1].taken \in BOOLEAN
<1>1. tasks # <<>> => 1 \in 1..Len(tasks) /\ tasks[1] \in Tasks
  BY DEF AgInv, OrderInv
<1>2. StartJobs \subseteq WakeJobs
  BY DEF StartJobs, WakeJobs, GeneratorKinds
<1>3. /\ kind \in [Jobs -> GeneratorKinds \cup {"other"}] /\ at \in Places
      /\ Null \notin running
  BY DEF AgInv, StackInv, Places
<1>4. /\ pending \in BOOLEAN /\ completed \in BOOLEAN /\ called \in BOOLEAN
      /\ tasks \in Seq(Tasks) /\ closed \in BOOLEAN
  BY DEF AgInv, WakeInv, OrderInv, ListInv, TypeOK
<1>. QED
  BY <1>1, <1>2, <1>3, <1>4 DEF Tasks

\* A call of next, throw or return: the generator is woken only for the first task.
LEMMA RequestStep ==
  ASSUME AgInv, NEW op \in Operations, Request(op)
  PROVE  AgInv'
<1>0. /\ ~ closed /\ at # "leave" /\ requests < MaxRequests /\ requests' = requests + 1
      /\ answered' = answered /\ completed' = completed /\ await' = await
      /\ iterator' = iterator /\ pending' = pending
  BY DEF Request, UserCode
<1>1. CASE completed /\ NoJob /\ UNCHANGED <<tasks, called, at, stack>>
  <2>1. /\ ListInv' /\ WakeJobs' = WakeJobs /\ StartJobs' = StartJobs
        /\ closed' = closed /\ running' = running /\ kind' = kind
    BY <1>1, NoJobEffect DEF AgInv
  <2>2. StackInv'
    BY <1>0, <1>1, <2>1, Typing, SameFrames DEF AgInv
  <2>3. WakeInv' /\ AwaitInv' /\ TakenInv'
    BY <1>0, <1>1, <2>1 DEF AgInv, WakeInv, AwaitInv, TakenInv, Active, Starts
  <2>4. OrderInv'
    BY <1>0, <1>1, SameTasks DEF AgInv
  <2>. QED
    BY <2>1, <2>2, <2>3, <2>4 DEF AgInv
<1>2. ASSUME ~ completed, tasks' = Append(tasks, Task(op)),
             \/ /\ tasks = <<>> /\ ~ called
                /\ called' = TRUE /\ at' = "run" /\ stack' = Append(stack, Null)
                /\ NoJob
             \/ /\ tasks = <<>> /\ called
                /\ UNCHANGED <<called, at, stack>>
                /\ EnqueueJob("generator")
             \/ /\ tasks # <<>>
                /\ NoJob /\ UNCHANGED <<called, at, stack>>
      PROVE  AgInv'
  <2>1. called' \in BOOLEAN
    BY <1>2, Typing
  <2>2. /\ Numbered' /\ tasks' # <<>>
        /\ requests' = Len(answered') + Len(tasks')
        /\ \A i \in 2..Len(tasks') : ~ tasks'[i].taken
        /\ (tasks = <<>> => tasks'[1].taken = FALSE)
        /\ (tasks # <<>> => tasks'[1] = tasks[1])
    BY <1>0, <1>2, <2>1, AppendTask DEF AgInv
  <2>3. OrderInv'
    BY <1>0, <1>2, <2>2, Typing DEF Numbered, OrderInv
  <2>4. CASE tasks = <<>> /\ called' = TRUE /\ at' = "run" /\ stack' = Append(stack, Null) /\ NoJob
    <3>1. /\ ListInv' /\ WakeJobs' = WakeJobs /\ StartJobs' = StartJobs
          /\ closed' = closed /\ running' = running /\ kind' = kind
      BY <2>4, NoJobEffect DEF AgInv
    <3>2. WakeJobs = {} /\ StartJobs = {} /\ pending = FALSE /\ at = "idle"
      BY <1>0, <2>4, Typing DEF AgInv, WakeInv, Active, Places
    <3>3. StackInv'
      BY <1>0, <2>4, <3>1, <3>2, Typing, PushFrame DEF AgInv, Places
    <3>4. WakeInv'
      BY <1>0, <2>2, <2>4, <3>1, <3>2 DEF WakeInv, Active
    <3>5. AwaitInv'
      BY <1>0, <2>4, <3>1, <3>2 DEF AgInv, AwaitInv, Starts
    <3>6. TakenInv'
      BY <2>2, <2>4 DEF TakenInv, Starts
    <3>. QED
      BY <2>3, <3>1, <3>3, <3>4, <3>5, <3>6 DEF AgInv
  <2>5. CASE tasks = <<>> /\ UNCHANGED <<called, at, stack>> /\ EnqueueJob("generator")
    <3>1. /\ ListInv' /\ closed' = closed /\ running' = running
          /\ kind' \in [Jobs -> GeneratorKinds \cup {"other"}]
          /\ \A i \in running : kind'[i] = kind[i]
          /\ \E j \in Jobs : WakeJobs' = WakeJobs \cup {j} /\ StartJobs' = StartJobs \cup {j}
      <4>1. "generator" \in GeneratorKinds \cup {"other"} /\ "generator" # "other"
        BY DEF GeneratorKinds
      <4>. QED
        BY <2>5, <4>1, Typing, EnqueueEffect DEF AgInv
    <3>2. WakeJobs = {} /\ pending = FALSE /\ at = "idle"
      BY <1>0, <2>5, Typing DEF AgInv, WakeInv, Active, Places
    <3>3. StackInv'
      BY <2>5, <3>1, <3>2, Typing, SameFrames DEF AgInv
    <3>4. WakeInv'
      BY <1>0, <2>2, <2>5, <3>1, <3>2 DEF WakeInv, Active
    <3>5. StartJobs' # {}
      BY <3>1
    <3>6. AwaitInv'
      BY <1>0, <2>5, <3>1, <3>2 DEF AgInv, AwaitInv
    <3>7. TakenInv'
      BY <2>2, <2>5, <3>5 DEF TakenInv, Starts
    <3>. QED
      BY <2>3, <3>1, <3>3, <3>4, <3>6, <3>7 DEF AgInv
  <2>6. CASE tasks # <<>> /\ NoJob /\ UNCHANGED <<called, at, stack>>
    <3>1. /\ ListInv' /\ WakeJobs' = WakeJobs /\ StartJobs' = StartJobs
          /\ closed' = closed /\ running' = running /\ kind' = kind
      BY <2>6, NoJobEffect DEF AgInv
    <3>2. StackInv'
      BY <1>0, <2>6, <3>1, Typing, SameFrames DEF AgInv
    <3>3. WakeInv'
      BY <1>0, <2>2, <2>6, <3>1 DEF AgInv, WakeInv, Active
    <3>4. AwaitInv'
      BY <1>0, <2>2, <2>6, <3>1 DEF AgInv, AwaitInv, Starts
    <3>5. TakenInv'
      BY <2>2, <2>6, <3>1 DEF AgInv, TakenInv, Starts
    <3>. QED
      BY <2>3, <3>1, <3>2, <3>3, <3>4, <3>5 DEF AgInv
  <2>. QED
    BY <1>2, <2>4, <2>5, <2>6
<1>. QED
  BY <1>1, <1>2 DEF Request

\* The promise is settled: the job takes over from it.
LEMMA SettleStep ==
  ASSUME AgInv, Settle
  PROVE  AgInv'
<1>1. /\ ~ closed /\ at # "leave" /\ pending /\ pending' = FALSE
      /\ UNCHANGED <<tasks, answered, requests, called, completed, await, iterator, at, stack>>
  BY DEF Settle, UserCode
<1>2. PICK k \in {"resolved", "rejected"} : EnqueueJob(k)
  BY DEF Settle
<1>3. /\ ListInv' /\ closed' = closed /\ running' = running
      /\ kind' \in [Jobs -> GeneratorKinds \cup {"other"}]
      /\ \A i \in running : kind'[i] = kind[i]
      /\ \E j \in Jobs : WakeJobs' = WakeJobs \cup {j} /\ StartJobs' = StartJobs
  <2>1. k \in GeneratorKinds \cup {"other"} /\ k # "other" /\ k # "generator"
    BY DEF GeneratorKinds
  <2>. QED
    BY <1>2, <2>1, Typing, EnqueueEffect DEF AgInv
<1>4. WakeJobs = {} /\ tasks # <<>> /\ ~ Active
  BY <1>1 DEF AgInv, WakeInv
<1>5. StackInv'
  <2>1. at' = "idle" <=> at = "idle"
    BY <1>1
  <2>. QED
    BY <1>1, <1>3, <2>1, Typing, SameFrames DEF AgInv
<1>6. WakeInv'
  BY <1>1, <1>3, <1>4 DEF WakeInv, Active
<1>7. AwaitInv' /\ TakenInv'
  BY <1>1, <1>3 DEF AgInv, AwaitInv, TakenInv, Starts
<1>8. OrderInv'
  BY <1>1, SameTasks DEF AgInv
<1>. QED
  BY <1>3, <1>5, <1>6, <1>7, <1>8 DEF AgInv

\* Another job does not wake the generator.
LEMMA EnqueueOtherStep ==
  ASSUME AgInv, EnqueueOther
  PROVE  AgInv'
<1>1. ~ closed /\ at # "leave" /\ EnqueueJob("other") /\ UNCHANGED <<genVars, stack>>
  BY DEF EnqueueOther, UserCode
<1>2. /\ ListInv' /\ closed' = closed /\ running' = running
      /\ kind' \in [Jobs -> GeneratorKinds \cup {"other"}]
      /\ \A i \in running : kind'[i] = kind[i]
      /\ WakeJobs' = WakeJobs /\ StartJobs' = StartJobs
  <2>1. "other" \in GeneratorKinds \cup {"other"} /\ "other" # "generator"
    OBVIOUS
  <2>2. /\ ListInv' /\ closed' = closed /\ running' = running
        /\ kind' \in [Jobs -> GeneratorKinds \cup {"other"}]
        /\ \A i \in running : kind'[i] = kind[i]
        /\ \E j \in Jobs :
             /\ WakeJobs' = WakeJobs \cup (IF "other" = "other" THEN {} ELSE {j})
             /\ StartJobs' = StartJobs \cup (IF "other" = "generator" THEN {j} ELSE {})
    BY <1>1, <2>1, Typing, EnqueueEffect DEF AgInv
  <2>. QED
    BY <2>1, <2>2
<1>3. StackInv'
  <2>1. at' = at /\ stack' = stack
    BY <1>1 DEF genVars
  <2>. QED
    BY <1>1, <1>2, <2>1, Typing, SameFrames DEF AgInv
<1>4. WakeInv' /\ AwaitInv' /\ TakenInv'
  BY <1>1, <1>2 DEF AgInv, WakeInv, AwaitInv, TakenInv, Starts, Active, genVars
<1>5. OrderInv'
  BY <1>1, SameTasks DEF AgInv, genVars
<1>. QED
  BY <1>2, <1>3, <1>4, <1>5 DEF AgInv

\* The next job is taken: if it wakes the generator, the generator was idle.
LEMMA TakeStep ==
  ASSUME AgInv, Take
  PROVE  AgInv'
<1>1. /\ ~ closed /\ at # "leave" /\ Process /\ stack' = Append(stack, head)
      /\ at' = CASE kind[head] = "generator" -> "run"
                 [] kind[head] \in {"resolved", "rejected"} -> "continue"
                 [] OTHER -> at
      /\ UNCHANGED <<kind, tasks, answered, requests, called, completed, await, iterator, pending>>
  BY DEF Take, UserCode
<1>2. ListInv' /\ head \in Jobs /\ head \in allocated \ running /\ head # Null
  BY <1>1, TakeList, JobQueueAssumption DEF AgInv
<1>3. running' = running \cup {head} /\ allocated' = allocated /\ closed' = closed
  BY <1>1 DEF Process
<1>4. WakeJobs' = WakeJobs \ {head} /\ StartJobs' = StartJobs \ {head}
  BY <1>1, <1>3 DEF WakeJobs, StartJobs
<1>5. CASE kind[head] = "other"
  <2>1. at' = at /\ head \notin WakeJobs /\ head \notin StartJobs
    BY <1>1, <1>5 DEF WakeJobs, StartJobs, GeneratorKinds
  <2>2. StackInv'
    <3>1. ~ (head = Null \/ kind[head] \in GeneratorKinds)
      BY <1>2, <1>5 DEF GeneratorKinds
    <3>2. running' = IF head = Null THEN running ELSE running \cup {head}
      BY <1>2, <1>3
    <3>. QED
      BY <1>1, <1>2, <1>3, <2>1, <3>1, <3>2, PushFrame DEF AgInv
  <2>3. WakeJobs' = WakeJobs /\ StartJobs' = StartJobs
    BY <1>4, <2>1
  <2>4. WakeInv' /\ AwaitInv' /\ TakenInv'
    BY <1>1, <1>3, <2>1, <2>3 DEF AgInv, WakeInv, AwaitInv, TakenInv, Active, Starts
  <2>5. OrderInv'
    BY <1>1, <2>1, SameTasks DEF AgInv
  <2>. QED
    BY <1>2, <2>2, <2>4, <2>5 DEF AgInv
<1>6. CASE kind[head] # "other"
  <2>1. kind[head] \in GeneratorKinds /\ head \in WakeJobs
    BY <1>2, <1>6, Typing DEF WakeJobs
  <2>2. tasks # <<>> /\ WakeJobs = {head} /\ pending = FALSE /\ at = "idle"
    BY <1>1, <2>1, Typing DEF AgInv, WakeInv, Active, Places
  <2>3. at' \in {"run", "continue"} /\ (at' = "run" <=> kind[head] = "generator")
    BY <1>1, <2>1 DEF GeneratorKinds
  <2>4. StackInv'
    <3>1. at' \in Places \ {"idle", "leave"}
      BY <2>3 DEF Places
    <3>2. running' = IF head = Null THEN running ELSE running \cup {head}
      BY <1>2, <1>3
    <3>. QED
      BY <1>1, <1>2, <1>3, <2>1, <2>2, <3>1, <3>2, PushFrame DEF AgInv
  <2>5. WakeJobs' = {} /\ StartJobs' = {} /\ (StartJobs # {} <=> kind[head] = "generator")
    BY <1>2, <1>4, <2>2, Typing DEF StartJobs
  <2>6. WakeInv'
    BY <1>1, <1>3, <2>2, <2>3, <2>5 DEF WakeInv, Active
  <2>7. Starts' <=> Starts
    BY <2>2, <2>3, <2>5 DEF Starts
  <2>8. AwaitInv'
    BY <1>1, <1>3, <2>2, <2>3, <2>7 DEF AgInv, AwaitInv
  <2>9. TakenInv'
    BY <1>1, <1>3, <2>2, <2>3, <2>7 DEF AgInv, TakenInv
  <2>10. OrderInv'
    <3>1. ~ completed
      BY <2>2, Typing DEF AgInv, OrderInv
    <3>. QED
      BY <1>1, <3>1, SameTasks DEF AgInv
  <2>. QED
    BY <1>2, <2>4, <2>6, <2>8, <2>9, <2>10 DEF AgInv
<1>. QED
  BY <1>5, <1>6

\* Another call returns: the generator is not on top.
LEMMA FinishOtherStep ==
  ASSUME AgInv, FinishOther
  PROVE  AgInv'
<1>1. /\ stack # <<>> /\ Return /\ UNCHANGED genVars
      /\ ~ GeneratorFrame(Len(stack))
  BY DEF FinishOther, GeneratorFrame, Top, GeneratorKinds
<1>2. ~ closed /\ at' = at /\ at # "leave"
  BY <1>1 DEF AgInv, StackInv, genVars
<1>3. /\ ListInv' /\ StackInv' /\ closed' = closed
      /\ WakeJobs' = WakeJobs /\ StartJobs' = StartJobs
  BY <1>1, <1>2, PopFrame DEF AgInv
<1>4. WakeInv' /\ AwaitInv' /\ TakenInv'
  BY <1>1, <1>3 DEF AgInv, WakeInv, AwaitInv, TakenInv, Starts, Active, genVars
<1>5. OrderInv'
  BY <1>1, SameTasks DEF AgInv, genVars
<1>. QED
  BY <1>3, <1>4, <1>5 DEF AgInv

\* The call of the generator returns, which is on top.
LEMMA LeaveStep ==
  ASSUME AgInv, Leave
  PROVE  AgInv'
<1>1. /\ at = "leave" /\ at' = "idle" /\ Return /\ ~ closed /\ stack # <<>>
      /\ UNCHANGED <<tasks, answered, requests, called, completed, await, iterator, pending>>
  BY DEF Leave, AtTop
<1>2. GeneratorFrame(Len(stack))
  BY AtTopFrame DEF Leave, AgInv
<1>3. /\ ListInv' /\ StackInv' /\ closed' = closed
      /\ WakeJobs' = WakeJobs /\ StartJobs' = StartJobs
  BY <1>1, <1>2, PopFrame DEF AgInv
<1>4. WakeInv' /\ AwaitInv' /\ TakenInv'
  BY <1>1, <1>3 DEF AgInv, WakeInv, AwaitInv, TakenInv, Starts, Active
<1>5. OrderInv'
  <2>1. tasks = <<>> \/ ~ completed
    BY <1>1 DEF AgInv, OrderInv
  <2>. QED
    BY <1>1, <2>1, SameTasks DEF AgInv
<1>. QED
  BY <1>3, <1>4, <1>5 DEF AgInv

\* What the invariant says where the generator's code is in progress.
LEMMA ActiveFacts ==
  ASSUME AgInv, NEW p \in {"run", "continue", "throw", "body", "finalize"}, AtTop(p)
  PROVE  /\ at = p /\ ~ closed /\ GeneratorFrame(Len(stack))
         /\ tasks # <<>> /\ WakeJobs = {} /\ StartJobs = {} /\ pending = FALSE
         /\ p # "finalize" => completed = FALSE
         /\ p \notin {"run", "finalize"} => tasks[1].taken = TRUE
<1>1. at = p /\ ~ closed /\ GeneratorFrame(Len(stack))
  BY AtTopFrame DEF AgInv
<1>2. Active
  BY <1>1 DEF Active
<1>3. tasks # <<>> /\ WakeJobs = {} /\ StartJobs = {} /\ pending = FALSE
  BY <1>1, <1>2, Typing DEF AgInv, WakeInv
<1>4. p # "finalize" => completed = FALSE
  BY <1>1, <1>3, Typing DEF AgInv, OrderInv
<1>5. p \notin {"run", "finalize"} => tasks[1].taken = TRUE
  BY <1>1, <1>3, Typing DEF AgInv, TakenInv, Starts
<1>. QED
  BY <1>1, <1>3, <1>4, <1>5

\* opfunc_async_generator_yield: the task is answered, and the generator is
\* woken if another one waits.
LEMMA AnswerYieldStep ==
  ASSUME AgInv, NEW p \in {"continue", "body"}, AtTop(p), AnswerYield,
         await' \in {"none", "yieldOperation"}, iterator' = (await' \in YieldStates)
  PROVE  AgInv'
<1>1. /\ at = p /\ ~ closed /\ GeneratorFrame(Len(stack))
      /\ tasks # <<>> /\ WakeJobs = {} /\ StartJobs = {} /\ pending = FALSE
      /\ completed = FALSE
  BY ActiveFacts
<1>2. /\ answered' = Append(answered, tasks[1].id) /\ tasks' = Tail(tasks) /\ at' = "leave"
      /\ UNCHANGED <<requests, called, completed, pending, stack>>
  BY DEF AnswerYield
<1>3. /\ Numbered' /\ requests' = Len(answered') + Len(tasks')
      /\ \A i \in 1..Len(tasks') : ~ tasks'[i].taken
      /\ tasks' = <<>> <=> ~ (Len(tasks) > 1)
      /\ tasks' # <<>> => 1 \in 1..Len(tasks')
  BY <1>1, <1>2, AnswerTask DEF AgInv
<1>4. /\ ListInv' /\ closed' = closed /\ running' = running
      /\ kind' \in [Jobs -> GeneratorKinds \cup {"other"}]
      /\ \A i \in running : kind'[i] = kind[i]
      /\ IF tasks' = <<>>
           THEN WakeJobs' = {} /\ StartJobs' = {}
           ELSE \E j \in Jobs : WakeJobs' = {j} /\ StartJobs' = {j}
  <2>1. CASE Len(tasks) > 1
    <3>1. EnqueueJob("generator")
      BY <2>1 DEF AnswerYield
    <3>2. "generator" \in GeneratorKinds \cup {"other"} /\ "generator" # "other"
      BY DEF GeneratorKinds
    <3>3. /\ ListInv' /\ closed' = closed /\ running' = running
          /\ kind' \in [Jobs -> GeneratorKinds \cup {"other"}]
          /\ \A i \in running : kind'[i] = kind[i]
          /\ \E j \in Jobs : WakeJobs' = WakeJobs \cup {j} /\ StartJobs' = StartJobs \cup {j}
      BY <3>1, <3>2, Typing, EnqueueEffect DEF AgInv
    <3>. QED
      BY <1>1, <1>3, <2>1, <3>3
  <2>2. CASE ~ (Len(tasks) > 1)
    <3>1. NoJob
      BY <2>2 DEF AnswerYield
    <3>2. /\ ListInv' /\ WakeJobs' = WakeJobs /\ StartJobs' = StartJobs
          /\ closed' = closed /\ running' = running /\ kind' = kind
      BY <3>1, NoJobEffect DEF AgInv
    <3>. QED
      BY <1>1, <1>3, <2>2, <3>2, Typing
  <2>. QED
    BY <2>1, <2>2
<1>5. StackInv'
  BY <1>1, <1>2, <1>4, Typing, SameFrames DEF AgInv, Places
<1>6. WakeInv'
  BY <1>1, <1>2, <1>4 DEF WakeInv, Active
<1>7. AwaitInv'
  BY <1>2 DEF AwaitInv, YieldStates
<1>8. OrderInv'
  BY <1>1, <1>2, <1>3 DEF OrderInv, Numbered
<1>9. TakenInv'
  <2>1. \A i \in 2..Len(tasks') : i \in 1..Len(tasks')
    BY <1>3 DEF Numbered
  <2>2. tasks' # <<>> => ~ tasks'[1].taken /\ StartJobs' # {}
    BY <1>3, <1>4
  <2>. QED
    BY <1>3, <2>1, <2>2 DEF TakenInv, Starts
<1>. QED
  BY <1>4, <1>5, <1>6, <1>7, <1>8, <1>9 DEF AgInv

\* The body yields: it is not in a yield*.
LEMMA YieldStep ==
  ASSUME AgInv, Yield
  PROVE  AgInv'
<1>1. AtTop("body") /\ AnswerYield /\ await' = await /\ iterator' = iterator
  BY DEF Yield
<1>2. at = "body"
  BY <1>1 DEF AtTop
<1>3. await = "none" /\ iterator = (await \in YieldStates)
  BY <1>2 DEF AgInv, AwaitInv
<1>. QED
  BY <1>1, <1>3, AnswerYieldStep

\* A value of the inner iterator is yielded.
LEMMA ResolvedValueStep ==
  ASSUME AgInv, ResolvedValue
  PROVE  AgInv'
<1>1. /\ AtTop("continue") /\ AnswerYield /\ iterator' = iterator
      /\ await = "yieldNextValue" /\ await' = "yieldOperation"
  BY DEF ResolvedValue, ChangeState
<1>2. iterator' = (await' \in YieldStates)
  BY <1>1 DEF AgInv, AwaitInv, YieldStates
<1>. QED
  BY <1>1, <1>2, AnswerYieldStep

\* The generator is suspended until a promise is settled, with its task taken.
LEMMA SuspendStep ==
  ASSUME AgInv, NEW p \in {"run", "continue", "throw", "body"}, AtTop(p),
         AwaitPromise, at' = "leave",
         UNCHANGED <<answered, requests, called, completed, stack>>,
         await' \in {"none"} \cup YieldStates \cup ForStates,
         iterator' = (await' \in YieldStates),
         IF p = "run" THEN Took ELSE UNCHANGED tasks
  PROVE  AgInv'
<1>1. /\ at = p /\ ~ closed /\ GeneratorFrame(Len(stack))
      /\ tasks # <<>> /\ WakeJobs = {} /\ StartJobs = {} /\ pending = FALSE
      /\ completed = FALSE
      /\ p # "run" => tasks[1].taken = TRUE
  BY ActiveFacts
<1>2. /\ ListInv' /\ closed' = closed /\ running' = running
      /\ kind' \in [Jobs -> GeneratorKinds \cup {"other"}]
      /\ \A i \in running : kind'[i] = kind[i]
      /\ StartJobs' = {}
      /\ \/ pending' = TRUE /\ WakeJobs' = {}
         \/ pending' = FALSE /\ \E j \in Jobs : WakeJobs' = {j}
  BY <1>1, Typing, AwaitEffect DEF AgInv
<1>3. /\ Numbered' /\ Len(tasks') = Len(tasks) /\ tasks' # <<>>
      /\ \A i \in 2..Len(tasks') : ~ tasks'[i].taken
      /\ tasks'[1].taken = TRUE
  <2>1. CASE p = "run"
    BY <1>1, <2>1, TakeTask DEF AgInv
  <2>2. CASE p # "run"
    BY <1>1, <2>2 DEF AgInv, OrderInv, TakenInv, Numbered
  <2>. QED
    BY <2>1, <2>2
<1>4. StackInv'
  BY <1>1, <1>2, Typing, SameFrames DEF AgInv, Places
<1>5. WakeInv'
  BY <1>1, <1>2, <1>3 DEF WakeInv, Active
<1>6. AwaitInv'
  BY <1>2, <1>3 DEF AwaitInv, Starts
<1>7. OrderInv'
  BY <1>1, <1>3 DEF AgInv, OrderInv, Numbered
<1>8. TakenInv'
  BY <1>2, <1>3 DEF TakenInv, Starts
<1>. QED
  BY <1>2, <1>4, <1>5, <1>6, <1>7, <1>8 DEF AgInv

\* The generator stays on top of the stack and goes on somewhere else, with its
\* task taken.
LEMMA MoveStep ==
  ASSUME AgInv, NEW p \in {"run", "continue", "throw"}, AtTop(p), NoJob,
         UNCHANGED <<answered, requests, called, completed, pending, stack>>,
         \/ at' = "body" /\ await' = "none"
         \/ at' = "throw" /\ await' = "yieldOperation",
         iterator' = (await' \in YieldStates),
         IF p = "run" THEN Took ELSE UNCHANGED tasks
  PROVE  AgInv'
<1>1. /\ at = p /\ ~ closed /\ GeneratorFrame(Len(stack))
      /\ tasks # <<>> /\ WakeJobs = {} /\ StartJobs = {} /\ pending = FALSE
      /\ completed = FALSE
      /\ p # "run" => tasks[1].taken = TRUE
  BY ActiveFacts
<1>2. /\ ListInv' /\ WakeJobs' = WakeJobs /\ StartJobs' = StartJobs
      /\ closed' = closed /\ running' = running /\ kind' = kind
  BY NoJobEffect DEF AgInv
<1>3. /\ Numbered' /\ Len(tasks') = Len(tasks) /\ tasks' # <<>>
      /\ \A i \in 2..Len(tasks') : ~ tasks'[i].taken
      /\ tasks'[1].taken = TRUE
  <2>1. CASE p = "run"
    BY <1>1, <2>1, TakeTask DEF AgInv
  <2>2. CASE p # "run"
    BY <1>1, <2>2 DEF AgInv, OrderInv, TakenInv, Numbered
  <2>. QED
    BY <2>1, <2>2
<1>4. StackInv'
  BY <1>1, <1>2, Typing, SameFrames DEF AgInv, Places
<1>5. WakeInv'
  BY <1>1, <1>2, <1>3 DEF WakeInv, Active
<1>6. AwaitInv'
  BY <1>1, <1>2, <1>3 DEF AwaitInv, Starts, YieldStates
<1>7. OrderInv'
  BY <1>1, <1>3 DEF AgInv, OrderInv, Numbered
<1>8. TakenInv'
  BY <1>1, <1>2, <1>3 DEF TakenInv, Starts
<1>. QED
  BY <1>2, <1>4, <1>5, <1>6, <1>7, <1>8 DEF AgInv

\* The body goes on.
LEMMA ResumeStep ==
  ASSUME AgInv, NEW p \in {"run", "continue", "throw"}, AtTop(p), Resume,
         IF p = "run" THEN Took ELSE UNCHANGED tasks
  PROVE  AgInv'
<1>1. /\ at' = "body" /\ await' = "none" /\ iterator' = FALSE /\ NoJob
      /\ UNCHANGED <<answered, requests, called, completed, pending, stack>>
  BY DEF Resume, ClearAwait
<1>2. iterator' = (await' \in YieldStates)
  <2>1. ("none" \in YieldStates) = FALSE
    BY DEF YieldStates
  <2>. QED
    BY <1>1, <2>1
<1>. QED
  BY <1>1, <1>2, MoveStep

\* A call of the inner iterator is awaited.
LEMMA DelegateStep ==
  ASSUME AgInv, NEW p \in {"run", "continue", "throw"}, AtTop(p),
         NEW from \in YieldStates, NEW to \in YieldStates, Delegate(from, to), await = from,
         IF p = "run" THEN Took ELSE UNCHANGED tasks
  PROVE  AgInv'
<1>1. /\ at' = "leave" /\ await' = to /\ AwaitPromise /\ iterator' = iterator
      /\ UNCHANGED <<answered, requests, called, completed, stack>>
  BY DEF Delegate, ChangeState
<1>2. iterator' = (await' \in YieldStates) /\ await' \in {"none"} \cup YieldStates \cup ForStates
  BY <1>1 DEF AgInv, AwaitInv
<1>. QED
  BY <1>1, <1>2, SuspendStep

\* The body awaits a promise, or begins a yield*.
LEMMA AwaitStep ==
  ASSUME AgInv, Await
  PROVE  AgInv'
<1>1. /\ AtTop("body") /\ AwaitPromise /\ at' = "leave" /\ UNCHANGED tasks
      /\ UNCHANGED <<answered, requests, called, completed, stack>>
      /\ await' \in {"none", "yieldNext"} \cup ForStates
      /\ iterator' = (await' = "yieldNext")
  BY DEF Await, ForNext, ForClose, ForStates
<1>2. /\ await' \in {"none"} \cup YieldStates \cup ForStates
      /\ iterator' = (await' \in YieldStates)
  BY <1>1 DEF YieldStates, ForStates
<1>. QED
  BY <1>1, <1>2, SuspendStep

\* A task is started: a yield* can only be in the state YIELD_OPERATION.
LEMMA RunStep ==
  ASSUME AgInv, Run
  PROVE  AgInv'
<1>1. AtTop("run") /\ Took
  BY DEF Run
<1>2. await \in {"none", "yieldOperation"}
  <2>1. at = "run" /\ ~ closed
    BY <1>1 DEF AtTop
  <2>. QED
    BY <2>1 DEF AgInv, AwaitInv, Starts
<1>3. CASE Resume
  BY <1>1, <1>3, ResumeStep
<1>4. ASSUME NEW to \in {"yieldNext", "yieldClose", "yieldReturn"},
             await # "none", Delegate("yieldOperation", to)
      PROVE  AgInv'
  <2>1. to \in YieldStates /\ "yieldOperation" \in YieldStates /\ await = "yieldOperation"
    BY <1>2, <1>4 DEF YieldStates
  <2>. QED
    BY <1>1, <1>4, <2>1, DelegateStep
<1>. QED
  BY <1>3, <1>4 DEF Run

\* A rejection resumes the body or is thrown into the iterator.
LEMMA RejectedStep ==
  ASSUME AgInv, Rejected
  PROVE  AgInv'
<1>1. AtTop("continue") /\ UNCHANGED tasks
  BY DEF Rejected
<1>2. CASE Resume
  BY <1>1, <1>2, ResumeStep
<1>3. CASE /\ await = "yieldReturn" /\ await' = "yieldOperation" /\ at' = "throw" /\ NoJob
           /\ UNCHANGED <<answered, requests, called, completed, iterator, pending, stack>>
  <2>1. iterator' = (await' \in YieldStates)
    BY <1>3 DEF AgInv, AwaitInv, YieldStates
  <2>. QED
    BY <1>1, <1>3, <2>1, MoveStep
<1>. QED
  BY <1>2, <1>3 DEF Rejected

\* The iterator is told of a throw.
LEMMA YieldThrowStep ==
  ASSUME AgInv, YieldThrow
  PROVE  AgInv'
<1>1. AtTop("throw") /\ UNCHANGED tasks
  BY DEF YieldThrow
<1>2. CASE Resume
  BY <1>1, <1>2, ResumeStep
<1>3. ASSUME NEW to \in {"yieldNext", "yieldClose"}, Delegate("yieldOperation", to)
      PROVE  AgInv'
  <2>1. at = "throw"
    BY <1>1 DEF AtTop
  <2>2. await = "yieldOperation"
    BY <2>1 DEF AgInv, AwaitInv
  <2>3. to \in YieldStates /\ "yieldOperation" \in YieldStates
    BY <1>3 DEF YieldStates
  <2>. QED
    BY <1>1, <1>3, <2>2, <2>3, DelegateStep
<1>. QED
  BY <1>2, <1>3 DEF YieldThrow

\* The result of a call of the iterator.
LEMMA ResolvedStep ==
  ASSUME AgInv, Resolved
  PROVE  AgInv'
<1>1. AtTop("continue") /\ UNCHANGED tasks
  BY DEF Resolved
<1>2. CASE Resume
  BY <1>1, <1>2, ResumeStep
<1>3. CASE await \in {"yieldNext", "yieldNextReturn"} /\ Delegate(await, "yieldNextValue")
  <2>1. await \in YieldStates /\ "yieldNextValue" \in YieldStates
    BY <1>3 DEF YieldStates
  <2>. QED
    BY <1>1, <1>3, <2>1, DelegateStep
<1>4. CASE await = "yieldReturn" /\ Delegate("yieldReturn", "yieldNextReturn")
  <2>1. "yieldReturn" \in YieldStates /\ "yieldNextReturn" \in YieldStates
    BY DEF YieldStates
  <2>. QED
    BY <1>1, <1>4, <2>1, DelegateStep
<1>. QED
  BY <1>2, <1>3, <1>4 DEF Resolved

\* The body ends.
LEMMA EndStep ==
  ASSUME AgInv, End
  PROVE  AgInv'
<1>1. /\ AtTop("body") /\ completed' = TRUE /\ at' = "finalize" /\ NoJob
      /\ UNCHANGED <<tasks, answered, requests, called, await, iterator, pending, stack>>
  BY DEF End
<1>2. /\ at = "body" /\ ~ closed /\ GeneratorFrame(Len(stack))
      /\ tasks # <<>> /\ WakeJobs = {} /\ StartJobs = {} /\ pending = FALSE
  BY <1>1, ActiveFacts
<1>3. /\ ListInv' /\ WakeJobs' = WakeJobs /\ StartJobs' = StartJobs
      /\ closed' = closed /\ running' = running /\ kind' = kind
  BY <1>1, NoJobEffect DEF AgInv
<1>4. StackInv'
  BY <1>1, <1>2, <1>3, Typing, SameFrames DEF AgInv, Places
<1>5. WakeInv'
  BY <1>1, <1>2, <1>3 DEF WakeInv, Active
<1>6. AwaitInv' /\ TakenInv'
  BY <1>1, <1>2, <1>3 DEF AgInv, AwaitInv, TakenInv, Starts
<1>7. OrderInv'
  BY <1>1 DEF AgInv, OrderInv
<1>. QED
  BY <1>3, <1>4, <1>5, <1>6, <1>7 DEF AgInv

\* A task that is left is answered.
LEMMA FinalizeStep ==
  ASSUME AgInv, Finalize
  PROVE  AgInv'
<1>1. /\ AtTop("finalize") /\ tasks' = Tail(tasks) /\ answered' = Append(answered, tasks[1].id)
      /\ at' = (IF Len(tasks) > 1 THEN "finalize" ELSE "leave") /\ NoJob
      /\ UNCHANGED <<requests, called, completed, await, iterator, pending, stack>>
  BY DEF Finalize
<1>2. /\ at = "finalize" /\ ~ closed /\ GeneratorFrame(Len(stack))
      /\ tasks # <<>> /\ WakeJobs = {} /\ StartJobs = {} /\ pending = FALSE
  BY <1>1, ActiveFacts
<1>3. /\ ListInv' /\ WakeJobs' = WakeJobs /\ StartJobs' = StartJobs
      /\ closed' = closed /\ running' = running /\ kind' = kind
  BY <1>1, NoJobEffect DEF AgInv
<1>4. /\ Numbered'
      /\ ~ completed => requests' = Len(answered') + Len(tasks')
      /\ \A i \in 1..Len(tasks') : ~ tasks'[i].taken
      /\ tasks' = <<>> <=> ~ (Len(tasks) > 1)
  BY <1>1, <1>2, AnswerTask DEF AgInv
<1>5. (tasks' = <<>> /\ at' = "leave") \/ (tasks' # <<>> /\ at' = "finalize")
  BY <1>1, <1>4
<1>6. StackInv'
  BY <1>1, <1>2, <1>3, <1>5, Typing, SameFrames DEF AgInv, Places
<1>7. WakeInv'
  BY <1>1, <1>2, <1>3, <1>5 DEF WakeInv, Active
<1>8. AwaitInv'
  BY <1>1, <1>2, <1>3, <1>5 DEF AgInv, AwaitInv
<1>9. TakenInv'
  <2>1. \A i \in 2..Len(tasks') : i \in 1..Len(tasks')
    BY <1>4 DEF Numbered
  <2>. QED
    BY <1>4, <1>5, <2>1 DEF TakenInv
<1>10. OrderInv'
  BY <1>1, <1>4, <1>5, Typing DEF OrderInv, Numbered
<1>. QED
  BY <1>3, <1>6, <1>7, <1>8, <1>9, <1>10 DEF AgInv

\* The context is closed while nothing runs.
LEMMA CloseContextStep ==
  ASSUME AgInv, CloseContext
  PROVE  AgInv'
<1>1. /\ stack = <<>> /\ closed' = TRUE /\ UNCHANGED <<head, tail, next, allocated, running>>
      /\ UNCHANGED <<kind, genVars, stack>>
  BY DEF CloseContext, Close
<1>2. ListInv'
  BY <1>1, SameList DEF AgInv
<1>3. StackInv'
  BY <1>1 DEF AgInv, StackInv, GeneratorFrame, genVars
<1>4. WakeInv' /\ AwaitInv' /\ TakenInv'
  BY <1>1 DEF AgInv, WakeInv, AwaitInv, TakenInv, genVars
<1>5. OrderInv'
  BY <1>1, SameTasks DEF AgInv, genVars
<1>. QED
  BY <1>2, <1>3, <1>4, <1>5 DEF AgInv

\* A job on the list is freed with the context.
LEMMA DropJobStep ==
  ASSUME AgInv, DropJob
  PROVE  /\ AgInv'
         /\ Walk # <<>> /\ Walk' = Tail(Walk) /\ running' = running
<1>1. /\ FreeEnqueued /\ closed /\ UNCHANGED <<running, closed>>
      /\ UNCHANGED <<kind, genVars, stack>>
  BY DEF DropJob, FreeEnqueued
<1>2. running = {} /\ stack = <<>>
  BY <1>1 DEF AgInv, StackInv
<1>3. ListInv' /\ Walk # <<>> /\ Walk' = Tail(Walk)
  BY <1>1, <1>2, TakeList DEF AgInv
<1>4. StackInv'
  BY <1>1, <1>2 DEF AgInv, StackInv, GeneratorFrame, genVars
<1>5. WakeInv' /\ AwaitInv' /\ TakenInv'
  BY <1>1 DEF AgInv, WakeInv, AwaitInv, TakenInv, genVars
<1>6. OrderInv'
  BY <1>1, SameTasks DEF AgInv, genVars
<1>. QED
  BY <1>1, <1>3, <1>4, <1>5, <1>6 DEF AgInv

-----------------------------------------------------------------------------
(* The theorems                                                            *)

\* A new generator and an empty queue: nothing is on the list.
LEMMA InitInv ==
  ASSUME AgInit
  PROVE  AgInv /\ Walk = <<>>
<1>1. /\ head = Null /\ tail = Null /\ next = [j \in Jobs |-> Null]
      /\ allocated = {} /\ running = {} /\ closed = FALSE
  BY DEF AgInit, Init
<1>2. Spells(next, head, <<>>)
  BY <1>1 DEF Spells, Place
<1>3. Walk = <<>>
  BY <1>1, <1>2, SpelledIsWalked DEF Walk
<1>4. ListInv
  <2>1. OnList = {}
    BY <1>3 DEF OnList
  <2>. QED
    BY <1>1, <1>2, <1>3, <2>1 DEF ListInv, TypeOK
<1>5. StackInv
  BY <1>1 DEF AgInit, StackInv, GeneratorFrame
<1>6. WakeInv /\ AwaitInv
  <2>1. ("none" \in YieldStates) = FALSE
    BY DEF YieldStates
  <2>2. WakeJobs = {}
    BY <1>1 DEF WakeJobs
  <2>. QED
    BY <1>1, <2>1, <2>2 DEF AgInit, WakeInv, AwaitInv, Active
<1>7. OrderInv /\ TakenInv
  <2>1. /\ tasks = <<>> /\ answered = <<>> /\ requests = 0 /\ called = FALSE /\ completed = FALSE
    BY DEF AgInit
  <2>2. tasks \in Seq(Tasks) /\ answered \in Seq(Nat) /\ Len(tasks) = 0 /\ Len(answered) = 0
    BY <2>1
  <2>3. requests \in 0..MaxRequests /\ requests = Len(answered) + Len(tasks)
    BY <2>1, <2>2, AsyncGeneratorAssumption
  <2>4. \A i \in 1..0 : FALSE
    OBVIOUS
  <2>5. OrderInv
    BY <2>1, <2>2, <2>3, <2>4 DEF OrderInv
  <2>6. \A i \in 2..0 : FALSE
    OBVIOUS
  <2>7. TakenInv
    BY <2>1, <2>2, <2>6 DEF TakenInv
  <2>. QED
    BY <2>5, <2>7
<1>. QED
  BY <1>3, <1>4, <1>5, <1>6, <1>7 DEF AgInv

\* The invariant is inductive.
LEMMA NextInv ==
  ASSUME AgInv, [AgNext]_agVars
  PROVE  AgInv'
<1>1. CASE UNCHANGED agVars
  <2>1. NoJob /\ UNCHANGED genVars /\ stack' = stack
    BY <1>1 DEF agVars, NoJob
  <2>2. /\ ListInv' /\ WakeJobs' = WakeJobs /\ StartJobs' = StartJobs
        /\ closed' = closed /\ running' = running /\ kind' = kind
    BY <2>1, NoJobEffect DEF AgInv
  <2>3. StackInv' /\ WakeInv' /\ AwaitInv' /\ OrderInv' /\ TakenInv'
    BY <2>1, <2>2 DEF AgInv, StackInv, GeneratorFrame, WakeInv, Active, AwaitInv, Starts,
                      OrderInv, TakenInv, genVars
  <2>. QED
    BY <2>2, <2>3 DEF AgInv
<1>2. CASE AgNext
  BY <1>2, RequestStep, SettleStep, EnqueueOtherStep, TakeStep, FinishOtherStep, YieldStep,
     AwaitStep, EndStep, RunStep, RejectedStep, YieldThrowStep, ResolvedStep,
     ResolvedValueStep, FinalizeStep, LeaveStep, CloseContextStep, DropJobStep
     DEF AgNext, Engine
<1>. QED
  BY <1>1, <1>2

\* It holds in every reachable state.
THEOREM GeneratorInvariant == AgSpec => []AgInv
<1>1. AgInit => AgInv
  BY InitInv
<1>2. AgInv /\ [AgNext]_agVars => AgInv'
  BY NextInv
<1>. QED
  BY <1>1, <1>2, PTL DEF AgSpec

\* The linked list of ecma-jobqueue.c is sound although its tail may dangle and
\* freed jobs are used again: every allocated job is on the list once or being
\* processed, and the tail is the last one while the list is not empty.
THEOREM JobListCorrect == AgSpec => []JobListSound
<1>1. AgInv => JobListSound
  <2>. SUFFICES ASSUME AgInv PROVE JobListSound
    OBVIOUS
  <2>1. Spells(next, head, Walk) /\ Walk \in Seq(Jobs) /\ Len(Walk) \in Nat
    BY DEF AgInv, ListInv, Spells
  <2>2. ListExact
    <3>1. Cardinality({Walk[i] : i \in 1..Len(Walk)}) = Len(Walk)
      BY <2>1, DifferentJobs DEF Spells
    <3>. QED
      BY <3>1 DEF AgInv, ListInv, ListExact, OnList
  <2>3. TailIsLast
    <3>. SUFFICES ASSUME head # Null PROVE tail = Walk[Len(Walk)] /\ next[tail] = Null
      BY DEF TailIsLast
    <3>1. tail = Walk[Len(Walk)]
      BY DEF AgInv, ListInv
    <3>2. Len(Walk) \in 1..Len(Walk)
      <4>1. head = Place(Walk, 1)
        BY <2>1 DEF Spells
      <4>. QED
        BY <2>1, <4>1 DEF Place
    <3>3. next[Walk[Len(Walk)]] = Place(Walk, Len(Walk) + 1)
      BY <2>1, <3>2 DEF Spells
    <3>. QED
      BY <2>1, <3>1, <3>3 DEF Place
  <2>4. AgTypeOK
    <3>1. \A i \in 1..Len(tasks) : tasks[i].op \in Operations /\ tasks[i].id \in 1..MaxRequests
      <4>1. \A i \in 1..Len(tasks) : tasks[i] \in Tasks
        BY DEF AgInv, OrderInv
      <4>. QED
        BY <4>1 DEF Tasks
    <3>2. iterator \in BOOLEAN
      BY DEF AgInv, AwaitInv
    <3>. QED
      BY <3>1, <3>2 DEF AgInv, ListInv, StackInv, WakeInv, AwaitInv, OrderInv, AgTypeOK
  <2>. QED
    BY <2>2, <2>3, <2>4 DEF JobListSound
<1>. QED
  BY <1>1, GeneratorInvariant, PTL

\* While tasks are open exactly one job, promise or call goes on with the
\* generator, and without a task there is none.
THEOREM WakeUpCorrect == AgSpec => []OneWakeUp
<1>1. AgInv => OneWakeUp
  <2>. SUFFICES ASSUME AgInv, ~ closed PROVE WakeUps = IF tasks = <<>> THEN 0 ELSE 1
    BY DEF OneWakeUp
  <2>1. {j \in OnList : kind[j] \in GeneratorKinds} = WakeJobs
    BY DEF AgInv, ListInv, WakeJobs
  <2>2. WakeUps = Cardinality(WakeJobs) + (IF pending THEN 1 ELSE 0) + (IF Active THEN 1 ELSE 0)
    BY <2>1 DEF WakeUps, Active
  <2>3. WakeJobs = {} => Cardinality(WakeJobs) = 0
    BY FS_EmptySet
  <2>4. \A j \in Jobs : WakeJobs = {j} => Cardinality(WakeJobs) = 1
    BY FS_Singleton
  <2>5. CASE tasks = <<>>
    <3>1. WakeJobs = {} /\ ~ pending /\ ~ Active
      BY <2>5 DEF AgInv, WakeInv
    <3>. QED
      BY <2>2, <2>3, <2>5, <3>1
  <2>6. CASE tasks # <<>>
    <3>1. \/ WakeJobs = {} /\ pending /\ ~ Active
          \/ WakeJobs = {} /\ ~ pending /\ Active
          \/ (\E j \in Jobs : WakeJobs = {j}) /\ ~ pending /\ ~ Active
      BY <2>6 DEF AgInv, WakeInv
    <3>. QED
      BY <2>2, <2>3, <2>4, <2>6, <3>1
  <2>. QED
    BY <2>5, <2>6
<1>. QED
  BY <1>1, GeneratorInvariant, PTL

\* The await state, the iterator of a yield* and the task being served agree
\* with what the generator waits for.
THEOREM AwaitCorrect == AgSpec => []AwaitMatches
<1>1. AgInv => AwaitMatches
  <2>. SUFFICES ASSUME AgInv PROVE AwaitMatches
    OBVIOUS
  <2>1. (\E j \in OnList : kind[j] = "generator") <=> StartJobs # {}
    BY DEF AgInv, ListInv, StartJobs
  <2>2. iterator <=> await \in YieldStates
    BY DEF AgInv, AwaitInv
  <2>3. at = "body" => await = "none"
    BY DEF AgInv, AwaitInv
  <2>4. \A i \in 2..Len(tasks) : ~ tasks[i].taken
    BY DEF AgInv, TakenInv
  <2>5. ~ closed /\ tasks # <<>> /\ at # "finalize" => (tasks[1].taken <=> ~ Starts)
    BY DEF AgInv, TakenInv
  <2>6. await \in YieldStates \ {"yieldOperation"} /\ ~ closed => tasks # <<>>
    BY DEF AgInv, AwaitInv, YieldStates
  <2>. QED
    BY <2>1, <2>2, <2>3, <2>4, <2>5, <2>6 DEF AwaitMatches, Starts
<1>. QED
  BY <1>1, GeneratorInvariant, PTL

\* Every task is answered once, in the order of the requests, and none is
\* skipped when the generator ends with tasks waiting.
THEOREM OrderCorrect == AgSpec => []AnsweredInOrder
<1>1. AgInv => AnsweredInOrder
  <2>. SUFFICES ASSUME AgInv PROVE AnsweredInOrder
    OBVIOUS
  <2> DEFINE ids == [i \in 1..Len(tasks) |-> tasks[i].id]
             open == answered \o ids
             n == Len(answered)
             m == Len(tasks)
  <2>1. n \in Nat /\ m \in Nat /\ answered \in Seq(Nat)
    BY DEF AgInv, OrderInv
  <2>2. (\A i \in 1..n : answered[i] = i) /\ (\A i \in 1..m : tasks[i].id = n + i)
    BY DEF AgInv, OrderInv
  <2>3. ids \in Seq(Nat) /\ Len(ids) = m /\ \A i \in 1..m : ids[i] = n + i
    <3>1. \A i \in 1..m : ids[i] = n + i /\ n + i \in Nat
      BY <2>1, <2>2
    <3>2. ids \in [1..m -> Nat]
      BY <3>1
    <3>. HIDE DEF ids, m
    <3>3. ids \in Seq(Nat) /\ Len(ids) = m
      BY <2>1, <3>2
    <3>. QED
      BY <3>1, <3>3
  <2>4. /\ Len(open) = n + m
        /\ \A i \in 1..(n + m) : open[i] = IF i <= n THEN answered[i] ELSE ids[i - n]
    <3>1. n = Len(answered) /\ m = Len(ids)
      BY <2>3
    <3>2. answered \in Seq(Nat) /\ ids \in Seq(Nat)
      BY <2>1, <2>3
    <3>. HIDE DEF ids, n, m
    <3>3. /\ Len(answered \o ids) = Len(answered) + Len(ids)
          /\ \A i \in 1..(Len(answered) + Len(ids)) :
               (answered \o ids)[i] = IF i <= Len(answered) THEN answered[i]
                                                          ELSE ids[i - Len(answered)]
      BY <3>2, ConcatProperties, Zenon
    <3>. QED
      BY <3>1, <3>3
  <2>5. \A i \in 1..Len(open) : open[i] = i
    <3>. HIDE DEF ids, open, n, m
    <3>. SUFFICES ASSUME NEW i \in 1..Len(open) PROVE open[i] = i
      OBVIOUS
    <3>1. i \in 1..(n + m)
      BY <2>4
    <3>2. CASE i <= n
      BY <2>1, <2>2, <2>4, <3>1, <3>2
    <3>3. CASE ~ (i <= n)
      <4>1. i - n \in 1..m /\ n + (i - n) = i
        BY <2>1, <3>1, <3>3
      <4>. QED
        BY <2>3, <2>4, <3>1, <3>3, <4>1
    <3>. QED
      BY <3>2, <3>3
  <2>6. at = "idle" /\ completed => tasks = <<>>
    BY DEF AgInv, OrderInv
  <2>. QED
    BY <2>5, <2>6 DEF AnsweredInOrder
<1>. QED
  BY <1>1, GeneratorInvariant, PTL

\* What a step may do to the queue.
LEMMA FifoStep ==
  ASSUME AgInv, [AgNext]_agVars
  PROVE  [Fifo!Next]_<<Walk, running>>
<1>0. OnList = allocated \ running /\ ListInv /\ running \subseteq Jobs
  BY DEF AgInv, ListInv, TypeOK
<1>1. ASSUME NoJob PROVE UNCHANGED <<Walk, running>>
  BY <1>0, <1>1, NoJobEffect
<1>2. ASSUME NEW k \in GeneratorKinds \cup {"other"}, EnqueueJob(k) PROVE Fifo!Next
  <2>1. PICK j \in Jobs : j \notin allocated /\ Walk' = Append(Walk, j) /\ running' = running
    BY <1>0, <1>2, Typing, EnqueueEffect
  <2>2. j \notin running /\ \A i \in 1..Len(Walk) : Walk[i] # j
    BY <1>0, <2>1 DEF AgInv, ListInv, TypeOK, OnList
  <2>3. Fifo!Enqueue(j)
    BY <2>1, <2>2 DEF Fifo!Enqueue
  <2>. QED
    BY <2>3 DEF Fifo!Next
<1>3. ASSUME AwaitPromise PROVE Fifo!Next \/ UNCHANGED <<Walk, running>>
  BY <1>1, <1>2, <1>3 DEF AwaitPromise, GeneratorKinds
<1>4. ASSUME stack # <<>>, Return PROVE Fifo!Next \/ UNCHANGED <<Walk, running>>
  <2>1. CASE Top = Null
    BY <1>1, <1>4, <2>1 DEF Return
  <2>2. CASE Top # Null
    <3>1. Free(Top) /\ Top \in running
      BY <1>4, <2>2 DEF Return, Free
    <3>2. Walk' = Walk
      BY <1>0, <3>1, FreeList
    <3>3. Fifo!End(Top)
      BY <3>1, <3>2 DEF Fifo!End, Free
    <3>. QED
      BY <1>0, <3>1, <3>3 DEF Fifo!Next
  <2>. QED
    BY <2>1, <2>2
<1>5. CASE UNCHANGED agVars
  BY <1>1, <1>5 DEF agVars, NoJob
<1>6. ASSUME NEW op \in Operations, Request(op) PROVE Fifo!Next \/ UNCHANGED <<Walk, running>>
  BY <1>1, <1>2, <1>6 DEF Request, GeneratorKinds
<1>7. CASE Settle \/ EnqueueOther
  BY <1>2, <1>7 DEF Settle, EnqueueOther, GeneratorKinds
<1>8. CASE Take
  <2>1. Process
    BY <1>8 DEF Take
  <2>2. Walk' = Tail(Walk) /\ Walk # <<>> /\ head = Head(Walk)
    BY <1>0, <2>1, TakeList
  <2>3. Fifo!Begin
    BY <2>1, <2>2 DEF Fifo!Begin, Process
  <2>. QED
    BY <2>3 DEF Fifo!Next
<1>9. CASE FinishOther \/ Leave
  BY <1>4, <1>9 DEF FinishOther, Leave, AtTop
<1>10. CASE Yield \/ ResolvedValue
  BY <1>1, <1>2, <1>10 DEF Yield, ResolvedValue, AnswerYield, GeneratorKinds
<1>11. CASE Await
  BY <1>3, <1>11 DEF Await
<1>12. CASE End \/ Finalize
  BY <1>1, <1>12 DEF End, Finalize
<1>13. CASE Run \/ Rejected \/ YieldThrow \/ Resolved
  BY <1>1, <1>3, <1>13 DEF Run, Rejected, YieldThrow, Resolved, Resume, Delegate
<1>14. CASE CloseContext
  <2>1. UNCHANGED <<head, tail, next, allocated, running>> /\ closed' \in BOOLEAN
    BY <1>14 DEF CloseContext, Close
  <2>. QED
    BY <1>0, <2>1, SameList
<1>15. CASE DropJob
  <2>1. Fifo!Drop
    BY <1>15, DropJobStep DEF Fifo!Drop
  <2>. QED
    BY <2>1 DEF Fifo!Next
<1>. QED
  BY <1>5, <1>6, <1>7, <1>8, <1>9, <1>10, <1>11, <1>12, <1>13, <1>14, <1>15 DEF AgNext, Engine

\* The linked list implements the queue of JobFifo: jobs are processed once and
\* in the order in which they were enqueued, also when a job runs the queue.
THEOREM QueueImplementsFifo == AgSpec => ImplementsFifo
<1>1. AgInit => Fifo!Init
  <2>1. AgInit => Walk = <<>> /\ running = {}
    BY InitInv DEF AgInit, Init
  <2>. QED
    BY <2>1 DEF Fifo!Init
<1>2. AgInv /\ [AgNext]_agVars => [Fifo!Next]_(Fifo!vars)
  BY FifoStep DEF Fifo!vars
<1>. QED
  BY <1>1, <1>2, GeneratorInvariant, PTL DEF AgSpec, ImplementsFifo, Fifo!Spec

=============================================================================
