------------------------- MODULE EcmaPromiseProofs -------------------------
(***************************************************************************)
(* Proofs about promises and the jobs of their reactions, for every number *)
(* of promises, values and thenables, every depth of nested calls and      *)
(* every number of resolvers that user code keeps, provided that the host  *)
(* does not settle the promises of async functions (HostKinds): these are  *)
(* settled without a check when the function ends.                         *)
(*                                                                         *)
(* The parts of the inductive invariant have the promise objects P, their  *)
(* number n, the queue Q and the stack F as parameters.  An action is      *)
(* several operations of the code in a row, and the invariant holds after  *)
(* each of them; D is the set of the reactions that are on their way from  *)
(* one place to the next in the middle of an action.                       *)
(***************************************************************************)
EXTENDS EcmaPromise, FiniteSetTheorems, SequenceTheorems, TLAPS

-----------------------------------------------------------------------------
(* The inductive invariant                                                 *)

PromiseRecords ==
  [kind : {"none", "plain", "derived", "async"}, pending : BOOLEAN,
   fulfilled : BOOLEAN, resolved : BOOLEAN, unhandled : BOOLEAN,
   result : Objects, reactions : Seq(Reactions), parent : 0..MaxPromises,
   handled : BOOLEAN, ran : BOOLEAN, fresh : 0..MaxFresh, stale : BOOLEAN]

TypeInv(P, n, Q, F) ==
  /\ P \in [Promises -> PromiseRecords]
  /\ n \in 0..MaxPromises
  /\ Q \in Seq(Jobs)
  /\ F \in Seq(Frames)

\* The bits of a promise: a pending promise has no result yet, a settled one has
\* no reactions left.
PromiseOK(x, p) ==
  /\ x.kind # "none"
  /\ x.kind = "derived" => x.parent \in 1..(p - 1)
  /\ x.result \notin Promises
  /\ x.pending => /\ ~ x.fulfilled /\ ~ x.unhandled
                  /\ x.handled <=> x.reactions # <<>>
  /\ ~ x.pending => /\ x.reactions = <<>>
                    /\ x.unhandled <=> ~ x.fulfilled /\ ~ x.handled

BornInv(P, n) ==
  /\ \A p \in 1..n : PromiseOK(P[p], p)
  /\ \A p \in Promises : p > n => P[p] = Unborn

\* A reaction is registered with the parent of the promise that `then` returned.
ReactionOK(P, n, q, r) ==
  /\ r.target \in 1..n
  /\ r.type = "await" => P[r.target].kind = "async" /\ r.onF = NoHandler
                         /\ r.onR = NoHandler
  /\ r.type = "then" =>
       /\ P[r.target].kind = "derived"
       /\ P[r.target].parent = q
       /\ r.onF.h \in {"identity", "user", "resolve"}
       /\ r.onR.h \in {"thrower", "user", "reject"}
       /\ r.onF.h = "resolve" => r.onF.p \in 1..n
       /\ r.onR.h = "reject" => r.onR.p \in 1..n

ReactInv(P, n) ==
  \A q \in 1..n : \A i \in 1..Len(P[q].reactions) :
    ReactionOK(P, n, q, P[q].reactions[i])

AwaitTypes == {"await_fulfilled", "await_rejected"}
ReactionTypes == {"reaction"} \cup AwaitTypes

\* A job of a reaction is there only if the parent is settled, with its result.
JobOK(P, n, job) ==
  /\ job.type # "microtask" => job.target \in 1..n
  /\ job.type # "reaction" => job.handler = NoHandler
  /\ job.type \in AwaitTypes => P[job.target].kind = "async"
  /\ job.type = "thenable" => job.arg \in 1..n \/ job.arg \in Things
  /\ job.type = "reaction" =>
       LET p == P[job.target].parent
       IN /\ P[job.target].kind = "derived"
          /\ p \in 1..n
          /\ ~ P[p].pending
          /\ job.arg = P[p].result
          /\ job.arg \notin Promises
          /\ job.handler.h \in {"identity", "resolve", "user", "thrower", "reject"}
          /\ job.handler.h \in {"identity", "resolve"} => P[p].fulfilled
          /\ job.handler.h \in {"thrower", "reject"} => ~ P[p].fulfilled
          /\ job.handler.h \in {"resolve", "reject"} => job.handler.p \in 1..n

QueueInv(P, n, Q) == \A i \in 1..Len(Q) : JobOK(P, n, Q[i])

\* A thenable job that will hand out resolvers.
FreshInv(P, Q) ==
  \A i \in 1..Len(Q) :
    Q[i].type = "thenable" /\ Q[i].arg \in Things => P[Q[i].target].fresh < MaxFresh

\* The calls in progress.
FrameOK(P, n, f) ==
  /\ f.type \notin {"microtask", "drain"} => f.target \in 1..n
  /\ f.type \in AwaitTypes => P[f.target].kind = "async"
  /\ f.type = "get" => f.arg \in Things
  /\ f.type = "reaction" => P[f.target].kind = "derived" /\ f.arg \notin Promises

FrameInv(P, n, F) ==
  /\ \A i \in 1..Len(F) : FrameOK(P, n, F[i])
  /\ \A i \in 1..Len(F) :
       F[i].type = "microtask" => i < Len(F) /\ F[i + 1].type = "drain"

\* The fulfil operations on p that have passed the check and not settled p yet.
AdoptJobs(Q, p) == {i \in 1..Len(Q) : Q[i].type = "thenable" /\ Q[i].target = p}
AdoptGets(F, p) == {i \in 1..Len(F) : F[i].type = "get" /\ F[i].target = p}
InAdoption(Q, F, p) == AdoptJobs(Q, p) # {} \/ AdoptGets(F, p) # {}

AdoptInv(P, n, Q, F) ==
  \A p \in 1..n :
    /\ InAdoption(Q, F, p) => P[p].pending
    /\ AdoptJobs(Q, p) = {} \/ AdoptGets(F, p) = {}
    /\ \A i, j \in AdoptJobs(Q, p) : i = j
    /\ \A i, j \in AdoptGets(F, p) : i = j

\* A resolver of p that is not stopped by ALREADY_RESOLVED finds p pending and
\* not locked in to a value.
Open(P, Q, F, p) ==
  P[p].resolved \/ (P[p].pending /\ ~ InAdoption(Q, F, p))

\* The resolvers of p that can still be called: by user code, by a reaction, or
\* by the thenable job in progress.
UserRight(P, p) == P[p].fresh > 0 \/ P[p].stale
ReactionRight(P, n, p) ==
  \E q \in 1..n : \E i \in 1..Len(P[q].reactions) :
    \/ P[q].reactions[i].onF.h = "resolve" /\ P[q].reactions[i].onF.p = p
    \/ P[q].reactions[i].onR.h = "reject" /\ P[q].reactions[i].onR.p = p
JobRight(Q, p) ==
  \E i \in 1..Len(Q) : Q[i].handler.h \in {"resolve", "reject"}
                       /\ Q[i].handler.p = p
FrameRight(F, p) ==
  \E i \in 1..Len(F) : F[i].type = "thenable" /\ F[i].target = p

HasRight(P, n, Q, F, p) ==
  UserRight(P, p) \/ ReactionRight(P, n, p) \/ JobRight(Q, p) \/ FrameRight(F, p)

Resolvable(P, Q, F, p) ==
  Open(P, Q, F, p) /\ (P[p].kind = "async" => P[p].ran)

\* The promise of an async function that has not ended is pending and has no
\* resolvers; every promise with a resolver is open.
RightInv(P, n, Q, F) ==
  \A p \in 1..n :
    /\ P[p].kind # "async" => Open(P, Q, F, p)
    /\ P[p].kind = "async" /\ ~ P[p].ran => P[p].pending /\ ~ InAdoption(Q, F, p)
    /\ HasRight(P, n, Q, F, p) => Resolvable(P, Q, F, p)

\* The places of reaction d: registered with promise q, in the queue, or (for an
\* async function) running.
AtPromise(P, n, d, q, i) ==
  q \in 1..n /\ i \in 1..Len(P[q].reactions) /\ P[q].reactions[i].target = d
AtQueue(Q, d, i) ==
  i \in 1..Len(Q) /\ Q[i].type \in ReactionTypes /\ Q[i].target = d
AtFrame(F, d, i) ==
  i \in 1..Len(F) /\ F[i].type \in AwaitTypes /\ F[i].target = d

NotAtPromise(P, n, d) == \A q, i \in Nat : ~ AtPromise(P, n, d, q, i)
NotAtQueue(Q, d) == \A i \in Nat : ~ AtQueue(Q, d, i)
NotAtFrame(F, d) == \A i \in Nat : ~ AtFrame(F, d, i)

OnlyAtPromise(P, n, Q, F, d) ==
  /\ \E q, i \in Nat :
       /\ AtPromise(P, n, d, q, i)
       /\ \A q2, i2 \in Nat : AtPromise(P, n, d, q2, i2) => q2 = q /\ i2 = i
  /\ NotAtQueue(Q, d) /\ NotAtFrame(F, d) /\ ~ P[d].ran
OnlyAtQueue(P, n, Q, F, d) ==
  /\ \E i \in Nat :
       AtQueue(Q, d, i) /\ \A j \in Nat : AtQueue(Q, d, j) => j = i
  /\ NotAtPromise(P, n, d) /\ NotAtFrame(F, d) /\ ~ P[d].ran
OnlyAtFrame(P, n, Q, F, d) ==
  /\ \E i \in Nat :
       AtFrame(F, d, i) /\ \A j \in Nat : AtFrame(F, d, j) => j = i
  /\ NotAtPromise(P, n, d) /\ NotAtQueue(Q, d) /\ ~ P[d].ran
Elsewhere(P, n, Q, F, d) ==
  NotAtPromise(P, n, d) /\ NotAtQueue(Q, d) /\ NotAtFrame(F, d)

OnePlace(P, n, Q, F, d) ==
  \/ OnlyAtPromise(P, n, Q, F, d)
  \/ OnlyAtQueue(P, n, Q, F, d)
  \/ OnlyAtFrame(P, n, Q, F, d)
  \/ Elsewhere(P, n, Q, F, d) /\ P[d].ran

IsReaction(P, d) == P[d].kind \in {"derived", "async"}

PlaceInv(P, n, Q, F, D) ==
  \A d \in 1..n : IsReaction(P, d) =>
    IF d \in D THEN Elsewhere(P, n, Q, F, d) /\ ~ P[d].ran
               ELSE OnePlace(P, n, Q, F, d)

\* The reactions of one promise, in the order of `then`.
ListOrder(P, n) ==
  \A q \in 1..n : \A i, j \in 1..Len(P[q].reactions) :
    /\ i < j
    /\ P[q].reactions[i].type = "then" /\ P[q].reactions[j].type = "then"
    => P[q].reactions[i].target < P[q].reactions[j].target
QueueOrder(P, Q) ==
  \A i, j \in 1..Len(Q) :
    /\ i < j
    /\ Q[i].type = "reaction" /\ Q[j].type = "reaction"
    /\ P[Q[i].target].parent = P[Q[j].target].parent
    => Q[i].target < Q[j].target
RunOrder(P, n, Q) ==
  \A e \in 1..n : P[e].kind = "derived" /\ P[e].ran =>
    /\ ~ P[P[e].parent].pending
    /\ \A i \in 1..Len(Q) :
         Q[i].type = "reaction" /\ P[Q[i].target].parent = P[e].parent
           => e < Q[i].target

\* Every queued adoption of a promise has a number left for its promise.
Reserved(Q) == {i \in 1..Len(Q) : Q[i].type = "thenable" /\ Q[i].arg \in Promises}

FreeInv(n, Q) == n + Cardinality(Reserved(Q)) <= MaxPromises

Inv(P, n, Q, F, D) ==
  /\ TypeInv(P, n, Q, F) /\ BornInv(P, n) /\ ReactInv(P, n) /\ QueueInv(P, n, Q)
  /\ FreshInv(P, Q) /\ FrameInv(P, n, F) /\ AdoptInv(P, n, Q, F)
  /\ RightInv(P, n, Q, F) /\ PlaceInv(P, n, Q, F, D)
  /\ ListOrder(P, n) /\ QueueOrder(P, Q) /\ RunOrder(P, n, Q) /\ FreeInv(n, Q)

PromiseInv == Inv(pr, count, queue, frames, {})

\* The promises that exist keep their kind and their parent, and the settled
\* ones their state and their result.
Grown(P, n, P2, n2) ==
  /\ n <= n2
  /\ \A p \in 1..n : /\ P2[p].kind = P[p].kind
                     /\ P2[p].parent = P[p].parent
                     /\ ~ P[p].pending => /\ P2[p].pending = P[p].pending
                                          /\ P2[p].fulfilled = P[p].fulfilled
                                          /\ P2[p].result = P[p].result

-----------------------------------------------------------------------------
(* Types                                                                   *)

\* The promises that exist are promises.
LEMMA BornPromise ==
  ASSUME NEW n \in 0..MaxPromises, NEW p \in 1..n
  PROVE  p \in Promises /\ p \in Nat /\ p # 0
BY PromiseAssumption DEF Promises

\* The members of the queue, of the stack and of a list of reactions.
LEMMA JobType ==
  ASSUME NEW Q \in Seq(Jobs), NEW i \in 1..Len(Q)
  PROVE  Q[i] \in Jobs
BY ElementOfSeq

\* The members of the stack.
LEMMA FrameType ==
  ASSUME NEW F \in Seq(Frames), NEW i \in 1..Len(F)
  PROVE  F[i] \in Frames
BY ElementOfSeq

\* The members of a list of reactions.
LEMMA ReactionType ==
  ASSUME NEW P \in [Promises -> PromiseRecords], NEW q \in Promises,
         NEW i \in 1..Len(P[q].reactions)
  PROVE  /\ P[q].reactions \in Seq(Reactions)
         /\ P[q].reactions[i] \in Reactions
<1>1. P[q].reactions \in Seq(Reactions)
  BY DEF PromiseRecords
<1>. QED
  BY <1>1, ElementOfSeq

\* A job is also a frame.
LEMMA JobIsFrame == Jobs \subseteq Frames
BY DEF Jobs, Frames

\* The values that are no promises.
LEMMA OtherObjects ==
  /\ Error \in Objects /\ Error \notin Promises /\ Error \notin Things
  /\ Undef \in Objects /\ Undef \notin Promises /\ Undef \notin Things
  /\ \A v \in Values : v \in Objects /\ v \notin Promises /\ v \notin Things
  /\ \A t \in Things : t \in Objects /\ t \notin Promises /\ t \notin Nat
  /\ \A p \in Promises : p \in Objects /\ p \notin Things /\ p \in Nat
BY PromiseAssumption DEF Objects, Promises

\* The reactions and jobs that the operators make.
LEMMA MadeTypes ==
  ASSUME NEW d \in Promises, NEW onF \in Handlers, NEW onR \in Handlers,
         NEW v \in Objects, NEW b \in BOOLEAN, NEW r \in Reactions
  PROVE  /\ NoHandler \in Handlers
         /\ ThenReaction(d, onF, onR) \in Reactions
         /\ AwaitReaction(d) \in Reactions
         /\ ReactionJob(r, v, b) \in Jobs
         /\ ReactionJob(r, v, b).type \in ReactionTypes
         /\ ReactionJob(r, v, b).target = r.target
         /\ ReactionJob(r, v, b).arg = v
<1>0. NoHandler \in Handlers
  BY DEF NoHandler, Handler, Handlers
<1>1. ThenReaction(d, onF, onR) \in Reactions
  BY DEF ThenReaction, Reactions
<1>2. AwaitReaction(d) \in Reactions
  BY <1>0 DEF AwaitReaction, Reactions
<1>3. r.target \in 0..MaxPromises /\ r.onF \in Handlers /\ r.onR \in Handlers
  BY PromiseAssumption DEF Reactions, Promises
<1>4. /\ ReactionJob(r, v, b) \in Jobs
      /\ ReactionJob(r, v, b).type \in ReactionTypes
      /\ ReactionJob(r, v, b).target = r.target
      /\ ReactionJob(r, v, b).arg = v
  BY <1>0, <1>3
     DEF ReactionJob, Job, Jobs, JobTypes, ReactionTypes, AwaitTypes
<1>. QED
  BY <1>0, <1>1, <1>2, <1>4

-----------------------------------------------------------------------------
(* Growth                                                                  *)

\* Nothing that the jobs, frames and reactions rely on changes any more.
LEMMA GrownJob ==
  ASSUME NEW P, NEW n \in 0..MaxPromises, NEW P2, NEW n2 \in 0..MaxPromises,
         Grown(P, n, P2, n2), NEW job, JobOK(P, n, job)
  PROVE  JobOK(P2, n2, job)
BY PromiseAssumption DEF JobOK, Grown, AwaitTypes

\* The same for the calls in progress.
LEMMA GrownFrame ==
  ASSUME NEW P, NEW n \in 0..MaxPromises, NEW P2, NEW n2 \in 0..MaxPromises,
         Grown(P, n, P2, n2), NEW f, FrameOK(P, n, f)
  PROVE  FrameOK(P2, n2, f)
BY PromiseAssumption DEF FrameOK, Grown, AwaitTypes

\* The same for the reactions.
LEMMA GrownReaction ==
  ASSUME NEW P, NEW n \in 0..MaxPromises, NEW P2, NEW n2 \in 0..MaxPromises,
         Grown(P, n, P2, n2), NEW q, NEW r, ReactionOK(P, n, q, r)
  PROVE  ReactionOK(P2, n2, q, r)
BY PromiseAssumption DEF ReactionOK, Grown

\* Growth is transitive.
LEMMA GrownTrans ==
  ASSUME NEW P, NEW n \in 0..MaxPromises, NEW P2, NEW n2 \in 0..MaxPromises,
         NEW P3, NEW n3 \in 0..MaxPromises,
         Grown(P, n, P2, n2), Grown(P2, n2, P3, n3)
  PROVE  Grown(P, n, P3, n3)
BY PromiseAssumption DEF Grown

-----------------------------------------------------------------------------
(* The numbers that are reserved                                           *)

\* The jobs that reserve a number are finitely many.
LEMMA ReservedFinite ==
  ASSUME NEW Q \in Seq(Jobs)
  PROVE  IsFiniteSet(Reserved(Q)) /\ Cardinality(Reserved(Q)) \in Nat
<1>1. IsFiniteSet(1..Len(Q)) /\ Reserved(Q) \in SUBSET (1..Len(Q))
  BY FS_Interval, LenProperties DEF Reserved
<1>. QED
  BY <1>1, FS_Subset, FS_CardinalityType

\* A queue that grows by jobs of other types reserves no more.
LEMMA ReservedSame ==
  ASSUME NEW Q \in Seq(Jobs), NEW Q2 \in Seq(Jobs), Len(Q) <= Len(Q2),
         \A i \in 1..Len(Q) : Q2[i] = Q[i],
         \A i \in (Len(Q) + 1)..Len(Q2) :
           Q2[i].type # "thenable" \/ Q2[i].arg \notin Promises
  PROVE  Reserved(Q2) = Reserved(Q)
<1>1. Len(Q) \in Nat /\ Len(Q2) \in Nat
  BY LenProperties
<1>. QED
  BY <1>1 DEF Reserved

\* One job more reserves at most one number.
LEMMA ReservedOne ==
  ASSUME NEW Q \in Seq(Jobs), NEW job \in Jobs
  PROVE  Cardinality(Reserved(Append(Q, job))) <= Cardinality(Reserved(Q)) + 1
<1>1. /\ Len(Q) \in Nat
      /\ Append(Q, job) \in Seq(Jobs) /\ Len(Append(Q, job)) = Len(Q) + 1
      /\ \A i \in 1..Len(Q) : Append(Q, job)[i] = Q[i]
  OBVIOUS
<1>2. Reserved(Append(Q, job)) \in SUBSET (Reserved(Q) \cup {Len(Q) + 1})
  BY <1>1 DEF Reserved
<1>. DEFINE R == Reserved(Q)
            m == Len(Q) + 1
<1>3. IsFiniteSet(R) /\ Cardinality(R) \in Nat
  BY ReservedFinite
<1>. HIDE DEF R, m
<1>4. /\ IsFiniteSet(R \cup {m})
      /\ Cardinality(R \cup {m}) = IF m \in R THEN Cardinality(R) ELSE Cardinality(R) + 1
  BY <1>3, FS_AddElement
<1>5. /\ Cardinality(Reserved(Append(Q, job))) <= Cardinality(R \cup {m})
      /\ Cardinality(Reserved(Append(Q, job))) \in Nat
  BY <1>1, <1>2, <1>4, FS_Subset, ReservedFinite DEF R, m
<1>6. Cardinality(Reserved(Append(Q, job))) <= Cardinality(R) + 1
  BY <1>3, <1>4, <1>5
<1>. QED
  BY <1>6 DEF R

\* The head of the queue gives its number back.
LEMMA ReservedTail ==
  ASSUME NEW Q \in Seq(Jobs), Q # <<>>
  PROVE  /\ Cardinality(Reserved(Tail(Q))) <= Cardinality(Reserved(Q))
         /\ Head(Q).type = "thenable" /\ Head(Q).arg \in Promises =>
              Cardinality(Reserved(Tail(Q))) + 1 <= Cardinality(Reserved(Q))
<1>1. /\ Len(Q) \in Nat /\ Len(Q) > 0 /\ Tail(Q) \in Seq(Jobs) /\ Head(Q) = Q[1]
      /\ Len(Tail(Q)) = Len(Q) - 1
      /\ \A i \in 1..(Len(Q) - 1) : Tail(Q)[i] = Q[i + 1]
  BY HeadTailProperties, LenProperties
<1>. DEFINE S == Reserved(Tail(Q))
            T == Reserved(Q) \ {1}
            f == [i \in S |-> i + 1]
<1>2. \A i \in S : i \in Nat /\ i + 1 \in T
  BY <1>1 DEF Reserved
<1>3. f \in Injection(S, T)
  BY <1>2 DEF Injection, IsInjective
<1>4. IsFiniteSet(Reserved(Q)) /\ IsFiniteSet(T)
  BY ReservedFinite, FS_RemoveElement
<1>5. Cardinality(S) <= Cardinality(T)
  BY <1>3, <1>4, FS_Injection
<1>6. Cardinality(T) = IF 1 \in Reserved(Q) THEN Cardinality(Reserved(Q)) - 1
                                          ELSE Cardinality(Reserved(Q))
  BY <1>4, FS_RemoveElement
<1>7. Head(Q).type = "thenable" /\ Head(Q).arg \in Promises => 1 \in Reserved(Q)
  BY <1>1 DEF Reserved
<1>8. Cardinality(S) \in Nat /\ Cardinality(Reserved(Q)) \in Nat
  BY <1>1, ReservedFinite
<1>. HIDE DEF S, T
<1>9. /\ Cardinality(S) <= Cardinality(Reserved(Q))
      /\ 1 \in Reserved(Q) => Cardinality(S) + 1 <= Cardinality(Reserved(Q))
  BY <1>5, <1>6, <1>8
<1>. QED
  BY <1>7, <1>9 DEF S

-----------------------------------------------------------------------------
(* A change of the flags of one promise                                    *)

\* Everything but ALREADY_RESOLVED and the resolvers that user code has.
SameShape(x, y) ==
  /\ y.kind = x.kind /\ y.parent = x.parent /\ y.pending = x.pending
  /\ y.fulfilled = x.fulfilled /\ y.unhandled = x.unhandled /\ y.result = x.result
  /\ y.reactions = x.reactions /\ y.handled = x.handled /\ y.ran = x.ran

\* The same reactions hold the same resolvers.
LEMMA SameReactionRight ==
  ASSUME NEW P, NEW n, NEW P2, NEW p,
         \A q \in 1..n : P2[q].reactions = P[q].reactions,
         ReactionRight(P2, n, p)
  PROVE  ReactionRight(P, n, p)
<1>1. PICK q \in 1..n : \E i \in 1..Len(P2[q].reactions) :
        \/ P2[q].reactions[i].onF.h = "resolve" /\ P2[q].reactions[i].onF.p = p
        \/ P2[q].reactions[i].onR.h = "reject" /\ P2[q].reactions[i].onR.p = p
  BY DEF ReactionRight
<1>2. P2[q].reactions = P[q].reactions
  OBVIOUS
<1>. QED
  BY <1>1, <1>2, Zenon DEF ReactionRight

\* What the code has seen to when it changes the flags of p.
FlagData(P, n, Q, F, P2, p) ==
  /\ p \in 1..n
  /\ P2 \in [Promises -> PromiseRecords]
  /\ \A q \in Promises \ {p} : P2[q] = P[q]
  /\ SameShape(P[p], P2[p])
  /\ P2[p].resolved \/ (P[p].pending /\ ~ InAdoption(Q, F, p))
  /\ UserRight(P2, p) => (P[p].kind = "async" => P[p].ran)
  /\ P2[p].fresh <= P[p].fresh \/ ~ InAdoption(Q, F, p)

\* ALREADY_RESOLVED may be set at any time, and be cleared when the promise is
\* pending and not locked in; resolvers are handed out for such a promise.
LEMMA FlagStep ==
  ASSUME NEW P, NEW n, NEW Q, NEW F, NEW D, Inv(P, n, Q, F, D),
         NEW P2, NEW p,
         FlagData(P, n, Q, F, P2, p)
  PROVE  Inv(P2, n, Q, F, D) /\ Grown(P, n, P2, n)
<1>. SUFFICES ASSUME p \in 1..n,
                     P2 \in [Promises -> PromiseRecords],
                     \A q \in Promises \ {p} : P2[q] = P[q],
                     SameShape(P[p], P2[p]),
                     P2[p].resolved \/ (P[p].pending /\ ~ InAdoption(Q, F, p)),
                     UserRight(P2, p) => (P[p].kind = "async" => P[p].ran),
                     P2[p].fresh <= P[p].fresh \/ ~ InAdoption(Q, F, p)
              PROVE  Inv(P2, n, Q, F, D) /\ Grown(P, n, P2, n)
  BY DEF FlagData
<1>1. TypeInv(P, n, Q, F) /\ n \in 0..MaxPromises /\ Q \in Seq(Jobs) /\ F \in Seq(Frames)
      /\ P \in [Promises -> PromiseRecords] /\ n \in Nat
  BY PromiseAssumption DEF Inv, TypeInv
<1>2. TypeInv(P2, n, Q, F)
  BY <1>1 DEF TypeInv
<1>3. 1..n \subseteq Promises
  BY <1>1, BornPromise
<1>4. \A q \in 1..n : SameShape(P[q], P2[q])
  BY <1>3 DEF SameShape
<1>5. Grown(P, n, P2, n)
  BY <1>1, <1>4 DEF Grown, SameShape
<1>6. BornInv(P2, n)
  <2>1. \A q \in 1..n : PromiseOK(P2[q], q)
    BY <1>4 DEF Inv, BornInv, PromiseOK, SameShape
  <2>. QED
    BY <2>1, <1>1 DEF Inv, BornInv
<1>7. ReactInv(P2, n)
  <2>1. ReactInv(P, n)
    BY DEF Inv
  <2>2. ASSUME NEW q \in 1..n, NEW i \in 1..Len(P2[q].reactions)
        PROVE  ReactionOK(P2, n, q, P2[q].reactions[i])
    <3>1. P2[q].reactions = P[q].reactions
      BY <1>4 DEF SameShape
    <3>2. ReactionOK(P, n, q, P[q].reactions[i])
      BY <2>1, <3>1 DEF ReactInv
    <3>. QED
      BY <3>1, <3>2, <1>1, <1>5, GrownReaction
  <2>. QED
    BY <2>2 DEF ReactInv
<1>8. QueueInv(P2, n, Q)
  BY <1>1, <1>5, GrownJob DEF Inv, QueueInv
<1>9. FreshInv(P2, Q)
  <2>. SUFFICES ASSUME NEW i \in 1..Len(Q), Q[i].type = "thenable", Q[i].arg \in Things
                PROVE  P2[Q[i].target].fresh < MaxFresh
    BY DEF FreshInv
  <2>1. Q[i].target \in 1..n /\ P[Q[i].target].fresh < MaxFresh
    BY DEF Inv, QueueInv, JobOK, FreshInv
  <2>2. Q[i].target = p => InAdoption(Q, F, p)
    BY DEF InAdoption, AdoptJobs
  <2>3. P2[p].fresh \in Nat /\ P[p].fresh \in Nat /\ MaxFresh \in Nat
    <3>1. P2[p] \in PromiseRecords /\ P[p] \in PromiseRecords
      BY <1>1, <1>3
    <3>2. P2[p].fresh \in 0..MaxFresh /\ P[p].fresh \in 0..MaxFresh
      BY <3>1 DEF PromiseRecords
    <3>. QED
      BY <3>2, PromiseAssumption
  <2>. QED
    BY <2>1, <2>2, <2>3, <1>3
<1>10. FrameInv(P2, n, F)
  BY <1>1, <1>5, GrownFrame DEF Inv, FrameInv
<1>11. AdoptInv(P2, n, Q, F)
  BY <1>4 DEF Inv, AdoptInv, SameShape
<1>12. RightInv(P2, n, Q, F)
  <2>. SUFFICES ASSUME NEW q \in 1..n
                PROVE  /\ P2[q].kind # "async" => Open(P2, Q, F, q)
                       /\ P2[q].kind = "async" /\ ~ P2[q].ran =>
                            P2[q].pending /\ ~ InAdoption(Q, F, q)
                       /\ HasRight(P2, n, Q, F, q) => Resolvable(P2, Q, F, q)
    BY DEF RightInv
  <2>1. \A q2 \in 1..n : P2[q2].reactions = P[q2].reactions
    BY <1>4 DEF SameShape
  <2>2. ReactionRight(P2, n, q) => ReactionRight(P, n, q)
    BY <2>1, SameReactionRight
  <2>3. CASE q = p
    BY <2>2, <2>3, <1>4 DEF Inv, RightInv, Open, HasRight, Resolvable, SameShape
  <2>4. CASE q # p
    <3>1. P2[q] = P[q]
      BY <2>4, <1>3
    <3>. QED
      BY <2>2, <3>1 DEF Inv, RightInv, Open, HasRight, Resolvable, UserRight
  <2>. QED
    BY <2>3, <2>4
<1>13. PlaceInv(P2, n, Q, F, D)
  <2>1. \A d, q, i : AtPromise(P2, n, d, q, i) = AtPromise(P, n, d, q, i)
    BY <1>4 DEF AtPromise, SameShape
  <2>2. PlaceInv(P, n, Q, F, D)
    BY DEF Inv
  <2>. QED
    BY <1>4, <2>1, <2>2
       DEF PlaceInv, IsReaction, OnePlace, OnlyAtPromise, OnlyAtQueue, OnlyAtFrame,
           Elsewhere, NotAtPromise, SameShape
<1>14. ListOrder(P2, n)
  BY <1>4 DEF Inv, ListOrder, SameShape
<1>15. QueueOrder(P2, Q)
  <2>1. \A i \in 1..Len(Q) : Q[i].type = "reaction" => Q[i].target \in 1..n
    BY DEF Inv, QueueInv, JobOK
  <2>. QED
    BY <2>1, <1>4 DEF Inv, QueueOrder, SameShape
<1>16. RunOrder(P2, n, Q)
  <2>1. \A i \in 1..Len(Q) : Q[i].type = "reaction" => Q[i].target \in 1..n
    BY DEF Inv, QueueInv, JobOK
  <2>2. \A e \in 1..n : P[e].kind = "derived" => P[e].parent \in 1..n
    BY <1>1 DEF Inv, BornInv, PromiseOK
  <2>. QED
    BY <2>1, <2>2, <1>4 DEF Inv, RunOrder, SameShape
<1>. QED
  BY <1>2, <1>5, <1>6, <1>7, <1>8, <1>9, <1>10, <1>11, <1>12, <1>13, <1>14, <1>15, <1>16
     DEF Inv

-----------------------------------------------------------------------------
(* The head of the queue is taken off                                      *)

\* Open promises stay open when adoptions go away.
LEMMA FewerAdoptions ==
  ASSUME NEW P, NEW n, NEW Q, NEW F, NEW Q2, NEW F2, RightInv(P, n, Q, F),
         \A p \in 1..n : InAdoption(Q2, F2, p) => InAdoption(Q, F, p),
         \A p \in 1..n : JobRight(Q2, p) => JobRight(Q, p),
         \A p \in 1..n : FrameRight(F2, p) => FrameRight(F, p)
  PROVE  RightInv(P, n, Q2, F2)
BY DEF RightInv, HasRight, Resolvable, Open

\* ecma_process_all_enqueued_jobs takes the head off the queue.
LEMMA PopHead ==
  ASSUME NEW P, NEW n, NEW Q, NEW F, NEW D, Inv(P, n, Q, F, D), Q # <<>>,
         NEW D2, D2 = IF Head(Q).type \in ReactionTypes THEN D \cup {Head(Q).target}
                                                       ELSE D
  PROVE  /\ Inv(P, n, Tail(Q), F, D2)
         /\ Head(Q) \in Jobs /\ JobOK(P, n, Head(Q))
         /\ Head(Q).type = "thenable" =>
              LET p == Head(Q).target
              IN /\ P[p].pending
                 /\ ~ InAdoption(Tail(Q), F, p)
                 /\ P[p].kind = "async" => P[p].ran
                 /\ Head(Q).arg \in Things => P[p].fresh < MaxFresh
                 /\ Head(Q).arg \in Promises =>
                      n + 1 + Cardinality(Reserved(Tail(Q))) <= MaxPromises
         /\ Head(Q).type = "reaction" =>
              \A i \in 1..Len(Tail(Q)) :
                /\ Tail(Q)[i].type = "reaction"
                /\ P[Tail(Q)[i].target].parent = P[Head(Q).target].parent
                => Head(Q).target < Tail(Q)[i].target
<1>1. TypeInv(P, n, Q, F) /\ n \in 0..MaxPromises /\ Q \in Seq(Jobs) /\ F \in Seq(Frames)
      /\ P \in [Promises -> PromiseRecords] /\ n \in Nat
  BY PromiseAssumption DEF Inv, TypeInv
<1>. DEFINE Q2 == Tail(Q)
<1>2. /\ Len(Q) \in Nat /\ Len(Q) > 0 /\ Head(Q) = Q[1] /\ 1 \in 1..Len(Q)
      /\ Q2 \in Seq(Jobs) /\ Len(Q2) = Len(Q) - 1
      /\ \A i \in 1..Len(Q2) : i + 1 \in 1..Len(Q) /\ Q2[i] = Q[i + 1]
  BY <1>1, HeadTailProperties, LenProperties
<1>3. Head(Q) \in Jobs /\ JobOK(P, n, Head(Q))
  BY <1>1, <1>2, JobType DEF Inv, QueueInv
<1>. HIDE DEF Q2
<1>4. \A p : \A i \in AdoptJobs(Q2, p) : i \in Nat /\ i + 1 \in AdoptJobs(Q, p) /\ i + 1 # 1
  BY <1>2 DEF AdoptJobs
<1>5. \A p : InAdoption(Q2, F, p) => InAdoption(Q, F, p)
  BY <1>4 DEF InAdoption
<1>6. AdoptInv(P, n, Q, F) /\ AdoptInv(P, n, Q2, F)
  <2>1. AdoptInv(P, n, Q, F)
    BY DEF Inv
  <2>2. ASSUME NEW p \in 1..n
        PROVE  /\ InAdoption(Q2, F, p) => P[p].pending
               /\ AdoptJobs(Q2, p) = {} \/ AdoptGets(F, p) = {}
               /\ \A i, j \in AdoptJobs(Q2, p) : i = j
               /\ \A i, j \in AdoptGets(F, p) : i = j
    <3>1. ASSUME NEW i \in AdoptJobs(Q2, p), NEW j \in AdoptJobs(Q2, p) PROVE i = j
      <4>1. i \in Nat /\ j \in Nat /\ i + 1 = j + 1
        BY <1>4, <2>1 DEF AdoptInv
      <4>. QED
        BY <4>1
    <3>. QED
      BY <3>1, <1>4, <1>5, <2>1 DEF AdoptInv
  <2>. QED
    BY <2>1, <2>2 DEF AdoptInv
<1>7. QueueInv(P, n, Q2)
  BY <1>2 DEF Inv, QueueInv
<1>8. FreshInv(P, Q2)
  BY <1>2 DEF Inv, FreshInv
<1>9. RightInv(P, n, Q2, F)
  <2>1. \A p : JobRight(Q2, p) => JobRight(Q, p)
    BY <1>2 DEF JobRight
  <2>. QED
    BY <2>1, <1>5, FewerAdoptions DEF Inv
<1>10. PlaceInv(P, n, Q2, F, D2)
  <2>1. \A d : \A i \in Nat : AtQueue(Q2, d, i) <=> i # 0 /\ AtQueue(Q, d, i + 1)
    BY <1>2 DEF AtQueue
  <2>2. \A d : AtQueue(Q, d, 1) <=> Head(Q).type \in ReactionTypes /\ Head(Q).target = d
    BY <1>2 DEF AtQueue
  <2>3. \A d : ~ AtQueue(Q, d, 0)
    BY <1>2 DEF AtQueue
  <2>. SUFFICES ASSUME NEW d \in 1..n, IsReaction(P, d)
                PROVE  IF d \in D2 THEN Elsewhere(P, n, Q2, F, d) /\ ~ P[d].ran
                                   ELSE OnePlace(P, n, Q2, F, d)
    BY DEF PlaceInv
  <2>4. IF d \in D THEN Elsewhere(P, n, Q, F, d) /\ ~ P[d].ran
                   ELSE OnePlace(P, n, Q, F, d)
    BY DEF Inv, PlaceInv
  <2>5. NotAtQueue(Q, d) => NotAtQueue(Q2, d)
    BY <2>1 DEF NotAtQueue
  <2>6. CASE AtQueue(Q, d, 1)
    <3>1. OnlyAtQueue(P, n, Q, F, d) /\ d \in D2
      BY <2>2, <2>4, <2>6
         DEF OnePlace, OnlyAtPromise, OnlyAtFrame, Elsewhere, NotAtQueue
    <3>2. \A i \in Nat : AtQueue(Q, d, i) => i = 1
      BY <2>6, <3>1 DEF OnlyAtQueue
    <3>3. NotAtQueue(Q2, d)
      BY <2>1, <3>2 DEF NotAtQueue
    <3>. QED
      BY <3>1, <3>3 DEF OnlyAtQueue, Elsewhere
  <2>7. CASE ~ AtQueue(Q, d, 1)
    <3>1. d \in D2 <=> d \in D
      BY <2>2, <2>7
    <3>2. OnlyAtQueue(P, n, Q, F, d) => OnlyAtQueue(P, n, Q2, F, d)
      <4>. SUFFICES ASSUME OnlyAtQueue(P, n, Q, F, d)
                    PROVE  OnlyAtQueue(P, n, Q2, F, d)
        OBVIOUS
      <4>1. PICK i \in Nat : AtQueue(Q, d, i) /\ \A j \in Nat : AtQueue(Q, d, j) => j = i
        BY DEF OnlyAtQueue
      <4>2. i # 0 /\ i # 1
        BY <4>1, <2>3, <2>7
      <4>3. i - 1 \in Nat /\ AtQueue(Q2, d, i - 1)
        BY <4>1, <4>2, <2>1
      <4>4. ASSUME NEW j \in Nat, AtQueue(Q2, d, j) PROVE j = i - 1
        <5>1. AtQueue(Q, d, j + 1)
          BY <4>4, <2>1
        <5>2. j + 1 = i
          BY <5>1, <4>1
        <5>. QED
          BY <5>2
      <4>. QED
        BY <4>3, <4>4 DEF OnlyAtQueue
    <3>. QED
      BY <3>1, <3>2, <2>4, <2>5 DEF OnePlace, OnlyAtPromise, OnlyAtFrame, Elsewhere
  <2>. QED
    BY <2>6, <2>7
<1>11. QueueOrder(P, Q2)
  <2>1. QueueOrder(P, Q)
    BY DEF Inv
  <2>. SUFFICES ASSUME NEW i \in 1..Len(Q2), NEW j \in 1..Len(Q2), i < j,
                       Q2[i].type = "reaction", Q2[j].type = "reaction",
                       P[Q2[i].target].parent = P[Q2[j].target].parent
                PROVE  Q2[i].target < Q2[j].target
    BY DEF QueueOrder
  <2>2. i + 1 \in 1..Len(Q) /\ j + 1 \in 1..Len(Q) /\ i + 1 < j + 1
        /\ Q2[i] = Q[i + 1] /\ Q2[j] = Q[j + 1]
    BY <1>2
  <2>. QED
    BY <2>1, <2>2 DEF QueueOrder
<1>12. RunOrder(P, n, Q2)
  BY <1>2 DEF Inv, RunOrder
<1>13. FreeInv(n, Q2)
  <2>1. FreeInv(n, Q) /\ Cardinality(Reserved(Q2)) <= Cardinality(Reserved(Q))
    BY <1>1, ReservedTail DEF Inv, Q2
  <2>2. Cardinality(Reserved(Q2)) \in Nat /\ Cardinality(Reserved(Q)) \in Nat
    BY <1>1, <1>2, ReservedFinite
  <2>. QED
    BY <2>1, <2>2, <1>1, PromiseAssumption DEF FreeInv
<1>14. Inv(P, n, Q2, F, D2)
  BY <1>1, <1>2, <1>6, <1>7, <1>8, <1>9, <1>10, <1>11, <1>12, <1>13 DEF Inv, TypeInv
<1>15. ASSUME Head(Q).type = "thenable"
       PROVE  LET p == Head(Q).target
              IN /\ P[p].pending
                 /\ ~ InAdoption(Q2, F, p)
                 /\ P[p].kind = "async" => P[p].ran
                 /\ Head(Q).arg \in Things => P[p].fresh < MaxFresh
                 /\ Head(Q).arg \in Promises =>
                      n + 1 + Cardinality(Reserved(Q2)) <= MaxPromises
  <2>. DEFINE p == Head(Q).target
  <2>1. p \in 1..n /\ 1 \in AdoptJobs(Q, p)
    BY <1>2, <1>3, <1>15 DEF JobOK, AdoptJobs
  <2>2. P[p].pending /\ AdoptGets(F, p) = {} /\ \A i \in AdoptJobs(Q, p) : i = 1
    BY <1>6, <2>1 DEF AdoptInv, InAdoption
  <2>3. ~ InAdoption(Q2, F, p)
    BY <1>4, <2>2 DEF InAdoption
  <2>4. P[p].kind = "async" => P[p].ran
    BY <2>1 DEF Inv, RightInv, InAdoption
  <2>5. Head(Q).arg \in Things => P[p].fresh < MaxFresh
    BY <1>2, <1>15 DEF Inv, FreshInv
  <2>6. ASSUME Head(Q).arg \in Promises
        PROVE  n + 1 + Cardinality(Reserved(Q2)) <= MaxPromises
    <3>1. FreeInv(n, Q) /\ Cardinality(Reserved(Q2)) + 1 <= Cardinality(Reserved(Q))
      BY <1>1, <1>15, <2>6, ReservedTail DEF Inv, Q2
    <3>2. Cardinality(Reserved(Q2)) \in Nat /\ Cardinality(Reserved(Q)) \in Nat
      BY <1>1, <1>2, ReservedFinite
    <3>. QED
      BY <3>1, <3>2, <1>1, PromiseAssumption DEF FreeInv
  <2>. QED
    BY <2>2, <2>3, <2>4, <2>5, <2>6
<1>16. ASSUME Head(Q).type = "reaction", NEW i \in 1..Len(Q2), Q2[i].type = "reaction",
              P[Q2[i].target].parent = P[Head(Q).target].parent
       PROVE  Head(Q).target < Q2[i].target
  <2>1. i + 1 \in 1..Len(Q) /\ 1 < i + 1 /\ Q2[i] = Q[i + 1]
    BY <1>2
  <2>. QED
    BY <1>2, <1>16, <2>1 DEF Inv, QueueOrder
<1>. QED
  BY <1>3, <1>14, <1>15, <1>16 DEF Q2

-----------------------------------------------------------------------------
(* The innermost call returns                                              *)

\* No resolver of p can change p: the check stops it, or there is none.
Locked(P, n, Q, F, p) ==
  /\ P[p].kind = "async" => P[p].ran
  /\ P[p].resolved \/ (P[p].kind = "async" /\ ~ HasRight(P, n, Q, F, p))

\* The innermost call ends; a resolver of the job or of the read of `then` goes with it.
LEMMA PopFrame ==
  ASSUME NEW P, NEW n, NEW Q, NEW F, NEW D, Inv(P, n, Q, F, D), F # <<>>,
         NEW D2, D2 = IF Head(F).type \in AwaitTypes THEN D \cup {Head(F).target} ELSE D
  PROVE  /\ Inv(P, n, Q, Tail(F), D2)
         /\ Head(F) \in Frames /\ FrameOK(P, n, Head(F))
         /\ Head(F).type = "get" =>
              LET p == Head(F).target
              IN /\ P[p].pending
                 /\ ~ InAdoption(Q, Tail(F), p)
                 /\ Locked(P, n, Q, Tail(F), p)
         /\ Head(F).type = "thenable" => Resolvable(P, Q, Tail(F), Head(F).target)
         /\ Head(F).type \in AwaitTypes =>
              LET x == Head(F).target
              IN /\ P[x].pending /\ ~ P[x].ran
                 /\ ~ InAdoption(Q, Tail(F), x)
                 /\ ~ HasRight(P, n, Q, Tail(F), x)
         /\ Head(F).type = "microtask" => /\ Tail(F) # <<>>
                                          /\ Head(Tail(F)).type = "drain"
<1>1. TypeInv(P, n, Q, F) /\ n \in 0..MaxPromises /\ Q \in Seq(Jobs) /\ F \in Seq(Frames)
      /\ P \in [Promises -> PromiseRecords] /\ n \in Nat
  BY PromiseAssumption DEF Inv, TypeInv
<1>. DEFINE F2 == Tail(F)
<1>2. /\ Len(F) \in Nat /\ Len(F) > 0 /\ Head(F) = F[1] /\ 1 \in 1..Len(F)
      /\ F2 \in Seq(Frames) /\ Len(F2) = Len(F) - 1
      /\ \A i \in 1..Len(F2) : i + 1 \in 1..Len(F) /\ F2[i] = F[i + 1]
  BY <1>1, HeadTailProperties, LenProperties
<1>3. Head(F) \in Frames /\ FrameOK(P, n, Head(F))
  BY <1>1, <1>2, FrameType DEF Inv, FrameInv
<1>. HIDE DEF F2
<1>4. \A p : \A i \in AdoptGets(F2, p) : i \in Nat /\ i + 1 \in AdoptGets(F, p) /\ i + 1 # 1
  BY <1>2 DEF AdoptGets
<1>5. \A p : InAdoption(Q, F2, p) => InAdoption(Q, F, p)
  BY <1>4 DEF InAdoption
<1>6. AdoptInv(P, n, Q, F) /\ AdoptInv(P, n, Q, F2)
  <2>1. AdoptInv(P, n, Q, F)
    BY DEF Inv
  <2>2. ASSUME NEW p \in 1..n
        PROVE  /\ InAdoption(Q, F2, p) => P[p].pending
               /\ AdoptJobs(Q, p) = {} \/ AdoptGets(F2, p) = {}
               /\ \A i, j \in AdoptJobs(Q, p) : i = j
               /\ \A i, j \in AdoptGets(F2, p) : i = j
    <3>1. ASSUME NEW i \in AdoptGets(F2, p), NEW j \in AdoptGets(F2, p) PROVE i = j
      <4>1. i \in Nat /\ j \in Nat /\ i + 1 = j + 1
        BY <1>4, <2>1 DEF AdoptInv
      <4>. QED
        BY <4>1
    <3>. QED
      BY <3>1, <1>4, <1>5, <2>1 DEF AdoptInv
  <2>. QED
    BY <2>1, <2>2 DEF AdoptInv
<1>7. FrameInv(P, n, F2)
  <2>1. FrameInv(P, n, F)
    BY DEF Inv
  <2>2. ASSUME NEW i \in 1..Len(F2), F2[i].type = "microtask"
        PROVE  i < Len(F2) /\ F2[i + 1].type = "drain"
    <3>1. i + 1 < Len(F) /\ F[i + 2].type = "drain"
      BY <2>1, <2>2, <1>2 DEF FrameInv
    <3>2. i < Len(F2) /\ i + 1 \in 1..Len(F2) /\ F2[i + 1] = F[i + 2]
      BY <3>1, <1>2
    <3>. QED
      BY <3>1, <3>2
  <2>. QED
    BY <2>1, <2>2, <1>2 DEF FrameInv
<1>8. \A p : FrameRight(F2, p) => FrameRight(F, p)
  BY <1>2 DEF FrameRight
<1>9. RightInv(P, n, Q, F) /\ RightInv(P, n, Q, F2)
  BY <1>8, <1>5, FewerAdoptions DEF Inv
<1>10. \A p : HasRight(P, n, Q, F2, p) => HasRight(P, n, Q, F, p)
  BY <1>8 DEF HasRight
<1>11. PlaceInv(P, n, Q, F, D)
  BY DEF Inv
<1>12. \A d : AtFrame(F, d, 1) <=> Head(F).type \in AwaitTypes /\ Head(F).target = d
  BY <1>2 DEF AtFrame
<1>13. PlaceInv(P, n, Q, F2, D2)
  <2>1. \A d : \A i \in Nat : AtFrame(F2, d, i) <=> i # 0 /\ AtFrame(F, d, i + 1)
    BY <1>2 DEF AtFrame
  <2>3. \A d : ~ AtFrame(F, d, 0)
    BY <1>2 DEF AtFrame
  <2>. SUFFICES ASSUME NEW d \in 1..n, IsReaction(P, d)
                PROVE  IF d \in D2 THEN Elsewhere(P, n, Q, F2, d) /\ ~ P[d].ran
                                   ELSE OnePlace(P, n, Q, F2, d)
    BY DEF PlaceInv
  <2>4. IF d \in D THEN Elsewhere(P, n, Q, F, d) /\ ~ P[d].ran
                   ELSE OnePlace(P, n, Q, F, d)
    BY <1>11 DEF PlaceInv
  <2>5. NotAtFrame(F, d) => NotAtFrame(F2, d)
    BY <2>1 DEF NotAtFrame
  <2>6. CASE AtFrame(F, d, 1)
    <3>1. OnlyAtFrame(P, n, Q, F, d) /\ d \in D2
      BY <1>12, <2>4, <2>6
         DEF OnePlace, OnlyAtPromise, OnlyAtQueue, Elsewhere, NotAtFrame
    <3>2. \A i \in Nat : AtFrame(F, d, i) => i = 1
      BY <2>6, <3>1 DEF OnlyAtFrame
    <3>3. NotAtFrame(F2, d)
      BY <2>1, <3>2 DEF NotAtFrame
    <3>. QED
      BY <3>1, <3>3 DEF OnlyAtFrame, Elsewhere
  <2>7. CASE ~ AtFrame(F, d, 1)
    <3>1. d \in D2 <=> d \in D
      BY <1>12, <2>7
    <3>2. OnlyAtFrame(P, n, Q, F, d) => OnlyAtFrame(P, n, Q, F2, d)
      <4>. SUFFICES ASSUME OnlyAtFrame(P, n, Q, F, d)
                    PROVE  OnlyAtFrame(P, n, Q, F2, d)
        OBVIOUS
      <4>1. PICK i \in Nat : AtFrame(F, d, i) /\ \A j \in Nat : AtFrame(F, d, j) => j = i
        BY DEF OnlyAtFrame
      <4>2. i # 0 /\ i # 1
        BY <4>1, <2>3, <2>7
      <4>3. i - 1 \in Nat /\ AtFrame(F2, d, i - 1)
        BY <4>1, <4>2, <2>1
      <4>4. ASSUME NEW j \in Nat, AtFrame(F2, d, j) PROVE j = i - 1
        <5>1. AtFrame(F, d, j + 1)
          BY <4>4, <2>1
        <5>2. j + 1 = i
          BY <5>1, <4>1
        <5>. QED
          BY <5>2
      <4>. QED
        BY <4>3, <4>4 DEF OnlyAtFrame
    <3>. QED
      BY <3>1, <3>2, <2>4, <2>5 DEF OnePlace, OnlyAtPromise, OnlyAtQueue, Elsewhere
  <2>. QED
    BY <2>6, <2>7
<1>14. Inv(P, n, Q, F2, D2)
  BY <1>1, <1>2, <1>6, <1>7, <1>9, <1>13 DEF Inv, TypeInv
<1>15. ASSUME Head(F).type = "get"
       PROVE  LET p == Head(F).target
              IN /\ P[p].pending
                 /\ ~ InAdoption(Q, F2, p)
                 /\ Locked(P, n, Q, F2, p)
  <2>. DEFINE p == Head(F).target
  <2>1. p \in 1..n /\ 1 \in AdoptGets(F, p)
    BY <1>2, <1>3, <1>15 DEF FrameOK, AdoptGets
  <2>2. P[p].pending /\ AdoptJobs(Q, p) = {} /\ \A i \in AdoptGets(F, p) : i = 1
    BY <1>6, <2>1 DEF AdoptInv, InAdoption
  <2>3. ~ InAdoption(Q, F2, p)
    BY <1>4, <2>2 DEF InAdoption
  <2>4. InAdoption(Q, F, p)
    BY <2>1 DEF InAdoption
  <2>5. Locked(P, n, Q, F2, p)
    BY <2>1, <2>4, <1>9, <1>10 DEF RightInv, Open, Resolvable, Locked
  <2>. QED
    BY <2>2, <2>3, <2>5
<1>16. ASSUME Head(F).type = "thenable" PROVE Resolvable(P, Q, F2, Head(F).target)
  <2>1. Head(F).target \in 1..n /\ FrameRight(F, Head(F).target)
    BY <1>2, <1>3, <1>16 DEF FrameOK, FrameRight
  <2>. QED
    BY <2>1, <1>5, <1>9 DEF RightInv, HasRight, Resolvable, Open
<1>17. ASSUME Head(F).type \in AwaitTypes
       PROVE  LET x == Head(F).target
              IN /\ P[x].pending /\ ~ P[x].ran
                 /\ ~ InAdoption(Q, F2, x)
                 /\ ~ HasRight(P, n, Q, F2, x)
  <2>. DEFINE x == Head(F).target
  <2>1. x \in 1..n /\ P[x].kind = "async"
    BY <1>3, <1>17 DEF FrameOK, AwaitTypes
  <2>2. ~ P[x].ran
    <3>1. AtFrame(F, x, 1)
      BY <1>12, <1>17
    <3>. QED
      BY <3>1, <2>1, <1>11
         DEF PlaceInv, IsReaction, OnePlace, OnlyAtPromise, OnlyAtQueue, OnlyAtFrame,
             Elsewhere, NotAtFrame
  <2>. QED
    BY <2>1, <2>2, <1>5, <1>9, <1>10 DEF RightInv, Resolvable
<1>18. ASSUME Head(F).type = "microtask" PROVE F2 # <<>> /\ Head(F2).type = "drain"
  <2>1. 1 < Len(F) /\ F[2].type = "drain"
    BY <1>2, <1>18 DEF Inv, FrameInv
  <2>2. Len(F2) > 0 /\ F2[1] = F[2] /\ F2 # <<>>
    BY <1>2, <2>1, LenProperties
  <2>. QED
    BY <2>1, <2>2
<1>. QED
  BY <1>3, <1>14, <1>15, <1>16, <1>17, <1>18 DEF F2

-----------------------------------------------------------------------------
(* A call begins                                                           *)

\* A call is entered.
LEMMA PushFrame ==
  ASSUME NEW P, NEW n, NEW Q, NEW F, NEW D, Inv(P, n, Q, F, D),
         NEW f \in Frames, FrameOK(P, n, f),
         f.type = "microtask" => F # <<>> /\ Head(F).type = "drain",
         f.type = "thenable" => Resolvable(P, Q, F, f.target),
         f.type = "get" => /\ P[f.target].pending
                           /\ ~ InAdoption(Q, F, f.target)
                           /\ Locked(P, n, Q, F, f.target),
         f.type \in AwaitTypes => f.target \in D,
         NEW D2, D2 = IF f.type \in AwaitTypes THEN D \ {f.target} ELSE D
  PROVE  Inv(P, n, Q, <<f>> \o F, D2)
<1>1. TypeInv(P, n, Q, F) /\ n \in 0..MaxPromises /\ Q \in Seq(Jobs) /\ F \in Seq(Frames)
      /\ P \in [Promises -> PromiseRecords] /\ n \in Nat
  BY PromiseAssumption DEF Inv, TypeInv
<1>. DEFINE F2 == <<f>> \o F
<1>2. /\ Len(F) \in Nat
      /\ F2 \in Seq(Frames) /\ Len(F2) = Len(F) + 1 /\ F2[1] = f
      /\ \A i \in 2..Len(F2) : i - 1 \in 1..Len(F) /\ F2[i] = F[i - 1]
  <2>1. <<f>> \in Seq(Frames) /\ Len(<<f>>) = 1 /\ <<f>>[1] = f
    OBVIOUS
  <2>2. /\ F2 \in Seq(Frames) /\ Len(F2) = 1 + Len(F)
        /\ \A i \in 1..(1 + Len(F)) : F2[i] = IF i <= 1 THEN <<f>>[i] ELSE F[i - 1]
    BY <1>1, <2>1, ConcatProperties
  <2>3. Len(F) \in Nat
    BY <1>1, LenProperties
  <2>. HIDE DEF F2
  <2>. QED
    BY <2>1, <2>2, <2>3
<1>. HIDE DEF F2
<1>3. \A p : \A i \in AdoptGets(F2, p) :
        \/ i = 1 /\ f.type = "get" /\ f.target = p
        \/ i - 1 \in AdoptGets(F, p) /\ i \in Nat /\ i # 1
  BY <1>2 DEF AdoptGets
<1>4. \A p : InAdoption(Q, F2, p) => \/ InAdoption(Q, F, p)
                                     \/ f.type = "get" /\ f.target = p
  BY <1>3 DEF InAdoption
<1>5. AdoptInv(P, n, Q, F) /\ AdoptInv(P, n, Q, F2)
  <2>1. AdoptInv(P, n, Q, F)
    BY DEF Inv
  <2>2. ASSUME NEW p \in 1..n
        PROVE  /\ InAdoption(Q, F2, p) => P[p].pending
               /\ AdoptJobs(Q, p) = {} \/ AdoptGets(F2, p) = {}
               /\ \A i, j \in AdoptJobs(Q, p) : i = j
               /\ \A i, j \in AdoptGets(F2, p) : i = j
    <3>1. ASSUME NEW i \in AdoptGets(F2, p), NEW j \in AdoptGets(F2, p) PROVE i = j
      <4>1. CASE f.type = "get" /\ f.target = p
        <5>1. AdoptGets(F, p) = {}
          BY <4>1 DEF InAdoption
        <5>. QED
          BY <5>1, <1>3
      <4>2. CASE ~ (f.type = "get" /\ f.target = p)
        <5>1. i - 1 \in AdoptGets(F, p) /\ j - 1 \in AdoptGets(F, p)
              /\ i \in Nat /\ j \in Nat
          BY <4>2, <1>3
        <5>2. i - 1 = j - 1
          BY <5>1, <2>1 DEF AdoptInv
        <5>. QED
          BY <5>1, <5>2
      <4>. QED
        BY <4>1, <4>2
    <3>2. AdoptJobs(Q, p) = {} \/ AdoptGets(F2, p) = {}
      BY <1>3, <2>1 DEF AdoptInv, InAdoption
    <3>. QED
      BY <3>1, <3>2, <1>4, <2>1 DEF AdoptInv
  <2>. QED
    BY <2>1, <2>2 DEF AdoptInv
<1>6. FrameInv(P, n, F2)
  <2>1. FrameInv(P, n, F)
    BY DEF Inv
  <2>2. ASSUME NEW i \in 1..Len(F2) PROVE FrameOK(P, n, F2[i])
    BY <2>1, <1>2 DEF FrameInv
  <2>3. ASSUME NEW i \in 1..Len(F2), F2[i].type = "microtask"
        PROVE  i < Len(F2) /\ F2[i + 1].type = "drain"
    <3>1. CASE i = 1
      <4>1. F # <<>> /\ Head(F).type = "drain" /\ Head(F) = F[1] /\ Len(F) > 0
        BY <1>1, <1>2, <2>3, <3>1, LenProperties, HeadTailProperties
      <4>. QED
        BY <1>2, <3>1, <4>1
    <3>2. CASE i # 1
      <4>1. i - 1 \in 1..Len(F) /\ F[i - 1].type = "microtask"
        BY <1>2, <2>3, <3>2
      <4>2. i - 1 < Len(F) /\ F[(i - 1) + 1].type = "drain"
        BY <4>1, <2>1 DEF FrameInv
      <4>3. (i - 1) + 1 = i /\ i + 1 \in 2..Len(F2) /\ (i + 1) - 1 = i
        BY <4>2, <1>2
      <4>. QED
        BY <1>2, <4>2, <4>3
    <3>. QED
      BY <3>1, <3>2
  <2>. QED
    BY <2>2, <2>3 DEF FrameInv
<1>7. RightInv(P, n, Q, F2)
  <2>1. \A p : FrameRight(F2, p) => \/ FrameRight(F, p)
                                    \/ f.type = "thenable" /\ f.target = p
    <3>1. \A i \in 1..Len(F2) : i = 1 \/ i \in 2..Len(F2)
      BY <1>2
    <3>. QED
      BY <1>2, <3>1 DEF FrameRight
  <2>2. RightInv(P, n, Q, F)
    BY DEF Inv
  <2>. SUFFICES ASSUME NEW p \in 1..n
                PROVE  /\ P[p].kind # "async" => Open(P, Q, F2, p)
                       /\ P[p].kind = "async" /\ ~ P[p].ran =>
                            P[p].pending /\ ~ InAdoption(Q, F2, p)
                       /\ HasRight(P, n, Q, F2, p) => Resolvable(P, Q, F2, p)
    BY DEF RightInv
  <2>3. CASE f.type = "get" /\ f.target = p
    <3>1. HasRight(P, n, Q, F2, p) => HasRight(P, n, Q, F, p)
      BY <2>1, <2>3 DEF HasRight
    <3>2. Locked(P, n, Q, F, p) /\ P[p].pending
      BY <2>3
    <3>. QED
      BY <3>1, <3>2, <2>2 DEF Locked, RightInv, Open, Resolvable
  <2>4. CASE ~ (f.type = "get" /\ f.target = p)
    <3>1. InAdoption(Q, F2, p) => InAdoption(Q, F, p)
      BY <1>4, <2>4
    <3>2. HasRight(P, n, Q, F2, p) => Resolvable(P, Q, F, p)
      BY <2>1, <2>2 DEF HasRight, RightInv
    <3>. QED
      BY <3>1, <3>2, <2>2 DEF RightInv, Open, Resolvable
  <2>. QED
    BY <2>3, <2>4
<1>8. PlaceInv(P, n, Q, F2, D2)
  <2>1. \A d : \A i \in Nat :
          AtFrame(F2, d, i) <=> \/ i = 1 /\ f.type \in AwaitTypes /\ f.target = d
                                \/ i # 0 /\ AtFrame(F, d, i - 1)
    BY <1>2 DEF AtFrame
  <2>. SUFFICES ASSUME NEW d \in 1..n, IsReaction(P, d)
                PROVE  IF d \in D2 THEN Elsewhere(P, n, Q, F2, d) /\ ~ P[d].ran
                                   ELSE OnePlace(P, n, Q, F2, d)
    BY DEF PlaceInv
  <2>2. IF d \in D THEN Elsewhere(P, n, Q, F, d) /\ ~ P[d].ran
                   ELSE OnePlace(P, n, Q, F, d)
    BY DEF Inv, PlaceInv
  <2>3. CASE f.type \in AwaitTypes /\ f.target = d
    <3>1. Elsewhere(P, n, Q, F, d) /\ ~ P[d].ran /\ d \notin D2
      BY <2>2, <2>3
    <3>2. \A i \in Nat : AtFrame(F2, d, i) <=> i = 1
      <4>1. \A i \in Nat : i # 0 => ~ AtFrame(F, d, i - 1)
        BY <3>1 DEF Elsewhere, NotAtFrame
      <4>. QED
        BY <4>1, <2>1, <2>3
    <3>. QED
      BY <3>1, <3>2 DEF OnePlace, OnlyAtFrame, Elsewhere
  <2>4. CASE ~ (f.type \in AwaitTypes /\ f.target = d)
    <3>1. d \in D2 <=> d \in D
      BY <2>4
    <3>2. \A i \in Nat : AtFrame(F2, d, i) <=> i # 0 /\ AtFrame(F, d, i - 1)
      BY <2>1, <2>4
    <3>3. NotAtFrame(F, d) => NotAtFrame(F2, d)
      BY <3>2 DEF NotAtFrame
    <3>4. OnlyAtFrame(P, n, Q, F, d) => OnlyAtFrame(P, n, Q, F2, d)
      <4>. SUFFICES ASSUME OnlyAtFrame(P, n, Q, F, d)
                    PROVE  OnlyAtFrame(P, n, Q, F2, d)
        OBVIOUS
      <4>1. PICK i \in Nat : AtFrame(F, d, i) /\ \A j \in Nat : AtFrame(F, d, j) => j = i
        BY DEF OnlyAtFrame
      <4>2. i + 1 \in Nat /\ AtFrame(F2, d, i + 1)
        BY <4>1, <3>2
      <4>3. ASSUME NEW j \in Nat, AtFrame(F2, d, j) PROVE j = i + 1
        <5>1. j # 0 /\ AtFrame(F, d, j - 1)
          BY <4>3, <3>2
        <5>2. j - 1 = i
          BY <5>1, <4>1
        <5>. QED
          BY <5>2
      <4>. QED
        BY <4>2, <4>3 DEF OnlyAtFrame
    <3>. QED
      BY <3>1, <3>3, <3>4, <2>2 DEF OnePlace, OnlyAtPromise, OnlyAtQueue, Elsewhere
  <2>. QED
    BY <2>3, <2>4
<1>9. Inv(P, n, Q, F2, D2)
  BY <1>1, <1>2, <1>5, <1>6, <1>7, <1>8 DEF Inv, TypeInv
<1>. QED
  BY <1>9 DEF F2

-----------------------------------------------------------------------------
(* A job is put at the end of the queue                                    *)

\* What the code has seen to when it calls ecma_enqueue_job.
JobReady(P, n, Q, F, D, job) ==
  /\ JobOK(P, n, job)
  /\ job.type = "thenable" => /\ P[job.target].pending
                              /\ ~ InAdoption(Q, F, job.target)
                              /\ Locked(P, n, Q, F, job.target)
                              /\ job.arg \in Things => P[job.target].fresh < MaxFresh
  /\ job.handler.h \in {"resolve", "reject"} => Resolvable(P, Q, F, job.handler.p)
  /\ job.type \in ReactionTypes => job.target \in D
  /\ job.type = "reaction" =>
       /\ \A i \in 1..Len(Q) :
            Q[i].type = "reaction" /\ P[Q[i].target].parent = P[job.target].parent
              => Q[i].target < job.target
       /\ \A e \in 1..n :
            P[e].kind = "derived" /\ P[e].ran /\ P[e].parent = P[job.target].parent
              => e < job.target

\* A job that is ready is put at the end of the queue.
LEMMA AppendJob ==
  ASSUME NEW P, NEW n, NEW Q, NEW F, NEW D, Inv(P, n, Q, F, D),
         NEW job \in Jobs, JobReady(P, n, Q, F, D, job), FreeInv(n, Append(Q, job)),
         NEW D2, D2 = IF job.type \in ReactionTypes THEN D \ {job.target} ELSE D
  PROVE  Inv(P, n, Append(Q, job), F, D2)
<1>1. TypeInv(P, n, Q, F) /\ n \in 0..MaxPromises /\ Q \in Seq(Jobs) /\ F \in Seq(Frames)
      /\ P \in [Promises -> PromiseRecords] /\ n \in Nat
  BY PromiseAssumption DEF Inv, TypeInv
<1>. DEFINE Q2 == Append(Q, job)
            m == Len(Q) + 1
<1>2. /\ Len(Q) \in Nat /\ m \in Nat
      /\ Q2 \in Seq(Jobs) /\ Len(Q2) = m /\ Q2[m] = job
      /\ \A i \in 1..Len(Q) : Q2[i] = Q[i] /\ i < m
      /\ \A i \in 1..Len(Q2) : i = m \/ i \in 1..Len(Q)
  BY <1>1
<1>. HIDE DEF Q2
<1>3. \A p : \A i \in AdoptJobs(Q2, p) :
        \/ i = m /\ job.type = "thenable" /\ job.target = p
        \/ i \in AdoptJobs(Q, p)
  BY <1>2 DEF AdoptJobs
<1>4. \A p : InAdoption(Q2, F, p) => \/ InAdoption(Q, F, p)
                                     \/ job.type = "thenable" /\ job.target = p
  BY <1>3 DEF InAdoption
<1>5. AdoptInv(P, n, Q, F) /\ AdoptInv(P, n, Q2, F)
  <2>1. AdoptInv(P, n, Q, F)
    BY DEF Inv
  <2>2. ASSUME NEW p \in 1..n
        PROVE  /\ InAdoption(Q2, F, p) => P[p].pending
               /\ AdoptJobs(Q2, p) = {} \/ AdoptGets(F, p) = {}
               /\ \A i, j \in AdoptJobs(Q2, p) : i = j
               /\ \A i, j \in AdoptGets(F, p) : i = j
    <3>1. ASSUME NEW i \in AdoptJobs(Q2, p), NEW j \in AdoptJobs(Q2, p) PROVE i = j
      <4>1. CASE job.type = "thenable" /\ job.target = p
        <5>1. AdoptJobs(Q, p) = {}
          BY <4>1 DEF InAdoption, JobReady
        <5>. QED
          BY <5>1, <1>3
      <4>2. CASE ~ (job.type = "thenable" /\ job.target = p)
        BY <4>2, <1>3, <2>1 DEF AdoptInv
      <4>. QED
        BY <4>1, <4>2
    <3>2. AdoptJobs(Q2, p) = {} \/ AdoptGets(F, p) = {}
      BY <1>3, <2>1 DEF AdoptInv, InAdoption, JobReady
    <3>3. InAdoption(Q2, F, p) => P[p].pending
      BY <1>4, <2>1 DEF AdoptInv, JobReady
    <3>. QED
      BY <3>1, <3>2, <3>3, <2>1 DEF AdoptInv
  <2>. QED
    BY <2>1, <2>2 DEF AdoptInv
<1>6. QueueInv(P, n, Q2)
  BY <1>2 DEF Inv, QueueInv, JobReady
<1>7. FreshInv(P, Q2)
  BY <1>2 DEF Inv, FreshInv, JobReady
<1>8. RightInv(P, n, Q2, F)
  <2>1. \A p : JobRight(Q2, p) =>
                 \/ JobRight(Q, p)
                 \/ job.handler.h \in {"resolve", "reject"} /\ job.handler.p = p
    BY <1>2 DEF JobRight
  <2>2. RightInv(P, n, Q, F)
    BY DEF Inv
  <2>3. job.type = "thenable" => job.handler = NoHandler
    BY DEF JobReady, JobOK
  <2>4. job.type = "thenable" => job.handler.h \notin {"resolve", "reject"}
    BY <2>3 DEF NoHandler, Handler
  <2>. SUFFICES ASSUME NEW p \in 1..n
                PROVE  /\ P[p].kind # "async" => Open(P, Q2, F, p)
                       /\ P[p].kind = "async" /\ ~ P[p].ran =>
                            P[p].pending /\ ~ InAdoption(Q2, F, p)
                       /\ HasRight(P, n, Q2, F, p) => Resolvable(P, Q2, F, p)
    BY DEF RightInv
  <2>5. CASE job.type = "thenable" /\ job.target = p
    <3>1. HasRight(P, n, Q2, F, p) => HasRight(P, n, Q, F, p)
      BY <2>1, <2>4, <2>5 DEF HasRight
    <3>2. Locked(P, n, Q, F, p) /\ P[p].pending
      BY <2>5 DEF JobReady
    <3>. QED
      BY <3>1, <3>2, <2>2 DEF Locked, RightInv, Open, Resolvable
  <2>6. CASE ~ (job.type = "thenable" /\ job.target = p)
    <3>1. InAdoption(Q2, F, p) => InAdoption(Q, F, p)
      BY <1>4, <2>6
    <3>2. HasRight(P, n, Q2, F, p) => Resolvable(P, Q, F, p)
      BY <2>1, <2>2 DEF HasRight, RightInv, JobReady
    <3>. QED
      BY <3>1, <3>2, <2>2 DEF RightInv, Open, Resolvable
  <2>. QED
    BY <2>5, <2>6
<1>9. PlaceInv(P, n, Q2, F, D2)
  <2>1. \A d : \A i \in Nat :
          AtQueue(Q2, d, i) <=> \/ i = m /\ job.type \in ReactionTypes /\ job.target = d
                                \/ AtQueue(Q, d, i)
    BY <1>2 DEF AtQueue
  <2>. SUFFICES ASSUME NEW d \in 1..n, IsReaction(P, d)
                PROVE  IF d \in D2 THEN Elsewhere(P, n, Q2, F, d) /\ ~ P[d].ran
                                   ELSE OnePlace(P, n, Q2, F, d)
    BY DEF PlaceInv
  <2>2. IF d \in D THEN Elsewhere(P, n, Q, F, d) /\ ~ P[d].ran
                   ELSE OnePlace(P, n, Q, F, d)
    BY DEF Inv, PlaceInv
  <2>3. CASE job.type \in ReactionTypes /\ job.target = d
    <3>1. Elsewhere(P, n, Q, F, d) /\ ~ P[d].ran /\ d \notin D2
      BY <2>2, <2>3 DEF JobReady
    <3>2. \A i \in Nat : AtQueue(Q2, d, i) <=> i = m
      BY <3>1, <2>1, <2>3 DEF Elsewhere, NotAtQueue
    <3>. QED
      BY <3>1, <3>2, <1>2 DEF OnePlace, OnlyAtQueue, Elsewhere
  <2>4. CASE ~ (job.type \in ReactionTypes /\ job.target = d)
    <3>1. d \in D2 <=> d \in D
      BY <2>4
    <3>2. \A i \in Nat : AtQueue(Q2, d, i) <=> AtQueue(Q, d, i)
      BY <2>1, <2>4
    <3>. QED
      BY <3>1, <3>2, <2>2
         DEF OnePlace, OnlyAtPromise, OnlyAtQueue, OnlyAtFrame, Elsewhere, NotAtQueue
  <2>. QED
    BY <2>3, <2>4
<1>10. QueueOrder(P, Q2)
  <2>. SUFFICES ASSUME NEW i \in 1..Len(Q2), NEW j \in 1..Len(Q2), i < j,
                       Q2[i].type = "reaction", Q2[j].type = "reaction",
                       P[Q2[i].target].parent = P[Q2[j].target].parent
                PROVE  Q2[i].target < Q2[j].target
    BY DEF QueueOrder
  <2>1. i \in 1..Len(Q) /\ Q2[i] = Q[i]
    BY <1>2
  <2>2. CASE j = m
    BY <1>2, <2>1, <2>2 DEF JobReady
  <2>3. CASE j # m
    BY <1>2, <2>1, <2>3 DEF Inv, QueueOrder
  <2>. QED
    BY <2>2, <2>3
<1>11. RunOrder(P, n, Q2)
  <2>. SUFFICES ASSUME NEW e \in 1..n, P[e].kind = "derived", P[e].ran
                PROVE  /\ ~ P[P[e].parent].pending
                       /\ \A i \in 1..Len(Q2) :
                            Q2[i].type = "reaction" /\ P[Q2[i].target].parent = P[e].parent
                              => e < Q2[i].target
    BY DEF RunOrder
  <2>1. RunOrder(P, n, Q)
    BY DEF Inv
  <2>2. ASSUME NEW i \in 1..Len(Q2), Q2[i].type = "reaction",
               P[Q2[i].target].parent = P[e].parent
        PROVE  e < Q2[i].target
    <3>1. CASE i = m
      BY <1>2, <2>2, <3>1 DEF JobReady
    <3>2. CASE i # m
      BY <1>2, <2>1, <2>2, <3>2 DEF RunOrder
    <3>. QED
      BY <3>1, <3>2
  <2>. QED
    BY <2>1, <2>2 DEF RunOrder
<1>12. Inv(P, n, Q2, F, D2)
  BY <1>1, <1>2, <1>5, <1>6, <1>7, <1>8, <1>9, <1>10, <1>11 DEF Inv, TypeInv, Q2
<1>. QED
  BY <1>12 DEF Q2

-----------------------------------------------------------------------------
(* A reaction has run, a promise is handled                                *)

SameCore(x, y) ==
  /\ y.kind = x.kind /\ y.parent = x.parent /\ y.pending = x.pending
  /\ y.fulfilled = x.fulfilled /\ y.result = x.result /\ y.reactions = x.reactions
  /\ y.resolved = x.resolved /\ y.fresh = x.fresh /\ y.stale = x.stale
  /\ x.ran => y.ran

\* What depends neither on the history nor on UNHANDLED_REJECT.
LEMMA CoreStep ==
  ASSUME NEW P, NEW n, NEW Q, NEW F, NEW D, Inv(P, n, Q, F, D),
         NEW P2 \in [Promises -> PromiseRecords],
         \A q \in Promises : SameCore(P[q], P2[q])
  PROVE  /\ TypeInv(P2, n, Q, F) /\ Grown(P, n, P2, n)
         /\ ReactInv(P2, n) /\ QueueInv(P2, n, Q) /\ FreshInv(P2, Q)
         /\ FrameInv(P2, n, F) /\ AdoptInv(P2, n, Q, F) /\ RightInv(P2, n, Q, F)
         /\ ListOrder(P2, n) /\ QueueOrder(P2, Q)
<1>1. TypeInv(P, n, Q, F) /\ n \in 0..MaxPromises /\ Q \in Seq(Jobs) /\ F \in Seq(Frames)
      /\ P \in [Promises -> PromiseRecords] /\ n \in Nat
  BY PromiseAssumption DEF Inv, TypeInv
<1>2. TypeInv(P2, n, Q, F)
  BY <1>1 DEF TypeInv
<1>3. \A q \in 1..n : SameCore(P[q], P2[q])
  BY <1>1, BornPromise
<1>4. \A q \in 1..n : P2[q].reactions = P[q].reactions
  BY <1>3 DEF SameCore
<1>5. Grown(P, n, P2, n)
  BY <1>1, <1>3 DEF Grown, SameCore
<1>6. ReactInv(P2, n)
  <2>1. ReactInv(P, n)
    BY DEF Inv
  <2>2. ASSUME NEW q \in 1..n, NEW i \in 1..Len(P2[q].reactions)
        PROVE  ReactionOK(P2, n, q, P2[q].reactions[i])
    <3>1. ReactionOK(P, n, q, P2[q].reactions[i])
      BY <2>1, <1>4 DEF ReactInv
    <3>. QED
      BY <3>1, <1>1, <1>5, GrownReaction
  <2>. QED
    BY <2>2 DEF ReactInv
<1>7. QueueInv(P2, n, Q)
  BY <1>1, <1>5, GrownJob DEF Inv, QueueInv
<1>8. \A i \in 1..Len(Q) : Q[i].type # "microtask" => Q[i].target \in 1..n
  BY DEF Inv, QueueInv, JobOK
<1>9. FreshInv(P2, Q)
  BY <1>3, <1>8 DEF Inv, FreshInv, SameCore
<1>10. FrameInv(P2, n, F)
  BY <1>1, <1>5, GrownFrame DEF Inv, FrameInv
<1>11. AdoptInv(P2, n, Q, F)
  BY <1>3 DEF Inv, AdoptInv, SameCore
<1>12. RightInv(P2, n, Q, F)
  <2>1. \A p \in 1..n : ReactionRight(P2, n, p) => ReactionRight(P, n, p)
    BY <1>4, SameReactionRight
  <2>. QED
    BY <2>1, <1>3
       DEF Inv, RightInv, Open, HasRight, UserRight, Resolvable, SameCore
<1>13. ListOrder(P2, n)
  BY <1>4 DEF Inv, ListOrder
<1>14. QueueOrder(P2, Q)
  BY <1>3, <1>8 DEF Inv, QueueOrder, SameCore
<1>. QED
  BY <1>2, <1>5, <1>6, <1>7, <1>9, <1>10, <1>11, <1>12, <1>13, <1>14

\* The same reactions are registered with the same promises.
LEMMA SameRegistered ==
  ASSUME NEW P, NEW n, NEW P2, \A q \in 1..n : P2[q].reactions = P[q].reactions
  PROVE  \A d, q, i : AtPromise(P2, n, d, q, i) <=> AtPromise(P, n, d, q, i)
BY DEF AtPromise

\* The reaction d that is processed is the oldest one of its promise.
RanData(P, n, Q, D, P2, d) ==
  /\ P2 \in [Promises -> PromiseRecords]
  /\ d \in D /\ d \in 1..n
  /\ P[d].kind \in {"derived", "async"}
  /\ \A q \in Promises \ {d} : P2[q] = P[q]
  /\ SameCore(P[d], P2[d]) /\ P2[d].ran
  /\ P2[d].handled = P[d].handled /\ P2[d].unhandled = P[d].unhandled
  /\ P[d].kind = "derived" => ~ P[P[d].parent].pending
  /\ P[d].kind = "derived" => \A i \in 1..Len(Q) :
          Q[i].type = "reaction" /\ P[Q[i].target].parent = P[d].parent => d < Q[i].target

\* The job of a reaction is processed, or an async function ends.
LEMMA RanStep ==
  ASSUME NEW P, NEW n, NEW Q, NEW F, NEW D, Inv(P, n, Q, F, D),
         NEW P2, NEW d,
         RanData(P, n, Q, D, P2, d)
  PROVE  Inv(P2, n, Q, F, D \ {d}) /\ Grown(P, n, P2, n)
<1>. SUFFICES ASSUME P2 \in [Promises -> PromiseRecords],
                     d \in D /\ d \in 1..n,
                     P[d].kind \in {"derived", "async"},
                     \A q \in Promises \ {d} : P2[q] = P[q],
                     SameCore(P[d], P2[d]) /\ P2[d].ran,
                     P2[d].handled = P[d].handled /\ P2[d].unhandled = P[d].unhandled,
                     P[d].kind = "derived" => ~ P[P[d].parent].pending,
                     P[d].kind = "derived" => \A i \in 1..Len(Q) :
          Q[i].type = "reaction" /\ P[Q[i].target].parent = P[d].parent => d < Q[i].target
              PROVE  Inv(P2, n, Q, F, D \ {d}) /\ Grown(P, n, P2, n)
  BY DEF RanData
<1>1. TypeInv(P, n, Q, F) /\ n \in 0..MaxPromises /\ Q \in Seq(Jobs) /\ F \in Seq(Frames)
      /\ P \in [Promises -> PromiseRecords] /\ n \in Nat
  BY PromiseAssumption DEF Inv, TypeInv
<1>2. \A q \in Promises : SameCore(P[q], P2[q])
  BY DEF SameCore
<1>3. 1..n \subseteq Promises
  BY <1>1, BornPromise
<1>4. /\ TypeInv(P2, n, Q, F) /\ Grown(P, n, P2, n)
      /\ ReactInv(P2, n) /\ QueueInv(P2, n, Q) /\ FreshInv(P2, Q)
      /\ FrameInv(P2, n, F) /\ AdoptInv(P2, n, Q, F) /\ RightInv(P2, n, Q, F)
      /\ ListOrder(P2, n) /\ QueueOrder(P2, Q)
  BY <1>2, CoreStep
<1>5. BornInv(P2, n)
  <2>1. ASSUME NEW q \in 1..n PROVE PromiseOK(P2[q], q)
    <3>1. PromiseOK(P[q], q)
      BY DEF Inv, BornInv
    <3>2. CASE q = d
      BY <3>1, <3>2 DEF PromiseOK, SameCore
    <3>. QED
      BY <3>1, <3>2, <1>3
  <2>. QED
    BY <2>1, <1>1 DEF Inv, BornInv
<1>6. PlaceInv(P2, n, Q, F, D \ {d})
  <2>1. \A e, q, i : AtPromise(P2, n, e, q, i) <=> AtPromise(P, n, e, q, i)
    BY <1>2, <1>3, SameRegistered DEF SameCore
  <2>2. PlaceInv(P, n, Q, F, D)
    BY DEF Inv
  <2>. SUFFICES ASSUME NEW e \in 1..n, IsReaction(P2, e)
                PROVE  IF e \in D \ {d} THEN Elsewhere(P2, n, Q, F, e) /\ ~ P2[e].ran
                                        ELSE OnePlace(P2, n, Q, F, e)
    BY DEF PlaceInv
  <2>3. CASE e = d
    <3>1. Elsewhere(P, n, Q, F, d)
      BY <2>2 DEF PlaceInv, IsReaction
    <3>. QED
      BY <3>1, <2>1, <2>3 DEF OnePlace, Elsewhere, NotAtPromise
  <2>4. CASE e # d
    <3>1. P2[e] = P[e]
      BY <2>4, <1>3
    <3>. QED
      BY <3>1, <2>1, <2>2, <2>4
         DEF PlaceInv, IsReaction, OnePlace, OnlyAtPromise, OnlyAtQueue, OnlyAtFrame,
             Elsewhere, NotAtPromise
  <2>. QED
    BY <2>3, <2>4
<1>7. RunOrder(P2, n, Q)
  <2>1. \A i \in 1..Len(Q) : Q[i].type = "reaction" =>
          P2[Q[i].target].parent = P[Q[i].target].parent
    <3>1. \A i \in 1..Len(Q) : Q[i].type = "reaction" => Q[i].target \in 1..n
      BY DEF Inv, QueueInv, JobOK
    <3>. QED
      BY <3>1, <1>2, <1>3 DEF SameCore
  <2>. SUFFICES ASSUME NEW e \in 1..n, P2[e].kind = "derived", P2[e].ran
                PROVE  /\ ~ P2[P2[e].parent].pending
                       /\ \A i \in 1..Len(Q) :
                            Q[i].type = "reaction" /\ P2[Q[i].target].parent = P2[e].parent
                              => e < Q[i].target
    BY DEF RunOrder
  <2>2. P2[e].parent = P[e].parent /\ P[e].kind = "derived"
    BY <1>2, <1>3 DEF SameCore
  <2>3. P[e].parent \in Promises
    BY <2>2, <1>1, <1>3 DEF Inv, BornInv, PromiseOK
  <2>4. P2[P[e].parent].pending = P[P[e].parent].pending
    BY <2>3, <1>2 DEF SameCore
  <2>5. CASE e = d
    BY <2>1, <2>2, <2>4, <2>5
  <2>6. CASE e # d
    <3>1. P[e].ran
      BY <2>6, <1>3
    <3>. QED
      BY <3>1, <2>1, <2>2, <2>4 DEF Inv, RunOrder
  <2>. QED
    BY <2>5, <2>6
<1>. QED
  BY <1>4, <1>5, <1>6, <1>7 DEF Inv

\* What `then` and await do to a settled promise p.
HandledData(P, n, P2, p) ==
  /\ P2 \in [Promises -> PromiseRecords]
  /\ p \in 1..n /\ ~ P[p].pending
  /\ \A q \in Promises \ {p} : P2[q] = P[q]
  /\ SameCore(P[p], P2[p]) /\ P2[p].ran = P[p].ran
  /\ P2[p].handled /\ ~ P2[p].unhandled

\* `then` or await is called on a settled promise.
LEMMA HandledStep ==
  ASSUME NEW P, NEW n, NEW Q, NEW F, NEW D, Inv(P, n, Q, F, D),
         NEW P2, NEW p,
         HandledData(P, n, P2, p)
  PROVE  Inv(P2, n, Q, F, D) /\ Grown(P, n, P2, n)
<1>. SUFFICES ASSUME P2 \in [Promises -> PromiseRecords],
                     p \in 1..n /\ ~ P[p].pending,
                     \A q \in Promises \ {p} : P2[q] = P[q],
                     SameCore(P[p], P2[p]) /\ P2[p].ran = P[p].ran,
                     P2[p].handled /\ ~ P2[p].unhandled
              PROVE  Inv(P2, n, Q, F, D) /\ Grown(P, n, P2, n)
  BY DEF HandledData
<1>1. TypeInv(P, n, Q, F) /\ n \in 0..MaxPromises /\ Q \in Seq(Jobs) /\ F \in Seq(Frames)
      /\ P \in [Promises -> PromiseRecords] /\ n \in Nat
  BY PromiseAssumption DEF Inv, TypeInv
<1>2. \A q \in Promises : SameCore(P[q], P2[q]) /\ P2[q].ran = P[q].ran
  BY DEF SameCore
<1>3. 1..n \subseteq Promises
  BY <1>1, BornPromise
<1>4. /\ TypeInv(P2, n, Q, F) /\ Grown(P, n, P2, n)
      /\ ReactInv(P2, n) /\ QueueInv(P2, n, Q) /\ FreshInv(P2, Q)
      /\ FrameInv(P2, n, F) /\ AdoptInv(P2, n, Q, F) /\ RightInv(P2, n, Q, F)
      /\ ListOrder(P2, n) /\ QueueOrder(P2, Q)
  BY <1>2, CoreStep
<1>5. BornInv(P2, n)
  <2>1. ASSUME NEW q \in 1..n PROVE PromiseOK(P2[q], q)
    <3>1. PromiseOK(P[q], q)
      BY DEF Inv, BornInv
    <3>2. CASE q = p
      BY <3>1, <3>2 DEF PromiseOK, SameCore
    <3>. QED
      BY <3>1, <3>2, <1>3
  <2>. QED
    BY <2>1, <1>1 DEF Inv, BornInv
<1>6. PlaceInv(P2, n, Q, F, D)
  <2>1. \A e, q, i : AtPromise(P2, n, e, q, i) <=> AtPromise(P, n, e, q, i)
    BY <1>2, <1>3, SameRegistered DEF SameCore
  <2>2. PlaceInv(P, n, Q, F, D)
    BY DEF Inv
  <2>3. \A e \in 1..n : P2[e].ran = P[e].ran /\ P2[e].kind = P[e].kind
    BY <1>2, <1>3 DEF SameCore
  <2>. QED
    BY <2>1, <2>2, <2>3
       DEF PlaceInv, IsReaction, OnePlace, OnlyAtPromise, OnlyAtQueue, OnlyAtFrame,
           Elsewhere, NotAtPromise
<1>7. RunOrder(P2, n, Q)
  <2>1. \A i \in 1..Len(Q) : Q[i].type = "reaction" =>
          P2[Q[i].target].parent = P[Q[i].target].parent
    <3>1. \A i \in 1..Len(Q) : Q[i].type = "reaction" => Q[i].target \in 1..n
      BY DEF Inv, QueueInv, JobOK
    <3>. QED
      BY <3>1, <1>2, <1>3 DEF SameCore
  <2>. SUFFICES ASSUME NEW e \in 1..n, P2[e].kind = "derived", P2[e].ran
                PROVE  /\ ~ P2[P2[e].parent].pending
                       /\ \A i \in 1..Len(Q) :
                            Q[i].type = "reaction" /\ P2[Q[i].target].parent = P2[e].parent
                              => e < Q[i].target
    BY DEF RunOrder
  <2>2. P2[e].parent = P[e].parent /\ P[e].kind = "derived" /\ P[e].ran
    BY <1>2, <1>3 DEF SameCore
  <2>3. P[e].parent \in Promises
    BY <2>2, <1>1, <1>3 DEF Inv, BornInv, PromiseOK
  <2>4. P2[P[e].parent].pending = P[P[e].parent].pending
    BY <2>3, <1>2 DEF SameCore
  <2>. QED
    BY <2>1, <2>2, <2>4 DEF Inv, RunOrder
<1>. QED
  BY <1>4, <1>5, <1>6, <1>7 DEF Inv

-----------------------------------------------------------------------------
(* A reaction is registered with a pending promise                         *)

\* What `then` and await have seen to when they register reaction r with p.
RegisterData(P, n, Q, F, D, P2, p, r) ==
  /\ P2 \in [Promises -> PromiseRecords]
  /\ p \in 1..n /\ P[p].pending
  /\ r \in Reactions /\ ReactionOK(P, n, p, r) /\ r.target \in D
  /\ r.onF.h = "resolve" => Resolvable(P, Q, F, r.onF.p)
  /\ r.onR.h = "reject" => Resolvable(P, Q, F, r.onR.p)
  /\ r.type = "then" => \A i \in 1..Len(P[p].reactions) :
          P[p].reactions[i].type = "then" => P[p].reactions[i].target < r.target
  /\ \A q \in Promises \ {p} : P2[q] = P[q]
  /\ P2[p].reactions = Append(P[p].reactions, r) /\ P2[p].handled
  /\ P2[p].unhandled = P[p].unhandled
  /\ SameCore([P[p] EXCEPT !.reactions = P2[p].reactions], P2[p])
  /\ P2[p].ran = P[p].ran

\* `then` or await is called on a pending promise.
LEMMA RegisterStep ==
  ASSUME NEW P, NEW n, NEW Q, NEW F, NEW D, Inv(P, n, Q, F, D),
         NEW P2, NEW p, NEW r,
         RegisterData(P, n, Q, F, D, P2, p, r)
  PROVE  Inv(P2, n, Q, F, D \ {r.target}) /\ Grown(P, n, P2, n)
<1>. SUFFICES ASSUME P2 \in [Promises -> PromiseRecords],
                     p \in 1..n /\ P[p].pending,
                     r \in Reactions /\ ReactionOK(P, n, p, r) /\ r.target \in D,
                     r.onF.h = "resolve" => Resolvable(P, Q, F, r.onF.p),
                     r.onR.h = "reject" => Resolvable(P, Q, F, r.onR.p),
                     r.type = "then" => \A i \in 1..Len(P[p].reactions) :
          P[p].reactions[i].type = "then" => P[p].reactions[i].target < r.target,
                     \A q \in Promises \ {p} : P2[q] = P[q],
                     P2[p].reactions = Append(P[p].reactions, r) /\ P2[p].handled,
                     P2[p].unhandled = P[p].unhandled,
                     SameCore([P[p] EXCEPT !.reactions = P2[p].reactions], P2[p]),
                     P2[p].ran = P[p].ran
              PROVE  Inv(P2, n, Q, F, D \ {r.target}) /\ Grown(P, n, P2, n)
  BY DEF RegisterData
<1>1. TypeInv(P, n, Q, F) /\ n \in 0..MaxPromises /\ Q \in Seq(Jobs) /\ F \in Seq(Frames)
      /\ P \in [Promises -> PromiseRecords] /\ n \in Nat
  BY PromiseAssumption DEF Inv, TypeInv
<1>2. TypeInv(P2, n, Q, F)
  BY <1>1 DEF TypeInv
<1>3. 1..n \subseteq Promises
  BY <1>1, BornPromise
<1>4. /\ P2[p].kind = P[p].kind /\ P2[p].parent = P[p].parent
      /\ P2[p].pending = P[p].pending /\ P2[p].fulfilled = P[p].fulfilled
      /\ P2[p].result = P[p].result /\ P2[p].resolved = P[p].resolved
      /\ P2[p].fresh = P[p].fresh /\ P2[p].stale = P[p].stale
  <2>1. P[p] \in PromiseRecords
    BY <1>1, <1>3
  <2>. QED
    BY <2>1 DEF SameCore, PromiseRecords
<1>5. \A q \in 1..n :
        /\ P2[q].kind = P[q].kind /\ P2[q].parent = P[q].parent
        /\ P2[q].pending = P[q].pending /\ P2[q].fulfilled = P[q].fulfilled
        /\ P2[q].result = P[q].result /\ P2[q].resolved = P[q].resolved
        /\ P2[q].fresh = P[q].fresh /\ P2[q].stale = P[q].stale
        /\ P2[q].ran = P[q].ran
  BY <1>3, <1>4
<1>6. Grown(P, n, P2, n)
  BY <1>1, <1>5 DEF Grown
<1>. DEFINE m == Len(P[p].reactions) + 1
<1>7. /\ P[p].reactions \in Seq(Reactions) /\ m \in Nat /\ m \in 1..Len(P2[p].reactions)
      /\ Len(P2[p].reactions) = m /\ P2[p].reactions[m] = r
      /\ \A i \in 1..Len(P[p].reactions) :
           i \in 1..m /\ i < m /\ P2[p].reactions[i] = P[p].reactions[i]
      /\ \A i \in 1..m : i = m \/ i \in 1..Len(P[p].reactions)
  <2>1. P[p].reactions \in Seq(Reactions)
    BY <1>1, <1>3 DEF PromiseRecords
  <2>. QED
    BY <2>1
<1>. HIDE DEF m
<1>8. BornInv(P2, n)
  <2>1. ASSUME NEW q \in 1..n PROVE PromiseOK(P2[q], q)
    <3>1. PromiseOK(P[q], q)
      BY DEF Inv, BornInv
    <3>2. CASE q = p
      <4>1. P2[p].reactions # <<>>
        BY <1>7
      <4>. QED
        BY <4>1, <3>1, <3>2, <1>5 DEF PromiseOK
    <3>. QED
      BY <3>1, <3>2, <1>3
  <2>. QED
    BY <2>1, <1>1 DEF Inv, BornInv
<1>9. ReactInv(P2, n)
  <2>1. ReactInv(P, n)
    BY DEF Inv
  <2>2. ASSUME NEW q \in 1..n, NEW i \in 1..Len(P2[q].reactions)
        PROVE  ReactionOK(P2, n, q, P2[q].reactions[i])
    <3>1. ReactionOK(P, n, q, P2[q].reactions[i])
      <4>1. CASE q = p
        BY <4>1, <1>7, <2>1 DEF ReactInv
      <4>2. CASE q # p
        <5>1. P2[q] = P[q]
          BY <4>2, <1>3
        <5>. QED
          BY <5>1, <2>1 DEF ReactInv
      <4>. QED
        BY <4>1, <4>2
    <3>. QED
      BY <3>1, <1>1, <1>6, GrownReaction
  <2>. QED
    BY <2>2 DEF ReactInv
<1>10. QueueInv(P2, n, Q)
  BY <1>1, <1>6, GrownJob DEF Inv, QueueInv
<1>11. \A i \in 1..Len(Q) : Q[i].type # "microtask" => Q[i].target \in 1..n
  BY DEF Inv, QueueInv, JobOK
<1>12. FreshInv(P2, Q)
  BY <1>5, <1>11 DEF Inv, FreshInv
<1>13. FrameInv(P2, n, F)
  BY <1>1, <1>6, GrownFrame DEF Inv, FrameInv
<1>14. AdoptInv(P2, n, Q, F)
  BY <1>5 DEF Inv, AdoptInv
<1>15. RightInv(P2, n, Q, F)
  <2>1. ASSUME NEW q \in 1..n, ReactionRight(P2, n, q)
        PROVE  \/ ReactionRight(P, n, q)
               \/ r.onF.h = "resolve" /\ r.onF.p = q
               \/ r.onR.h = "reject" /\ r.onR.p = q
    <3>1. PICK q2 \in 1..n : \E i \in 1..Len(P2[q2].reactions) :
            \/ P2[q2].reactions[i].onF.h = "resolve" /\ P2[q2].reactions[i].onF.p = q
            \/ P2[q2].reactions[i].onR.h = "reject" /\ P2[q2].reactions[i].onR.p = q
      BY <2>1 DEF ReactionRight
    <3>2. PICK i \in 1..Len(P2[q2].reactions) :
            \/ P2[q2].reactions[i].onF.h = "resolve" /\ P2[q2].reactions[i].onF.p = q
            \/ P2[q2].reactions[i].onR.h = "reject" /\ P2[q2].reactions[i].onR.p = q
      BY <3>1
    <3>3. CASE q2 = p /\ i = m
      BY <3>2, <3>3, <1>7
    <3>4. CASE ~ (q2 = p /\ i = m)
      <4>1. i \in 1..Len(P[q2].reactions) /\ P2[q2].reactions[i] = P[q2].reactions[i]
        BY <3>4, <1>3, <1>7
      <4>. QED
        BY <4>1, <3>2, Zenon DEF ReactionRight
    <3>. QED
      BY <3>3, <3>4
  <2>2. RightInv(P, n, Q, F)
    BY DEF Inv
  <2>3. \A q \in 1..n : HasRight(P2, n, Q, F, q) => Resolvable(P, Q, F, q)
    BY <2>1, <2>2, <1>5 DEF RightInv, HasRight, UserRight
  <2>. QED
    BY <2>2, <2>3, <1>5 DEF RightInv, Open, Resolvable
<1>16. PlaceInv(P2, n, Q, F, D \ {r.target})
  <2>1. \A d : \A q, i \in Nat : AtPromise(P2, n, d, q, i) <=>
          \/ q = p /\ i = m /\ r.target = d
          \/ AtPromise(P, n, d, q, i)
    <3>. SUFFICES ASSUME NEW d, NEW q \in Nat, NEW i \in Nat
                  PROVE  AtPromise(P2, n, d, q, i) <=>
                           \/ q = p /\ i = m /\ r.target = d
                           \/ AtPromise(P, n, d, q, i)
      OBVIOUS
    <3>1. CASE q = p
      BY <3>1, <1>7 DEF AtPromise
    <3>2. CASE q # p
      <4>1. q \in 1..n => P2[q] = P[q]
        BY <3>2, <1>3
      <4>. QED
        BY <3>2, <4>1 DEF AtPromise
    <3>. QED
      BY <3>1, <3>2
  <2>2. PlaceInv(P, n, Q, F, D)
    BY DEF Inv
  <2>. SUFFICES ASSUME NEW e \in 1..n, IsReaction(P2, e)
                PROVE  IF e \in D \ {r.target}
                         THEN Elsewhere(P2, n, Q, F, e) /\ ~ P2[e].ran
                         ELSE OnePlace(P2, n, Q, F, e)
    BY DEF PlaceInv
  <2>3. IsReaction(P, e) /\ P2[e].ran = P[e].ran
    BY <1>5 DEF IsReaction
  <2>4. CASE e = r.target
    <3>1. Elsewhere(P, n, Q, F, e) /\ ~ P[e].ran
      BY <2>2, <2>3, <2>4 DEF PlaceInv
    <3>2. \A q, i \in Nat : AtPromise(P2, n, e, q, i) <=> q = p /\ i = m
      BY <3>1, <2>1, <2>4 DEF Elsewhere, NotAtPromise
    <3>3. p \in Nat /\ m \in Nat
      BY <1>7
    <3>. QED
      BY <3>1, <3>2, <3>3, <2>3, <2>4 DEF OnePlace, OnlyAtPromise, Elsewhere
  <2>5. CASE e # r.target
    <3>1. \A q, i \in Nat : AtPromise(P2, n, e, q, i) <=> AtPromise(P, n, e, q, i)
      BY <2>1, <2>5
    <3>. QED
      BY <3>1, <2>2, <2>3, <2>5
         DEF PlaceInv, IsReaction, OnePlace, OnlyAtPromise, OnlyAtQueue, OnlyAtFrame,
             Elsewhere, NotAtPromise
  <2>. QED
    BY <2>4, <2>5
<1>17. ListOrder(P2, n)
  <2>. SUFFICES ASSUME NEW q \in 1..n, NEW i \in 1..Len(P2[q].reactions),
                       NEW j \in 1..Len(P2[q].reactions), i < j,
                       P2[q].reactions[i].type = "then", P2[q].reactions[j].type = "then"
                PROVE  P2[q].reactions[i].target < P2[q].reactions[j].target
    BY DEF ListOrder
  <2>1. ListOrder(P, n)
    BY DEF Inv
  <2>2. CASE q = p
    <3>1. i \in 1..Len(P[p].reactions) /\ P2[p].reactions[i] = P[p].reactions[i]
      BY <2>2, <1>7
    <3>2. CASE j = m
      BY <3>1, <3>2, <2>2, <1>7
    <3>3. CASE j # m
      BY <3>1, <3>3, <2>1, <2>2, <1>7 DEF ListOrder
    <3>. QED
      BY <3>2, <3>3
  <2>3. CASE q # p
    <3>1. P2[q] = P[q]
      BY <2>3, <1>3
    <3>. QED
      BY <3>1, <2>1 DEF ListOrder
  <2>. QED
    BY <2>2, <2>3
<1>18. QueueOrder(P2, Q)
  BY <1>5, <1>11 DEF Inv, QueueOrder
<1>19. RunOrder(P2, n, Q)
  <2>1. \A e \in 1..n : P[e].kind = "derived" => P[e].parent \in 1..n
    BY <1>1 DEF Inv, BornInv, PromiseOK
  <2>. QED
    BY <2>1, <1>5, <1>11 DEF Inv, RunOrder
<1>. QED
  BY <1>2, <1>6, <1>8, <1>9, <1>10, <1>12, <1>13, <1>14, <1>15, <1>16, <1>17, <1>18, <1>19
     DEF Inv

-----------------------------------------------------------------------------
(* A promise is created                                                    *)

\* Promise p of P becomes the record x.
PutPromise(P, p, x) == [P EXCEPT ![p] = x]

\* What the code has seen to when it creates promise d.
NewData(P, n, Q, d, kind, parent, fresh, P2) ==
  /\ d = n + 1
  /\ kind \in {"plain", "derived", "async"}
  /\ parent \in 0..n
  /\ fresh \in 0..MaxFresh
  /\ kind = "async" => fresh = 0
  /\ kind = "derived" => parent # 0
  /\ FreeInv(n + 1, Q)
  /\ P2 = PutPromise(P, d, Promise(kind, parent, fresh))

\* The promises after promise d was created.
Created(P, n, d, kind, parent, fresh, P2) ==
  /\ Grown(P, n, P2, d) /\ d \in 0..MaxPromises
  /\ \A q \in 1..n : P2[q] = P[q]
  /\ P2[d] = Promise(kind, parent, fresh)

\* The new promise has no reactions and nobody waits for it yet.
LEMMA NewStep ==
  ASSUME NEW P, NEW n, NEW Q, NEW F, NEW D, Inv(P, n, Q, F, D),
         NEW d, NEW kind, NEW parent, NEW fresh, NEW P2,
         NewData(P, n, Q, d, kind, parent, fresh, P2)
  PROVE  Inv(P2, d, Q, F, D \cup {d}) /\ Created(P, n, d, kind, parent, fresh, P2)
<1>. SUFFICES ASSUME kind \in {"plain", "derived", "async"}, parent \in 0..n,
                     fresh \in 0..MaxFresh, kind = "async" => fresh = 0,
                     kind = "derived" => parent # 0, FreeInv(n + 1, Q),
                     P2 = [P EXCEPT ![n + 1] = Promise(kind, parent, fresh)]
              PROVE  /\ Inv(P2, n + 1, Q, F, D \cup {n + 1})
                     /\ Grown(P, n, P2, n + 1) /\ n + 1 \in 0..MaxPromises
                     /\ \A q \in 1..n : P2[q] = P[q]
                     /\ P2[n + 1] = Promise(kind, parent, fresh)
  BY DEF NewData, Created, PutPromise
<1>1. TypeInv(P, n, Q, F) /\ n \in 0..MaxPromises /\ Q \in Seq(Jobs) /\ F \in Seq(Frames)
      /\ P \in [Promises -> PromiseRecords] /\ n \in Nat
  BY PromiseAssumption DEF Inv, TypeInv
<1>2. n + 1 \in 0..MaxPromises /\ n + 1 \in Promises
  <2>1. Cardinality(Reserved(Q)) \in Nat
    BY <1>1, ReservedFinite
  <2>. QED
    BY <2>1, <1>1, PromiseAssumption DEF FreeInv, Promises
<1>3. 1..n \subseteq Promises /\ n + 1 \notin 1..n /\ 1..(n + 1) = (1..n) \cup {n + 1}
  BY <1>1, BornPromise
<1>. DEFINE x == Promise(kind, parent, fresh)
<1>4. x \in PromiseRecords
  <2>1. <<>> \in Seq(Reactions) /\ Undef \in Objects /\ parent \in 0..MaxPromises
    BY <1>1, OtherObjects, PromiseAssumption
  <2>. QED
    BY <2>1 DEF Promise, PromiseRecords
<1>5. /\ x.kind = kind /\ x.parent = parent /\ x.fresh = fresh /\ x.pending
      /\ ~ x.fulfilled /\ ~ x.resolved /\ ~ x.unhandled /\ x.result = Undef
      /\ x.reactions = <<>> /\ ~ x.handled /\ ~ x.ran /\ ~ x.stale
  BY DEF Promise
<1>6. P2 \in [Promises -> PromiseRecords] /\ P2[n + 1] = x
      /\ \A q \in Promises \ {n + 1} : P2[q] = P[q]
  BY <1>1, <1>2, <1>4
<1>. HIDE DEF x
<1>7. \A q \in 1..n : P2[q] = P[q]
  BY <1>3, <1>6
<1>8. Grown(P, n, P2, n + 1)
  BY <1>1, <1>7 DEF Grown
<1>9. TypeInv(P2, n + 1, Q, F)
  BY <1>1, <1>2, <1>6 DEF TypeInv
<1>10. BornInv(P2, n + 1)
  <2>1. PromiseOK(x, n + 1)
    BY <1>1, <1>5, OtherObjects DEF PromiseOK
  <2>2. \A q \in 1..(n + 1) : PromiseOK(P2[q], q)
    BY <2>1, <1>3, <1>6, <1>7 DEF Inv, BornInv
  <2>3. \A q \in Promises : q > n + 1 => q > n /\ q # n + 1
    BY <1>1, PromiseAssumption DEF Promises
  <2>. QED
    BY <2>2, <2>3, <1>6 DEF Inv, BornInv
<1>11. Len(P2[n + 1].reactions) = 0 /\ 1..Len(P2[n + 1].reactions) = {}
  BY <1>5, <1>6
<1>12. ReactInv(P2, n + 1)
  <2>1. ReactInv(P, n)
    BY DEF Inv
  <2>2. ASSUME NEW q \in 1..(n + 1), NEW i \in 1..Len(P2[q].reactions)
        PROVE  ReactionOK(P2, n + 1, q, P2[q].reactions[i])
    <3>1. q \in 1..n /\ P2[q] = P[q]
      BY <1>3, <1>7, <1>11
    <3>2. ReactionOK(P, n, q, P2[q].reactions[i])
      BY <3>1, <2>1 DEF ReactInv
    <3>. QED
      BY <3>2, <1>1, <1>2, <1>8, GrownReaction
  <2>. QED
    BY <2>2 DEF ReactInv
<1>13. QueueInv(P2, n + 1, Q)
  BY <1>1, <1>2, <1>8, GrownJob DEF Inv, QueueInv
<1>14. \A i \in 1..Len(Q) :
         /\ Q[i].type # "microtask" => Q[i].target \in 1..n
         /\ Q[i].handler.h \in {"resolve", "reject"} => Q[i].handler.p \in 1..n
  BY DEF Inv, QueueInv, JobOK, NoHandler, Handler
<1>15. FreshInv(P2, Q)
  BY <1>7, <1>14 DEF Inv, FreshInv
<1>16. FrameInv(P2, n + 1, F)
  BY <1>1, <1>2, <1>8, GrownFrame DEF Inv, FrameInv
<1>17. \A i \in 1..Len(F) : F[i].type \notin {"microtask", "drain"} => F[i].target \in 1..n
  BY DEF Inv, FrameInv, FrameOK
<1>18. AdoptJobs(Q, n + 1) = {} /\ AdoptGets(F, n + 1) = {} /\ ~ InAdoption(Q, F, n + 1)
  BY <1>3, <1>14, <1>17 DEF AdoptJobs, AdoptGets, InAdoption
<1>19. AdoptInv(P2, n + 1, Q, F)
  BY <1>3, <1>7, <1>18 DEF Inv, AdoptInv
<1>20. \A q \in 1..(n + 1) : ReactionRight(P2, n + 1, q) => q \in 1..n /\ ReactionRight(P, n, q)
  <2>. SUFFICES ASSUME NEW q \in 1..(n + 1), ReactionRight(P2, n + 1, q)
                PROVE  q \in 1..n /\ ReactionRight(P, n, q)
    OBVIOUS
  <2>1. PICK q2 \in 1..(n + 1) : \E i \in 1..Len(P2[q2].reactions) :
          \/ P2[q2].reactions[i].onF.h = "resolve" /\ P2[q2].reactions[i].onF.p = q
          \/ P2[q2].reactions[i].onR.h = "reject" /\ P2[q2].reactions[i].onR.p = q
    BY DEF ReactionRight
  <2>2. q2 \in 1..n /\ P2[q2] = P[q2]
    BY <2>1, <1>3, <1>7, <1>11
  <2>3. ReactionRight(P, n, q)
    BY <2>1, <2>2, Zenon DEF ReactionRight
  <2>4. PICK i \in 1..Len(P[q2].reactions) :
          \/ P[q2].reactions[i].onF.h = "resolve" /\ P[q2].reactions[i].onF.p = q
          \/ P[q2].reactions[i].onR.h = "reject" /\ P[q2].reactions[i].onR.p = q
    BY <2>1, <2>2
  <2>5. P[q2].reactions[i] \in Reactions /\ ReactionOK(P, n, q2, P[q2].reactions[i])
    BY <2>2, <1>1, <1>3, ReactionType DEF Inv, ReactInv
  <2>6. q \in 1..n
    BY <2>4, <2>5 DEF ReactionOK, Reactions, NoHandler, Handler
  <2>. QED
    BY <2>3, <2>6
<1>21. RightInv(P2, n + 1, Q, F)
  <2>. SUFFICES ASSUME NEW q \in 1..(n + 1)
                PROVE  /\ P2[q].kind # "async" => Open(P2, Q, F, q)
                       /\ P2[q].kind = "async" /\ ~ P2[q].ran =>
                            P2[q].pending /\ ~ InAdoption(Q, F, q)
                       /\ HasRight(P2, n + 1, Q, F, q) => Resolvable(P2, Q, F, q)
    BY DEF RightInv
  <2>1. CASE q = n + 1
    <3>1. ~ JobRight(Q, q) /\ ~ FrameRight(F, q) /\ ~ ReactionRight(P2, n + 1, q)
      BY <2>1, <1>3, <1>14, <1>17, <1>20 DEF JobRight, FrameRight
    <3>. QED
      BY <3>1, <2>1, <1>5, <1>6, <1>18
         DEF HasRight, UserRight, Resolvable, Open
  <2>2. CASE q # n + 1
    <3>1. q \in 1..n /\ P2[q] = P[q]
      BY <2>2, <1>3, <1>7
    <3>. QED
      BY <3>1, <1>20 DEF Inv, RightInv, HasRight, UserRight, Resolvable, Open
  <2>. QED
    BY <2>1, <2>2
<1>22. PlaceInv(P2, n + 1, Q, F, D \cup {n + 1})
  <2>1. \A c, q, i : AtPromise(P2, n + 1, c, q, i) <=> AtPromise(P, n, c, q, i)
    BY <1>3, <1>7, <1>11 DEF AtPromise
  <2>2. PlaceInv(P, n, Q, F, D)
    BY DEF Inv
  <2>. SUFFICES ASSUME NEW e \in 1..(n + 1), IsReaction(P2, e)
                PROVE  IF e \in D \cup {n + 1}
                         THEN Elsewhere(P2, n + 1, Q, F, e) /\ ~ P2[e].ran
                         ELSE OnePlace(P2, n + 1, Q, F, e)
    BY DEF PlaceInv
  <2>3. CASE e = n + 1
    <3>1. NotAtPromise(P2, n + 1, e)
      <4>1. \A q, i : AtPromise(P, n, e, q, i) => e \in 1..n
        BY DEF AtPromise, Inv, ReactInv, ReactionOK
      <4>. QED
        BY <4>1, <2>1, <2>3, <1>3 DEF NotAtPromise
    <3>2. NotAtQueue(Q, e) /\ NotAtFrame(F, e)
      BY <2>3, <1>3, <1>14, <1>17
         DEF NotAtQueue, NotAtFrame, AtQueue, AtFrame, ReactionTypes, AwaitTypes
    <3>. QED
      BY <3>1, <3>2, <2>3, <1>5, <1>6 DEF Elsewhere
  <2>4. CASE e # n + 1
    <3>1. e \in 1..n /\ P2[e] = P[e]
      BY <2>4, <1>3, <1>7
    <3>2. e \in D \cup {n + 1} <=> e \in D
      BY <2>4
    <3>3. IF e \in D THEN Elsewhere(P, n, Q, F, e) /\ ~ P[e].ran
                     ELSE OnePlace(P, n, Q, F, e)
      BY <3>1, <2>2 DEF PlaceInv, IsReaction
    <3>4. Elsewhere(P, n, Q, F, e) => Elsewhere(P2, n + 1, Q, F, e)
      BY <2>1 DEF Elsewhere, NotAtPromise
    <3>5. OnePlace(P, n, Q, F, e) => OnePlace(P2, n + 1, Q, F, e)
      <4>1. NotAtPromise(P, n, e) => NotAtPromise(P2, n + 1, e)
        BY <2>1 DEF NotAtPromise
      <4>2. ASSUME OnlyAtPromise(P, n, Q, F, e) PROVE OnlyAtPromise(P2, n + 1, Q, F, e)
        <5>1. PICK q \in Nat : \E i \in Nat :
                /\ AtPromise(P, n, e, q, i)
                /\ \A q2, i2 \in Nat : AtPromise(P, n, e, q2, i2) => q2 = q /\ i2 = i
          BY <4>2 DEF OnlyAtPromise
        <5>2. PICK i \in Nat :
                /\ AtPromise(P, n, e, q, i)
                /\ \A q2, i2 \in Nat : AtPromise(P, n, e, q2, i2) => q2 = q /\ i2 = i
          BY <5>1
        <5>3. AtPromise(P2, n + 1, e, q, i)
          BY <5>2, <2>1
        <5>4. ASSUME NEW q2 \in Nat, NEW i2 \in Nat, AtPromise(P2, n + 1, e, q2, i2)
              PROVE  q2 = q /\ i2 = i
          BY <5>2, <5>4, <2>1
        <5>. QED
          BY <5>3, <5>4, <4>2, <3>1 DEF OnlyAtPromise
      <4>3. OnlyAtQueue(P, n, Q, F, e) => OnlyAtQueue(P2, n + 1, Q, F, e)
        BY <3>1, <4>1, Zenon DEF OnlyAtQueue
      <4>4. OnlyAtFrame(P, n, Q, F, e) => OnlyAtFrame(P2, n + 1, Q, F, e)
        BY <3>1, <4>1, Zenon DEF OnlyAtFrame
      <4>. QED
        BY <3>1, <3>4, <4>2, <4>3, <4>4 DEF OnePlace
    <3>. QED
      BY <3>1, <3>2, <3>3, <3>4, <3>5
  <2>. QED
    BY <2>3, <2>4
<1>23. ListOrder(P2, n + 1)
  <2>. SUFFICES ASSUME NEW q \in 1..(n + 1), NEW i \in 1..Len(P2[q].reactions),
                       NEW j \in 1..Len(P2[q].reactions), i < j,
                       P2[q].reactions[i].type = "then", P2[q].reactions[j].type = "then"
                PROVE  P2[q].reactions[i].target < P2[q].reactions[j].target
    BY DEF ListOrder
  <2>1. q \in 1..n /\ P2[q] = P[q]
    BY <1>3, <1>7, <1>11
  <2>. QED
    BY <2>1 DEF Inv, ListOrder
<1>24. QueueOrder(P2, Q)
  BY <1>7, <1>14 DEF Inv, QueueOrder
<1>25. RunOrder(P2, n + 1, Q)
  <2>1. \A e \in 1..n : P[e].kind = "derived" => P[e].parent \in 1..n
    BY <1>1 DEF Inv, BornInv, PromiseOK
  <2>2. \A e \in 1..(n + 1) : P2[e].ran => e \in 1..n
    BY <1>3, <1>5, <1>6
  <2>. QED
    BY <2>1, <2>2, <1>7, <1>14 DEF Inv, RunOrder
<1>. QED
  BY <1>2, <1>6, <1>7, <1>8, <1>9, <1>10, <1>12, <1>13, <1>15, <1>16, <1>19, <1>21, <1>22,
     <1>23, <1>24, <1>25
     DEF Inv, x

-----------------------------------------------------------------------------
(* A promise is settled                                                    *)

\* The job of a reaction of p, once p is settled.
JobOf(P, n, p, r, job) ==
  /\ JobOK(P, n, job)
  /\ job.type = "reaction" => r.type = "then" /\ P[job.target].parent = p
  /\ job.handler.h \in {"resolve", "reject"} =>
       \/ r.onF.h = "resolve" /\ r.onF.p = job.handler.p
       \/ r.onR.h = "reject" /\ r.onR.p = job.handler.p

\* The job of a reaction of a promise that is settled now.
LEMMA SettledJob ==
  ASSUME NEW P, NEW n \in 0..MaxPromises, NEW P2 \in [Promises -> PromiseRecords],
         NEW p \in 1..n, NEW r \in Reactions, ReactionOK(P, n, p, r),
         Grown(P, n, P2, n),
         NEW v \in Objects, v \notin Promises, NEW isR \in BOOLEAN,
         ~ P2[p].pending, P2[p].fulfilled <=> ~ isR, P2[p].result = v,
         NEW job, job = ReactionJob(r, v, isR)
  PROVE  JobOf(P2, n, p, r, job)
<1>1. r.type \in {"then", "await"} /\ r.target \in 1..n
  BY DEF Reactions, ReactionOK
<1>2. CASE r.type = "await"
  <2>1. /\ job.type \in AwaitTypes /\ job.target = r.target /\ job.handler = NoHandler
        /\ job.type \notin {"reaction", "thenable", "microtask"}
    BY <1>2 DEF ReactionJob, Job, AwaitTypes
  <2>2. NoHandler.h \notin {"resolve", "reject"}
    BY DEF NoHandler, Handler
  <2>3. P2[r.target].kind = "async"
    BY <1>1, <1>2 DEF ReactionOK, Grown
  <2>4. JobOK(P2, n, job)
    BY <1>1, <2>1, <2>3 DEF JobOK
  <2>5. job.type # "reaction" /\ job.handler.h \notin {"resolve", "reject"}
    BY <2>1, <2>2
  <2>. QED
    BY <2>4, <2>5 DEF JobOf
<1>3. CASE r.type = "then"
  <2>1. /\ job.type = "reaction" /\ job.target = r.target /\ job.arg = v
        /\ job.handler = IF isR THEN r.onR ELSE r.onF
    BY <1>3 DEF ReactionJob, Job
  <2>2. /\ P2[r.target].kind = "derived" /\ P2[r.target].parent = p
        /\ r.onF.h \in {"identity", "user", "resolve"}
        /\ r.onR.h \in {"thrower", "user", "reject"}
        /\ r.onF.h = "resolve" => r.onF.p \in 1..n
        /\ r.onR.h = "reject" => r.onR.p \in 1..n
    BY <1>1, <1>3 DEF ReactionOK, Grown
  <2>3. CASE ~ isR
    <3>1. JobOK(P2, n, job)
      BY <1>1, <2>1, <2>2, <2>3 DEF JobOK, AwaitTypes
    <3>. QED
      BY <3>1, <1>3, <2>1, <2>2, <2>3 DEF JobOf
  <2>4. CASE isR
    <3>1. JobOK(P2, n, job)
      BY <1>1, <2>1, <2>2, <2>4 DEF JobOK, AwaitTypes
    <3>. QED
      BY <3>1, <1>3, <2>1, <2>2, <2>4 DEF JobOf
  <2>. QED
    BY <2>3, <2>4
<1>. QED
  BY <1>1, <1>2, <1>3

\* The jobs of the reactions L.
JobsOf(L, v, b) == [i \in 1..Len(L) |-> ReactionJob(L[i], v, b)]

\* ecma_promise_trigger_reactions.
LEMMA TriggeredJobs ==
  ASSUME NEW L \in Seq(Reactions), NEW v \in Objects, NEW b \in BOOLEAN,
         NEW R, R = JobsOf(L, v, b)
  PROVE  /\ R \in Seq(Jobs) /\ Len(R) = Len(L)
         /\ \A i \in 1..Len(L) :
              /\ R[i] = ReactionJob(L[i], v, b)
              /\ R[i].type \in ReactionTypes /\ R[i].target = L[i].target
<1>. USE DEF JobsOf
<1>1. Len(L) \in Nat
  BY LenProperties
<1>2. NoHandler \in Handlers
  BY DEF NoHandler, Handler, Handlers
<1>3. ASSUME NEW i \in 1..Len(L)
      PROVE  /\ R[i] = ReactionJob(L[i], v, b) /\ R[i] \in Jobs
             /\ R[i].type \in ReactionTypes /\ R[i].target = L[i].target
  <2>1. L[i] \in Reactions /\ R[i] = ReactionJob(L[i], v, b)
    BY ElementOfSeq
  <2>2. L[i].target \in Promises /\ L[i].onF \in Handlers
    BY <2>1 DEF Reactions
  <2>. QED
    BY <2>1, <2>2, MadeTypes
<1>4. R \in [1..Len(L) -> Jobs]
  BY <1>3
<1>. QED
  BY <1>1, <1>3, <1>4

\* What the operation does to promise p.
Settles(P, P2, p, v, isF) ==
  /\ \A q \in Promises \ {p} : P2[q] = P[q]
  /\ ~ P2[p].pending /\ P2[p].fulfilled = isF /\ P2[p].result = v
  /\ P2[p].reactions = <<>>
  /\ P2[p].unhandled <=> ~ isF /\ P[p].reactions = <<>>
  /\ P2[p].kind = P[p].kind /\ P2[p].parent = P[p].parent
  /\ P2[p].resolved = P[p].resolved /\ P2[p].handled = P[p].handled
  /\ P2[p].ran = P[p].ran /\ P2[p].fresh = P[p].fresh /\ P2[p].stale = P[p].stale

\* R are the jobs of the reactions L, and Q2 is the queue Q with R at its end.
Triggered(L, R, v, b) ==
  \A i \in 1..Len(L) : /\ R[i] = ReactionJob(L[i], v, b)
                       /\ R[i].type \in ReactionTypes
                       /\ R[i].target = L[i].target

Joined(Q, R, Q2) ==
  LET m == Len(Q)
      k == Len(R)
  IN /\ Len(Q2) = m + k
     /\ \A i \in 1..m : i \in 1..Len(Q2) /\ Q2[i] = Q[i]
     /\ \A i \in 1..k : m + i \in 1..Len(Q2) /\ Q2[m + i] = R[i]
     /\ \A i \in 1..Len(Q2) : i \in 1..m \/ (i - m \in 1..k /\ i = m + (i - m))

\* The two parts of a concatenation.
LEMMA ConcatParts ==
  ASSUME NEW S, NEW s \in Seq(S), NEW t \in Seq(S)
  PROVE  s \o t \in Seq(S) /\ Joined(s, t, s \o t)
<1>. DEFINE u == s \o t
            m == Len(s)
            k == Len(t)
<1>1. m \in Nat /\ k \in Nat
  BY LenProperties
<1>2. u \in Seq(S) /\ Len(u) = m + k
      /\ \A i \in 1..(m + k) : u[i] = IF i <= m THEN s[i] ELSE t[i - m]
  BY ConcatProperties
<1>. HIDE DEF u, m, k
<1>3. ASSUME NEW i \in 1..m PROVE i \in 1..Len(u) /\ u[i] = s[i]
  BY <1>1, <1>2
<1>4. ASSUME NEW i \in 1..k PROVE m + i \in 1..Len(u) /\ u[m + i] = t[i]
  <2>1. m + i \in 1..(m + k) /\ ~ (m + i <= m) /\ (m + i) - m = i
    BY <1>1
  <2>. QED
    BY <2>1, <1>2
<1>5. ASSUME NEW i \in 1..Len(u)
      PROVE  i \in 1..m \/ (i - m \in 1..k /\ i = m + (i - m))
  BY <1>1, <1>2
<1>. QED
  BY <1>2, <1>3, <1>4, <1>5, Zenon DEF u, m, k, Joined

\* The code has seen to it that p can be settled, and does it.
SettleData(P, n, Q, F, P2, p, v, isF, isR, L, R, Q2) ==
  /\ P2 \in [Promises -> PromiseRecords]
  /\ p \in 1..n /\ P[p].pending /\ ~ InAdoption(Q, F, p) /\ Locked(P, n, Q, F, p)
  /\ v \in Objects /\ v \notin Promises
  /\ isF \in BOOLEAN /\ isR \in BOOLEAN /\ isR # isF
  /\ Settles(P, P2, p, v, isF)
  /\ L \in Seq(Reactions) /\ L = P[p].reactions
  /\ Len(R) = Len(L) /\ Triggered(L, R, v, isR)
  /\ Q2 \in Seq(Jobs) /\ Joined(Q, R, Q2)

\* The end of ecma_fulfill_promise, and ecma_reject_promise: the reactions L of p
\* become the jobs R at the end of the queue.
LEMMA SettleStep ==
  ASSUME NEW P, NEW n, NEW Q, NEW F, NEW D, Inv(P, n, Q, F, D),
         NEW P2, NEW p, NEW v, NEW isF, NEW isR, NEW L, NEW R, NEW Q2,
         SettleData(P, n, Q, F, P2, p, v, isF, isR, L, R, Q2)
  PROVE  Inv(P2, n, Q2, F, D) /\ Grown(P, n, P2, n)
<1>0. /\ P2 \in [Promises -> PromiseRecords] /\ p \in 1..n /\ P[p].pending
      /\ ~ InAdoption(Q, F, p) /\ Locked(P, n, Q, F, p)
      /\ v \in Objects /\ v \notin Promises /\ isF \in BOOLEAN /\ isR \in BOOLEAN
      /\ isR # isF /\ Settles(P, P2, p, v, isF)
      /\ L \in Seq(Reactions) /\ L = P[p].reactions
      /\ Len(R) = Len(L) /\ Triggered(L, R, v, isR)
      /\ Q2 \in Seq(Jobs) /\ Joined(Q, R, Q2)
  BY DEF SettleData
<1>k. PICK k \in Nat : k = Len(L) /\ k = Len(R)
  BY <1>0, LenProperties
<1>m. PICK m \in Nat : m = Len(Q)
  BY LenProperties DEF Inv, TypeInv
<1>. SUFFICES ASSUME P2 \in [Promises -> PromiseRecords], p \in 1..n, P[p].pending,
                     ~ InAdoption(Q, F, p), Locked(P, n, Q, F, p),
                     v \in Objects, v \notin Promises, isF \in BOOLEAN, isR \in BOOLEAN,
                     Settles(P, P2, p, v, isF), L \in Seq(Reactions), L = P[p].reactions,
                     k = Len(L), m = Len(Q), k = Len(R), isR # isF,
                     Triggered(L, R, v, isR), Q2 \in Seq(Jobs), Joined(Q, R, Q2)
              PROVE  Inv(P2, n, Q2, F, D) /\ Grown(P, n, P2, n)
  BY <1>0, <1>k, <1>m
<1>1. TypeInv(P, n, Q, F) /\ n \in 0..MaxPromises /\ Q \in Seq(Jobs) /\ F \in Seq(Frames)
      /\ P \in [Promises -> PromiseRecords] /\ n \in Nat
  BY PromiseAssumption DEF Inv, TypeInv
<1>2. 1..n \subseteq Promises
  BY <1>1, BornPromise
<1>3. k \in Nat /\ m \in Nat /\ p \in Nat
  OBVIOUS
<1>4. \A i \in 1..k : L[i] \in Reactions /\ ReactionOK(P, n, p, L[i])
  BY ElementOfSeq DEF Inv, ReactInv
<1>5. \A i \in 1..k : /\ R[i] = ReactionJob(L[i], v, isR)
                      /\ R[i].type \in ReactionTypes /\ R[i].target = L[i].target
  BY DEF Triggered
<1>7. /\ Len(Q2) = m + k
      /\ \A i \in 1..m : i \in 1..Len(Q2) /\ Q2[i] = Q[i]
      /\ \A i \in 1..k : m + i \in 1..Len(Q2) /\ Q2[m + i] = R[i]
      /\ \A i \in 1..Len(Q2) : i \in 1..m \/ (i - m \in 1..k /\ i = m + (i - m))
  BY DEF Joined
<1>8. \A q \in 1..n : q # p => P2[q] = P[q]
  BY <1>2 DEF Settles
<1>9. \A q \in 1..n :
        /\ P2[q].kind = P[q].kind /\ P2[q].parent = P[q].parent
        /\ P2[q].resolved = P[q].resolved /\ P2[q].ran = P[q].ran
        /\ P2[q].fresh = P[q].fresh /\ P2[q].stale = P[q].stale
  BY <1>8 DEF Settles
<1>10. Grown(P, n, P2, n)
  BY <1>1, <1>8, <1>9 DEF Grown
<1>11. TypeInv(P2, n, Q2, F)
  BY <1>1, <1>7 DEF TypeInv
<1>12. BornInv(P2, n)
  <2>1. ASSUME NEW q \in 1..n PROVE PromiseOK(P2[q], q)
    <3>1. PromiseOK(P[q], q)
      BY DEF Inv, BornInv
    <3>2. CASE q = p
      BY <3>1, <3>2 DEF PromiseOK, Settles
    <3>. QED
      BY <3>1, <3>2, <1>8
  <2>2. \A q \in Promises : q > n => q # p
    BY <1>1, PromiseAssumption DEF Promises
  <2>. QED
    BY <2>1, <2>2 DEF Inv, BornInv, Settles
<1>13. \A q \in 1..n : \A i \in 1..Len(P2[q].reactions) : q # p
  BY DEF Settles
<1>14. ReactInv(P2, n)
  <2>1. ReactInv(P, n)
    BY DEF Inv
  <2>2. ASSUME NEW q \in 1..n, NEW i \in 1..Len(P2[q].reactions)
        PROVE  ReactionOK(P2, n, q, P2[q].reactions[i])
    <3>1. P2[q] = P[q]
      BY <1>8, <1>13
    <3>2. ReactionOK(P, n, q, P2[q].reactions[i])
      BY <3>1, <2>1 DEF ReactInv
    <3>. QED
      BY <3>2, <1>1, <1>10, GrownReaction
  <2>. QED
    BY <2>2 DEF ReactInv
<1>15. \A i \in 1..k :
         /\ JobOK(P2, n, R[i])
         /\ R[i].type = "reaction" => L[i].type = "then" /\ P2[R[i].target].parent = p
         /\ R[i].handler.h \in {"resolve", "reject"} =>
              \/ L[i].onF.h = "resolve" /\ L[i].onF.p = R[i].handler.p
              \/ L[i].onR.h = "reject" /\ L[i].onR.p = R[i].handler.p
  <2>. SUFFICES ASSUME NEW i \in 1..k
                PROVE  /\ JobOK(P2, n, R[i])
                       /\ R[i].type = "reaction" =>
                            L[i].type = "then" /\ P2[R[i].target].parent = p
                       /\ R[i].handler.h \in {"resolve", "reject"} =>
                            \/ L[i].onF.h = "resolve" /\ L[i].onF.p = R[i].handler.p
                            \/ L[i].onR.h = "reject" /\ L[i].onR.p = R[i].handler.p
    OBVIOUS
  <2>1. R[i] = ReactionJob(L[i], v, isR)
    BY <1>5
  <2>2. L[i] \in Reactions /\ ReactionOK(P, n, p, L[i])
    BY <1>4
  <2>3. Grown(P, n, P2, n)
    BY <1>10
  <2>4. ~ P2[p].pending /\ (P2[p].fulfilled <=> ~ isR) /\ P2[p].result = v
    BY DEF Settles
  <2>5. isR \in BOOLEAN /\ v \in Objects /\ v \notin Promises
    OBVIOUS
  <2>6. JobOf(P2, n, p, L[i], R[i])
    BY <2>1, <2>2, <2>3, <2>4, <2>5, <1>1, SettledJob
  <2>. QED
    BY <2>6 DEF JobOf
<1>16. QueueInv(P, n, Q) /\ QueueInv(P2, n, Q2)
  <2>1. QueueInv(P, n, Q)
    BY DEF Inv
  <2>2. \A i \in 1..m : JobOK(P2, n, Q[i])
    BY <2>1, <1>1, <1>10, GrownJob DEF QueueInv
  <2>3. ASSUME NEW i \in 1..Len(Q2) PROVE JobOK(P2, n, Q2[i])
    <3>1. CASE i \in 1..m
      BY <3>1, <2>2, <1>7
    <3>2. CASE i - m \in 1..k /\ i = m + (i - m)
      <4>1. Q2[i] = R[i - m]
        BY <3>2, <1>7
      <4>. QED
        BY <3>2, <4>1, <1>15
    <3>. QED
      BY <3>1, <3>2, <1>7
  <2>. QED
    BY <2>1, <2>3 DEF QueueInv
<1>17. \A i \in 1..m : Q[i].type # "microtask" => Q[i].target \in 1..n
  BY <1>16 DEF QueueInv, JobOK
<1>18. \A i \in 1..Len(Q2) : Q2[i].type = "thenable" => i \in 1..m /\ Q2[i] = Q[i]
  <2>1. \A i \in 1..k : R[i].type # "thenable"
    BY <1>5 DEF ReactionTypes, AwaitTypes
  <2>2. ASSUME NEW i \in 1..Len(Q2), Q2[i].type = "thenable", i \notin 1..m PROVE FALSE
    <3>1. i - m \in 1..k /\ i = m + (i - m)
      BY <2>2, <1>7
    <3>2. Q2[m + (i - m)] = R[i - m]
      BY <3>1, <1>7
    <3>. QED
      BY <3>1, <3>2, <2>1, <2>2
  <2>. QED
    BY <2>2, <1>7
<1>19. FreshInv(P2, Q2)
  <2>1. \A i \in 1..m : Q[i].type = "thenable" /\ Q[i].arg \in Things =>
          P2[Q[i].target].fresh < MaxFresh
    BY <1>9, <1>17 DEF Inv, FreshInv
  <2>. QED
    BY <2>1, <1>18 DEF FreshInv
<1>20. FrameInv(P2, n, F)
  BY <1>1, <1>10, GrownFrame DEF Inv, FrameInv
<1>21. \A q : AdoptJobs(Q2, q) = AdoptJobs(Q, q)
  <2>1. \A i \in 1..Len(Q) : i \in 1..Len(Q2) /\ Q2[i] = Q[i]
    BY <1>3, <1>7
  <2>. QED
    BY <2>1, <1>18 DEF AdoptJobs
<1>22. \A q : InAdoption(Q2, F, q) <=> InAdoption(Q, F, q)
  BY <1>21 DEF InAdoption
<1>23. AdoptInv(P2, n, Q2, F)
  BY <1>8, <1>21, <1>22 DEF Inv, AdoptInv
<1>24. RightInv(P2, n, Q2, F)
  <2>1. ASSUME NEW q \in 1..n, ReactionRight(P2, n, q) PROVE ReactionRight(P, n, q)
    <3>1. PICK q2 \in 1..n : \E i \in 1..Len(P2[q2].reactions) :
            \/ P2[q2].reactions[i].onF.h = "resolve" /\ P2[q2].reactions[i].onF.p = q
            \/ P2[q2].reactions[i].onR.h = "reject" /\ P2[q2].reactions[i].onR.p = q
      BY <2>1 DEF ReactionRight
    <3>2. P2[q2] = P[q2]
      BY <3>1, <1>8, <1>13
    <3>. QED
      BY <3>1, <3>2, Zenon DEF ReactionRight
  <2>2. ASSUME NEW q \in 1..n, JobRight(Q2, q)
        PROVE  JobRight(Q, q) \/ ReactionRight(P, n, q)
    <3>1. PICK i \in 1..Len(Q2) : Q2[i].handler.h \in {"resolve", "reject"}
                                  /\ Q2[i].handler.p = q
      BY <2>2 DEF JobRight
    <3>2. CASE i \in 1..m
      BY <3>1, <3>2, <1>7 DEF JobRight
    <3>3. CASE i - m \in 1..k /\ i = m + (i - m)
      <4>1. Q2[i] = R[i - m]
        BY <3>3, <1>7
      <4>2. \/ L[i - m].onF.h = "resolve" /\ L[i - m].onF.p = q
            \/ L[i - m].onR.h = "reject" /\ L[i - m].onR.p = q
        BY <3>1, <3>3, <4>1, <1>15
      <4>3. i - m \in 1..Len(P[p].reactions)
        BY <3>3
      <4>. QED
        BY <4>2, <4>3, Zenon DEF ReactionRight
    <3>. QED
      BY <3>2, <3>3, <1>7
  <2>3. \A q \in 1..n : HasRight(P2, n, Q2, F, q) => HasRight(P, n, Q, F, q)
    BY <2>1, <2>2, <1>9 DEF HasRight, UserRight
  <2>4. RightInv(P, n, Q, F)
    BY DEF Inv
  <2>. SUFFICES ASSUME NEW q \in 1..n
                PROVE  /\ P2[q].kind # "async" => Open(P2, Q2, F, q)
                       /\ P2[q].kind = "async" /\ ~ P2[q].ran =>
                            P2[q].pending /\ ~ InAdoption(Q2, F, q)
                       /\ HasRight(P2, n, Q2, F, q) => Resolvable(P2, Q2, F, q)
    BY DEF RightInv
  <2>5. CASE q = p
    BY <2>3, <2>5, <1>9, <1>22 DEF Locked, Open, Resolvable
  <2>6. CASE q # p
    BY <2>3, <2>4, <2>6, <1>8, <1>22 DEF RightInv, Open, Resolvable
  <2>. QED
    BY <2>5, <2>6
<1>25. PlaceInv(P2, n, Q2, F, D)
  <2>1. \A d : \A q, i \in Nat : AtPromise(P2, n, d, q, i) <=>
                                   q # p /\ AtPromise(P, n, d, q, i)
    BY <1>8, <1>13 DEF AtPromise
  <2>2. \A d : \A i \in Nat : AtQueue(Q2, d, i) <=>
                 \/ AtQueue(Q, d, i)
                 \/ i - m \in 1..k /\ AtPromise(P, n, d, p, i - m)
    <3>. SUFFICES ASSUME NEW d, NEW i \in Nat
                  PROVE  AtQueue(Q2, d, i) <=>
                           \/ AtQueue(Q, d, i)
                           \/ i - m \in 1..k /\ AtPromise(P, n, d, p, i - m)
      OBVIOUS
    <3>1. CASE i \in 1..m
      <4>1. i - m \notin 1..k /\ i \in 1..Len(Q2) /\ i \in 1..Len(Q)
        BY <3>1, <1>3, <1>7
      <4>. QED
        BY <3>1, <4>1, <1>7 DEF AtQueue
    <3>2. CASE i - m \in 1..k
      <4>1. i \notin 1..Len(Q) /\ i = m + (i - m) /\ i \in 1..Len(Q2)
        BY <3>2, <1>3, <1>7
      <4>2. Q2[i] = R[i - m] /\ Q2[i].type \in ReactionTypes /\ Q2[i].target = L[i - m].target
        <5>1. Q2[m + (i - m)] = R[i - m]
          BY <3>2, <1>7
        <5>. QED
          BY <5>1, <3>2, <4>1, <1>5
      <4>. QED
        BY <3>2, <4>1, <4>2 DEF AtQueue, AtPromise
    <3>3. CASE i \notin 1..m /\ i - m \notin 1..k
      BY <3>3, <1>7 DEF AtQueue
    <3>. QED
      BY <3>1, <3>2, <3>3
  <2>3. \A d, i : AtPromise(P, n, d, p, i) => i \in 1..k /\ m + i \in Nat /\ (m + i) - m = i
    BY <1>3 DEF AtPromise
  <2>4. PlaceInv(P, n, Q, F, D)
    BY DEF Inv
  <2>. SUFFICES ASSUME NEW d \in 1..n, IsReaction(P2, d)
                PROVE  IF d \in D THEN Elsewhere(P2, n, Q2, F, d) /\ ~ P2[d].ran
                                  ELSE OnePlace(P2, n, Q2, F, d)
    BY DEF PlaceInv
  <2>5. /\ P2[d].ran = P[d].ran
        /\ IF d \in D THEN Elsewhere(P, n, Q, F, d) /\ ~ P[d].ran
                      ELSE OnePlace(P, n, Q, F, d)
    BY <2>4, <1>9 DEF PlaceInv, IsReaction
  <2>6. NotAtPromise(P, n, d) => NotAtPromise(P2, n, d)
    BY <2>1 DEF NotAtPromise
  <2>7. NotAtPromise(P, n, d) /\ NotAtQueue(Q, d) => NotAtQueue(Q2, d)
    <3>1. p \in Nat /\ \A i : i \in 1..k => i \in Nat
      BY <1>3
    <3>. QED
      BY <3>1, <2>2 DEF NotAtPromise, NotAtQueue
  <2>8. Elsewhere(P, n, Q, F, d) => Elsewhere(P2, n, Q2, F, d)
    BY <2>6, <2>7 DEF Elsewhere
  <2>9. OnlyAtFrame(P, n, Q, F, d) => OnlyAtFrame(P2, n, Q2, F, d)
    BY <2>5, <2>6, <2>7 DEF OnlyAtFrame
  <2>10. ASSUME OnlyAtQueue(P, n, Q, F, d) PROVE OnlyAtQueue(P2, n, Q2, F, d)
    <3>1. p \in Nat /\ \A i : i \in 1..k => i \in Nat
      BY <1>3
    <3>2. \A i \in Nat : AtQueue(Q2, d, i) <=> AtQueue(Q, d, i)
      BY <3>1, <2>2, <2>10 DEF OnlyAtQueue, NotAtPromise
    <3>. QED
      BY <3>2, <2>5, <2>6, <2>10 DEF OnlyAtQueue
  <2>11. ASSUME OnlyAtPromise(P, n, Q, F, d) PROVE OnePlace(P2, n, Q2, F, d)
    <3>1. PICK q \in Nat : \E i \in Nat :
            /\ AtPromise(P, n, d, q, i)
            /\ \A q2, i2 \in Nat : AtPromise(P, n, d, q2, i2) => q2 = q /\ i2 = i
      BY <2>11 DEF OnlyAtPromise
    <3>2. PICK i \in Nat :
            /\ AtPromise(P, n, d, q, i)
            /\ \A q2, i2 \in Nat : AtPromise(P, n, d, q2, i2) => q2 = q /\ i2 = i
      BY <3>1
    <3>3. \A j \in Nat : ~ AtQueue(Q, d, j)
      BY <2>11 DEF OnlyAtPromise, NotAtQueue
    <3>4. CASE q = p
      <4>1. NotAtPromise(P2, n, d)
        BY <3>2, <3>4, <2>1 DEF NotAtPromise
      <4>2. i \in 1..k /\ m + i \in Nat /\ AtQueue(Q2, d, m + i)
        <5>1. AtPromise(P, n, d, p, i) /\ i \in 1..k /\ m + i \in Nat /\ (m + i) - m = i
          BY <3>2, <3>4, <2>3
        <5>2. (m + i) - m \in 1..k /\ AtPromise(P, n, d, p, (m + i) - m)
          BY <5>1
        <5>. QED
          BY <5>1, <5>2, <2>2
      <4>3. ASSUME NEW j \in Nat, AtQueue(Q2, d, j) PROVE j = m + i
        <5>1. j - m \in 1..k /\ AtPromise(P, n, d, p, j - m)
          BY <4>3, <3>3, <2>2
        <5>2. j - m \in Nat /\ p \in Nat
          BY <5>1, <1>3
        <5>3. j - m = i
          BY <5>1, <5>2, <3>2
        <5>. QED
          BY <5>3, <1>3
      <4>. QED
        BY <4>1, <4>2, <4>3, <2>5, <2>11 DEF OnePlace, OnlyAtQueue, OnlyAtPromise
    <3>5. CASE q # p
      <4>1. AtPromise(P2, n, d, q, i)
        BY <3>2, <3>5, <2>1
      <4>2. ASSUME NEW q2 \in Nat, NEW i2 \in Nat, AtPromise(P2, n, d, q2, i2)
            PROVE  q2 = q /\ i2 = i
        BY <4>2, <3>2, <2>1
      <4>3. NotAtQueue(Q2, d)
        <5>1. ASSUME NEW j \in Nat, AtQueue(Q2, d, j) PROVE FALSE
          <6>1. j - m \in 1..k /\ AtPromise(P, n, d, p, j - m)
            BY <5>1, <3>3, <2>2
          <6>2. j - m \in Nat /\ p \in Nat
            BY <6>1, <1>3
          <6>. QED
            BY <6>1, <6>2, <3>2, <3>5
        <5>. QED
          BY <5>1 DEF NotAtQueue
      <4>. QED
        BY <4>1, <4>2, <4>3, <2>5, <2>11 DEF OnePlace, OnlyAtPromise
    <3>. QED
      BY <3>4, <3>5
  <2>. QED
    BY <2>5, <2>8, <2>9, <2>10, <2>11 DEF OnePlace
<1>26. ListOrder(P2, n)
  <2>. SUFFICES ASSUME NEW q \in 1..n, NEW i \in 1..Len(P2[q].reactions),
                       NEW j \in 1..Len(P2[q].reactions), i < j,
                       P2[q].reactions[i].type = "then", P2[q].reactions[j].type = "then"
                PROVE  P2[q].reactions[i].target < P2[q].reactions[j].target
    BY DEF ListOrder
  <2>1. P2[q] = P[q]
    BY <1>8, <1>13
  <2>. QED
    BY <2>1 DEF Inv, ListOrder
<1>27. \A i \in 1..m : Q[i].type = "reaction" =>
         /\ P2[Q[i].target].parent = P[Q[i].target].parent
         /\ P[Q[i].target].parent # p
  <2>1. \A i \in 1..m : JobOK(P, n, Q[i])
    BY <1>16 DEF QueueInv
  <2>. QED
    BY <2>1, <1>9 DEF JobOK
<1>28. QueueOrder(P2, Q2)
  <2>. SUFFICES ASSUME NEW i \in 1..Len(Q2), NEW j \in 1..Len(Q2), i < j,
                       Q2[i].type = "reaction", Q2[j].type = "reaction",
                       P2[Q2[i].target].parent = P2[Q2[j].target].parent
                PROVE  Q2[i].target < Q2[j].target
    BY DEF QueueOrder
  <2>1. QueueOrder(P, Q) /\ ListOrder(P, n)
    BY DEF Inv
  <2>2. CASE i \in 1..m /\ j \in 1..m
    <3>1. i \in 1..Len(Q) /\ j \in 1..Len(Q) /\ Q2[i] = Q[i] /\ Q2[j] = Q[j]
      BY <2>2, <1>7
    <3>. QED
      BY <3>1, <2>1, <2>2, <1>27 DEF QueueOrder
  <2>3. CASE i \in 1..m /\ j - m \in 1..k /\ j = m + (j - m)
    <3>1. Q2[i] = Q[i] /\ Q2[j] = R[j - m]
      BY <2>3, <1>7
    <3>. QED
      BY <3>1, <2>3, <1>15, <1>27
  <2>4. CASE i - m \in 1..k /\ i = m + (i - m) /\ j - m \in 1..k /\ j = m + (j - m)
    <3>1. Q2[i] = R[i - m] /\ Q2[j] = R[j - m] /\ i - m < j - m
      <4>1. Q2[m + (i - m)] = R[i - m] /\ Q2[m + (j - m)] = R[j - m]
        BY <2>4, <1>7
      <4>2. i - m < j - m
        BY <2>4, <1>3
      <4>. QED
        BY <4>1, <4>2, <2>4
    <3>2. L[i - m].type = "then" /\ L[j - m].type = "then"
      BY <3>1, <2>4, <1>15
    <3>3. L[i - m].target < L[j - m].target
      BY <3>1, <3>2, <2>1, <2>4 DEF ListOrder
    <3>. QED
      BY <3>1, <3>3, <2>4, <1>5
  <2>5. CASE i - m \in 1..k /\ j \in 1..m
    BY <2>5, <1>3
  <2>. QED
    BY <2>2, <2>3, <2>4, <2>5, <1>7
<1>29. RunOrder(P2, n, Q2)
  <2>. SUFFICES ASSUME NEW e \in 1..n, P2[e].kind = "derived", P2[e].ran
                PROVE  /\ ~ P2[P2[e].parent].pending
                       /\ \A i \in 1..Len(Q2) :
                            Q2[i].type = "reaction" /\ P2[Q2[i].target].parent = P2[e].parent
                              => e < Q2[i].target
    BY DEF RunOrder
  <2>1. P[e].kind = "derived" /\ P[e].ran /\ P2[e].parent = P[e].parent
    BY <1>9
  <2>2. /\ ~ P[P[e].parent].pending
        /\ \A i \in 1..m : Q[i].type = "reaction" /\ P[Q[i].target].parent = P[e].parent
             => e < Q[i].target
    BY <2>1 DEF Inv, RunOrder
  <2>3. P[e].parent \in 1..n /\ P[e].parent # p
    BY <2>1, <2>2, <1>1 DEF Inv, BornInv, PromiseOK
  <2>4. ~ P2[P2[e].parent].pending
    BY <2>1, <2>2, <2>3, <1>8
  <2>5. ASSUME NEW i \in 1..Len(Q2), Q2[i].type = "reaction",
               P2[Q2[i].target].parent = P2[e].parent
        PROVE  e < Q2[i].target
    <3>1. CASE i \in 1..m
      BY <3>1, <2>1, <2>2, <2>5, <1>7, <1>27
    <3>2. CASE i - m \in 1..k /\ i = m + (i - m)
      <4>1. Q2[i] = R[i - m]
        BY <3>2, <1>7
      <4>. QED
        BY <3>2, <4>1, <2>1, <2>3, <2>5, <1>15
    <3>. QED
      BY <3>1, <3>2, <1>7
  <2>. QED
    BY <2>4, <2>5
<1>30. FreeInv(n, Q2)
  <2>1. \A i \in (Len(Q) + 1)..Len(Q2) : Q2[i].type # "thenable"
    BY <1>3, <1>7, <1>18
  <2>2. Reserved(Q2) = Reserved(Q)
    <3>1. Len(Q) <= Len(Q2) /\ \A i \in 1..Len(Q) : Q2[i] = Q[i]
      BY <1>3, <1>7
    <3>. QED
      BY <3>1, <2>1, <1>1, ReservedSame
  <2>. QED
    BY <2>2 DEF Inv, FreeInv
<1>. QED
  BY <1>10, <1>11, <1>12, <1>14, <1>16, <1>19, <1>20, <1>23, <1>24, <1>25, <1>26, <1>28,
     <1>29, <1>30
     DEF Inv

-----------------------------------------------------------------------------
(* The operations on the heap                                              *)

Heaps == [pr : [Promises -> PromiseRecords], q : Seq(Jobs)]

HeapInv(h, n, F, D) == h \in Heaps /\ Inv(h.pr, n, h.q, F, D)

\* What ecma_reject_promise and the end of ecma_fulfill_promise do to a heap.
SettlesHeap(h, h2, p, v, isF, isR) ==
  /\ h2.pr \in [Promises -> PromiseRecords]
  /\ Settles(h.pr, h2.pr, p, v, isF)
  /\ h2.q = h.q \o JobsOf(h.pr[p].reactions, v, isR)
  /\ h2 = [pr |-> h2.pr, q |-> h2.q]

\* The promises P and the queue q0 once p is rejected.
RejectedAs(P, p, v, q0, h2) ==
  /\ h2.pr = [P EXCEPT ![p] = [P[p] EXCEPT !.pending = ~ @, !.fulfilled = @,
                                          !.result = v, !.reactions = <<>>]]
  /\ h2.q = q0
  /\ h2 = [pr |-> h2.pr, q |-> h2.q]

\* ecma_promise_set_state for a rejection, on a heap with promises P.
LEMMA RejectedState ==
  ASSUME NEW P \in [Promises -> PromiseRecords], NEW p \in Promises, NEW q0, NEW v,
         NEW h, h = [pr |-> P, q |-> q0], NEW h2, h2 = SetState(h, p, FALSE, v)
  PROVE  RejectedAs(P, p, v, q0, h2)
<1>1. h2.pr = [P EXCEPT ![p] = [P[p] EXCEPT !.pending = ~ @, !.fulfilled = @,
                                            !.result = v, !.reactions = <<>>]]
  BY DEF SetState
<1>2. h2.q = q0
  BY DEF SetState
<1>3. h2 = [pr |-> h2.pr, q |-> h2.q]
  BY DEF SetState
<1>. QED
  BY <1>1, <1>2, <1>3 DEF RejectedAs

\* ecma_reject_promise settles the promise.
LEMMA RejectEffect ==
  ASSUME NEW h \in Heaps, NEW p \in Promises, NEW v \in Objects,
         h.pr[p].pending, ~ h.pr[p].fulfilled, ~ h.pr[p].unhandled,
         NEW h2, h2 = RejectPromise(h, p, v)
  PROVE  SettlesHeap(h, h2, p, v, FALSE, TRUE)
<1>1. h.pr \in [Promises -> PromiseRecords] /\ h.q \in Seq(Jobs) /\ h.pr[p] \in PromiseRecords
      /\ h = [pr |-> h.pr, q |-> h.q]
  BY DEF Heaps
<1>. DEFINE L == h.pr[p].reactions
            y == [h.pr[p] EXCEPT !.unhandled = @ \/ L = <<>>]
            x == [y EXCEPT !.pending = ~ @, !.fulfilled = @, !.result = v,
                           !.reactions = <<>>]
            h0 == [h EXCEPT !.pr[p].unhandled = @ \/ L = <<>>]
            h1 == SetState(h0, p, FALSE, v)
            R == [i \in 1..Len(L) |-> ReactionJob(L[i], v, TRUE)]
<1>2. <<>> \in Seq(Reactions)
  OBVIOUS
<1>3. y \in PromiseRecords /\ x \in PromiseRecords
  BY <1>1, <1>2 DEF PromiseRecords
<1>4. /\ ~ x.pending /\ x.fulfilled = FALSE /\ x.result = v /\ x.reactions = <<>>
      /\ x.unhandled <=> L = <<>>
      /\ x.kind = h.pr[p].kind /\ x.parent = h.pr[p].parent
      /\ x.resolved = h.pr[p].resolved /\ x.handled = h.pr[p].handled
      /\ x.ran = h.pr[p].ran /\ x.fresh = h.pr[p].fresh /\ x.stale = h.pr[p].stale
  BY <1>1 DEF PromiseRecords
<1>5. h2 = [h1 EXCEPT !.q = @ \o R]
  BY DEF RejectPromise, TriggerReactions
<1>. DEFINE P0 == [h.pr EXCEPT ![p] = y]
            P1 == [P0 EXCEPT ![p] = x]
<1>6. h0 = [pr |-> P0, q |-> h.q]
  BY <1>1
<1>7. P0 \in [Promises -> PromiseRecords] /\ P0[p] = y
      /\ \A q \in Promises \ {p} : P0[q] = h.pr[q]
  <2>. HIDE DEF y
  <2>. QED
    BY <1>1, <1>3
<1>8. h1 = [pr |-> P1, q |-> h.q]
  <2>. HIDE DEF h0, h1, y, P0
  <2>1. h1 = SetState(h0, p, FALSE, v)
    BY DEF h1
  <2>2. RejectedAs(P0, p, v, h.q, h1)
    BY <2>1, <1>6, <1>7, RejectedState
  <2>. QED
    BY <2>2, <1>7 DEF RejectedAs
<1>9. P1 \in [Promises -> PromiseRecords] /\ P1[p] = x
      /\ \A q \in Promises \ {p} : P1[q] = h.pr[q]
  <2>. HIDE DEF x, y, P0
  <2>. QED
    BY <1>3, <1>7
<1>. HIDE DEF h1, h0, x, y, R, P0, P1
<1>10. h2.pr = P1 /\ h2.q = h.q \o R /\ h2 = [pr |-> P1, q |-> h.q \o R]
  BY <1>5, <1>8
<1>11. Settles(h.pr, h2.pr, p, v, FALSE)
  BY <1>4, <1>9, <1>10 DEF Settles
<1>. QED
  BY <1>9, <1>10, <1>11 DEF R, JobsOf, SettlesHeap

\* The end of ecma_fulfill_promise settles the promise.
LEMMA FulfillEffect ==
  ASSUME NEW h \in Heaps, NEW p \in Promises, NEW v \in Objects,
         h.pr[p].pending, ~ h.pr[p].fulfilled, ~ h.pr[p].unhandled,
         NEW h2, h2 = FulfillWith(h, p, v)
  PROVE  SettlesHeap(h, h2, p, v, TRUE, FALSE)
<1>1. h.pr \in [Promises -> PromiseRecords] /\ h.q \in Seq(Jobs) /\ h.pr[p] \in PromiseRecords
      /\ h = [pr |-> h.pr, q |-> h.q]
  BY DEF Heaps
<1>. DEFINE x == [h.pr[p] EXCEPT !.pending = ~ @, !.fulfilled = ~ @, !.result = v,
                                 !.reactions = <<>>]
<1>2. <<>> \in Seq(Reactions)
  OBVIOUS
<1>3. x \in PromiseRecords
  BY <1>1, <1>2 DEF PromiseRecords
<1>4. /\ ~ x.pending /\ x.fulfilled = TRUE /\ x.result = v /\ x.reactions = <<>>
      /\ ~ x.unhandled
      /\ x.kind = h.pr[p].kind /\ x.parent = h.pr[p].parent
      /\ x.resolved = h.pr[p].resolved /\ x.handled = h.pr[p].handled
      /\ x.ran = h.pr[p].ran /\ x.fresh = h.pr[p].fresh /\ x.stale = h.pr[p].stale
  BY <1>1 DEF PromiseRecords
<1>5. h2.pr = [h.pr EXCEPT ![p] = x] /\ h2 = [pr |-> h2.pr, q |-> h2.q]
  BY <1>1 DEF FulfillWith, SetState, TriggerReactions
<1>6. h2.q = h.q \o [i \in 1..Len(h.pr[p].reactions) |->
                       ReactionJob(h.pr[p].reactions[i], v, FALSE)]
  BY <1>1 DEF FulfillWith, SetState, TriggerReactions
<1>. HIDE DEF x
<1>7. h2.pr \in [Promises -> PromiseRecords] /\ h2.pr[p] = x
      /\ \A q \in Promises \ {p} : h2.pr[q] = h.pr[q]
  BY <1>1, <1>3, <1>5
<1>8. Settles(h.pr, h2.pr, p, v, TRUE)
  BY <1>4, <1>7 DEF Settles
<1>. QED
  BY <1>5, <1>6, <1>7, <1>8 DEF JobsOf, SettlesHeap

\* p is pending, nothing settles it later, and no resolver can settle it.
Ready(h, n, F, p) ==
  /\ p \in 1..n /\ h.pr[p].pending
  /\ ~ InAdoption(h.q, F, p) /\ Locked(h.pr, n, h.q, F, p)

\* The bits of a promise that is pending.
LEMMA PendingBits ==
  ASSUME NEW h, NEW n, NEW F, NEW D, HeapInv(h, n, F, D), NEW p \in 1..n, h.pr[p].pending
  PROVE  /\ p \in Promises /\ h \in Heaps /\ h.pr \in [Promises -> PromiseRecords]
         /\ h.q \in Seq(Jobs) /\ n \in 0..MaxPromises
         /\ ~ h.pr[p].fulfilled /\ ~ h.pr[p].unhandled
         /\ h.pr[p].reactions \in Seq(Reactions)
<1>1. /\ h \in Heaps /\ h.pr \in [Promises -> PromiseRecords]
      /\ h.q \in Seq(Jobs) /\ n \in 0..MaxPromises
  BY DEF HeapInv, Heaps, Inv, TypeInv
<1>2. p \in Promises
  BY <1>1, BornPromise
<1>3. h.pr[p].reactions \in Seq(Reactions)
  BY <1>1, <1>2 DEF PromiseRecords
<1>4. ~ h.pr[p].fulfilled /\ ~ h.pr[p].unhandled
  BY DEF HeapInv, Inv, BornInv, PromiseOK
<1>. QED
  BY <1>1, <1>2, <1>3, <1>4

\* ecma_promise_trigger_reactions puts the jobs of the reactions at the end.
QueuedAfter(L, Q, v, b) ==
  LET R == JobsOf(L, v, b)
      Q2 == Q \o R
  IN /\ R \in Seq(Jobs) /\ Len(R) = Len(L) /\ Triggered(L, R, v, b)
     /\ Q2 \in Seq(Jobs) /\ Joined(Q, R, Q2)

\* The queue after the reactions of a promise were triggered.
LEMMA TriggeredQueue ==
  ASSUME NEW L \in Seq(Reactions), NEW v \in Objects, NEW b \in BOOLEAN,
         NEW Q \in Seq(Jobs)
  PROVE  QueuedAfter(L, Q, v, b)
<1>. DEFINE R == JobsOf(L, v, b)
<1>. HIDE DEF R
<1>0. R = JobsOf(L, v, b)
  BY DEF R
<1>1. /\ R \in Seq(Jobs) /\ Len(R) = Len(L)
      /\ \A i \in 1..Len(L) :
           /\ R[i] = ReactionJob(L[i], v, b)
           /\ R[i].type \in ReactionTypes /\ R[i].target = L[i].target
  BY <1>0, TriggeredJobs
<1>2. Triggered(L, R, v, b)
  BY <1>1 DEF Triggered
<1>3. Q \o R \in Seq(Jobs) /\ Joined(Q, R, Q \o R)
  BY <1>1, ConcatParts
<1>. QED
  BY <1>1, <1>2, <1>3 DEF QueuedAfter, R

\* A promise that is ready is settled and its reactions become jobs.
LEMMA SettleHeap ==
  ASSUME NEW h, NEW n, NEW F, NEW D, HeapInv(h, n, F, D), NEW p, Ready(h, n, F, p),
         NEW v \in Objects, v \notin Promises, NEW isF \in BOOLEAN, NEW isR \in BOOLEAN,
         isR # isF, NEW h2, SettlesHeap(h, h2, p, v, isF, isR)
  PROVE  HeapInv(h2, n, F, D) /\ Grown(h.pr, n, h2.pr, n)
<1>. DEFINE L == h.pr[p].reactions
            R == JobsOf(L, v, isR)
<1>1. /\ p \in 1..n /\ h.pr[p].pending
      /\ ~ InAdoption(h.q, F, p) /\ Locked(h.pr, n, h.q, F, p)
  BY DEF Ready
<1>2. L \in Seq(Reactions) /\ h.q \in Seq(Jobs)
  BY <1>1, PendingBits
<1>3. QueuedAfter(L, h.q, v, isR)
  <2>. HIDE DEF L
  <2>. QED
    BY <1>2, TriggeredQueue
<1>4. h2.q = h.q \o R /\ h2.pr \in [Promises -> PromiseRecords]
      /\ Settles(h.pr, h2.pr, p, v, isF) /\ h2 = [pr |-> h2.pr, q |-> h2.q]
  BY DEF SettlesHeap
<1>5. /\ Len(R) = Len(L) /\ Triggered(L, R, v, isR)
      /\ h2.q \in Seq(Jobs) /\ Joined(h.q, R, h2.q)
  <2>. HIDE DEF L
  <2>. QED
    BY <1>3, <1>4 DEF QueuedAfter
<1>6. SettleData(h.pr, n, h.q, F, h2.pr, p, v, isF, isR, L, R, h2.q)
  <2>. HIDE DEF R
  <2>. QED
    BY <1>1, <1>2, <1>4, <1>5 DEF SettleData
<1>. HIDE DEF L, R
<1>7. Inv(h.pr, n, h.q, F, D)
  BY DEF HeapInv
<1>8. Inv(h2.pr, n, h2.q, F, D) /\ Grown(h.pr, n, h2.pr, n)
  BY <1>6, <1>7, SettleStep
<1>9. h2 \in Heaps
  BY <1>4, <1>5 DEF Heaps
<1>. QED
  BY <1>8, <1>9 DEF HeapInv

\* ecma_reject_promise.
LEMMA RejectPromiseInv ==
  ASSUME NEW h, NEW n, NEW F, NEW D, HeapInv(h, n, F, D), NEW p, Ready(h, n, F, p),
         NEW v \in Objects, v \notin Promises
  PROVE  /\ HeapInv(RejectPromise(h, p, v), n, F, D)
         /\ Grown(h.pr, n, RejectPromise(h, p, v).pr, n)
<1>1. p \in 1..n /\ h.pr[p].pending
  BY DEF Ready
<1>2. p \in Promises /\ h \in Heaps /\ ~ h.pr[p].fulfilled /\ ~ h.pr[p].unhandled
  BY <1>1, PendingBits
<1>. DEFINE h2 == RejectPromise(h, p, v)
<1>. HIDE DEF h2
<1>3. h2 = RejectPromise(h, p, v)
  BY DEF h2
<1>4. SettlesHeap(h, h2, p, v, FALSE, TRUE)
  BY <1>1, <1>2, <1>3, RejectEffect
<1>5. HeapInv(h2, n, F, D) /\ Grown(h.pr, n, h2.pr, n)
  BY <1>4, SettleHeap
<1>. QED
  BY <1>5 DEF h2

\* The end of ecma_fulfill_promise.
LEMMA FulfillWithInv ==
  ASSUME NEW h, NEW n, NEW F, NEW D, HeapInv(h, n, F, D), NEW p, Ready(h, n, F, p),
         NEW v \in Objects, v \notin Promises
  PROVE  /\ HeapInv(FulfillWith(h, p, v), n, F, D)
         /\ Grown(h.pr, n, FulfillWith(h, p, v).pr, n)
<1>1. p \in 1..n /\ h.pr[p].pending
  BY DEF Ready
<1>2. p \in Promises /\ h \in Heaps /\ ~ h.pr[p].fulfilled /\ ~ h.pr[p].unhandled
  BY <1>1, PendingBits
<1>. DEFINE h2 == FulfillWith(h, p, v)
<1>. HIDE DEF h2
<1>3. h2 = FulfillWith(h, p, v)
  BY DEF h2
<1>4. SettlesHeap(h, h2, p, v, TRUE, FALSE)
  BY <1>1, <1>2, <1>3, FulfillEffect
<1>5. HeapInv(h2, n, F, D) /\ Grown(h.pr, n, h2.pr, n)
  BY <1>4, SettleHeap
<1>. QED
  BY <1>5 DEF h2

\* ecma_enqueue_job on a heap.
LEMMA EnqueueInv ==
  ASSUME NEW h, NEW n, NEW F, NEW D, HeapInv(h, n, F, D),
         NEW job \in Jobs, JobReady(h.pr, n, h.q, F, D, job), FreeInv(n, Append(h.q, job)),
         NEW D2, D2 = IF job.type \in ReactionTypes THEN D \ {job.target} ELSE D,
         NEW h2, h2 = Enqueue(h, job)
  PROVE  HeapInv(h2, n, F, D2) /\ h2.pr = h.pr /\ h2.q = Append(h.q, job)
<1>1. h \in Heaps /\ h.q \in Seq(Jobs) /\ Inv(h.pr, n, h.q, F, D)
  BY DEF HeapInv, Heaps
<1>2. h2.pr = h.pr /\ h2.q = Append(h.q, job) /\ h2 \in Heaps
  BY <1>1, AppendProperties DEF Enqueue, Heaps
<1>3. Inv(h.pr, n, Append(h.q, job), F, D2)
  BY <1>1, AppendJob
<1>. QED
  BY <1>2, <1>3 DEF HeapInv

\* The job of a reaction, and another job, is put at the end of the queue.
LEMMA EnqueueReaction ==
  ASSUME NEW h, NEW n, NEW F, NEW D, HeapInv(h, n, F, D),
         NEW job \in Jobs, JobReady(h.pr, n, h.q, F, D, job), FreeInv(n, Append(h.q, job)),
         job.type \in ReactionTypes
  PROVE  HeapInv(Enqueue(h, job), n, F, D \ {job.target}) /\ Enqueue(h, job).pr = h.pr
BY EnqueueInv

\* A job of no reaction is enqueued.
LEMMA EnqueueOther ==
  ASSUME NEW h, NEW n, NEW F, NEW D, HeapInv(h, n, F, D),
         NEW job \in Jobs, JobReady(h.pr, n, h.q, F, D, job), FreeInv(n, Append(h.q, job)),
         job.type \notin ReactionTypes
  PROVE  HeapInv(Enqueue(h, job), n, F, D) /\ Enqueue(h, job).pr = h.pr
BY EnqueueInv

\* The heap does not change what is reserved by a job that is no adoption of a promise.
LEMMA FreeSame ==
  ASSUME NEW n, NEW Q \in Seq(Jobs), NEW job \in Jobs, FreeInv(n, Q),
         job.type # "thenable" \/ job.arg \notin Promises
  PROVE  FreeInv(n, Append(Q, job))
<1>1. Append(Q, job) \in Seq(Jobs) /\ Len(Append(Q, job)) = Len(Q) + 1
      /\ Append(Q, job)[Len(Q) + 1] = job /\ Len(Q) \in Nat
      /\ \A i \in 1..Len(Q) : Append(Q, job)[i] = Q[i]
  BY AppendProperties, LenProperties
<1>. DEFINE Q2 == Append(Q, job)
<1>2. /\ Q2 \in Seq(Jobs) /\ Len(Q) <= Len(Q2) /\ \A i \in 1..Len(Q) : Q2[i] = Q[i]
      /\ \A i \in (Len(Q) + 1)..Len(Q2) :
           Q2[i].type # "thenable" \/ Q2[i].arg \notin Promises
  BY <1>1
<1>. HIDE DEF Q2
<1>3. Reserved(Q2) = Reserved(Q)
  BY <1>2, ReservedSame
<1>. QED
  BY <1>3 DEF FreeInv, Q2

\* An empty list of new calls.
LEMMA NoNewCalls ==
  ASSUME NEW F, F \in Seq(Frames)
  PROVE  <<>> \o F = F
BY ConcatEmptySeq

\* What user code passes to a resolver: a promise only if there is a number for the
\* promise that its adoption creates.
Passable(h, n, v) ==
  v \in Objects /\ (v \in Promises => v \in 1..n /\ FreeInv(n + 1, h.q))

\* ecma_fulfill_promise up to the read of `then`.
LEMMA FulfillPromiseInv ==
  ASSUME NEW h, NEW n, NEW F, NEW D, HeapInv(h, n, F, D), NEW p, Ready(h, n, F, p),
         NEW v, Passable(h, n, v)
  PROVE  /\ HeapInv(FulfillPromise(h, p, v), n, GetFrame(p, v) \o F, D)
         /\ Grown(h.pr, n, FulfillPromise(h, p, v).pr, n)
<1>1. p \in 1..n /\ h.pr[p].pending /\ ~ InAdoption(h.q, F, p)
      /\ Locked(h.pr, n, h.q, F, p)
  BY DEF Ready
<1>2. p \in Promises /\ h.q \in Seq(Jobs) /\ n \in 0..MaxPromises
      /\ F \in Seq(Frames) /\ Inv(h.pr, n, h.q, F, D)
  BY <1>1, PendingBits DEF HeapInv, Inv, TypeInv
<1>3. <<>> \o F = F
  BY <1>2, NoNewCalls
<1>4. /\ v \in Promises => v \notin Things
      /\ Error \in Objects /\ Error \notin Promises
  BY OtherObjects
<1>5. CASE v = p
  <2>1. FulfillPromise(h, p, v) = RejectPromise(h, p, Error) /\ GetFrame(p, v) = <<>>
    BY <1>2, <1>4, <1>5 DEF FulfillPromise, GetFrame
  <2>2. /\ HeapInv(RejectPromise(h, p, Error), n, F, D)
        /\ Grown(h.pr, n, RejectPromise(h, p, Error).pr, n)
    BY <1>4, RejectPromiseInv
  <2>. QED
    BY <2>1, <2>2, <1>3
<1>6. CASE v # p /\ v \in Promises
  <2>. DEFINE job == Job("thenable", p, NoHandler, v)
  <2>1. FulfillPromise(h, p, v) = Enqueue(h, job) /\ GetFrame(p, v) = <<>>
    BY <1>4, <1>6 DEF FulfillPromise, GetFrame
  <2>2. /\ job.type = "thenable" /\ job.target = p /\ job.handler = NoHandler /\ job.arg = v
        /\ job.handler.h = "none" /\ job \in Jobs
    <3>1. NoHandler \in Handlers /\ NoHandler.h = "none"
      BY DEF NoHandler, Handler, Handlers
    <3>2. p \in 0..MaxPromises /\ v \in Objects
      BY <1>1, <1>2, PromiseAssumption DEF Passable
    <3>. QED
      BY <3>1, <3>2 DEF Job, Jobs, JobTypes
  <2>3. v \in 1..n /\ FreeInv(n + 1, h.q) /\ v \notin Things
    BY <1>4, <1>6 DEF Passable
  <2>. HIDE DEF job
  <2>4. JobReady(h.pr, n, h.q, F, D, job)
    BY <1>1, <2>2, <2>3 DEF JobReady, JobOK, ReactionTypes, AwaitTypes
  <2>5. FreeInv(n, Append(h.q, job))
    <3>1. /\ Cardinality(Reserved(Append(h.q, job))) <= Cardinality(Reserved(h.q)) + 1
          /\ Cardinality(Reserved(h.q)) \in Nat
          /\ Append(h.q, job) \in Seq(Jobs)
      BY <1>2, <2>2, ReservedOne, ReservedFinite, AppendProperties
    <3>2. Cardinality(Reserved(Append(h.q, job))) \in Nat
      BY <3>1, ReservedFinite
    <3>. QED
      BY <3>1, <3>2, <2>3, <1>2, PromiseAssumption DEF FreeInv
  <2>6. job.type \notin ReactionTypes
    BY <2>2 DEF ReactionTypes, AwaitTypes
  <2>7. HeapInv(Enqueue(h, job), n, F, D) /\ Enqueue(h, job).pr = h.pr
    BY <2>2, <2>4, <2>5, <2>6, EnqueueInv
  <2>8. Grown(h.pr, n, h.pr, n)
    BY <1>2 DEF Grown
  <2>. QED
    BY <2>1, <2>7, <2>8, <1>3
<1>7. CASE v # p /\ v \notin Promises /\ v \in Things
  <2>. DEFINE f == Job("get", p, NoHandler, v)
  <2>1. FulfillPromise(h, p, v) = h /\ GetFrame(p, v) = <<f>>
    BY <1>7 DEF FulfillPromise, GetFrame
  <2>2. f.type = "get" /\ f.target = p /\ f.arg = v /\ f \in Frames
    <3>1. NoHandler \in Handlers
      BY DEF NoHandler, Handler, Handlers
    <3>2. p \in 0..MaxPromises /\ v \in Objects
      BY <1>1, <1>2, PromiseAssumption DEF Passable
    <3>. QED
      BY <3>1, <3>2 DEF Job, Frames
  <2>. HIDE DEF f
  <2>3. FrameOK(h.pr, n, f) /\ f.type \notin AwaitTypes
    BY <1>1, <1>7, <2>2 DEF FrameOK, AwaitTypes
  <2>4. Inv(h.pr, n, h.q, <<f>> \o F, D)
    BY <1>1, <1>2, <2>2, <2>3, PushFrame
  <2>5. Grown(h.pr, n, h.pr, n)
    BY <1>2 DEF Grown
  <2>. QED
    BY <2>1, <2>4, <2>5 DEF HeapInv
<1>8. CASE v # p /\ v \notin Promises /\ v \notin Things
  <2>1. FulfillPromise(h, p, v) = FulfillWith(h, p, v) /\ GetFrame(p, v) = <<>>
    BY <1>8 DEF FulfillPromise, GetFrame
  <2>2. /\ HeapInv(FulfillWith(h, p, v), n, F, D)
        /\ Grown(h.pr, n, FulfillWith(h, p, v).pr, n)
    BY <1>8, FulfillWithInv DEF Passable
  <2>. QED
    BY <2>1, <2>2, <1>3
<1>. QED
  BY <1>5, <1>6, <1>7, <1>8

\* Only the flag ALREADY_RESOLVED of p and its resolvers change.
FlagsOnly(h, h2, p) ==
  /\ h2 \in Heaps /\ h2.q = h.q
  /\ \A q \in Promises \ {p} : h2.pr[q] = h.pr[q]
  /\ SameShape(h.pr[p], h2.pr[p])

\* Promise p becomes the record x.
SetPromise(h, p, x) == [h EXCEPT !.pr[p] = x]

\* The flags of p get the values of the record x.
LEMMA FlagsEffect ==
  ASSUME NEW h \in Heaps, NEW p \in Promises, NEW x \in PromiseRecords,
         SameShape(h.pr[p], x), NEW h2, h2 = SetPromise(h, p, x)
  PROVE  FlagsOnly(h, h2, p) /\ h2.pr[p] = x
<1>1. h.pr \in [Promises -> PromiseRecords] /\ h.q \in Seq(Jobs)
      /\ h = [pr |-> h.pr, q |-> h.q]
  BY DEF Heaps
<1>2. h2.pr = [h.pr EXCEPT ![p] = x] /\ h2.q = h.q
  BY <1>1 DEF SetPromise
<1>3. h2 = [pr |-> h2.pr, q |-> h2.q]
  BY <1>1 DEF SetPromise
<1>4. h2.pr \in [Promises -> PromiseRecords] /\ h2.pr[p] = x
      /\ \A q \in Promises \ {p} : h2.pr[q] = h.pr[q]
  BY <1>1, <1>2
<1>5. h2 \in Heaps
  BY <1>1, <1>2, <1>3, <1>4 DEF Heaps
<1>. QED
  BY <1>2, <1>4, <1>5 DEF FlagsOnly

\* The changes of flags that the code makes.
LEMMA FlagChanges ==
  ASSUME NEW h \in Heaps, NEW p \in Promises
  PROVE  /\ LET h2 == [h EXCEPT !.pr[p].resolved = TRUE]
            IN /\ FlagsOnly(h, h2, p) /\ h2.pr[p].resolved
               /\ h2.pr[p].fresh = h.pr[p].fresh /\ h2.pr[p].stale = h.pr[p].stale
         /\ LET h2 == [h EXCEPT !.pr[p].resolved = FALSE]
            IN /\ FlagsOnly(h, h2, p)
               /\ h2.pr[p].fresh = h.pr[p].fresh /\ h2.pr[p].stale = h.pr[p].stale
         /\ h.pr[p].fresh > 0 =>
              LET h2 == [h EXCEPT !.pr[p].fresh = @ - 1, !.pr[p].stale = TRUE]
              IN /\ FlagsOnly(h, h2, p) /\ h2.pr[p].resolved = h.pr[p].resolved
                 /\ h2.pr[p].fresh <= h.pr[p].fresh
         /\ h.pr[p].fresh < MaxFresh =>
              LET h2 == [h EXCEPT !.pr[p].resolved = FALSE, !.pr[p].fresh = @ + 1]
              IN FlagsOnly(h, h2, p)
<1>0. h.pr \in [Promises -> PromiseRecords] /\ h.pr[p] \in PromiseRecords
      /\ h = [pr |-> h.pr, q |-> h.q] /\ MaxFresh \in Nat
  BY PromiseAssumption DEF Heaps
<1>. DEFINE y == h.pr[p]
<1>1. LET h2 == [h EXCEPT !.pr[p].resolved = TRUE]
      IN /\ FlagsOnly(h, h2, p) /\ h2.pr[p].resolved
         /\ h2.pr[p].fresh = h.pr[p].fresh /\ h2.pr[p].stale = h.pr[p].stale
  <2>. DEFINE x == [y EXCEPT !.resolved = TRUE]
              h2 == [h EXCEPT !.pr[p].resolved = TRUE]
  <2>1. x \in PromiseRecords /\ SameShape(y, x) /\ x.resolved /\ x.fresh = y.fresh
        /\ x.stale = y.stale
    BY <1>0 DEF PromiseRecords, SameShape
  <2>2. h2 = SetPromise(h, p, x)
    BY <1>0 DEF SetPromise
  <2>. HIDE DEF x, h2
  <2>3. FlagsOnly(h, h2, p) /\ h2.pr[p] = x
    BY <2>1, <2>2, FlagsEffect
  <2>. QED
    BY <2>1, <2>3 DEF h2
<1>2. LET h2 == [h EXCEPT !.pr[p].resolved = FALSE]
      IN /\ FlagsOnly(h, h2, p)
         /\ h2.pr[p].fresh = h.pr[p].fresh /\ h2.pr[p].stale = h.pr[p].stale
  <2>. DEFINE x == [y EXCEPT !.resolved = FALSE]
              h2 == [h EXCEPT !.pr[p].resolved = FALSE]
  <2>1. x \in PromiseRecords /\ SameShape(y, x) /\ x.fresh = y.fresh /\ x.stale = y.stale
    BY <1>0 DEF PromiseRecords, SameShape
  <2>2. h2 = SetPromise(h, p, x)
    BY <1>0 DEF SetPromise
  <2>. HIDE DEF x, h2
  <2>3. FlagsOnly(h, h2, p) /\ h2.pr[p] = x
    BY <2>1, <2>2, FlagsEffect
  <2>. QED
    BY <2>1, <2>3 DEF h2
<1>3. ASSUME h.pr[p].fresh > 0
      PROVE  LET h2 == [h EXCEPT !.pr[p].fresh = @ - 1, !.pr[p].stale = TRUE]
             IN /\ FlagsOnly(h, h2, p) /\ h2.pr[p].resolved = h.pr[p].resolved
                /\ h2.pr[p].fresh <= h.pr[p].fresh
  <2>. DEFINE x == [y EXCEPT !.fresh = @ - 1, !.stale = TRUE]
              h2 == [h EXCEPT !.pr[p].fresh = @ - 1, !.pr[p].stale = TRUE]
  <2>0. y.fresh - 1 \in 0..MaxFresh /\ y.fresh - 1 <= y.fresh
    <3>1. y.fresh \in 0..MaxFresh
      BY <1>0 DEF PromiseRecords
    <3>. QED
      BY <3>1, <1>0, <1>3
  <2>1. x \in PromiseRecords /\ SameShape(y, x) /\ x.resolved = y.resolved
        /\ x.fresh <= y.fresh
    BY <1>0, <2>0 DEF PromiseRecords, SameShape
  <2>2. h2 = SetPromise(h, p, x)
    BY <1>0 DEF SetPromise
  <2>. HIDE DEF x, h2
  <2>3. FlagsOnly(h, h2, p) /\ h2.pr[p] = x
    BY <2>1, <2>2, FlagsEffect
  <2>. QED
    BY <2>1, <2>3 DEF h2
<1>4. ASSUME h.pr[p].fresh < MaxFresh
      PROVE  LET h2 == [h EXCEPT !.pr[p].resolved = FALSE, !.pr[p].fresh = @ + 1]
             IN FlagsOnly(h, h2, p)
  <2>. DEFINE x == [y EXCEPT !.resolved = FALSE, !.fresh = @ + 1]
              h2 == [h EXCEPT !.pr[p].resolved = FALSE, !.pr[p].fresh = @ + 1]
  <2>0. y.fresh + 1 \in 0..MaxFresh
    <3>1. y.fresh \in 0..MaxFresh
      BY <1>0 DEF PromiseRecords
    <3>. QED
      BY <3>1, <1>0, <1>4
  <2>1. x \in PromiseRecords /\ SameShape(y, x)
    BY <1>0, <2>0 DEF PromiseRecords, SameShape
  <2>2. h2 = SetPromise(h, p, x)
    BY <1>0 DEF SetPromise
  <2>. HIDE DEF x, h2
  <2>3. FlagsOnly(h, h2, p)
    BY <2>1, <2>2, FlagsEffect
  <2>. QED
    BY <2>3 DEF h2
<1>. QED
  BY <1>1, <1>2, <1>3, <1>4

\* The flags of a promise change on a heap.
LEMMA FlagHeap ==
  ASSUME NEW h, NEW n, NEW F, NEW D, HeapInv(h, n, F, D), NEW p \in 1..n,
         NEW h2, FlagsOnly(h, h2, p),
         h2.pr[p].resolved \/ (h.pr[p].pending /\ ~ InAdoption(h.q, F, p)),
         UserRight(h2.pr, p) => (h.pr[p].kind = "async" => h.pr[p].ran),
         h2.pr[p].fresh <= h.pr[p].fresh \/ ~ InAdoption(h.q, F, p)
  PROVE  HeapInv(h2, n, F, D) /\ Grown(h.pr, n, h2.pr, n)
<1>1. /\ Inv(h.pr, n, h.q, F, D) /\ h2 \in Heaps /\ h2.q = h.q
      /\ \A q \in Promises \ {p} : h2.pr[q] = h.pr[q]
      /\ SameShape(h.pr[p], h2.pr[p]) /\ h2.pr \in [Promises -> PromiseRecords]
  BY DEF HeapInv, FlagsOnly, Heaps
<1>2. FlagData(h.pr, n, h.q, F, h2.pr, p)
  BY <1>1 DEF FlagData
<1>3. Inv(h2.pr, n, h.q, F, D) /\ Grown(h.pr, n, h2.pr, n)
  BY <1>1, <1>2, FlagStep
<1>. QED
  BY <1>1, <1>3 DEF HeapInv

\* ALREADY_RESOLVED is set for a promise that may be settled.
LEMMA MarkResolved ==
  ASSUME NEW h, NEW n, NEW F, NEW D, HeapInv(h, n, F, D), NEW p \in 1..n,
         Resolvable(h.pr, h.q, F, p), ~ h.pr[p].resolved,
         NEW h1, FlagsOnly(h, h1, p), h1.pr[p].resolved,
         h1.pr[p].fresh = h.pr[p].fresh
  PROVE  /\ HeapInv(h1, n, F, D) /\ Grown(h.pr, n, h1.pr, n)
         /\ Ready(h1, n, F, p) /\ h1.q = h.q
<1>1. h \in Heaps /\ n \in 0..MaxPromises
  BY DEF HeapInv, Inv, TypeInv
<1>2. p \in Promises
  BY <1>1, BornPromise
<1>3. h1.q = h.q /\ SameShape(h.pr[p], h1.pr[p])
  BY DEF FlagsOnly
<1>4. h.pr[p].pending /\ ~ InAdoption(h.q, F, p) /\ (h.pr[p].kind = "async" => h.pr[p].ran)
  BY DEF Resolvable, Open
<1>5. HeapInv(h1, n, F, D) /\ Grown(h.pr, n, h1.pr, n)
  BY <1>4, FlagHeap
<1>6. h1.pr[p].pending /\ (h1.pr[p].kind = "async" => h1.pr[p].ran)
  BY <1>3, <1>4 DEF SameShape
<1>. QED
  BY <1>3, <1>4, <1>5, <1>6 DEF Ready, Locked

\* The members of an inductive heap.
LEMMA HeapTypes ==
  ASSUME NEW h, NEW n, NEW F, NEW D, HeapInv(h, n, F, D)
  PROVE  /\ h \in Heaps /\ h.pr \in [Promises -> PromiseRecords] /\ h.q \in Seq(Jobs)
         /\ n \in 0..MaxPromises /\ F \in Seq(Frames) /\ Inv(h.pr, n, h.q, F, D)
         /\ 1..n \subseteq Promises /\ Grown(h.pr, n, h.pr, n)
<1>1. h \in Heaps /\ h.pr \in [Promises -> PromiseRecords] /\ h.q \in Seq(Jobs)
      /\ n \in 0..MaxPromises /\ F \in Seq(Frames) /\ Inv(h.pr, n, h.q, F, D)
  BY DEF HeapInv, Heaps, Inv, TypeInv
<1>. QED
  BY <1>1, BornPromise DEF Grown

\* ecma_reject_promise_with_checks.
LEMMA RejectChecksInv ==
  ASSUME NEW h, NEW n, NEW F, NEW D, HeapInv(h, n, F, D), NEW p \in 1..n,
         Resolvable(h.pr, h.q, F, p), NEW v \in Objects, v \notin Promises
  PROVE  /\ HeapInv(RejectWithChecks(h, p, v), n, F, D)
         /\ Grown(h.pr, n, RejectWithChecks(h, p, v).pr, n)
<1>1. CASE h.pr[p].resolved
  <2>1. RejectWithChecks(h, p, v) = h
    BY <1>1 DEF RejectWithChecks
  <2>2. Grown(h.pr, n, h.pr, n)
    BY DEF Grown, HeapInv, Inv, TypeInv
  <2>. QED
    BY <2>1, <2>2
<1>2. CASE ~ h.pr[p].resolved
  <2>. DEFINE h1 == [h EXCEPT !.pr[p].resolved = TRUE]
  <2>1. RejectWithChecks(h, p, v) = RejectPromise(h1, p, v)
    BY <1>2 DEF RejectWithChecks
  <2>0. FlagsOnly(h, h1, p) /\ h1.pr[p].resolved /\ h1.pr[p].fresh = h.pr[p].fresh
        /\ n \in 0..MaxPromises
    BY HeapTypes, FlagChanges
  <2>. HIDE DEF h1
  <2>2. HeapInv(h1, n, F, D) /\ Grown(h.pr, n, h1.pr, n) /\ Ready(h1, n, F, p)
    BY <1>2, <2>0, MarkResolved
  <2>3. /\ HeapInv(RejectPromise(h1, p, v), n, F, D)
        /\ Grown(h1.pr, n, RejectPromise(h1, p, v).pr, n)
    BY <2>2, RejectPromiseInv
  <2>. QED
    BY <2>0, <2>1, <2>2, <2>3, GrownTrans
<1>. QED
  BY <1>1, <1>2

\* ecma_fulfill_promise_with_checks.
LEMMA FulfillChecksInv ==
  ASSUME NEW h, NEW n, NEW F, NEW D, HeapInv(h, n, F, D), NEW p \in 1..n,
         Resolvable(h.pr, h.q, F, p), NEW v, Passable(h, n, v)
  PROVE  /\ HeapInv(FulfillWithChecks(h, p, v), n, CheckedFrame(h, p, v) \o F, D)
         /\ Grown(h.pr, n, FulfillWithChecks(h, p, v).pr, n)
<1>1. CASE h.pr[p].resolved
  <2>1. FulfillWithChecks(h, p, v) = h /\ CheckedFrame(h, p, v) = <<>>
    BY <1>1 DEF FulfillWithChecks, CheckedFrame
  <2>2. Grown(h.pr, n, h.pr, n) /\ F \in Seq(Frames)
    BY DEF Grown, HeapInv, Inv, TypeInv
  <2>. QED
    BY <2>1, <2>2, NoNewCalls
<1>2. CASE ~ h.pr[p].resolved
  <2>. DEFINE h1 == [h EXCEPT !.pr[p].resolved = TRUE]
  <2>1. /\ FulfillWithChecks(h, p, v) = FulfillPromise(h1, p, v)
        /\ CheckedFrame(h, p, v) = GetFrame(p, v)
    BY <1>2 DEF FulfillWithChecks, CheckedFrame
  <2>0. FlagsOnly(h, h1, p) /\ h1.pr[p].resolved /\ h1.pr[p].fresh = h.pr[p].fresh
        /\ n \in 0..MaxPromises
    BY HeapTypes, FlagChanges
  <2>. HIDE DEF h1
  <2>2. HeapInv(h1, n, F, D) /\ Grown(h.pr, n, h1.pr, n) /\ Ready(h1, n, F, p)
        /\ h1.q = h.q
    BY <1>2, <2>0, MarkResolved
  <2>3. Passable(h1, n, v)
    BY <2>2 DEF Passable
  <2>4. /\ HeapInv(FulfillPromise(h1, p, v), n, GetFrame(p, v) \o F, D)
        /\ Grown(h1.pr, n, FulfillPromise(h1, p, v).pr, n)
    BY <2>2, <2>3, FulfillPromiseInv
  <2>. QED
    BY <2>0, <2>1, <2>2, <2>4, GrownTrans
<1>. QED
  BY <1>1, <1>2

\* The heap with promises P and queue Q.
HeapOf(P, Q) == [pr |-> P, q |-> Q]

\* A promise that `then` or await was called on while it was pending, and settled.
Registered(x, r) == [x EXCEPT !.handled = TRUE, !.reactions = Append(@, r)]
Attended(x) == [x EXCEPT !.handled = TRUE, !.unhandled = FALSE]

\* Changes of one promise.
LEMMA PutPromiseProperties ==
  ASSUME NEW P \in [Promises -> PromiseRecords], NEW p \in Promises,
         NEW x \in PromiseRecords
  PROVE  /\ PutPromise(P, p, x) \in [Promises -> PromiseRecords]
         /\ PutPromise(P, p, x)[p] = x
         /\ \A q \in Promises \ {p} : PutPromise(P, p, x)[q] = P[q]
BY DEF PutPromise

\* The parts of a heap.
LEMMA HeapOfProperties ==
  ASSUME NEW P, NEW Q
  PROVE  /\ HeapOf(P, Q).pr = P /\ HeapOf(P, Q).q = Q
         /\ P \in [Promises -> PromiseRecords] /\ Q \in Seq(Jobs) => HeapOf(P, Q) \in Heaps
BY DEF HeapOf, Heaps

\* ecma_promise_perform_then on a pending promise.
LEMMA ThenPendingEffect ==
  ASSUME NEW P \in [Promises -> PromiseRecords], NEW Q, NEW h, h = HeapOf(P, Q),
         NEW p \in Promises, NEW d \in Promises, p # d,
         NEW onF, NEW onR, P[p].pending,
         NEW P1, P1 = PutPromise(P, d, Promise("derived", p, 0)),
         NEW r, r = ThenReaction(d, onF, onR)
  PROVE  PerformThen(h, p, d, onF, onR)
           = HeapOf(PutPromise(P1, p, Registered(P1[p], r)), Q)
<1>0. PICK x : x = Promise("derived", p, 0)
  OBVIOUS
<1>1. PICK made : made = [h EXCEPT !.pr[d] = x, !.pr[p].handled = TRUE]
  OBVIOUS
<1>2. PICK M : M = [P EXCEPT ![d] = x, ![p].handled = TRUE]
  OBVIOUS
<1>3. made = HeapOf(M, Q)
  BY <1>1, <1>2 DEF HeapOf
<1>4. PICK h2 : h2 = [made EXCEPT !.pr[p].reactions = Append(@, r)]
  OBVIOUS
<1>5. h2 = HeapOf([M EXCEPT ![p].reactions = Append(@, r)], Q)
  BY <1>3, <1>4 DEF HeapOf
<1>6. h.pr = P
  BY DEF HeapOf
<1>7. PerformThen(h, p, d, onF, onR) = h2
  BY <1>0, <1>1, <1>4, <1>6 DEF PerformThen
<1>8. [M EXCEPT ![p].reactions = Append(@, r)] = PutPromise(P1, p, Registered(P1[p], r))
  BY <1>0, <1>2 DEF PutPromise, Registered
<1>. QED
  BY <1>5, <1>7, <1>8

\* ecma_promise_perform_then on a settled promise.
LEMMA ThenSettledEffect ==
  ASSUME NEW P \in [Promises -> PromiseRecords], NEW Q, NEW h, h = HeapOf(P, Q),
         NEW p \in Promises, NEW d \in Promises, p # d,
         NEW onF, NEW onR, ~ P[p].pending, P[p].fulfilled => ~ P[p].unhandled,
         NEW P1, P1 = PutPromise(P, d, Promise("derived", p, 0)),
         NEW r, r = ThenReaction(d, onF, onR), NEW b \in BOOLEAN, b # P[p].fulfilled
  PROVE  PerformThen(h, p, d, onF, onR)
           = Enqueue(HeapOf(PutPromise(P1, p, Attended(P1[p])), Q),
                     ReactionJob(r, P[p].result, b))
<1>0. PICK x : x = Promise("derived", p, 0)
  OBVIOUS
<1>1. PICK made : made = [h EXCEPT !.pr[d] = x, !.pr[p].handled = TRUE]
  OBVIOUS
<1>2. PICK M : M = [P EXCEPT ![d] = x, ![p].handled = TRUE]
  OBVIOUS
<1>3. made = HeapOf(M, Q)
  BY <1>1, <1>2 DEF HeapOf
<1>4. PICK h2 : h2 = [made EXCEPT !.pr[p].unhandled = IF P[p].fulfilled THEN @ ELSE FALSE]
  OBVIOUS
<1>5. h2 = HeapOf([M EXCEPT ![p].unhandled = IF P[p].fulfilled THEN @ ELSE FALSE], Q)
  BY <1>3, <1>4 DEF HeapOf
<1>6. h.pr = P
  BY DEF HeapOf
<1>7. PerformThen(h, p, d, onF, onR)
        = Enqueue(h2, ReactionJob(r, P[p].result, ~ P[p].fulfilled))
  BY <1>0, <1>1, <1>4, <1>6 DEF PerformThen
<1>8. [M EXCEPT ![p].unhandled = IF P[p].fulfilled THEN @ ELSE FALSE]
        = PutPromise(P1, p, Attended(P1[p]))
  BY <1>0, <1>2 DEF PutPromise, Attended, PromiseRecords
<1>9. ReactionJob(r, P[p].result, ~ P[p].fulfilled) = ReactionJob(r, P[p].result, b)
  BY DEF PromiseRecords
<1>. QED
  BY <1>5, <1>7, <1>8, <1>9

\* ecma_promise_async_then on a pending promise.
LEMMA AsyncPendingEffect ==
  ASSUME NEW P \in [Promises -> PromiseRecords], NEW Q, NEW h, h = HeapOf(P, Q),
         NEW p \in Promises, NEW x, P[p].pending,
         NEW r, r = AwaitReaction(x)
  PROVE  AsyncThen(h, p, x) = HeapOf(PutPromise(P, p, Registered(P[p], r)), Q)
<1>1. PICK seen : seen = [h EXCEPT !.pr[p].handled = TRUE]
  OBVIOUS
<1>2. PICK M : M = [P EXCEPT ![p].handled = TRUE]
  OBVIOUS
<1>3. seen = HeapOf(M, Q)
  BY <1>1, <1>2 DEF HeapOf
<1>4. PICK h2 : h2 = [seen EXCEPT !.pr[p].reactions = Append(@, r)]
  OBVIOUS
<1>5. h2 = HeapOf([M EXCEPT ![p].reactions = Append(@, r)], Q)
  BY <1>3, <1>4 DEF HeapOf
<1>6. h.pr = P
  BY DEF HeapOf
<1>7. AsyncThen(h, p, x) = h2
  BY <1>1, <1>4, <1>6 DEF AsyncThen
<1>8. [M EXCEPT ![p].reactions = Append(@, r)] = PutPromise(P, p, Registered(P[p], r))
  BY <1>2 DEF PutPromise, Registered
<1>. QED
  BY <1>5, <1>7, <1>8

\* ecma_promise_async_then on a settled promise.
LEMMA AsyncSettledEffect ==
  ASSUME NEW P \in [Promises -> PromiseRecords], NEW Q, NEW h, h = HeapOf(P, Q),
         NEW p \in Promises, NEW x, ~ P[p].pending,
         NEW r, r = AwaitReaction(x), NEW b \in BOOLEAN, b # P[p].fulfilled
  PROVE  AsyncThen(h, p, x)
           = Enqueue(HeapOf(PutPromise(P, p, Attended(P[p])), Q),
                     ReactionJob(r, P[p].result, b))
<1>1. PICK seen : seen = [h EXCEPT !.pr[p].handled = TRUE]
  OBVIOUS
<1>2. PICK M : M = [P EXCEPT ![p].handled = TRUE]
  OBVIOUS
<1>3. seen = HeapOf(M, Q)
  BY <1>1, <1>2 DEF HeapOf
<1>4. PICK h2 : h2 = [seen EXCEPT !.pr[p].unhandled = FALSE]
  OBVIOUS
<1>5. h2 = HeapOf([M EXCEPT ![p].unhandled = FALSE], Q)
  BY <1>3, <1>4 DEF HeapOf
<1>6. h.pr = P
  BY DEF HeapOf
<1>7. AsyncThen(h, p, x) = Enqueue(h2, ReactionJob(r, P[p].result, ~ P[p].fulfilled))
  BY <1>1, <1>4, <1>6 DEF AsyncThen
<1>8. [M EXCEPT ![p].unhandled = FALSE] = PutPromise(P, p, Attended(P[p]))
  BY <1>2 DEF PutPromise, Attended
<1>9. ReactionJob(r, P[p].result, ~ P[p].fulfilled) = ReactionJob(r, P[p].result, b)
  BY DEF PromiseRecords
<1>. QED
  BY <1>5, <1>7, <1>8, <1>9

\* Reaction r may be attached to p: its handlers are in order, and when it is of
\* `then` it is younger than every other reaction of `then`.
Attachable(P, n, Q, F, D, p, r) ==
  /\ r \in Reactions /\ ReactionOK(P, n, p, r) /\ r.target \in D
  /\ r.onF.h = "resolve" => Resolvable(P, Q, F, r.onF.p)
  /\ r.onR.h = "reject" => Resolvable(P, Q, F, r.onR.p)
  /\ r.type = "then" =>
       /\ \A i \in 1..Len(P[p].reactions) :
            P[p].reactions[i].type = "then" => P[p].reactions[i].target < r.target
       /\ \A i \in 1..Len(Q) : Q[i].type = "reaction" => Q[i].target < r.target
       /\ \A e \in 1..n : P[e].kind = "derived" /\ P[e].ran => e < r.target

\* A reaction is attached to a pending promise.
LEMMA AttachPending ==
  ASSUME NEW P, NEW n, NEW Q, NEW F, NEW D, Inv(P, n, Q, F, D), NEW p \in 1..n,
         P[p].pending, NEW r, Attachable(P, n, Q, F, D, p, r),
         NEW P2, P2 = PutPromise(P, p, Registered(P[p], r))
  PROVE  /\ HeapInv(HeapOf(P2, Q), n, F, D \ {r.target}) /\ Grown(P, n, P2, n)
         /\ P2 \in [Promises -> PromiseRecords]
<1>1. P \in [Promises -> PromiseRecords] /\ n \in 0..MaxPromises /\ Q \in Seq(Jobs)
  BY DEF Inv, TypeInv
<1>2. p \in Promises
  BY <1>1, BornPromise
<1>3. P[p] \in PromiseRecords /\ r \in Reactions
  BY <1>1, <1>2 DEF Attachable
<1>. DEFINE x == Registered(P[p], r)
<1>4. P[p].reactions \in Seq(Reactions) /\ Append(P[p].reactions, r) \in Seq(Reactions)
  BY <1>3, AppendProperties DEF PromiseRecords
<1>5. x \in PromiseRecords
  BY <1>3, <1>4 DEF Registered, PromiseRecords
<1>6. /\ x.reactions = Append(P[p].reactions, r) /\ x.handled
      /\ x.unhandled = P[p].unhandled /\ x.ran = P[p].ran
      /\ x.kind = P[p].kind /\ x.parent = P[p].parent /\ x.pending = P[p].pending
      /\ x.fulfilled = P[p].fulfilled /\ x.result = P[p].result
      /\ x.resolved = P[p].resolved /\ x.fresh = P[p].fresh /\ x.stale = P[p].stale
  BY <1>3 DEF Registered, PromiseRecords
<1>. HIDE DEF x
<1>7. SameCore([P[p] EXCEPT !.reactions = x.reactions], x)
  BY <1>3, <1>6 DEF SameCore, PromiseRecords
<1>8. /\ P2 \in [Promises -> PromiseRecords] /\ P2[p] = x
      /\ \A q \in Promises \ {p} : P2[q] = P[q]
  BY <1>1, <1>2, <1>5, PutPromiseProperties DEF x
<1>9. RegisterData(P, n, Q, F, D, P2, p, r)
  <2>1. /\ r \in Reactions /\ ReactionOK(P, n, p, r) /\ r.target \in D
        /\ r.onF.h = "resolve" => Resolvable(P, Q, F, r.onF.p)
        /\ r.onR.h = "reject" => Resolvable(P, Q, F, r.onR.p)
        /\ r.type = "then" => \A i \in 1..Len(P[p].reactions) :
             P[p].reactions[i].type = "then" => P[p].reactions[i].target < r.target
    BY DEF Attachable
  <2>2. SameCore([P[p] EXCEPT !.reactions = P2[p].reactions], P2[p])
    BY <1>7, <1>8
  <2>3. P2[p].reactions = Append(P[p].reactions, r) /\ P2[p].handled
        /\ P2[p].unhandled = P[p].unhandled /\ P2[p].ran = P[p].ran
    BY <1>6, <1>8
  <2>. QED
    BY <1>8, <2>1, <2>2, <2>3 DEF RegisterData
<1>10. Inv(P2, n, Q, F, D \ {r.target}) /\ Grown(P, n, P2, n)
  BY <1>9, RegisterStep
<1>. QED
  BY <1>1, <1>8, <1>10, HeapOfProperties DEF HeapInv

\* The job of reaction r of the settled promise p.
JobAfter(P, p, r, job) ==
  \E b \in BOOLEAN : b # P[p].fulfilled /\ job = ReactionJob(r, P[p].result, b)

\* ecma_enqueue_job is called with the job of r.
AttachesSettled(P, Q, p, r, h2) ==
  /\ ~ P[p].pending
  /\ \E job : /\ JobAfter(P, p, r, job)
              /\ h2 = Enqueue(HeapOf(PutPromise(P, p, Attended(P[p])), Q), job)

\* A reaction is attached to a settled promise: its job is enqueued.
LEMMA AttachSettled ==
  ASSUME NEW P, NEW n, NEW Q, NEW F, NEW D, Inv(P, n, Q, F, D), NEW p \in 1..n,
         NEW r, Attachable(P, n, Q, F, D, p, r), NEW h2, AttachesSettled(P, Q, p, r, h2)
  PROVE  HeapInv(h2, n, F, D \ {r.target}) /\ Grown(P, n, h2.pr, n)
<1>a. PICK P2 : P2 = PutPromise(P, p, Attended(P[p]))
  OBVIOUS
<1>b. PICK job : JobAfter(P, p, r, job) /\ h2 = Enqueue(HeapOf(P2, Q), job)
  BY <1>a DEF AttachesSettled
<1>. SUFFICES ASSUME ~ P[p].pending, P2 = PutPromise(P, p, Attended(P[p])),
                     JobAfter(P, p, r, job), h2 = Enqueue(HeapOf(P2, Q), job)
              PROVE  HeapInv(h2, n, F, D \ {r.target}) /\ Grown(P, n, h2.pr, n)
  BY <1>a, <1>b DEF AttachesSettled
<1>1. P \in [Promises -> PromiseRecords] /\ n \in 0..MaxPromises /\ Q \in Seq(Jobs)
      /\ FreeInv(n, Q)
  BY DEF Inv, TypeInv
<1>2. p \in Promises
  BY <1>1, BornPromise
<1>3. P[p] \in PromiseRecords /\ r \in Reactions /\ ReactionOK(P, n, p, r)
  BY <1>1, <1>2 DEF Attachable
<1>. DEFINE x == Attended(P[p])
<1>4. x \in PromiseRecords /\ SameCore(P[p], x) /\ x.ran = P[p].ran /\ x.handled
      /\ ~ x.unhandled
  BY <1>3 DEF Attended, PromiseRecords, SameCore
<1>. HIDE DEF x
<1>5. /\ P2 \in [Promises -> PromiseRecords] /\ P2[p] = x
      /\ \A q \in Promises \ {p} : P2[q] = P[q]
  <2>1. P2 = PutPromise(P, p, x)
    BY DEF x
  <2>. QED
    BY <2>1, <1>1, <1>2, <1>4, PutPromiseProperties
<1>6. HandledData(P, n, P2, p)
  BY <1>4, <1>5 DEF HandledData
<1>7. Inv(P2, n, Q, F, D) /\ Grown(P, n, P2, n)
  BY <1>6, HandledStep
<1>8. P[p].result \in Objects /\ P[p].result \notin Promises
  BY <1>3 DEF PromiseRecords, Inv, BornInv, PromiseOK
<1>9. /\ ~ P2[p].pending /\ P2[p].result = P[p].result /\ P2[p].fulfilled = P[p].fulfilled
      /\ P[p].fulfilled \in BOOLEAN
  BY <1>3, <1>4, <1>5 DEF SameCore, PromiseRecords
<1>11. JobOf(P2, n, p, r, job)
  <2>1. PICK b \in BOOLEAN : b # P[p].fulfilled /\ job = ReactionJob(r, P[p].result, b)
    BY DEF JobAfter
  <2>2. P2[p].fulfilled <=> ~ b
    BY <1>9, <2>1
  <2>. QED
    BY <1>1, <1>3, <1>5, <1>7, <1>8, <1>9, <2>1, <2>2, SettledJob
<1>12. job \in Jobs /\ job.type \in ReactionTypes /\ job.target = r.target
  <2>1. r.target \in Promises /\ r.onF \in Handlers
    BY <1>3 DEF Reactions
  <2>2. PICK b \in BOOLEAN : b # P[p].fulfilled /\ job = ReactionJob(r, P[p].result, b)
    BY DEF JobAfter
  <2>. QED
    BY <2>1, <2>2, <1>3, <1>8, MadeTypes
<1>13. \A q : Resolvable(P, Q, F, q) /\ q \in Promises => Resolvable(P2, Q, F, q)
  BY <1>4, <1>5 DEF Resolvable, Open, SameCore
<1>14. \A e \in 1..n : P2[e].kind = P[e].kind /\ P2[e].ran = P[e].ran
  <2>1. 1..n \subseteq Promises
    BY <1>1, BornPromise
  <2>. QED
    BY <2>1, <1>4, <1>5 DEF SameCore
<1>15. JobReady(P2, n, Q, F, D, job)
  <2>1. JobOK(P2, n, job) /\ job.type # "thenable"
    BY <1>11, <1>12 DEF JobOf, ReactionTypes, AwaitTypes
  <2>2. job.handler.h \in {"resolve", "reject"} => Resolvable(P2, Q, F, job.handler.p)
    <3>. SUFFICES ASSUME job.handler.h \in {"resolve", "reject"}
                  PROVE  Resolvable(P2, Q, F, job.handler.p)
      OBVIOUS
    <3>1. \/ r.onF.h = "resolve" /\ r.onF.p = job.handler.p
          \/ r.onR.h = "reject" /\ r.onR.p = job.handler.p
      BY <1>11 DEF JobOf
    <3>2. Resolvable(P, Q, F, job.handler.p)
      BY <3>1 DEF Attachable
    <3>3. job.handler.p \in Promises
      <4>1. job.handler \in Handlers
        BY <1>12 DEF Jobs
      <4>. QED
        BY <4>1 DEF Handlers
    <3>. QED
      BY <3>2, <3>3, <1>13
  <2>3. r.target \in D
    BY DEF Attachable
  <2>4. job.type = "reaction" => r.type = "then"
    BY <1>11 DEF JobOf
  <2>5. job.type = "reaction" =>
          /\ \A i \in 1..Len(Q) :
               Q[i].type = "reaction" /\ P2[Q[i].target].parent = P2[job.target].parent
                 => Q[i].target < job.target
          /\ \A e \in 1..n :
               P2[e].kind = "derived" /\ P2[e].ran /\ P2[e].parent = P2[job.target].parent
                 => e < job.target
    BY <2>4, <1>12, <1>14 DEF Attachable
  <2>. QED
    BY <2>1, <2>2, <2>3, <2>5, <1>12 DEF JobReady
<1>16. FreeInv(n, Append(Q, job))
  <2>1. job.type # "thenable"
    BY <1>12 DEF ReactionTypes, AwaitTypes
  <2>. QED
    BY <2>1, <1>1, <1>12, FreeSame
<1>. DEFINE h1 == HeapOf(P2, Q)
<1>17. h1.pr = P2 /\ h1.q = Q /\ h1 \in Heaps
  BY <1>1, <1>5, HeapOfProperties
<1>. HIDE DEF h1
<1>18. HeapInv(h2, n, F, D \ {job.target}) /\ h2.pr = P2
  <2>1. h2 = Enqueue(h1, job)
    BY DEF h1
  <2>2. HeapInv(h1, n, F, D)
    BY <1>7, <1>17 DEF HeapInv
  <2>3. JobReady(h1.pr, n, h1.q, F, D, job) /\ FreeInv(n, Append(h1.q, job))
    BY <1>15, <1>16, <1>17
  <2>4. HeapInv(h2, n, F, D \ {job.target}) /\ h2.pr = h1.pr
    BY <2>1, <2>2, <2>3, <1>12, EnqueueReaction
  <2>. QED
    BY <2>4, <1>17
<1>. QED
  BY <1>7, <1>12, <1>18

\* The other value of a flag.
LEMMA OtherBoolean ==
  ASSUME NEW c \in BOOLEAN
  PROVE  \E b \in BOOLEAN : b # c
OBVIOUS

\* The handlers of a call of `then`.
HandlerPair(h, n, F, onF, onR) ==
  /\ onF \in Handlers /\ onR \in Handlers
  /\ onF.h \in {"identity", "user", "resolve"}
  /\ onR.h \in {"thrower", "user", "reject"}
  /\ onF.h = "resolve" => onF.p \in 1..n /\ Resolvable(h.pr, h.q, F, onF.p)
  /\ onR.h = "reject" => onR.p \in 1..n /\ Resolvable(h.pr, h.q, F, onR.p)

\* A heap is its promises and its queue.
LEMMA HeapIs ==
  ASSUME NEW h \in Heaps
  PROVE  h = HeapOf(h.pr, h.q)
BY DEF Heaps, HeapOf

\* A reaction is attached to a promise.
AttachedTo(P, Q, p, r, h2) ==
  \/ /\ P[p].pending
     /\ h2 = HeapOf(PutPromise(P, p, Registered(P[p], r)), Q)
  \/ AttachesSettled(P, Q, p, r, h2)

\* Attaching a reaction keeps the invariant.
LEMMA AttachInv ==
  ASSUME NEW P, NEW n, NEW Q, NEW F, NEW D, Inv(P, n, Q, F, D), NEW p \in 1..n,
         NEW r, Attachable(P, n, Q, F, D, p, r), NEW h2, AttachedTo(P, Q, p, r, h2)
  PROVE  HeapInv(h2, n, F, D \ {r.target}) /\ Grown(P, n, h2.pr, n)
<1>1. CASE P[p].pending /\ h2 = HeapOf(PutPromise(P, p, Registered(P[p], r)), Q)
  <2>1. PICK P2 : P2 = PutPromise(P, p, Registered(P[p], r))
    OBVIOUS
  <2>2. h2 = HeapOf(P2, Q)
    BY <1>1, <2>1
  <2>3. HeapInv(HeapOf(P2, Q), n, F, D \ {r.target}) /\ Grown(P, n, P2, n)
    BY <1>1, <2>1, AttachPending
  <2>4. h2.pr = P2
    BY <2>2, HeapOfProperties
  <2>. QED
    BY <2>2, <2>3, <2>4
<1>2. CASE AttachesSettled(P, Q, p, r, h2)
  BY <1>2, AttachSettled
<1>. QED
  BY <1>1, <1>2 DEF AttachedTo

\* ecma_promise_perform_then, with the promise that it returns.
LEMMA PerformThenInv ==
  ASSUME NEW h, NEW n, NEW F, HeapInv(h, n, F, {}), NEW p \in 1..n,
         NEW onF, NEW onR, HandlerPair(h, n, F, onF, onR), FreeInv(n + 1, h.q),
         NEW h2, h2 = PerformThen(h, p, n + 1, onF, onR)
  PROVE  HeapInv(h2, n + 1, F, {}) /\ Grown(h.pr, n, h2.pr, n + 1)
         /\ n + 1 \in 0..MaxPromises
<1>. DEFINE P == h.pr
            Q == h.q
<1>0. PICK d : d = n + 1
  OBVIOUS
<1>1. /\ h \in Heaps /\ P \in [Promises -> PromiseRecords] /\ Q \in Seq(Jobs)
      /\ n \in 0..MaxPromises /\ Inv(P, n, Q, F, {}) /\ 1..n \subseteq Promises
  BY HeapTypes
<1>2. h = HeapOf(P, Q) /\ h2 = PerformThen(h, p, d, onF, onR)
  BY <1>0, <1>1, HeapIs
<1>. HIDE DEF P, Q
<1>3. PICK P1 : P1 = PutPromise(P, d, Promise("derived", p, 0))
  OBVIOUS
<1>4. /\ Inv(P1, d, Q, F, {d})
      /\ Grown(P, n, P1, d) /\ d \in 0..MaxPromises
      /\ \A q \in 1..n : P1[q] = P[q]
      /\ P1[d] = Promise("derived", p, 0)
  <2>2. p \in 0..n /\ p # 0 /\ 0 \in 0..MaxFresh /\ FreeInv(n + 1, Q)
    BY <1>1, PromiseAssumption DEF Q
  <2>3. NewData(P, n, Q, d, "derived", p, 0, P1)
    BY <1>0, <1>3, <2>2 DEF NewData
  <2>4. Inv(P1, d, Q, F, {} \cup {d}) /\ Created(P, n, d, "derived", p, 0, P1)
    BY <1>1, <2>3, NewStep
  <2>5. {} \cup {d} = {d}
    OBVIOUS
  <2>. QED
    BY <2>4, <2>5 DEF Created
<1>5. d \in Promises /\ p # d /\ d \in 1..d /\ p \in 1..d /\ p \in Promises /\ n \in Nat
  BY <1>0, <1>1, <1>4, PromiseAssumption DEF Promises
<1>6. PICK r : r = ThenReaction(d, onF, onR)
  OBVIOUS
<1>7. P1[d].kind = "derived" /\ P1[d].parent = p /\ ~ P1[d].ran /\ P1[p] = P[p]
  BY <1>4 DEF Promise
<1>8. r \in Reactions /\ r.target = d /\ r.type = "then" /\ r.onF = onF /\ r.onR = onR
  BY <1>5, <1>6 DEF HandlerPair, ThenReaction, Reactions
<1>9. Attachable(P1, d, Q, F, {d}, p, r)
  <2>1. \A q \in 1..n : Resolvable(P, Q, F, q) => Resolvable(P1, Q, F, q)
    BY <1>4 DEF Resolvable, Open
  <2>2. /\ onF.h \in {"identity", "user", "resolve"}
        /\ onR.h \in {"thrower", "user", "reject"}
        /\ onF.h = "resolve" => onF.p \in 1..n /\ Resolvable(P1, Q, F, onF.p)
        /\ onR.h = "reject" => onR.p \in 1..n /\ Resolvable(P1, Q, F, onR.p)
    BY <2>1 DEF HandlerPair, P, Q
  <2>3. 1..n \subseteq 1..d /\ \A e \in 1..n : e < d
    BY <1>0, <1>5
  <2>4. ReactionOK(P1, d, p, r)
    BY <1>5, <1>7, <1>8, <2>2, <2>3 DEF ReactionOK
  <2>5. ASSUME NEW i \in 1..Len(P1[p].reactions) PROVE P1[p].reactions[i].target < r.target
    <3>1. P[p].reactions[i].target \in 1..n
      BY <1>1, <1>7 DEF Inv, ReactInv, ReactionOK
    <3>. QED
      BY <3>1, <2>3, <1>7, <1>8
  <2>6. ASSUME NEW i \in 1..Len(Q), Q[i].type = "reaction" PROVE Q[i].target < r.target
    <3>1. Q[i].target \in 1..n
      BY <1>1, <2>6 DEF Inv, QueueInv, JobOK
    <3>. QED
      BY <3>1, <2>3, <1>8
  <2>7. ASSUME NEW e \in 1..d, P1[e].ran PROVE e < r.target
    <3>1. e # d
      BY <1>7, <2>7
    <3>. QED
      BY <3>1, <1>0, <1>5, <1>8
  <2>. QED
    BY <2>2, <2>4, <2>5, <2>6, <2>7, <1>8 DEF Attachable
<1>10. AttachedTo(P1, Q, p, r, h2)
  <2>1. CASE P[p].pending
    <3>1. h2 = HeapOf(PutPromise(P1, p, Registered(P1[p], r)), Q)
      BY <2>1, <1>1, <1>2, <1>3, <1>5, <1>6, ThenPendingEffect
    <3>. QED
      BY <2>1, <3>1, <1>7 DEF AttachedTo
  <2>2. CASE ~ P[p].pending
    <3>1. P[p].fulfilled \in BOOLEAN
      BY <1>1, <1>5 DEF PromiseRecords
    <3>2. PICK b \in BOOLEAN : b # P[p].fulfilled
      BY <3>1, OtherBoolean
    <3>3. P[p].fulfilled => ~ P[p].unhandled
      BY <2>2, <1>1 DEF Inv, BornInv, PromiseOK
    <3>4. PICK job : job = ReactionJob(r, P[p].result, b)
      OBVIOUS
    <3>5. JobAfter(P1, p, r, job)
      BY <3>2, <3>4, <1>7 DEF JobAfter
    <3>6. h2 = Enqueue(HeapOf(PutPromise(P1, p, Attended(P1[p])), Q), job)
      BY <2>2, <3>2, <3>3, <3>4, <1>1, <1>2, <1>3, <1>5, <1>6, ThenSettledEffect
    <3>. QED
      BY <2>2, <3>5, <3>6, <1>7 DEF AttachedTo, AttachesSettled
  <2>. QED
    BY <2>1, <2>2
<1>11. HeapInv(h2, d, F, {d} \ {r.target}) /\ Grown(P1, d, h2.pr, d)
  <2>1. Inv(P1, d, Q, F, {d})
    BY <1>4
  <2>. QED
    BY <2>1, <1>5, <1>9, <1>10, AttachInv
<1>12. {d} \ {r.target} = {}
  BY <1>8
<1>13. Grown(P, n, h2.pr, d)
  BY <1>1, <1>4, <1>11, GrownTrans
<1>. QED
  BY <1>0, <1>4, <1>11, <1>12, <1>13 DEF P

\* ecma_promise_async_then attaches the reaction of the async function.
LEMMA AsyncAttached ==
  ASSUME NEW P \in [Promises -> PromiseRecords], NEW Q, NEW h, h = HeapOf(P, Q),
         NEW p \in Promises, NEW x, NEW r, r = AwaitReaction(x)
  PROVE  AttachedTo(P, Q, p, r, AsyncThen(h, p, x))
<1>1. CASE P[p].pending
  <2>1. AsyncThen(h, p, x) = HeapOf(PutPromise(P, p, Registered(P[p], r)), Q)
    BY <1>1, AsyncPendingEffect
  <2>. QED
    BY <1>1, <2>1 DEF AttachedTo
<1>2. CASE ~ P[p].pending
  <2>1. P[p].fulfilled \in BOOLEAN
    BY DEF PromiseRecords
  <2>2. PICK b \in BOOLEAN : b # P[p].fulfilled
    BY <2>1, OtherBoolean
  <2>3. PICK job : job = ReactionJob(r, P[p].result, b)
    OBVIOUS
  <2>4. JobAfter(P, p, r, job)
    BY <2>2, <2>3 DEF JobAfter
  <2>5. AsyncThen(h, p, x) = Enqueue(HeapOf(PutPromise(P, p, Attended(P[p])), Q), job)
    BY <1>2, <2>2, <2>3, AsyncSettledEffect
  <2>. QED
    BY <1>2, <2>4, <2>5 DEF AttachedTo, AttachesSettled
<1>. QED
  BY <1>1, <1>2

\* An async function that is in no place waits for p.
LEMMA AsyncThenInv ==
  ASSUME NEW h, NEW n, NEW F, NEW D, HeapInv(h, n, F, D), NEW p \in 1..n,
         NEW x \in D, x \in 1..n, h.pr[x].kind = "async"
  PROVE  /\ HeapInv(AsyncThen(h, p, x), n, F, D \ {x})
         /\ Grown(h.pr, n, AsyncThen(h, p, x).pr, n)
<1>. DEFINE P == h.pr
            Q == h.q
<1>1. /\ h \in Heaps /\ P \in [Promises -> PromiseRecords] /\ Q \in Seq(Jobs)
      /\ n \in 0..MaxPromises /\ Inv(P, n, Q, F, D) /\ 1..n \subseteq Promises
  BY HeapTypes
<1>2. h = HeapOf(P, Q) /\ P[x].kind = "async"
  BY <1>1, HeapIs
<1>. HIDE DEF P, Q
<1>3. PICK r : r = AwaitReaction(x)
  OBVIOUS
<1>4. r \in Reactions /\ r.target = x /\ r.type = "await" /\ r.onF = NoHandler
      /\ r.onR = NoHandler /\ NoHandler.h = "none"
  BY <1>1, <1>3 DEF AwaitReaction, Reactions, NoHandler, Handler, Handlers
<1>5. ReactionOK(P, n, p, r)
  BY <1>2, <1>4 DEF ReactionOK
<1>6. Attachable(P, n, Q, F, D, p, r)
  BY <1>4, <1>5 DEF Attachable
<1>7. AttachedTo(P, Q, p, r, AsyncThen(h, p, x))
  BY <1>1, <1>2, <1>3, AsyncAttached
<1>8. HeapInv(AsyncThen(h, p, x), n, F, D \ {r.target}) /\ Grown(P, n, AsyncThen(h, p, x).pr, n)
  BY <1>1, <1>6, <1>7, AttachInv
<1>. QED
  BY <1>4, <1>8 DEF P

\* Two changes of a heap.
LEMMA PutHeap ==
  ASSUME NEW P, NEW Q, NEW h, h = HeapOf(P, Q), NEW d, NEW y
  PROVE  SetPromise(h, d, y) = HeapOf(PutPromise(P, d, y), Q)
BY DEF HeapOf, PutPromise, SetPromise

\* A heap with one more job.
LEMMA EnqueueHeap ==
  ASSUME NEW P, NEW Q, NEW h, h = HeapOf(P, Q), NEW job
  PROVE  Enqueue(h, job) = HeapOf(P, Append(Q, job))
BY DEF HeapOf, Enqueue

\* The promise of the function may as well be created before the reaction.
LEMMA AsyncCallEffect ==
  ASSUME NEW P \in [Promises -> PromiseRecords], NEW Q, NEW h, h = HeapOf(P, Q),
         NEW p \in Promises, NEW d \in Promises, p # d, NEW y \in PromiseRecords,
         NEW h1, h1 = HeapOf(PutPromise(P, d, y), Q),
         NEW h2, h2 = AsyncThen(h, p, d)
  PROVE  SetPromise(h2, d, y) = AsyncThen(h1, p, d)
<1>1. PICK P1 : P1 = PutPromise(P, d, y)
  OBVIOUS
<1>2. P1 \in [Promises -> PromiseRecords] /\ P1[p] = P[p] /\ h1 = HeapOf(P1, Q)
  BY <1>1, PutPromiseProperties
<1>3. PICK r : r = AwaitReaction(d)
  OBVIOUS
<1>4. CASE P[p].pending
  <2>1. PICK M : M = PutPromise(P, p, Registered(P[p], r))
    OBVIOUS
  <2>2. h2 = HeapOf(M, Q)
    BY <1>3, <1>4, <2>1, AsyncPendingEffect
  <2>3. AsyncThen(h1, p, d) = HeapOf(PutPromise(P1, p, Registered(P[p], r)), Q)
    BY <1>2, <1>3, <1>4, AsyncPendingEffect
  <2>4. SetPromise(h2, d, y) = HeapOf(PutPromise(M, d, y), Q)
    BY <2>2, PutHeap
  <2>5. PICK z : z = Registered(P[p], r)
    OBVIOUS
  <2>6. PutPromise(M, d, y) = PutPromise(P1, p, z)
    BY <1>1, <2>1, <2>5 DEF PutPromise
  <2>. QED
    BY <2>3, <2>4, <2>5, <2>6
<1>5. CASE ~ P[p].pending
  <2>1. P[p].fulfilled \in BOOLEAN
    BY DEF PromiseRecords
  <2>2. PICK b \in BOOLEAN : b # P[p].fulfilled
    BY <2>1, OtherBoolean
  <2>3. PICK job : job = ReactionJob(r, P[p].result, b)
    OBVIOUS
  <2>4. PICK M : M = PutPromise(P, p, Attended(P[p]))
    OBVIOUS
  <2>5. h2 = Enqueue(HeapOf(M, Q), job)
    BY <1>3, <1>5, <2>2, <2>3, <2>4, AsyncSettledEffect
  <2>6. AsyncThen(h1, p, d) = Enqueue(HeapOf(PutPromise(P1, p, Attended(P[p])), Q), job)
    BY <1>2, <1>3, <1>5, <2>2, <2>3, AsyncSettledEffect
  <2>7. PICK k : k = HeapOf(M, Q)
    OBVIOUS
  <2>8. h2 = HeapOf(M, Append(Q, job))
    BY <2>5, <2>7, EnqueueHeap
  <2>9. SetPromise(h2, d, y) = HeapOf(PutPromise(M, d, y), Append(Q, job))
    BY <2>8, PutHeap
  <2>10. PICK z : z = Attended(P[p])
    OBVIOUS
  <2>11. PutPromise(M, d, y) = PutPromise(P1, p, z)
    BY <1>1, <2>4, <2>10 DEF PutPromise
  <2>12. PICK k2 : k2 = HeapOf(PutPromise(P1, p, z), Q)
    OBVIOUS
  <2>13. Enqueue(k2, job) = HeapOf(PutPromise(P1, p, z), Append(Q, job))
    BY <2>12, EnqueueHeap
  <2>. QED
    BY <2>6, <2>9, <2>10, <2>11, <2>12, <2>13
<1>. QED
  BY <1>4, <1>5

\* opfunc_async_create_and_await.
LEMMA AsyncCallInv ==
  ASSUME NEW h, NEW n, NEW F, HeapInv(h, n, F, {}), NEW p \in 1..n, FreeInv(n + 1, h.q),
         NEW h1, h1 = AsyncThen(h, p, n + 1),
         NEW h2, h2 = SetPromise(h1, n + 1, Promise("async", 0, 0))
  PROVE  HeapInv(h2, n + 1, F, {}) /\ Grown(h.pr, n, h2.pr, n + 1)
         /\ n + 1 \in 0..MaxPromises
<1>. DEFINE P == h.pr
            Q == h.q
<1>0. PICK d : d = n + 1
  OBVIOUS
<1>1. /\ h \in Heaps /\ P \in [Promises -> PromiseRecords] /\ Q \in Seq(Jobs)
      /\ n \in 0..MaxPromises /\ Inv(P, n, Q, F, {}) /\ 1..n \subseteq Promises
  BY HeapTypes
<1>2. h = HeapOf(P, Q)
  BY <1>1, HeapIs
<1>3. PICK y : y = Promise("async", 0, 0)
  OBVIOUS
<1>4. h1 = AsyncThen(h, p, d) /\ h2 = SetPromise(h1, d, y)
  BY <1>0, <1>3
<1>. HIDE DEF P, Q
<1>5. PICK P1 : P1 = PutPromise(P, d, y)
  OBVIOUS
<1>6. /\ Inv(P1, d, Q, F, {d})
      /\ Grown(P, n, P1, d) /\ d \in 0..MaxPromises
      /\ \A q \in 1..n : P1[q] = P[q]
      /\ P1[d] = y
  <2>2. 0 \in 0..n /\ 0 \in 0..MaxFresh /\ FreeInv(n + 1, Q)
    BY <1>1, PromiseAssumption DEF Q
  <2>3. NewData(P, n, Q, d, "async", 0, 0, P1)
    BY <1>0, <1>3, <1>5, <2>2 DEF NewData
  <2>4. Inv(P1, d, Q, F, {} \cup {d}) /\ Created(P, n, d, "async", 0, 0, P1)
    BY <1>1, <2>3, NewStep
  <2>5. {} \cup {d} = {d}
    OBVIOUS
  <2>. QED
    BY <2>4, <2>5, <1>3 DEF Created
<1>7. d \in Promises /\ p # d /\ d \in 1..d /\ p \in 1..d /\ p \in Promises
  BY <1>0, <1>1, <1>6, PromiseAssumption DEF Promises
<1>8. P1 \in [Promises -> PromiseRecords] /\ y \in PromiseRecords /\ y.kind = "async"
  <2>1. P1 \in [Promises -> PromiseRecords]
    BY <1>6 DEF Inv, TypeInv
  <2>2. y \in PromiseRecords
    BY <2>1, <1>6, <1>7
  <2>3. y.kind = "async"
    BY <1>3 DEF Promise
  <2>. QED
    BY <2>1, <2>2, <2>3
<1>9. PICK g : g = HeapOf(P1, Q)
  OBVIOUS
<1>10. h2 = AsyncThen(g, p, d)
  <2>1. g = HeapOf(PutPromise(P, d, y), Q)
    BY <1>5, <1>9
  <2>. QED
    BY <2>1, <1>1, <1>2, <1>4, <1>7, <1>8, AsyncCallEffect
<1>11. HeapInv(g, d, F, {d}) /\ g.pr = P1
  BY <1>1, <1>6, <1>8, <1>9, HeapOfProperties DEF HeapInv
<1>12. HeapInv(h2, d, F, {d} \ {d}) /\ Grown(P1, d, h2.pr, d)
  <2>1. d \in {d} /\ g.pr[d].kind = "async"
    BY <1>6, <1>8, <1>11
  <2>2. HeapInv(AsyncThen(g, p, d), d, F, {d} \ {d})
        /\ Grown(g.pr, d, AsyncThen(g, p, d).pr, d)
    BY <2>1, <1>7, <1>11, AsyncThenInv
  <2>. QED
    BY <2>2, <1>10, <1>11
<1>13. {d} \ {d} = {}
  OBVIOUS
<1>14. Grown(P, n, h2.pr, d)
  BY <1>1, <1>6, <1>12, GrownTrans
<1>. QED
  BY <1>0, <1>6, <1>12, <1>13, <1>14 DEF P

-----------------------------------------------------------------------------
(* The actions                                                             *)

\* What every step does: the invariant holds again, and settled promises stay.
Progress == PromiseInv' /\ Grown(pr, count, pr', count')

\* An operation took heap h, n promises and the stack to h2, n2 and F2.
Becomes(h, n, h2, n2, F2) ==
  HeapInv(h2, n2, F2, {}) /\ Grown(h.pr, n, h2.pr, n2)

\* The heap of a state in which the invariant holds.
LEMMA StateHeap ==
  ASSUME PromiseInv
  PROVE  /\ HeapInv(Heap, count, frames, {}) /\ Heap \in Heaps
         /\ Heap.pr = pr /\ Heap.q = queue
         /\ pr \in [Promises -> PromiseRecords] /\ queue \in Seq(Jobs)
         /\ count \in 0..MaxPromises /\ frames \in Seq(Frames)
         /\ 1..count \subseteq Promises
         /\ Grown(pr, count, pr, count)
<1>1. pr \in [Promises -> PromiseRecords] /\ queue \in Seq(Jobs)
      /\ count \in 0..MaxPromises /\ frames \in Seq(Frames)
  BY DEF PromiseInv, Inv, TypeInv
<1>2. Heap.pr = pr /\ Heap.q = queue
  BY DEF Heap
<1>3. Heap \in Heaps
  BY <1>1 DEF Heap, Heaps
<1>4. HeapInv(Heap, count, frames, {})
  BY <1>2, <1>3 DEF HeapInv, PromiseInv
<1>5. 1..count \subseteq Promises
  BY <1>1, PromiseAssumption DEF Promises
<1>6. Grown(pr, count, pr, count)
  BY <1>1 DEF Grown
<1>. QED
  BY <1>1, <1>2, <1>3, <1>4, <1>5, <1>6

\* A step that puts the heap that an operation made.
LEMMA PutStep ==
  ASSUME PromiseInv, NEW h, NEW n, NEW F, Becomes(Heap, count, h, n, F),
         Put(h), count' = n, frames' = F
  PROVE  Progress
<1>1. Heap.pr = pr
  BY StateHeap
<1>2. Inv(h.pr, n, h.q, F, {}) /\ Grown(pr, count, h.pr, n)
  BY <1>1 DEF Becomes, HeapInv
<1>3. pr' = h.pr /\ queue' = h.q
  BY DEF Put
<1>. QED
  BY <1>2, <1>3 DEF Progress, PromiseInv

\* Room for one more promise.
LEMMA RoomLeft ==
  ASSUME PromiseInv, Free > 0
  PROVE  FreeInv(count + 1, queue)
<1>1. Cardinality(Reserved(queue)) \in Nat /\ count \in Nat /\ MaxPromises \in Nat
  BY StateHeap, ReservedFinite, PromiseAssumption
<1>2. Free = MaxPromises - count - Cardinality(Reserved(queue))
  BY DEF Free, Reserved
<1>. QED
  BY <1>1, <1>2 DEF FreeInv

\* What user code may pass.
LEMMA ArgumentPassable ==
  ASSUME PromiseInv, NEW v \in Arguments
  PROVE  Passable(Heap, count, v)
<1>0. Heap.q = queue /\ 1..count \subseteq Promises
  BY StateHeap
<1>1. CASE v \in Values
  BY <1>1, OtherObjects DEF Passable
<1>2. CASE v \in Things
  BY <1>2, OtherObjects DEF Passable
<1>3. CASE Free > 0 /\ v \in 1..count
  <2>1. FreeInv(count + 1, Heap.q)
    BY <1>3, <1>0, RoomLeft
  <2>2. v \in Objects
    BY <1>3, <1>0, OtherObjects
  <2>. QED
    BY <2>1, <2>2, <1>3 DEF Passable
<1>. QED
  BY <1>1, <1>2, <1>3 DEF Arguments, Born

\* Resolvers that user code holds, and promises that are not of an async function.
LEMMA RightResolvable ==
  ASSUME PromiseInv, NEW p \in 1..count,
         UserRight(pr, p) \/ pr[p].kind # "async"
  PROVE  Resolvable(pr, queue, frames, p)
BY DEF PromiseInv, Inv, RightInv, HasRight, Resolvable

\* A checked operation on a promise of the state.
LEMMA ResolveStep ==
  ASSUME PromiseInv, NEW p \in 1..count, Resolvable(pr, queue, frames, p),
         NEW v \in Arguments, Put(FulfillWithChecks(Heap, p, v)),
         Push(CheckedFrame(Heap, p, v)), UNCHANGED count
  PROVE  Progress
<1>1. /\ HeapInv(FulfillWithChecks(Heap, p, v), count, CheckedFrame(Heap, p, v) \o frames, {})
      /\ Grown(Heap.pr, count, FulfillWithChecks(Heap, p, v).pr, count)
  BY StateHeap, ArgumentPassable, FulfillChecksInv
<1>2. Becomes(Heap, count, FulfillWithChecks(Heap, p, v), count,
              CheckedFrame(Heap, p, v) \o frames)
  BY <1>1 DEF Becomes
<1>3. frames' = CheckedFrame(Heap, p, v) \o frames
  BY DEF Push
<1>. QED
  BY <1>2, <1>3, PutStep

\* The same for a rejection.
LEMMA RejectStep ==
  ASSUME PromiseInv, NEW p \in 1..count, Resolvable(pr, queue, frames, p),
         Put(RejectWithChecks(Heap, p, Error)), UNCHANGED <<count, frames>>
  PROVE  Progress
<1>1. /\ HeapInv(RejectWithChecks(Heap, p, Error), count, frames, {})
      /\ Grown(Heap.pr, count, RejectWithChecks(Heap, p, Error).pr, count)
  BY StateHeap, OtherObjects, RejectChecksInv
<1>2. Becomes(Heap, count, RejectWithChecks(Heap, p, Error), count, frames)
  BY <1>1 DEF Becomes
<1>. QED
  BY <1>2, PutStep

\* A resolver that was called before, and the functions of the host.
LEMMA RecallSteps ==
  ASSUME PromiseInv, "async" \notin HostKinds, NEW p \in Born,
         \/ \E v \in Arguments : RecallResolve(p, v) \/ HostResolve(p, v)
         \/ RecallReject(p) \/ HostReject(p)
  PROVE  Progress
<1>1. p \in 1..count
  BY DEF Born
<1>2. ASSUME pr[p].stale PROVE Resolvable(pr, queue, frames, p)
  BY <1>1, <1>2, RightResolvable DEF UserRight
<1>3. ASSUME pr[p].kind \in HostKinds PROVE Resolvable(pr, queue, frames, p)
  BY <1>1, <1>3, RightResolvable
<1>4. ASSUME NEW v \in Arguments, RecallResolve(p, v) \/ HostResolve(p, v)
      PROVE  Progress
  <2>1. Resolvable(pr, queue, frames, p)
    BY <1>2, <1>3, <1>4 DEF RecallResolve, HostResolve
  <2>2. /\ Put(FulfillWithChecks(Heap, p, v))
        /\ Push(CheckedFrame(Heap, p, v)) /\ UNCHANGED count
    BY <1>4 DEF RecallResolve, HostResolve
  <2>. QED
    BY <1>1, <2>1, <2>2, ResolveStep
<1>5. ASSUME RecallReject(p) \/ HostReject(p)
      PROVE  Progress
  <2>1. Resolvable(pr, queue, frames, p)
    BY <1>2, <1>3, <1>5 DEF RecallReject, HostReject
  <2>2. Put(RejectWithChecks(Heap, p, Error)) /\ UNCHANGED <<count, frames>>
    BY <1>5 DEF RecallReject, HostReject
  <2>. QED
    BY <1>1, <2>1, <2>2, RejectStep
<1>. QED
  BY <1>4, <1>5

\* The first call of a resolver pair.
LEMMA FirstUseInv ==
  ASSUME PromiseInv, NEW p \in 1..count, pr[p].fresh > 0, NEW h, h = FirstUse(p)
  PROVE  /\ HeapInv(h, count, frames, {}) /\ Grown(pr, count, h.pr, count)
         /\ h.q = queue /\ Resolvable(h.pr, h.q, frames, p)
         /\ h.pr[p].resolved = pr[p].resolved
<1>0. Heap \in Heaps /\ Heap.pr = pr /\ Heap.q = queue /\ p \in Promises
      /\ HeapInv(Heap, count, frames, {})
  BY StateHeap
<1>1. FlagsOnly(Heap, h, p) /\ h.pr[p].resolved = Heap.pr[p].resolved
      /\ h.pr[p].fresh <= Heap.pr[p].fresh
  BY <1>0, FlagChanges DEF FirstUse
<1>2. Resolvable(pr, queue, frames, p)
  BY RightResolvable DEF UserRight
<1>3. /\ pr[p].kind = "async" => pr[p].ran
      /\ pr[p].resolved \/ (pr[p].pending /\ ~ InAdoption(queue, frames, p))
  BY <1>2 DEF Resolvable, Open
<1>4. HeapInv(h, count, frames, {}) /\ Grown(Heap.pr, count, h.pr, count)
  BY <1>0, <1>1, <1>3, FlagHeap
<1>5. h.q = queue /\ SameShape(pr[p], h.pr[p])
  BY <1>0, <1>1 DEF FlagsOnly
<1>6. Resolvable(h.pr, h.q, frames, p)
  BY <1>0, <1>1, <1>3, <1>5 DEF Resolvable, Open, SameShape
<1>. QED
  BY <1>0, <1>1, <1>4, <1>5, <1>6

\* CallResolve and CallReject: a resolver pair is called for the first time.
LEMMA CallSteps ==
  ASSUME PromiseInv, NEW p \in Born,
         \/ \E v \in Arguments : CallResolve(p, v)
         \/ CallReject(p)
  PROVE  Progress
<1>0. p \in 1..count /\ pr[p].fresh > 0 /\ count \in 0..MaxPromises /\ Heap.pr = pr
      /\ Heap.q = queue
  BY StateHeap DEF Born, CallResolve, CallReject
<1>. DEFINE h1 == FirstUse(p)
<1>1. /\ HeapInv(h1, count, frames, {}) /\ Grown(pr, count, h1.pr, count)
      /\ h1.q = queue /\ Resolvable(h1.pr, h1.q, frames, p)
      /\ h1.pr[p].resolved = pr[p].resolved
  BY <1>0, FirstUseInv
<1>2. ASSUME NEW v \in Arguments, CallResolve(p, v)
      PROVE  Progress
  <2>. DEFINE h2 == FulfillWithChecks(h1, p, v)
  <2>1. Passable(h1, count, v)
    BY <1>0, <1>1, ArgumentPassable DEF Passable
  <2>2. CheckedFrame(h1, p, v) = CheckedFrame(Heap, p, v)
    BY <1>0, <1>1 DEF CheckedFrame
  <2>3. Put(h2) /\ frames' = CheckedFrame(h1, p, v) \o frames /\ count' = count
    BY <1>2, <2>2 DEF CallResolve, Push
  <2>. HIDE DEF h1
  <2>4. /\ HeapInv(h2, count, CheckedFrame(h1, p, v) \o frames, {})
        /\ Grown(h1.pr, count, h2.pr, count)
    BY <1>0, <1>1, <2>1, FulfillChecksInv
  <2>5. Becomes(Heap, count, h2, count, CheckedFrame(h1, p, v) \o frames)
    BY <1>0, <1>1, <2>4, GrownTrans DEF Becomes
  <2>. QED
    BY <2>3, <2>5, PutStep
<1>3. ASSUME CallReject(p)
      PROVE  Progress
  <2>. DEFINE h2 == RejectWithChecks(h1, p, Error)
  <2>3. Put(h2) /\ frames' = frames /\ count' = count
    BY <1>3 DEF CallReject
  <2>. HIDE DEF h1
  <2>4. HeapInv(h2, count, frames, {}) /\ Grown(h1.pr, count, h2.pr, count)
    BY <1>0, <1>1, OtherObjects, RejectChecksInv
  <2>5. Becomes(Heap, count, h2, count, frames)
    BY <1>0, <1>1, <2>4, GrownTrans DEF Becomes
  <2>. QED
    BY <2>3, <2>5, PutStep
<1>. QED
  BY <1>2, <1>3

\* A plain promise has no reaction of its own.
LEMMA PlainPlaced ==
  ASSUME NEW P, NEW n, NEW Q, NEW F, NEW d, Inv(P, n, Q, F, {} \cup {d}),
         P[d].kind = "plain"
  PROVE  Inv(P, n, Q, F, {})
<1>1. PlaceInv(P, n, Q, F, {d})
  BY DEF Inv
<1>2. PlaceInv(P, n, Q, F, {})
  BY <1>1 DEF PlaceInv, IsReaction
<1>. QED
  BY <1>2 DEF Inv

\* NewPromise: a promise with one resolver pair.
LEMMA NewPromiseStep ==
  ASSUME PromiseInv, NewPromise
  PROVE  Progress
<1>. PICK d : d = count + 1
  OBVIOUS
<1>0. count \in 0..MaxPromises /\ FreeInv(count + 1, queue)
  BY StateHeap, RoomLeft DEF NewPromise
<1>1. pr' = PutPromise(pr, d, Promise("plain", 0, 1)) /\ count' = d
      /\ queue' = queue /\ frames' = frames
  BY DEF NewPromise, PutPromise
<1>2. NewData(pr, count, queue, d, "plain", 0, 1, pr')
  BY <1>0, <1>1, PromiseAssumption DEF NewData
<1>3. Inv(pr, count, queue, frames, {})
  BY DEF PromiseInv
<1>4. Inv(pr', d, queue, frames, {} \cup {d})
      /\ Created(pr, count, d, "plain", 0, 1, pr')
  BY <1>2, <1>3, NewStep
<1>5. pr'[d].kind = "plain" /\ Grown(pr, count, pr', d)
  BY <1>4 DEF Created, Promise
<1>6. Inv(pr', d, queue, frames, {})
  BY <1>4, <1>5, PlainPlaced
<1>. QED
  BY <1>1, <1>5, <1>6 DEF Progress, PromiseInv

\* Then: the handlers of user code hold no resolver.
LEMMA ThenStep ==
  ASSUME PromiseInv, NEW p \in Born, NEW f \in {Identity, UserHandler},
         NEW r \in {Thrower, UserHandler}, Then(p, f, r)
  PROVE  Progress
<1>0. /\ count \in 0..MaxPromises /\ FreeInv(count + 1, queue) /\ Heap.q = queue
      /\ HeapInv(Heap, count, frames, {}) /\ p \in 1..count
  BY StateHeap, RoomLeft DEF Then, Born
<1>1. HandlerPair(Heap, count, frames, f, r)
  BY DEF HandlerPair, Identity, UserHandler, Thrower, Handler, Handlers
<1>. PICK h2 : h2 = PerformThen(Heap, p, count + 1, f, r)
  OBVIOUS
<1>2. HeapInv(h2, count + 1, frames, {}) /\ Grown(Heap.pr, count, h2.pr, count + 1)
  BY <1>0, <1>1, PerformThenInv
<1>3. Becomes(Heap, count, h2, count + 1, frames)
  BY <1>2 DEF Becomes
<1>4. Put(h2) /\ count' = count + 1 /\ frames' = frames
  BY DEF Then
<1>. QED
  BY <1>3, <1>4, PutStep

\* AsyncCall: the promise of the function is the target of the await.
LEMMA AsyncCallStep ==
  ASSUME PromiseInv, NEW p \in Born, AsyncCall(p)
  PROVE  Progress
<1>0. /\ count \in 0..MaxPromises /\ FreeInv(count + 1, queue) /\ Heap.q = queue
      /\ HeapInv(Heap, count, frames, {}) /\ p \in 1..count
  BY StateHeap, RoomLeft DEF AsyncCall, Born
<1>. PICK h1 : h1 = AsyncThen(Heap, p, count + 1)
  OBVIOUS
<1>. PICK h2 : h2 = SetPromise(h1, count + 1, Promise("async", 0, 0))
  OBVIOUS
<1>2. HeapInv(h2, count + 1, frames, {}) /\ Grown(Heap.pr, count, h2.pr, count + 1)
  BY <1>0, AsyncCallInv
<1>3. Becomes(Heap, count, h2, count + 1, frames)
  BY <1>2 DEF Becomes
<1>4. Put(h2) /\ count' = count + 1 /\ frames' = frames
  BY DEF AsyncCall, SetPromise
<1>. QED
  BY <1>3, <1>4, PutStep

\* A microtask is not tied to a promise.
LEMMA MicrotaskStep ==
  ASSUME PromiseInv, QueueMicrotask
  PROVE  Progress
<1>. PICK job : job = Job("microtask", 0, NoHandler, Undef)
  OBVIOUS
<1>0. /\ HeapInv(Heap, count, frames, {}) /\ queue \in Seq(Jobs) /\ Heap.q = queue
      /\ Heap.pr = pr /\ Grown(pr, count, pr, count) /\ count \in 0..MaxPromises
  BY StateHeap
<1>1. NoHandler \in Handlers /\ NoHandler.h = "none"
  BY DEF NoHandler, Handler, Handlers
<1>2. job.type = "microtask" /\ job.handler = NoHandler /\ job.arg = Undef
      /\ job.target = 0
  BY DEF Job
<1>3. job \in Jobs
  BY <1>1, OtherObjects, PromiseAssumption DEF Job, Jobs, JobTypes
<1>4. JobReady(pr, count, queue, frames, {}, job)
  BY <1>1, <1>2 DEF JobReady, JobOK, AwaitTypes, ReactionTypes
<1>5. FreeInv(count, Append(queue, job))
  BY <1>0, <1>2, <1>3, FreeSame DEF PromiseInv, Inv
<1>6. job.type \notin ReactionTypes
  BY <1>2 DEF ReactionTypes, AwaitTypes
<1>7. HeapInv(Enqueue(Heap, job), count, frames, {}) /\ Enqueue(Heap, job).pr = Heap.pr
  BY <1>0, <1>3, <1>4, <1>5, <1>6, EnqueueOther
<1>8. Becomes(Heap, count, Enqueue(Heap, job), count, frames)
  BY <1>0, <1>7 DEF Becomes
<1>. QED
  BY <1>8, PutStep DEF QueueMicrotask

\* The heap and the stack change separately.
LEMMA StackStep ==
  ASSUME PromiseInv, UNCHANGED <<pr, count, queue>>,
         NEW F, Inv(pr, count, queue, F, {}), frames' = F
  PROVE  Progress
<1>1. Grown(pr, count, pr, count)
  BY StateHeap
<1>. QED
  BY <1>1 DEF Progress, PromiseInv

\* RunJobs: a run of the queue is entered.
LEMMA RunJobsStep ==
  ASSUME PromiseInv, RunJobs
  PROVE  Progress
<1>. PICK f : f = Drain
  OBVIOUS
<1>0. Inv(pr, count, queue, frames, {})
  BY DEF PromiseInv
<1>1. f.type = "drain"
  BY DEF Drain, Job
<1>2. f \in Frames
  BY OtherObjects, PromiseAssumption
     DEF Drain, Job, Frames, NoHandler, Handler, Handlers
<1>3. FrameOK(pr, count, f)
  BY <1>1 DEF FrameOK, AwaitTypes
<1>4. f.type \notin AwaitTypes
  BY <1>1 DEF AwaitTypes
<1>. PICK D : D = IF f.type \in AwaitTypes THEN {} \ {f.target} ELSE {}
  OBVIOUS
<1>5. Inv(pr, count, queue, <<f>> \o frames, D)
  BY <1>0, <1>1, <1>2, <1>3, <1>4, PushFrame
<1>6. D = {}
  BY <1>4
<1>7. frames' = <<f>> \o frames /\ UNCHANGED <<pr, count, queue>>
  BY DEF RunJobs, Push
<1>. QED
  BY <1>5, <1>6, <1>7, StackStep

\* A call that is not of an async function ends.
LEMMA CallEnds ==
  ASSUME PromiseInv, frames # <<>>, Head(frames).type \notin AwaitTypes
  PROVE  /\ HeapInv(Heap, count, Tail(frames), {})
         /\ Inv(pr, count, queue, Tail(frames), {})
         /\ Head(frames) \in Frames /\ FrameOK(pr, count, Head(frames))
         /\ Head(frames).type = "get" => Ready(Heap, count, Tail(frames), Head(frames).target)
         /\ Head(frames).type = "thenable" =>
              Resolvable(pr, queue, Tail(frames), Head(frames).target)
         /\ Head(frames).type = "microtask" =>
              Tail(frames) # <<>> /\ Head(Tail(frames)).type = "drain"
<1>. PICK D : D = IF Head(frames).type \in AwaitTypes THEN {} \cup {Head(frames).target}
                                                      ELSE {}
  OBVIOUS
<1>0. D = {} /\ Inv(pr, count, queue, frames, {}) /\ Heap.pr = pr /\ Heap.q = queue
      /\ Heap \in Heaps
  BY StateHeap DEF PromiseInv
<1>1. /\ Inv(pr, count, queue, Tail(frames), D)
      /\ Head(frames) \in Frames /\ FrameOK(pr, count, Head(frames))
      /\ Head(frames).type = "get" =>
           LET p == Head(frames).target
           IN /\ pr[p].pending
              /\ ~ InAdoption(queue, Tail(frames), p)
              /\ Locked(pr, count, queue, Tail(frames), p)
      /\ Head(frames).type = "thenable" =>
           Resolvable(pr, queue, Tail(frames), Head(frames).target)
      /\ Head(frames).type = "microtask" =>
           Tail(frames) # <<>> /\ Head(Tail(frames)).type = "drain"
  BY <1>0, PopFrame
<1>2. HeapInv(Heap, count, Tail(frames), {})
  BY <1>0, <1>1 DEF HeapInv
<1>3. Head(frames).type = "get" => Ready(Heap, count, Tail(frames), Head(frames).target)
  BY <1>0, <1>1 DEF Ready, FrameOK
<1>. QED
  BY <1>0, <1>1, <1>2, <1>3

\* The getter of `then` returns or throws: the promise is still pending, and
\* nothing else can settle it.
LEMMA GetSteps ==
  ASSUME PromiseInv, GetThrows \/ GetCallable \/ GetNotCallable
  PROVE  Progress
<1>. PICK f : f = Head(frames)
  OBVIOUS
<1>0. frames # <<>> /\ f.type = "get" /\ f.type \notin AwaitTypes
      /\ count' = count /\ frames' = Tail(frames)
  BY DEF GetThrows, GetCallable, GetNotCallable, InGet, AwaitTypes
<1>1. /\ HeapInv(Heap, count, Tail(frames), {}) /\ f \in Frames
      /\ FrameOK(pr, count, f) /\ Ready(Heap, count, Tail(frames), f.target)
  BY <1>0, CallEnds
<1>2. f.arg \in Things /\ f.arg \in Objects /\ f.arg \notin Promises
      /\ f.target \in 1..count
  BY <1>0, <1>1, OtherObjects DEF FrameOK
<1>3. Heap.pr = pr /\ Heap.q = queue /\ queue \in Seq(Jobs)
      /\ Grown(pr, count, pr, count) /\ f.target \in Promises
  BY <1>2, StateHeap
<1>4. CASE GetThrows
  <2>1. Becomes(Heap, count, RejectPromise(Heap, f.target, Error), count, Tail(frames))
    BY <1>1, OtherObjects, RejectPromiseInv DEF Becomes
  <2>. QED
    BY <1>0, <1>4, <2>1, PutStep DEF GetThrows
<1>5. CASE GetNotCallable
  <2>1. Becomes(Heap, count, FulfillWith(Heap, f.target, f.arg), count, Tail(frames))
    BY <1>1, <1>2, FulfillWithInv DEF Becomes
  <2>. QED
    BY <1>0, <1>5, <2>1, PutStep DEF GetNotCallable
<1>6. CASE GetCallable
  <2>. PICK job : job = Job("thenable", f.target, NoHandler, f.arg)
    OBVIOUS
  <2>1. NoHandler \in Handlers /\ NoHandler.h = "none"
    BY DEF NoHandler, Handler, Handlers
  <2>2. job.type = "thenable" /\ job.handler = NoHandler /\ job.arg = f.arg
        /\ job.target = f.target
    BY DEF Job
  <2>3. job \in Jobs
    BY <1>2, <1>3, <2>1, PromiseAssumption DEF Job, Jobs, JobTypes, Promises
  <2>4. pr[f.target].fresh < MaxFresh /\ Put(Enqueue(Heap, job))
    BY <1>6 DEF GetCallable
  <2>5. JobReady(Heap.pr, count, Heap.q, Tail(frames), {}, job)
    BY <1>1, <1>2, <1>3, <2>1, <2>2, <2>4
       DEF JobReady, JobOK, AwaitTypes, ReactionTypes, Ready
  <2>6. FreeInv(count, Append(Heap.q, job))
    BY <1>2, <1>3, <2>2, <2>3, FreeSame DEF PromiseInv, Inv
  <2>7. job.type \notin ReactionTypes
    BY <2>2 DEF ReactionTypes, AwaitTypes
  <2>8. HeapInv(Enqueue(Heap, job), count, Tail(frames), {})
        /\ Enqueue(Heap, job).pr = Heap.pr
    BY <1>1, <2>3, <2>5, <2>6, <2>7, EnqueueOther
  <2>9. Becomes(Heap, count, Enqueue(Heap, job), count, Tail(frames))
    BY <1>3, <2>8 DEF Becomes
  <2>. QED
    BY <1>0, <2>4, <2>9, PutStep
<1>. QED
  BY <1>4, <1>5, <1>6

\* The end of the other calls.
LEMMA ReturnSteps ==
  ASSUME PromiseInv,
         ThenableReturns \/ ThenableThrows \/ MicrotaskReturns \/ MicrotaskThrows
         \/ DrainEnds
  PROVE  Progress
<1>. PICK f : f = Head(frames)
  OBVIOUS
<1>0. /\ frames # <<>> /\ f.type \in {"thenable", "microtask", "drain"}
      /\ f.type \notin AwaitTypes
  BY DEF ThenableReturns, ThenableThrows, MicrotaskReturns, MicrotaskThrows,
         DrainEnds, InJob, Draining, AwaitTypes
<1>1. /\ HeapInv(Heap, count, Tail(frames), {})
      /\ Inv(pr, count, queue, Tail(frames), {})
      /\ FrameOK(pr, count, f)
      /\ f.type = "thenable" => Resolvable(pr, queue, Tail(frames), f.target)
      /\ f.type = "microtask" =>
           Tail(frames) # <<>> /\ Head(Tail(frames)).type = "drain"
  BY <1>0, CallEnds
<1>2. CASE ThenableReturns \/ MicrotaskReturns \/ DrainEnds
  <2>1. UNCHANGED <<pr, count, queue>> /\ frames' = Tail(frames)
    BY <1>2 DEF ThenableReturns, MicrotaskReturns, DrainEnds
  <2>. QED
    BY <1>1, <2>1, StackStep
<1>3. CASE ThenableThrows
  <2>1. f.type = "thenable"
    BY <1>3 DEF ThenableThrows, InJob
  <2>2. f.target \in 1..count /\ Heap.pr = pr /\ Heap.q = queue
    BY <1>1, <2>1, StateHeap DEF FrameOK
  <2>3. Becomes(Heap, count, RejectWithChecks(Heap, f.target, Error), count, Tail(frames))
    BY <1>1, <2>1, <2>2, OtherObjects, RejectChecksInv DEF Becomes
  <2>. QED
    BY <1>3, <2>3, PutStep DEF ThenableThrows
<1>4. CASE MicrotaskThrows
  <2>1. f.type = "microtask"
    BY <1>4 DEF MicrotaskThrows, InJob
  <2>. PICK F : F = Tail(frames)
    OBVIOUS
  <2>2. F # <<>> /\ Head(F).type = "drain" /\ Inv(pr, count, queue, F, {})
    BY <1>1, <2>1
  <2>. PICK D : D = IF Head(F).type \in AwaitTypes THEN {} \cup {Head(F).target} ELSE {}
    OBVIOUS
  <2>3. D = {}
    BY <2>2 DEF AwaitTypes
  <2>4. Inv(pr, count, queue, Tail(F), D)
    BY <2>2, PopFrame
  <2>5. UNCHANGED <<pr, count, queue>> /\ frames' = Tail(F)
    BY <1>4 DEF MicrotaskThrows
  <2>. QED
    BY <2>3, <2>4, <2>5, StackStep
<1>. QED
  BY <1>2, <1>3, <1>4

\* The end of a reaction job: the capability of `then` is settled.
LEMMA CapabilityStep ==
  ASSUME PromiseInv, frames # <<>>, Head(frames).type = "reaction", NEW v,
         \/ ResolveCapability(v) /\ Passable(Heap, count, v)
         \/ RejectCapability(v) /\ v \in Objects /\ v \notin Promises
  PROVE  Progress
<1>. PICK f : f = Head(frames)
  OBVIOUS
<1>0. f.type = "reaction" /\ f.type \notin AwaitTypes /\ Heap.pr = pr /\ Heap.q = queue
  BY StateHeap DEF AwaitTypes
<1>1. /\ HeapInv(Heap, count, Tail(frames), {})
      /\ Inv(pr, count, queue, Tail(frames), {}) /\ FrameOK(pr, count, f)
  BY <1>0, CallEnds
<1>2. f.target \in 1..count /\ pr[f.target].kind = "derived"
  BY <1>0, <1>1 DEF FrameOK
<1>3. Resolvable(Heap.pr, Heap.q, Tail(frames), f.target)
  BY <1>0, <1>1, <1>2 DEF Inv, RightInv, Resolvable
<1>4. CASE ResolveCapability(v) /\ Passable(Heap, count, v)
  <2>1. Becomes(Heap, count, FulfillWithChecks(Heap, f.target, v), count,
                CheckedFrame(Heap, f.target, v) \o Tail(frames))
    BY <1>1, <1>2, <1>3, <1>4, FulfillChecksInv DEF Becomes
  <2>. QED
    BY <1>4, <2>1, PutStep DEF ResolveCapability
<1>5. CASE RejectCapability(v) /\ v \in Objects /\ v \notin Promises
  <2>1. Becomes(Heap, count, RejectWithChecks(Heap, f.target, v), count, Tail(frames))
    BY <1>1, <1>2, <1>3, <1>5, RejectChecksInv DEF Becomes
  <2>. QED
    BY <1>5, <2>1, PutStep DEF RejectCapability
<1>. QED
  BY <1>4, <1>5

\* The ends of a reaction job, for user handlers and native ones.
LEMMA ReactionEnds ==
  ASSUME PromiseInv,
         \/ \E v \in Arguments : HandlerReturns(v)
         \/ HandlerThrows \/ EndNativeReaction
  PROVE  Progress
<1>. PICK f : f = Head(frames)
  OBVIOUS
<1>0. frames # <<>> /\ f.type = "reaction" /\ f.type \notin AwaitTypes
  BY DEF HandlerReturns, HandlerThrows, EndNativeReaction, InReaction, AwaitTypes
<1>1. f \in Frames /\ FrameOK(pr, count, f)
  BY <1>0, CallEnds
<1>2. f.arg \in Objects /\ f.arg \notin Promises
  BY <1>0, <1>1 DEF FrameOK, Frames
<1>3. Passable(Heap, count, f.arg) /\ Passable(Heap, count, Undef)
  BY <1>2, OtherObjects DEF Passable
<1>4. \E v : \/ ResolveCapability(v) /\ Passable(Heap, count, v)
             \/ RejectCapability(v) /\ v \in Objects /\ v \notin Promises
  <2>1. ASSUME NEW v \in Arguments, HandlerReturns(v)
        PROVE  ResolveCapability(v) /\ Passable(Heap, count, v)
    BY <2>1, ArgumentPassable DEF HandlerReturns
  <2>2. CASE HandlerThrows
    BY <2>2, OtherObjects DEF HandlerThrows
  <2>3. CASE EndNativeReaction
    BY <2>3, <1>2, <1>3 DEF EndNativeReaction
  <2>. QED
    BY <2>1, <2>2, <2>3
<1>. QED
  BY <1>0, <1>4, CapabilityStep

\* The bit that says that a reaction has run.
RanOnly(h, h2, d) ==
  /\ h2 \in Heaps /\ h2.q = h.q
  /\ \A q \in Promises \ {d} : h2.pr[q] = h.pr[q]
  /\ SameCore(h.pr[d], h2.pr[d]) /\ h2.pr[d].ran
  /\ h2.pr[d].handled = h.pr[d].handled /\ h2.pr[d].unhandled = h.pr[d].unhandled

SetRan(h, d) == [h EXCEPT !.pr[d].ran = TRUE]

\* The heap with the bit set.
LEMMA RanPut ==
  ASSUME NEW P \in [Promises -> PromiseRecords], NEW Q \in Seq(Jobs), NEW d \in Promises,
         NEW x \in PromiseRecords, SameCore(P[d], x), x.ran,
         x.handled = P[d].handled, x.unhandled = P[d].unhandled,
         NEW P2, P2 = PutPromise(P, d, x), NEW h, h = HeapOf(P, Q),
         NEW h2, h2 = HeapOf(P2, Q)
  PROVE  RanOnly(h, h2, d)
<1>4. P2 \in [Promises -> PromiseRecords] /\ P2[d] = x
      /\ \A q \in Promises \ {d} : P2[q] = P[q]
  BY PutPromiseProperties
<1>5. h2 \in Heaps /\ h2.pr = P2 /\ h2.q = Q /\ h.pr = P /\ h.q = Q
  BY <1>4, HeapOfProperties
<1>. QED
  BY <1>4, <1>5 DEF RanOnly

\* The effect of setting it.
LEMMA RanEffect ==
  ASSUME NEW P \in [Promises -> PromiseRecords], NEW Q \in Seq(Jobs), NEW d \in Promises,
         NEW h, h = HeapOf(P, Q), NEW h2, h2 = SetRan(h, d)
  PROVE  RanOnly(h, h2, d)
<1>a. PICK y : y = P[d]
  OBVIOUS
<1>b. PICK x : x = [y EXCEPT !.ran = TRUE]
  OBVIOUS
<1>c. PICK P2 : P2 = PutPromise(P, d, x)
  OBVIOUS
<1>1. y \in PromiseRecords
  BY <1>a
<1>2. x \in PromiseRecords /\ SameCore(y, x) /\ x.ran
      /\ x.handled = y.handled /\ x.unhandled = y.unhandled
  BY <1>b, <1>1 DEF PromiseRecords, SameCore
<1>3. h2 = HeapOf(P2, Q)
  BY <1>a, <1>b, <1>c DEF HeapOf, PutPromise, SetRan
<1>. QED
  BY <1>a, <1>c, <1>2, <1>3, RanPut

\* An async function ends: its promise can be settled, by no one else.
LEMMA EndedInv ==
  ASSUME PromiseInv, InAsync, NEW x, x = Head(frames).target, NEW h, h = Ended(x)
  PROVE  /\ HeapInv(h, count, Tail(frames), {}) /\ Grown(pr, count, h.pr, count)
         /\ h.q = queue /\ Ready(h, count, Tail(frames), x)
<1>. PICK F : F = Tail(frames)
  OBVIOUS
<1>. PICK D : D = IF Head(frames).type \in AwaitTypes THEN {} \cup {Head(frames).target}
                                                      ELSE {}
  OBVIOUS
<1>0. frames # <<>> /\ Head(frames).type \in AwaitTypes /\ D = {x}
      /\ Inv(pr, count, queue, frames, {})
  BY DEF InAsync, InJob, AwaitTypes, PromiseInv
<1>1. /\ Inv(pr, count, queue, F, D) /\ FrameOK(pr, count, Head(frames))
      /\ pr[x].pending /\ ~ pr[x].ran
      /\ ~ InAdoption(queue, F, x) /\ ~ HasRight(pr, count, queue, F, x)
  BY <1>0, PopFrame
<1>2. x \in 1..count /\ pr[x].kind = "async"
  BY <1>0, <1>1 DEF FrameOK, AwaitTypes
<1>3. /\ Heap = HeapOf(pr, queue) /\ Heap.pr = pr /\ Heap.q = queue /\ x \in Promises
      /\ pr \in [Promises -> PromiseRecords] /\ queue \in Seq(Jobs)
      /\ count \in 0..MaxPromises
  BY <1>2, StateHeap DEF Heap, HeapOf
<1>4. RanOnly(Heap, h, x)
  BY <1>3, RanEffect DEF Ended, SetRan
<1>. PICK P2 : P2 = h.pr
  OBVIOUS
<1>5. /\ h \in Heaps /\ h.q = queue /\ P2 \in [Promises -> PromiseRecords]
      /\ \A q \in Promises \ {x} : P2[q] = pr[q]
      /\ SameCore(pr[x], P2[x]) /\ P2[x].ran
      /\ P2[x].handled = pr[x].handled /\ P2[x].unhandled = pr[x].unhandled
  BY <1>3, <1>4 DEF RanOnly, Heaps
<1>6. RanData(pr, count, queue, D, P2, x)
  BY <1>0, <1>2, <1>5 DEF RanData
<1>7. Inv(P2, count, queue, F, D \ {x}) /\ Grown(pr, count, P2, count)
  BY <1>1, <1>6, RanStep
<1>8. D \ {x} = {}
  BY <1>0
<1>9. HeapInv(h, count, F, {})
  BY <1>5, <1>7, <1>8 DEF HeapInv
<1>10. \A q \in 1..count : P2[q].reactions = pr[q].reactions
  BY <1>3, <1>5, BornPromise DEF SameCore
<1>11. ~ HasRight(P2, count, queue, F, x)
  <2>1. ~ ReactionRight(P2, count, x)
    BY <1>1, <1>10, SameReactionRight DEF HasRight
  <2>2. ~ UserRight(P2, x)
    BY <1>1, <1>5 DEF HasRight, UserRight, SameCore
  <2>. QED
    BY <1>1, <2>1, <2>2 DEF HasRight
<1>12. Ready(h, count, F, x)
  BY <1>1, <1>2, <1>5, <1>11 DEF Ready, Locked, SameCore
<1>. QED
  BY <1>5, <1>7, <1>9, <1>12

\* An async function returns, throws or waits again.
LEMMA AsyncSteps ==
  ASSUME PromiseInv,
         \/ \E v \in Arguments : AsyncReturns(v)
         \/ AsyncThrows
         \/ \E p \in Born : AwaitAgain(p)
  PROVE  Progress
<1>. PICK x : x = Head(frames).target
  OBVIOUS
<1>. PICK h : h = Ended(x)
  OBVIOUS
<1>0. /\ InAsync /\ count' = count /\ Heap.pr = pr /\ Heap.q = queue
      /\ count \in 0..MaxPromises
  BY StateHeap DEF AsyncReturns, AsyncThrows, AwaitAgain
<1>1. /\ HeapInv(h, count, Tail(frames), {}) /\ Grown(pr, count, h.pr, count)
      /\ h.q = queue /\ Ready(h, count, Tail(frames), x)
  BY <1>0, EndedInv
<1>2. ASSUME NEW v \in Arguments, AsyncReturns(v)
      PROVE  Progress
  <2>1. Passable(h, count, v)
    BY <1>0, <1>1, ArgumentPassable DEF Passable
  <2>. PICK h2 : h2 = FulfillPromise(h, x, v)
    OBVIOUS
  <2>2. /\ HeapInv(h2, count, GetFrame(x, v) \o Tail(frames), {})
        /\ Grown(h.pr, count, h2.pr, count)
    BY <1>1, <2>1, FulfillPromiseInv
  <2>3. Becomes(Heap, count, h2, count, GetFrame(x, v) \o Tail(frames))
    BY <1>0, <1>1, <2>2, GrownTrans DEF Becomes
  <2>4. Put(h2) /\ frames' = GetFrame(x, v) \o Tail(frames)
    BY <1>2 DEF AsyncReturns
  <2>. QED
    BY <1>0, <2>3, <2>4, PutStep
<1>3. CASE AsyncThrows
  <2>. PICK h2 : h2 = RejectPromise(h, x, Error)
    OBVIOUS
  <2>2. /\ HeapInv(h2, count, Tail(frames), {})
        /\ Grown(h.pr, count, h2.pr, count)
    BY <1>1, OtherObjects, RejectPromiseInv
  <2>3. Becomes(Heap, count, h2, count, Tail(frames))
    BY <1>0, <1>1, <2>2, GrownTrans DEF Becomes
  <2>4. Put(h2) /\ frames' = Tail(frames)
    BY <1>3 DEF AsyncThrows
  <2>. QED
    BY <1>0, <2>3, <2>4, PutStep
<1>4. ASSUME NEW p \in Born, AwaitAgain(p)
      PROVE  Progress
  <2>. PICK D : D = IF Head(frames).type \in AwaitTypes
                      THEN {} \cup {Head(frames).target} ELSE {}
    OBVIOUS
  <2>0. frames # <<>> /\ Head(frames).type \in AwaitTypes /\ D = {x}
        /\ Inv(pr, count, queue, frames, {}) /\ p \in 1..count /\ Heap \in Heaps
    BY <1>0, StateHeap DEF InAsync, InJob, AwaitTypes, PromiseInv, Born
  <2>1. Inv(pr, count, queue, Tail(frames), D) /\ FrameOK(pr, count, Head(frames))
    BY <2>0, PopFrame
  <2>2. x \in 1..count /\ pr[x].kind = "async"
    BY <2>0, <2>1 DEF FrameOK, AwaitTypes
  <2>3. HeapInv(Heap, count, Tail(frames), D)
    BY <1>0, <2>0, <2>1 DEF HeapInv
  <2>. PICK h2 : h2 = AsyncThen(Heap, p, x)
    OBVIOUS
  <2>4. HeapInv(h2, count, Tail(frames), D \ {x}) /\ Grown(Heap.pr, count, h2.pr, count)
    BY <1>0, <2>0, <2>2, <2>3, AsyncThenInv
  <2>5. D \ {x} = {}
    BY <2>0
  <2>6. Becomes(Heap, count, h2, count, Tail(frames))
    BY <2>4, <2>5 DEF Becomes
  <2>7. Put(h2) /\ frames' = Tail(frames)
    BY <1>4 DEF AwaitAgain
  <2>. QED
    BY <1>0, <2>6, <2>7, PutStep
<1>. QED
  BY <1>2, <1>3, <1>4

\* The heap without the job that was taken.
LEMMA PoppedHeap ==
  ASSUME PromiseInv, queue # <<>>
  PROVE  /\ Popped = HeapOf(pr, Tail(queue)) /\ Popped \in Heaps
         /\ Popped.pr = pr /\ Popped.q = Tail(queue) /\ Tail(queue) \in Seq(Jobs)
<1>1. pr \in [Promises -> PromiseRecords] /\ queue \in Seq(Jobs)
  BY StateHeap
<1>2. Tail(queue) \in Seq(Jobs)
  BY <1>1
<1>3. Popped = HeapOf(pr, Tail(queue))
  <2>. PICK h : h = HeapOf(pr, queue)
    OBVIOUS
  <2>1. Heap = h
    BY DEF Heap, HeapOf
  <2>2. [h EXCEPT !.q = Tail(@)] = HeapOf(pr, Tail(queue))
    BY DEF HeapOf
  <2>. QED
    BY <2>1, <2>2 DEF Popped
<1>. QED
  BY <1>1, <1>2, <1>3, HeapOfProperties

\* A job of no reaction is taken.
LEMMA OtherTaken ==
  ASSUME PromiseInv, queue # <<>>, Head(queue).type \notin ReactionTypes
  PROVE  /\ HeapInv(Popped, count, frames, {})
         /\ Head(queue) \in Jobs /\ JobOK(pr, count, Head(queue))
         /\ Head(queue).type = "thenable" =>
              LET p == Head(queue).target
              IN /\ pr[p].pending
                 /\ ~ InAdoption(Tail(queue), frames, p)
                 /\ pr[p].kind = "async" => pr[p].ran
                 /\ Head(queue).arg \in Things => pr[p].fresh < MaxFresh
                 /\ Head(queue).arg \in Promises =>
                      count + 1 + Cardinality(Reserved(Tail(queue))) <= MaxPromises
<1>. PICK D : D = IF Head(queue).type \in ReactionTypes THEN {} \cup {Head(queue).target}
                                                        ELSE {}
  OBVIOUS
<1>0. D = {} /\ Inv(pr, count, queue, frames, {})
  BY DEF PromiseInv
<1>1. Inv(pr, count, Tail(queue), frames, D)
  BY <1>0, PopHead
<1>2. HeapInv(Popped, count, frames, {})
  BY <1>0, <1>1, PoppedHeap DEF HeapInv
<1>3. /\ Head(queue) \in Jobs /\ JobOK(pr, count, Head(queue))
      /\ Head(queue).type = "thenable" =>
           LET p == Head(queue).target
           IN /\ pr[p].pending
              /\ ~ InAdoption(Tail(queue), frames, p)
              /\ pr[p].kind = "async" => pr[p].ran
              /\ Head(queue).arg \in Things => pr[p].fresh < MaxFresh
              /\ Head(queue).arg \in Promises =>
                   count + 1 + Cardinality(Reserved(Tail(queue))) <= MaxPromises
  BY <1>0, PopHead
<1>. QED
  BY <1>2, <1>3

\* A call that is of no async function is entered.
LEMMA HeapPush ==
  ASSUME NEW h, NEW n, NEW F, NEW D, HeapInv(h, n, F, D),
         NEW f \in Frames, FrameOK(h.pr, n, f),
         f.type \notin AwaitTypes, f.type # "get",
         f.type = "microtask" => F # <<>> /\ Head(F).type = "drain",
         f.type = "thenable" => Resolvable(h.pr, h.q, F, f.target)
  PROVE  HeapInv(h, n, <<f>> \o F, D)
<1>. PICK D2 : D2 = IF f.type \in AwaitTypes THEN D \ {f.target} ELSE D
  OBVIOUS
<1>1. Inv(h.pr, n, h.q, F, D) /\ h \in Heaps
  BY DEF HeapInv
<1>2. Inv(h.pr, n, h.q, <<f>> \o F, D2)
  BY <1>1, PushFrame
<1>3. D2 = D
  OBVIOUS
<1>. QED
  BY <1>1, <1>2, <1>3 DEF HeapInv

\* StartUserJob: the job becomes a call.
LEMMA StartUserJobStep ==
  ASSUME PromiseInv, StartUserJob
  PROVE  Progress
<1>. PICK job : job = Head(queue)
  OBVIOUS
<1>0. /\ queue # <<>> /\ job.type \in {"await_fulfilled", "await_rejected", "microtask"}
      /\ frames # <<>> /\ Head(frames).type = "drain"
      /\ Put(Popped) /\ frames' = <<job>> \o frames /\ count' = count
  BY DEF StartUserJob, Next1, Draining, Push
<1>1. /\ Popped \in Heaps /\ Popped.pr = pr /\ Popped.q = Tail(queue)
      /\ Grown(pr, count, pr, count) /\ Heap.pr = pr
  BY <1>0, PoppedHeap, StateHeap
<1>2. CASE job.type = "microtask"
  <2>1. job.type \notin ReactionTypes /\ job.type \notin AwaitTypes
    BY <1>2 DEF ReactionTypes, AwaitTypes
  <2>2. HeapInv(Popped, count, frames, {}) /\ job \in Jobs
    BY <1>0, <2>1, OtherTaken
  <2>3. job \in Frames /\ FrameOK(pr, count, job)
    BY <1>2, <2>2, JobIsFrame DEF FrameOK, AwaitTypes
  <2>4. HeapInv(Popped, count, <<job>> \o frames, {})
    BY <1>0, <1>1, <1>2, <2>1, <2>2, <2>3, HeapPush
  <2>5. Becomes(Heap, count, Popped, count, <<job>> \o frames)
    BY <1>1, <2>4 DEF Becomes
  <2>. QED
    BY <1>0, <2>5, PutStep
<1>3. CASE job.type \in AwaitTypes
  <2>. PICK D : D = IF job.type \in ReactionTypes THEN {} \cup {job.target} ELSE {}
    OBVIOUS
  <2>. PICK D2 : D2 = IF job.type \in AwaitTypes THEN D \ {job.target} ELSE D
    OBVIOUS
  <2>0. D = {job.target} /\ D2 = {} /\ Inv(pr, count, queue, frames, {})
    BY <1>3 DEF PromiseInv, ReactionTypes
  <2>1. Inv(pr, count, Tail(queue), frames, D) /\ job \in Jobs /\ JobOK(pr, count, job)
    BY <1>0, <2>0, PopHead
  <2>2. job \in Frames /\ FrameOK(pr, count, job)
    BY <1>3, <2>1, JobIsFrame DEF FrameOK, JobOK, AwaitTypes
  <2>3. job.type \notin {"microtask", "thenable", "get"}
    BY <1>3 DEF AwaitTypes
  <2>4. Inv(pr, count, Tail(queue), <<job>> \o frames, D2)
    BY <1>3, <2>0, <2>1, <2>2, <2>3, PushFrame
  <2>5. Becomes(Heap, count, Popped, count, <<job>> \o frames)
    BY <1>1, <2>0, <2>4 DEF Becomes, HeapInv
  <2>. QED
    BY <1>0, <2>5, PutStep
<1>. QED
  BY <1>0, <1>2, <1>3 DEF AwaitTypes

\* A thenable job clears ALREADY_RESOLVED: its promise is pending and no other
\* value is about to settle it.
LEMMA ReopenInv ==
  ASSUME PromiseInv, queue # <<>>, Head(queue).type = "thenable",
         NEW p, p = Head(queue).target, NEW h, FlagsOnly(Popped, h, p)
  PROVE  /\ HeapInv(h, count, frames, {}) /\ Grown(pr, count, h.pr, count)
         /\ p \in 1..count /\ h.q = Tail(queue)
         /\ Resolvable(h.pr, h.q, frames, p)
<1>0. Head(queue).type \notin ReactionTypes
  BY DEF ReactionTypes, AwaitTypes
<1>1. /\ HeapInv(Popped, count, frames, {}) /\ JobOK(pr, count, Head(queue))
      /\ pr[p].pending /\ ~ InAdoption(Tail(queue), frames, p)
      /\ pr[p].kind = "async" => pr[p].ran
  BY <1>0, OtherTaken
<1>2. p \in 1..count /\ Popped.pr = pr /\ Popped.q = Tail(queue)
  BY <1>1, PoppedHeap DEF JobOK
<1>3. HeapInv(h, count, frames, {}) /\ Grown(Popped.pr, count, h.pr, count)
  BY <1>1, <1>2, FlagHeap
<1>4. h.q = Tail(queue) /\ SameShape(pr[p], h.pr[p])
  BY <1>2 DEF FlagsOnly
<1>5. Resolvable(h.pr, h.q, frames, p)
  BY <1>1, <1>4 DEF Resolvable, Open, SameShape
<1>. QED
  BY <1>2, <1>3, <1>4, <1>5

\* The flags that the job of a thing changes.
LEMMA HandsOutResolvers ==
  ASSUME NEW h \in Heaps, NEW p \in Promises, h.pr[p].fresh < MaxFresh,
         NEW h2, h2 = [h EXCEPT !.pr[p].resolved = FALSE, !.pr[p].fresh = @ + 1]
  PROVE  FlagsOnly(h, h2, p)
BY FlagChanges, Zenon

\* StartThenable: user code gets a new resolver pair.
LEMMA StartThenableStep ==
  ASSUME PromiseInv, StartThenable
  PROVE  Progress
<1>. PICK job : job = Head(queue)
  OBVIOUS
<1>. PICK p : p = job.target
  OBVIOUS
<1>a. PICK h : h = [Popped EXCEPT !.pr[p].resolved = FALSE, !.pr[p].fresh = @ + 1]
  OBVIOUS
<1>0. /\ queue # <<>> /\ job.type = "thenable" /\ job.arg \in Things
      /\ Put(h) /\ frames' = <<job>> \o frames /\ count' = count
  BY <1>a DEF StartThenable, Next1, Push
<1>1. job.type \notin ReactionTypes /\ job.type \notin AwaitTypes
  BY <1>0 DEF ReactionTypes, AwaitTypes
<1>2. pr[p].fresh < MaxFresh /\ job \in Jobs /\ JobOK(pr, count, job)
  BY <1>0, <1>1, OtherTaken
<1>3. /\ p \in 1..count /\ p \in Promises /\ Popped \in Heaps /\ Popped.pr = pr
      /\ Heap.pr = pr
  BY <1>0, <1>2, PoppedHeap, StateHeap DEF JobOK
<1>4. FlagsOnly(Popped, h, p)
  <2>1. Popped.pr[p].fresh < MaxFresh
    BY <1>2, <1>3
  <2>. QED
    BY <1>a, <1>3, <2>1, HandsOutResolvers
<1>5. /\ HeapInv(h, count, frames, {}) /\ Grown(pr, count, h.pr, count)
      /\ Resolvable(h.pr, h.q, frames, p)
  BY <1>0, <1>4, ReopenInv
<1>6. job \in Frames /\ FrameOK(h.pr, count, job)
  BY <1>0, <1>1, <1>2, <1>3, JobIsFrame DEF FrameOK, AwaitTypes
<1>7. HeapInv(h, count, <<job>> \o frames, {})
  BY <1>0, <1>1, <1>5, <1>6, HeapPush
<1>8. Becomes(Heap, count, h, count, <<job>> \o frames)
  BY <1>3, <1>5, <1>7 DEF Becomes
<1>. QED
  BY <1>0, <1>8, PutStep

\* AdoptPromise: the new resolvers are the handlers of a reaction.
LEMMA AdoptPromiseStep ==
  ASSUME PromiseInv, AdoptPromise
  PROVE  Progress
<1>. PICK job : job = Head(queue)
  OBVIOUS
<1>. PICK p : p = job.target
  OBVIOUS
<1>. PICK q : q = job.arg
  OBVIOUS
<1>. PICK onF : onF = Handler("resolve", p)
  OBVIOUS
<1>. PICK onR : onR = Handler("reject", p)
  OBVIOUS
<1>a. PICK h : h = [Popped EXCEPT !.pr[p].resolved = FALSE]
  OBVIOUS
<1>b. PICK h2 : h2 = PerformThen(h, q, count + 1, onF, onR)
  OBVIOUS
<1>0. /\ queue # <<>> /\ job.type = "thenable" /\ q \in Promises
      /\ Put(h2) /\ frames' = frames /\ count' = count + 1
  BY <1>a, <1>b DEF AdoptPromise, Next1
<1>1. job.type \notin ReactionTypes
  BY <1>0 DEF ReactionTypes, AwaitTypes
<1>2. /\ JobOK(pr, count, job)
      /\ count + 1 + Cardinality(Reserved(Tail(queue))) <= MaxPromises
  BY <1>0, <1>1, OtherTaken
<1>3. p \in 1..count /\ q \in 1..count
  BY <1>0, <1>2, OtherObjects DEF JobOK
<1>4. /\ p \in Promises /\ Popped \in Heaps /\ Heap.pr = pr /\ count \in 0..MaxPromises
      /\ Popped.pr = pr
  BY <1>0, <1>3, PoppedHeap, StateHeap
<1>5. FlagsOnly(Popped, h, p)
  BY <1>a, <1>4, FlagChanges
<1>6. /\ HeapInv(h, count, frames, {}) /\ Grown(pr, count, h.pr, count)
      /\ Resolvable(h.pr, h.q, frames, p) /\ h.q = Tail(queue)
  BY <1>0, <1>5, ReopenInv
<1>7. onF \in Handlers /\ onR \in Handlers /\ onF.h = "resolve" /\ onR.h = "reject"
      /\ onF.p = p /\ onR.p = p
  BY <1>4 DEF Handler, Handlers
<1>8. HandlerPair(h, count, frames, onF, onR)
  BY <1>3, <1>6, <1>7 DEF HandlerPair
<1>9. FreeInv(count + 1, h.q)
  BY <1>2, <1>6 DEF FreeInv
<1>10. HeapInv(h2, count + 1, frames, {}) /\ Grown(h.pr, count, h2.pr, count + 1)
       /\ count + 1 \in 0..MaxPromises
  BY <1>b, <1>3, <1>6, <1>8, <1>9, PerformThenInv
<1>11. Grown(pr, count, h2.pr, count + 1)
  BY <1>4, <1>6, <1>10, GrownTrans
<1>12. Becomes(Heap, count, h2, count + 1, frames)
  BY <1>4, <1>10, <1>11 DEF Becomes
<1>. QED
  BY <1>0, <1>12, PutStep

\* A job less and a call of a handler more lock no promise in to a value.
LEMMA NoNewAdoption ==
  ASSUME NEW Q \in Seq(Jobs), Q # <<>>, NEW F \in Seq(Frames), NEW f \in Frames,
         f.type # "get", NEW p, InAdoption(Tail(Q), <<f>> \o F, p)
  PROVE  InAdoption(Q, F, p)
<1>1. CASE AdoptJobs(Tail(Q), p) # {}
  <2>1. PICK i \in 1..Len(Tail(Q)) : Tail(Q)[i].type = "thenable" /\ Tail(Q)[i].target = p
    BY <1>1 DEF AdoptJobs
  <2>2. i + 1 \in 1..Len(Q) /\ Q[i + 1] = Tail(Q)[i]
    BY <2>1
  <2>3. i + 1 \in AdoptJobs(Q, p)
    BY <2>1, <2>2 DEF AdoptJobs
  <2>. QED
    BY <2>3 DEF InAdoption
<1>2. CASE AdoptGets(<<f>> \o F, p) # {}
  <2>0. <<f>> \in Seq(Frames) /\ Len(<<f>>) = 1 /\ <<f>>[1] = f /\ Len(F) \in Nat
    OBVIOUS
  <2>. PICK G : G = <<f>> \o F
    OBVIOUS
  <2>1. Len(G) = 1 + Len(F) /\ G[1] = f /\ \A i \in 2..Len(G) : G[i] = F[i - 1]
    BY <2>0
  <2>2. PICK i \in 1..Len(G) : G[i].type = "get" /\ G[i].target = p
    BY <1>2 DEF AdoptGets
  <2>3. i - 1 \in 1..Len(F) /\ G[i] = F[i - 1]
    BY <2>0, <2>1, <2>2
  <2>4. i - 1 \in AdoptGets(F, p)
    BY <2>2, <2>3 DEF AdoptGets
  <2>. QED
    BY <2>4 DEF InAdoption
<1>. QED
  BY <1>1, <1>2 DEF InAdoption

\* A job that holds a resolver may settle its promise.
LEMMA JobMayResolve ==
  ASSUME PromiseInv, queue # <<>>, Head(queue).handler.h \in {"resolve", "reject"},
         NEW p, p = Head(queue).handler.p, p \in 1..count
  PROVE  Resolvable(pr, queue, frames, p)
<1>1. queue \in Seq(Jobs)
  BY StateHeap
<1>2. 1 \in 1..Len(queue) /\ queue[1] = Head(queue)
  BY <1>1
<1>3. JobRight(queue, p)
  BY <1>2 DEF JobRight
<1>. QED
  BY <1>3 DEF PromiseInv, Inv, RightInv, HasRight

\* The job of a reaction of `then` is taken, and its handler called.
Started(h, job) ==
  /\ HeapInv(h, count, <<job>> \o frames, {}) /\ Grown(pr, count, h.pr, count)
  /\ job.arg \in Objects /\ job.arg \notin Promises
  /\ job.handler.h \in {"identity", "resolve", "user", "thrower", "reject"}
  /\ job.handler.h \in {"resolve", "reject"} =>
       /\ job.handler.p \in 1..count
       /\ Resolvable(h.pr, h.q, <<job>> \o frames, job.handler.p)

\* The handler may settle the promise that its resolver names.
LEMMA ReactionStarted ==
  ASSUME PromiseInv, queue # <<>>, NEW job, job = Head(queue), job.type = "reaction",
         NEW h, h = SetRan(Popped, job.target)
  PROVE  Started(h, job)
<1>. PICK d : d = job.target
  OBVIOUS
<1>. PICK D : D = IF job.type \in ReactionTypes THEN {} \cup {job.target} ELSE {}
  OBVIOUS
<1>0. D = {d} /\ Inv(pr, count, queue, frames, {})
  BY DEF PromiseInv, ReactionTypes
<1>1. /\ Inv(pr, count, Tail(queue), frames, D) /\ job \in Jobs /\ JobOK(pr, count, job)
      /\ \A i \in 1..Len(Tail(queue)) :
           /\ Tail(queue)[i].type = "reaction"
           /\ pr[Tail(queue)[i].target].parent = pr[d].parent
           => d < Tail(queue)[i].target
  BY <1>0, PopHead
<1>2. /\ d \in 1..count /\ pr[d].kind = "derived" /\ pr[d].parent \in 1..count
      /\ ~ pr[pr[d].parent].pending /\ job.arg \notin Promises
      /\ job.handler.h \in {"identity", "resolve", "user", "thrower", "reject"}
      /\ job.handler.h \in {"resolve", "reject"} => job.handler.p \in 1..count
  BY <1>1 DEF JobOK
<1>3. /\ Popped = HeapOf(pr, Tail(queue)) /\ Popped.pr = pr /\ Popped.q = Tail(queue)
      /\ Tail(queue) \in Seq(Jobs) /\ d \in Promises /\ queue \in Seq(Jobs)
      /\ pr \in [Promises -> PromiseRecords] /\ count \in 0..MaxPromises
      /\ frames \in Seq(Frames)
  BY <1>2, PoppedHeap, StateHeap
<1>4. RanOnly(Popped, h, d)
  BY <1>3, RanEffect
<1>. PICK P2 : P2 = h.pr
  OBVIOUS
<1>5. /\ h \in Heaps /\ h.q = Tail(queue) /\ P2 \in [Promises -> PromiseRecords]
      /\ \A q \in Promises \ {d} : P2[q] = pr[q]
      /\ SameCore(pr[d], P2[d]) /\ P2[d].ran
      /\ P2[d].handled = pr[d].handled /\ P2[d].unhandled = pr[d].unhandled
  BY <1>3, <1>4 DEF RanOnly, Heaps
<1>6. RanData(pr, count, Tail(queue), D, P2, d)
  BY <1>0, <1>1, <1>2, <1>5 DEF RanData
<1>7. Inv(P2, count, Tail(queue), frames, D \ {d}) /\ Grown(pr, count, P2, count)
  BY <1>1, <1>6, RanStep
<1>8. D \ {d} = {}
  BY <1>0
<1>9. HeapInv(h, count, frames, {})
  BY <1>5, <1>7, <1>8 DEF HeapInv
<1>10. job \in Frames /\ FrameOK(h.pr, count, job)
  BY <1>1, <1>2, <1>7, JobIsFrame DEF FrameOK, Grown, AwaitTypes
<1>11. HeapInv(h, count, <<job>> \o frames, {})
  BY <1>9, <1>10, HeapPush DEF AwaitTypes
<1>12. ASSUME job.handler.h \in {"resolve", "reject"}
       PROVE  Resolvable(h.pr, h.q, <<job>> \o frames, job.handler.p)
  <2>. PICK p : p = job.handler.p
    OBVIOUS
  <2>1. p \in 1..count /\ p \in Promises /\ Resolvable(pr, queue, frames, p)
    BY <1>2, <1>3, <1>12, JobMayResolve, BornPromise
  <2>2. InAdoption(Tail(queue), <<job>> \o frames, p) => InAdoption(queue, frames, p)
    BY <1>3, <1>10, NoNewAdoption
  <2>3. SameCore(pr[p], P2[p])
    BY <1>5, <2>1 DEF SameCore
  <2>. QED
    BY <1>5, <2>1, <2>2, <2>3 DEF Resolvable, Open, SameCore
<1>13. job.arg \in Objects
  BY <1>1 DEF Jobs
<1>. QED
  BY <1>2, <1>7, <1>11, <1>12, <1>13 DEF Started

\* StartUserReaction and StartNativeReaction.
LEMMA StartReactionStep ==
  ASSUME PromiseInv, StartUserReaction \/ StartNativeReaction
  PROVE  Progress
<1>. PICK job : job = Head(queue)
  OBVIOUS
<1>a. PICK h : h = SetRan(Popped, job.target)
  OBVIOUS
<1>0. queue # <<>> /\ job.type = "reaction" /\ count' = count
  BY DEF StartUserReaction, StartNativeReaction, Next1
<1>1. Started(h, job)
  BY <1>a, <1>0, ReactionStarted
<1>. PICK p : p = job.handler.p
  OBVIOUS
<1>. PICK F : F = <<job>> \o frames
  OBVIOUS
<1>2. /\ HeapInv(h, count, F, {}) /\ Grown(pr, count, h.pr, count)
      /\ job.arg \in Objects /\ job.arg \notin Promises
      /\ job.handler.h \in {"resolve", "reject"} =>
           p \in 1..count /\ Resolvable(h.pr, h.q, F, p)
  BY <1>1 DEF Started
<1>3. /\ Heap.pr = pr /\ count \in 0..MaxPromises /\ frames \in Seq(Frames)
      /\ job \in Frames
  BY <1>0, StateHeap, JobIsFrame
<1>4. ASSUME Put(h), Push(<<job>>)
      PROVE  Progress
  <2>1. Becomes(Heap, count, h, count, F)
    BY <1>2, <1>3 DEF Becomes
  <2>. QED
    BY <1>0, <1>4, <2>1, PutStep DEF Push
<1>5. ASSUME job.handler.h = "resolve", Put(FulfillWithChecks(h, p, job.arg)),
             Push(CheckedFrame(h, p, job.arg) \o <<job>>)
      PROVE  Progress
  <2>. PICK h2 : h2 = FulfillWithChecks(h, p, job.arg)
    OBVIOUS
  <2>. PICK G : G = CheckedFrame(h, p, job.arg)
    OBVIOUS
  <2>1. Passable(h, count, job.arg)
    BY <1>2 DEF Passable
  <2>2. HeapInv(h2, count, G \o F, {}) /\ Grown(h.pr, count, h2.pr, count)
    BY <1>2, <1>5, <2>1, FulfillChecksInv
  <2>3. G = <<>> \/ \E f : G = <<f>>
    BY DEF CheckedFrame, GetFrame
  <2>4. (G \o <<job>>) \o frames = G \o F
    BY <1>3, <2>3
  <2>5. Becomes(Heap, count, h2, count, G \o F)
    BY <1>2, <1>3, <2>2, GrownTrans DEF Becomes
  <2>. QED
    BY <1>0, <1>5, <2>4, <2>5, PutStep DEF Push
<1>6. ASSUME job.handler.h = "reject", Put(RejectWithChecks(h, p, job.arg)),
             Push(<<job>>)
      PROVE  Progress
  <2>. PICK h2 : h2 = RejectWithChecks(h, p, job.arg)
    OBVIOUS
  <2>2. HeapInv(h2, count, F, {}) /\ Grown(h.pr, count, h2.pr, count)
    BY <1>2, <1>6, RejectChecksInv
  <2>5. Becomes(Heap, count, h2, count, F)
    BY <1>2, <1>3, <2>2, GrownTrans DEF Becomes
  <2>. QED
    BY <1>0, <1>6, <2>5, PutStep DEF Push
<1>7. CASE StartUserReaction
  BY <1>a, <1>4, <1>7 DEF StartUserReaction, SetRan
<1>8. CASE StartNativeReaction
  BY <1>a, <1>4, <1>5, <1>6, <1>8 DEF StartNativeReaction, SetRan
<1>. QED
  BY <1>7, <1>8

-----------------------------------------------------------------------------
(* The invariant                                                           *)

\* No promise exists at first.
LEMMA InitInv ==
  ASSUME Init
  PROVE  PromiseInv
<1>1. /\ pr = [p \in Promises |-> Unborn] /\ count = 0 /\ queue = <<>> /\ frames = <<>>
  BY DEF Init
<1>2. Unborn \in PromiseRecords
  <2>. PICK x : x = Promise("none", 0, 0)
    OBVIOUS
  <2>1. <<>> \in Seq(Reactions) /\ 0 \in 0..MaxPromises /\ 0 \in 0..MaxFresh
    BY PromiseAssumption
  <2>2. x \in PromiseRecords
    BY <2>1, OtherObjects DEF Promise, PromiseRecords
  <2>3. [x EXCEPT !.pending = FALSE] \in PromiseRecords
    BY <2>2 DEF PromiseRecords
  <2>. QED
    BY <2>3 DEF Unborn
<1>3. TypeInv(pr, 0, <<>>, <<>>)
  BY <1>1, <1>2, PromiseAssumption DEF TypeInv
<1>4. BornInv(pr, 0)
  BY <1>1 DEF BornInv
<1>5. Reserved(<<>>) = {}
  BY DEF Reserved
<1>6. FreeInv(0, <<>>)
  BY <1>5, FS_EmptySet, PromiseAssumption DEF FreeInv
<1>7. /\ ReactInv(pr, 0) /\ QueueInv(pr, 0, <<>>) /\ FreshInv(pr, <<>>)
      /\ FrameInv(pr, 0, <<>>) /\ AdoptInv(pr, 0, <<>>, <<>>)
      /\ RightInv(pr, 0, <<>>, <<>>) /\ PlaceInv(pr, 0, <<>>, <<>>, {})
      /\ ListOrder(pr, 0) /\ QueueOrder(pr, <<>>) /\ RunOrder(pr, 0, <<>>)
  BY DEF ReactInv, QueueInv, FreshInv, FrameInv, AdoptInv, RightInv, PlaceInv,
         ListOrder, QueueOrder, RunOrder
<1>. QED
  BY <1>1, <1>3, <1>4, <1>6, <1>7 DEF PromiseInv, Inv

\* Every step keeps the invariant, and every settled promise as it is.
LEMMA NextStep ==
  ASSUME PromiseInv, "async" \notin HostKinds, Next
  PROVE  Progress
<1>1. CASE UserStep
  <2>1. CASE NewPromise \/ QueueMicrotask \/ RunJobs
    BY <2>1, NewPromiseStep, MicrotaskStep, RunJobsStep
  <2>2. ASSUME NEW p \in Born,
               \/ \E v \in Arguments : RecallResolve(p, v) \/ HostResolve(p, v)
               \/ RecallReject(p) \/ HostReject(p)
        PROVE  Progress
    BY <2>2, RecallSteps
  <2>3. ASSUME NEW p \in Born,
               (\E v \in Arguments : CallResolve(p, v)) \/ CallReject(p)
        PROVE  Progress
    BY <2>3, CallSteps
  <2>4. ASSUME NEW p \in Born,
               \E f \in {Identity, UserHandler}, r \in {Thrower, UserHandler} :
                 Then(p, f, r)
        PROVE  Progress
    BY <2>4, ThenStep
  <2>5. ASSUME NEW p \in Born, AsyncCall(p)
        PROVE  Progress
    BY <2>5, AsyncCallStep
  <2>. QED
    BY <1>1, <2>1, <2>2, <2>3, <2>4, <2>5 DEF UserStep
<1>2. CASE UserEnd
  <2>1. CASE GetThrows \/ GetCallable \/ GetNotCallable
    BY <2>1, GetSteps
  <2>2. CASE ThenableReturns \/ ThenableThrows \/ MicrotaskReturns \/ MicrotaskThrows
    BY <2>2, ReturnSteps
  <2>3. CASE HandlerThrows \/ \E v \in Arguments : HandlerReturns(v)
    BY <2>3, ReactionEnds
  <2>4. CASE AsyncThrows \/ (\E v \in Arguments : AsyncReturns(v))
             \/ (\E p \in Born : AwaitAgain(p))
    BY <2>4, AsyncSteps
  <2>. QED
    BY <1>2, <2>1, <2>2, <2>3, <2>4 DEF UserEnd
<1>3. CASE EngineStep
  BY <1>3, StartReactionStep, ReactionEnds, AdoptPromiseStep, StartThenableStep,
     StartUserJobStep, ReturnSteps DEF EngineStep
<1>. QED
  BY <1>1, <1>2, <1>3 DEF Next

\* The invariant holds in every state, unless the host settles the promise of an
\* async function.
THEOREM PromiseInvariant ==
  ASSUME "async" \notin HostKinds
  PROVE  Spec => []PromiseInv
<1>1. Init => PromiseInv
  BY InitInv
<1>2. PromiseInv /\ [Next]_vars => PromiseInv'
  <2>1. CASE PromiseInv /\ Next
    BY <2>1, NextStep DEF Progress
  <2>2. CASE PromiseInv /\ UNCHANGED vars
    BY <2>2 DEF PromiseInv, vars
  <2>. QED
    BY <2>1, <2>2
<1>. QED
  BY <1>1, <1>2, PTL DEF Spec

-----------------------------------------------------------------------------
(* What follows                                                            *)

\* A promise settles once: although ecma_promise_set_state inverts the bits of
\* the state, and although the job of a thenable clears ALREADY_RESOLVED, no
\* resolver, no nested run of the queue and no end of an async function reaches
\* a promise that is settled.
THEOREM SettledOnce ==
  ASSUME "async" \notin HostKinds
  PROVE  Spec => SettledForever
<1>. DEFINE Kept == \A p \in Promises :
                      (p <= count /\ ~ pr[p].pending) =>
                        /\ pr'[p].pending = pr[p].pending
                        /\ pr'[p].fulfilled = pr[p].fulfilled
                        /\ pr'[p].result = pr[p].result
<1>1. PromiseInv /\ [Next]_vars => [Kept]_vars
  <2>1. ASSUME PromiseInv, Next
        PROVE  Kept
    <3>1. Grown(pr, count, pr', count') /\ count \in 0..MaxPromises
      BY <2>1, NextStep, StateHeap DEF Progress
    <3>2. \A p \in Promises : p <= count => p \in 1..count
      BY <3>1, PromiseAssumption DEF Promises
    <3>. QED
      BY <3>1, <3>2 DEF Grown
  <2>. QED
    BY <2>1
<1>. QED
  BY <1>1, PromiseInvariant, PTL DEF Spec, SettledForever

\* The flag of a rejection that nobody handles is exact: it is set by a rejection
\* without reactions, and taken back by the first `then` or await.
THEOREM UnhandledCorrect ==
  ASSUME "async" \notin HostKinds
  PROVE  Spec => []UnhandledExact
<1>1. PromiseInv => UnhandledExact
  <2>. SUFFICES ASSUME PromiseInv, NEW p \in 1..count
                PROVE  pr[p].unhandled <=> (Rejected(p) /\ ~ pr[p].handled)
    BY DEF UnhandledExact, Born
  <2>1. PromiseOK(pr[p], p) /\ pr[p] \in PromiseRecords
    BY StateHeap DEF PromiseInv, Inv, BornInv
  <2>. QED
    BY <2>1 DEF PromiseOK, PromiseRecords, Rejected
<1>. QED
  BY <1>1, PromiseInvariant, PTL

\* The number of members of a set that has at most one.
LEMMA CardOne ==
  ASSUME NEW S, NEW x \in S, \A y \in S : y = x
  PROVE  Cardinality(S) = 1
<1>1. S = {x}
  OBVIOUS
<1>. QED
  BY <1>1, FS_Singleton

\* A set without members.
LEMMA CardZero ==
  ASSUME NEW S, \A y \in S : FALSE
  PROVE  Cardinality(S) = 0
<1>1. S = {}
  OBVIOUS
<1>. QED
  BY <1>1, FS_EmptySet

\* A promise that is locked in to a value is pending, its resolvers do nothing,
\* and there is one such value: the job of the thenable, or the read of `then`.
THEOREM AdoptionCorrect ==
  ASSUME "async" \notin HostKinds
  PROVE  Spec => []AdoptionExclusive
<1>1. PromiseInv => AdoptionExclusive
  <2>. SUFFICES ASSUME PromiseInv, NEW p \in 1..count, Adoptions(p) > 0
                PROVE  /\ Adoptions(p) = 1
                       /\ pr[p].pending
                       /\ pr[p].resolved \/ pr[p].ran
    BY DEF AdoptionExclusive, Born
  <2>. PICK A : A = AdoptJobs(queue, p)
    OBVIOUS
  <2>. PICK G : G = AdoptGets(frames, p)
    OBVIOUS
  <2>1. Adoptions(p) = Cardinality(A) + Cardinality(G)
    BY DEF Adoptions, AdoptJobs, AdoptGets
  <2>2. /\ A # {} \/ G # {} => pr[p].pending
        /\ A = {} \/ G = {}
        /\ \A i, j \in A : i = j
        /\ \A i, j \in G : i = j
    BY DEF PromiseInv, Inv, AdoptInv, InAdoption
  <2>3. /\ A = {} => Cardinality(A) = 0
        /\ G = {} => Cardinality(G) = 0
        /\ A # {} => Cardinality(A) = 1
        /\ G # {} => Cardinality(G) = 1
    BY <2>2, CardOne, CardZero
  <2>4. A # {} \/ G # {}
    BY <2>1, <2>3
  <2>5. Adoptions(p) = 1
    BY <2>1, <2>2, <2>3, <2>4
  <2>6. InAdoption(queue, frames, p)
    BY <2>4 DEF InAdoption
  <2>7. pr[p].resolved \/ pr[p].ran
    BY <2>6 DEF PromiseInv, Inv, RightInv, Open
  <2>. QED
    BY <2>2, <2>4, <2>5, <2>7
<1>. QED
  BY <1>1, PromiseInvariant, PTL

\* A job of `then` is in the queue only once its promise is settled, with that
\* promise's result and the handler of the side that happened.
THEOREM JobsCorrect ==
  ASSUME "async" \notin HostKinds
  PROVE  Spec => []JobsMatchPromise
<1>1. PromiseInv => TypeOK
  <2>. SUFFICES ASSUME PromiseInv
                PROVE  TypeOK
    OBVIOUS
  <2>1. /\ pr \in [Promises -> PromiseRecords] /\ queue \in Seq(Jobs)
        /\ count \in 0..MaxPromises /\ frames \in Seq(Frames)
    BY StateHeap
  <2>2. DOMAIN pr = Promises /\ \A p \in Promises : pr[p] \in PromiseRecords
    BY <2>1
  <2>3. ASSUME NEW x \in PromiseRecords
        PROVE  /\ x.kind \in {"none", "plain", "derived", "async"}
               /\ x.pending \in BOOLEAN /\ x.fulfilled \in BOOLEAN
               /\ x.resolved \in BOOLEAN /\ x.unhandled \in BOOLEAN
               /\ x.handled \in BOOLEAN /\ x.ran \in BOOLEAN
               /\ x.stale \in BOOLEAN /\ x.fresh \in 0..MaxFresh
               /\ x.result \in Objects /\ x.parent \in 0..MaxPromises
               /\ x.reactions \in Seq(Reactions)
    BY DEF PromiseRecords
  <2>. QED
    BY <2>1, <2>2, <2>3 DEF TypeOK
<1>2. PromiseInv => JobsMatchPromise
  <2>. SUFFICES ASSUME PromiseInv, NEW i \in 1..Len(queue), queue[i].type = "reaction"
                PROVE  LET job == queue[i]
                           p == pr[job.target].parent
                       IN /\ Settled(p)
                          /\ job.arg = pr[p].result
                          /\ job.handler.h \in {"identity", "resolve"} => pr[p].fulfilled
                          /\ job.handler.h \in {"thrower", "reject"} => ~ pr[p].fulfilled
    BY <1>1 DEF JobsMatchPromise
  <2>1. JobOK(pr, count, queue[i])
    BY DEF PromiseInv, Inv, QueueInv
  <2>. QED
    BY <2>1 DEF JobOK, Settled
<1>. QED
  BY <1>2, PromiseInvariant, PTL

\* The reactions of one promise run in the order in which `then` was called.
THEOREM OrderOfReactions ==
  ASSUME "async" \notin HostKinds
  PROVE  Spec => []ReactionsInOrder
<1>1. PromiseInv => ReactionsInOrder
  <2>. SUFFICES ASSUME PromiseInv, NEW d \in 1..count, NEW e \in 1..count,
                       pr[d].kind = "derived", pr[e].kind = "derived",
                       pr[d].parent = pr[e].parent, d < e, pr[e].ran, ~ pr[d].ran
                PROVE  FALSE
    BY DEF ReactionsInOrder, Born
  <2>. PICK p : p = pr[d].parent
    OBVIOUS
  <2>0. d \in Nat /\ e \in Nat /\ count \in Nat /\ count \in 0..MaxPromises
    BY StateHeap, PromiseAssumption
  <2>1. PromiseOK(pr[d], d) /\ \A q \in 1..count : PromiseOK(pr[q], q)
    BY DEF PromiseInv, Inv, BornInv
  <2>2. p \in 1..count
    <3>1. p \in 1..(d - 1)
      BY <2>1 DEF PromiseOK
    <3>. QED
      BY <3>1, <2>0
  <2>3. /\ ~ pr[p].pending
        /\ \A i \in 1..Len(queue) :
             queue[i].type = "reaction" /\ pr[queue[i].target].parent = p
               => e < queue[i].target
    BY DEF PromiseInv, Inv, RunOrder
  <2>4. pr[p].reactions = <<>>
    BY <2>1, <2>2, <2>3 DEF PromiseOK
  <2>5. OnePlace(pr, count, queue, frames, d)
    BY DEF PromiseInv, Inv, PlaceInv, IsReaction
  <2>6. CASE OnlyAtPromise(pr, count, queue, frames, d)
    <3>1. PICK q, i \in Nat : AtPromise(pr, count, d, q, i)
      BY <2>6 DEF OnlyAtPromise
    <3>2. /\ q \in 1..count /\ i \in 1..Len(pr[q].reactions)
          /\ pr[q].reactions[i].target = d
      BY <3>1 DEF AtPromise
    <3>3. ReactionOK(pr, count, q, pr[q].reactions[i])
      BY <3>2 DEF PromiseInv, Inv, ReactInv
    <3>4. pr[q].reactions[i].type \in {"then", "await"}
      BY <3>2, <2>0, StateHeap, BornPromise, ReactionType DEF Reactions
    <3>5. q = p
      BY <3>2, <3>3, <3>4 DEF ReactionOK
    <3>. QED
      BY <2>4, <3>2, <3>5
  <2>7. CASE OnlyAtQueue(pr, count, queue, frames, d)
    <3>1. PICK i \in Nat : AtQueue(queue, d, i)
      BY <2>7 DEF OnlyAtQueue
    <3>2. i \in 1..Len(queue) /\ queue[i].type \in ReactionTypes /\ queue[i].target = d
      BY <3>1 DEF AtQueue
    <3>3. JobOK(pr, count, queue[i])
      BY <3>2 DEF PromiseInv, Inv, QueueInv
    <3>4. queue[i].type = "reaction"
      BY <3>2, <3>3 DEF JobOK, ReactionTypes
    <3>5. e < d
      BY <2>3, <3>2, <3>4
    <3>. QED
      BY <2>0, <3>5
  <2>8. CASE OnlyAtFrame(pr, count, queue, frames, d)
    <3>1. PICK i \in Nat : AtFrame(frames, d, i)
      BY <2>8 DEF OnlyAtFrame
    <3>2. i \in 1..Len(frames) /\ frames[i].type \in AwaitTypes /\ frames[i].target = d
      BY <3>1 DEF AtFrame
    <3>3. FrameOK(pr, count, frames[i])
      BY <3>2 DEF PromiseInv, Inv, FrameInv
    <3>. QED
      BY <3>2, <3>3 DEF FrameOK
  <2>. QED
    BY <2>5, <2>6, <2>7, <2>8 DEF OnePlace
<1>. QED
  BY <1>1, PromiseInvariant, PTL

\* The reactions of a promise are of different promises, so there are not more of
\* them than promises.
LEMMA ReactionsBounded ==
  ASSUME PromiseInv, NEW q \in 1..count
  PROVE  Len(pr[q].reactions) \in 0..MaxPromises
<1>. PICK L : L = pr[q].reactions
  OBVIOUS
<1>0. /\ q \in Promises /\ pr \in [Promises -> PromiseRecords]
      /\ count \in 0..MaxPromises /\ count \in Nat /\ q \in Nat
  BY StateHeap, PromiseAssumption
<1>1. L \in Seq(Reactions) /\ Len(L) \in Nat
  BY <1>0 DEF PromiseRecords
<1>2. \A i \in 1..Len(L) :
        /\ L[i] \in Reactions /\ L[i].target \in 1..count
        /\ pr[L[i].target].kind \in {"derived", "async"}
  <2>. SUFFICES ASSUME NEW i \in 1..Len(L)
                PROVE  /\ L[i] \in Reactions /\ L[i].target \in 1..count
                       /\ pr[L[i].target].kind \in {"derived", "async"}
    OBVIOUS
  <2>1. ReactionOK(pr, count, q, L[i])
    BY DEF PromiseInv, Inv, ReactInv
  <2>2. L[i] \in Reactions
    BY <1>1
  <2>3. L[i].type \in {"then", "await"}
    BY <2>2 DEF Reactions
  <2>. QED
    BY <2>1, <2>2, <2>3 DEF ReactionOK
<1>3. ASSUME NEW i \in 1..Len(L), NEW j \in 1..Len(L), L[i].target = L[j].target
      PROVE  i = j
  <2>. PICK d : d = L[i].target
    OBVIOUS
  <2>1. d \in 1..count /\ IsReaction(pr, d)
    BY <1>2 DEF IsReaction
  <2>2. OnePlace(pr, count, queue, frames, d)
    BY <2>1 DEF PromiseInv, Inv, PlaceInv
  <2>3. i \in Nat /\ j \in Nat /\ AtPromise(pr, count, d, q, i)
        /\ AtPromise(pr, count, d, q, j)
    BY <1>1, <1>3 DEF AtPromise
  <2>4. OnlyAtPromise(pr, count, queue, frames, d)
    BY <1>0, <2>2, <2>3
       DEF OnePlace, OnlyAtQueue, OnlyAtFrame, Elsewhere, NotAtPromise
  <2>. QED
    BY <1>0, <2>3, <2>4 DEF OnlyAtPromise
<1>4. Len(L) <= count
  <2>. DEFINE f == [i \in 1..Len(L) |-> L[i].target]
  <2>1. /\ IsFiniteSet(1..Len(L)) /\ Cardinality(1..Len(L)) = Len(L)
        /\ IsFiniteSet(1..count) /\ Cardinality(1..count) = count
    <3>1. ASSUME NEW m \in Nat PROVE IsFiniteSet(1..m) /\ Cardinality(1..m) = m
      BY FS_Interval
    <3>. QED
      BY <3>1, <1>0, <1>1
  <2>2. f \in [1..Len(L) -> 1..count]
    BY <1>2
  <2>3. \A i, j \in 1..Len(L) : f[i] = f[j] => i = j
    BY <1>3
  <2>. HIDE DEF f
  <2>4. SUFFICES ASSUME count < Len(L) PROVE FALSE
    BY <1>0, <1>1
  <2>5. PICK S : S = 1..Len(L)
    OBVIOUS
  <2>6. PICK T : T = 1..count
    OBVIOUS
  <2>7. /\ IsFiniteSet(S) /\ IsFiniteSet(T) /\ Cardinality(T) < Cardinality(S)
        /\ f \in [S -> T]
    BY <2>1, <2>2, <2>4, <2>5, <2>6
  <2>8. \E i, j \in S : i # j /\ f[i] = f[j]
    BY <2>7, FS_PigeonHole, Zenon
  <2>. QED
    BY <2>3, <2>5, <2>8
<1>. QED
  BY <1>0, <1>1, <1>4, PromiseAssumption

\* No reaction is lost and none runs twice, whatever `then`, await, settlement,
\* nested runs of the queue and errors that cut a run short do in between.
THEOREM ExactlyOnce ==
  ASSUME "async" \notin HostKinds
  PROVE  Spec => []ReactionsExactlyOnce
<1>1. PromiseInv => ReactionsExactlyOnce
  <2>. SUFFICES ASSUME PromiseInv, NEW d \in 1..count,
                       pr[d].kind \in {"derived", "async"}
                PROVE  Places(d) = 1
    BY DEF ReactionsExactlyOnce, Born
  <2>. DEFINE A == {x \in Born \X (1..MaxPromises) :
                      /\ x[2] <= Len(pr[x[1]].reactions)
                      /\ pr[x[1]].reactions[x[2]].target = d}
              B == {i \in 1..Len(queue) :
                      /\ queue[i].type \in {"reaction", "await_fulfilled",
                                            "await_rejected"}
                      /\ queue[i].target = d}
              C == {i \in 1..Len(frames) :
                      /\ frames[i].type \in {"await_fulfilled", "await_rejected"}
                      /\ frames[i].target = d}
  <2>0. Places(d) = Cardinality(A) + Cardinality(B) + Cardinality(C)
                    + (IF pr[d].ran THEN 1 ELSE 0)
    BY DEF Places
  <2>1. count \in 0..MaxPromises /\ queue \in Seq(Jobs) /\ frames \in Seq(Frames)
        /\ Len(queue) \in Nat /\ Len(frames) \in Nat /\ MaxPromises \in Nat
    BY StateHeap, PromiseAssumption
  <2>2. \A q, i : AtPromise(pr, count, d, q, i) <=> <<q, i>> \in A
    <3>. SUFFICES ASSUME NEW q \in 1..count, NEW i
                  PROVE  i \in 1..Len(pr[q].reactions)
                         <=> i \in 1..MaxPromises /\ i <= Len(pr[q].reactions)
      BY DEF AtPromise, Born
    <3>1. Len(pr[q].reactions) \in 0..MaxPromises
      BY ReactionsBounded
    <3>. QED
      BY <2>1, <3>1
  <2>3. \A x \in A : \E q, i \in Nat : x = <<q, i>>
    BY <2>1 DEF Born
  <2>4. \A i : AtQueue(queue, d, i) <=> i \in B
    BY DEF AtQueue, ReactionTypes, AwaitTypes
  <2>5. \A i : AtFrame(frames, d, i) <=> i \in C
    BY DEF AtFrame, AwaitTypes
  <2>6. B \subseteq Nat /\ C \subseteq Nat
    BY <2>1
  <2>7. OnePlace(pr, count, queue, frames, d)
    BY DEF PromiseInv, Inv, PlaceInv, IsReaction
  <2>. HIDE DEF A, B, C
  <2>8. NotAtPromise(pr, count, d) => Cardinality(A) = 0
    BY <2>2, <2>3, CardZero DEF NotAtPromise
  <2>9. NotAtQueue(queue, d) => Cardinality(B) = 0
    BY <2>4, <2>6, CardZero DEF NotAtQueue
  <2>10. NotAtFrame(frames, d) => Cardinality(C) = 0
    BY <2>5, <2>6, CardZero DEF NotAtFrame
  <2>11. CASE OnlyAtPromise(pr, count, queue, frames, d)
    <3>1. PICK q, i \in Nat :
            /\ AtPromise(pr, count, d, q, i)
            /\ \A q2, i2 \in Nat : AtPromise(pr, count, d, q2, i2) => q2 = q /\ i2 = i
      BY <2>11 DEF OnlyAtPromise
    <3>2. <<q, i>> \in A /\ \A x \in A : x = <<q, i>>
      BY <2>2, <2>3, <3>1
    <3>3. Cardinality(A) = 1
      BY <3>2, CardOne
    <3>4. Cardinality(B) = 0 /\ Cardinality(C) = 0 /\ ~ pr[d].ran
      BY <2>9, <2>10, <2>11 DEF OnlyAtPromise
    <3>. QED
      BY <2>0, <3>3, <3>4
  <2>12. CASE OnlyAtQueue(pr, count, queue, frames, d)
    <3>1. PICK i \in Nat : AtQueue(queue, d, i)
                           /\ \A j \in Nat : AtQueue(queue, d, j) => j = i
      BY <2>12 DEF OnlyAtQueue
    <3>2. i \in B /\ \A x \in B : x = i
      BY <2>4, <2>6, <3>1
    <3>3. Cardinality(B) = 1
      BY <3>2, CardOne
    <3>4. Cardinality(A) = 0 /\ Cardinality(C) = 0 /\ ~ pr[d].ran
      BY <2>8, <2>10, <2>12 DEF OnlyAtQueue
    <3>. QED
      BY <2>0, <3>3, <3>4
  <2>13. CASE OnlyAtFrame(pr, count, queue, frames, d)
    <3>1. PICK i \in Nat : AtFrame(frames, d, i)
                           /\ \A j \in Nat : AtFrame(frames, d, j) => j = i
      BY <2>13 DEF OnlyAtFrame
    <3>2. i \in C /\ \A x \in C : x = i
      BY <2>5, <2>6, <3>1
    <3>3. Cardinality(C) = 1
      BY <3>2, CardOne
    <3>4. Cardinality(A) = 0 /\ Cardinality(B) = 0 /\ ~ pr[d].ran
      BY <2>8, <2>9, <2>13 DEF OnlyAtFrame
    <3>. QED
      BY <2>0, <3>3, <3>4
  <2>14. CASE Elsewhere(pr, count, queue, frames, d) /\ pr[d].ran
    <3>1. Cardinality(A) = 0 /\ Cardinality(B) = 0 /\ Cardinality(C) = 0
      BY <2>8, <2>9, <2>10, <2>14 DEF Elsewhere
    <3>. QED
      BY <2>0, <2>14, <3>1
  <2>. QED
    BY <2>7, <2>11, <2>12, <2>13, <2>14 DEF OnePlace
<1>. QED
  BY <1>1, PromiseInvariant, PTL

=============================================================================
