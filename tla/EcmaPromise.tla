---------------------------- MODULE EcmaPromise ----------------------------
(***************************************************************************)
(* Promise objects and the job queue that runs their reactions             *)
(* (ecma-promise-object.c, ecma-jobqueue.c), together with what drives     *)
(* them: jjs_run_jobs, the C functions that settle promises, await         *)
(* (opcodes.c, vm.c) and queueMicrotask.                                   *)
(*                                                                         *)
(* The engine is single threaded; what interleaves is user code.  It runs  *)
(* at the top level, in the handler of a reaction, in the `then` method of *)
(* a thenable, in the getter of that method (in the middle of resolving a  *)
(* promise), in an async function that resumes and in a microtask, and     *)
(* from each of these places it may call every operation again, nested     *)
(* runs of the job queue included.  `frames` is the stack of the calls in  *)
(* progress: the record of the job that called user code, of the fulfil    *)
(* operation that is reading `then` ("get"), or of a run of the queue      *)
(* ("drain").                                                              *)
(*                                                                         *)
(* A promise is a number; numbers are given out in the order of creation.  *)
(* The promise that `then` creates also names the reaction, and the        *)
(* promise of an async function names the function's executable object.    *)
(***************************************************************************)
EXTENDS Integers, Sequences, FiniteSets

CONSTANTS
  MaxPromises,   \* bound: promises ever created
  Values,        \* values that are not objects
  Things,        \* objects that are not promises and may have a `then`
  Error,         \* the value of every exception
  Undef,         \* undefined, the result of a pending promise
  MaxFrames,     \* bound: nested calls
  MaxMicro,      \* bound: microtasks in the queue
  MaxFresh,      \* bound: resolver pairs of a promise not called yet
  HostKinds      \* the promises the host settles with jjs_promise_resolve
                 \* and jjs_promise_reject

ASSUME PromiseAssumption ==
  /\ MaxPromises \in Nat /\ MaxFrames \in Nat
  /\ MaxMicro \in Nat /\ MaxFresh \in Nat \ {0}
  /\ (Values \cup Things \cup {Error, Undef}) \cap Nat = {}
  /\ (Values \cup {Error, Undef}) \cap Things = {}
  /\ HostKinds \subseteq {"plain", "derived", "async"}

VARIABLES
  pr,       \* the promise objects
  count,    \* how many exist
  queue,    \* the job queue, from job_queue_head_p to job_queue_tail_p
  frames    \* the calls in progress, innermost first

vars == <<pr, count, queue, frames>>

Promises == 1..MaxPromises
Objects == Values \cup Things \cup {Error, Undef} \cup Promises

----------------------------------------------------------------------------
(* Handlers, reactions and jobs. *)

(* A handler of a reaction.  "identity" and "thrower" are the booleans the *)
(* code stores for a missing handler, "resolve" and "reject" the native    *)
(* resolver functions of promise p.                                        *)
Handler(h, p) == [h |-> h, p |-> p]
Identity == Handler("identity", 0)
Thrower == Handler("thrower", 0)
UserHandler == Handler("user", 0)
NoHandler == Handler("none", 0)

Handlers == [h : {"identity", "thrower", "user", "none"}, p : {0}]
            \cup [h : {"resolve", "reject"}, p : Promises]

ThenReaction(d, onFulfilled, onRejected) ==
  [type |-> "then", target |-> d, onF |-> onFulfilled, onR |-> onRejected]

AwaitReaction(x) ==
  [type |-> "await", target |-> x, onF |-> NoHandler, onR |-> NoHandler]

Reactions == [type : {"then", "await"}, target : Promises,
              onF : Handlers, onR : Handlers]

Job(type, target, handler, arg) ==
  [type |-> type, target |-> target, handler |-> handler, arg |-> arg]

JobTypes == {"reaction", "await_fulfilled", "await_rejected", "thenable",
             "microtask"}

Jobs == [type : JobTypes, target : 0..MaxPromises, handler : Handlers,
         arg : Objects]

Drain == Job("drain", 0, NoHandler, Undef)

Frames == [type : JobTypes \cup {"get", "drain"}, target : 0..MaxPromises,
           handler : Handlers, arg : Objects]

----------------------------------------------------------------------------
(* Promise objects.  pending, fulfilled, resolved and unhandled are the    *)
(* bits of promise_flags; kind, parent, handled, ran, fresh and stale are  *)
(* history: where the promise comes from, the promise that `then` was      *)
(* called on, whether `then` or await was ever called on this one, whether *)
(* the reaction (the async function) has run (ended), and how many of its  *)
(* resolver pairs user code holds that it has not called yet, and whether  *)
(* it holds one that it has called.                                        *)

Promise(kind, parent, fresh) ==
  [kind |-> kind, pending |-> TRUE, fulfilled |-> FALSE, resolved |-> FALSE,
   unhandled |-> FALSE, result |-> Undef, reactions |-> <<>>,
   parent |-> parent, handled |-> FALSE, ran |-> FALSE, fresh |-> fresh,
   stale |-> FALSE]

Unborn == [Promise("none", 0, 0) EXCEPT !.pending = FALSE]

Born == 1..count
Settled(p) == ~ pr[p].pending
Rejected(p) == ~ pr[p].pending /\ ~ pr[p].fulfilled

Init ==
  /\ pr = [p \in Promises |-> Unborn]
  /\ count = 0
  /\ queue = <<>>
  /\ frames = <<>>

----------------------------------------------------------------------------
(* The operations on the heap h = [pr, q]: the promise objects and the     *)
(* queue.                                                                  *)

Heap == [pr |-> pr, q |-> queue]

Put(h) == pr' = h.pr /\ queue' = h.q

(* ecma_enqueue_job *)
Enqueue(h, job) == [h EXCEPT !.q = Append(@, job)]

(* Mutant: the handlers of the two sides are mixed up. *)
ReactionJobSwapped(r, v, isReject) ==
  IF r.type = "await"
    THEN Job(IF isReject THEN "await_rejected" ELSE "await_fulfilled",
             r.target, NoHandler, v)
    ELSE Job("reaction", r.target, IF isReject THEN r.onF ELSE r.onR, v)

(* The job of a reaction: an async function resumes, or the handler of the *)
(* side that happened is called.                                           *)
ReactionJob(r, v, isReject) ==
  IF r.type = "await"
    THEN Job(IF isReject THEN "await_rejected" ELSE "await_fulfilled",
             r.target, NoHandler, v)
    ELSE Job("reaction", r.target, IF isReject THEN r.onR ELSE r.onF, v)

(* Mutant: the collection is walked from its end. *)
TriggerReactionsBackwards(h, reactions, v, isReject) ==
  [h EXCEPT !.q = @ \o [i \in 1..Len(reactions) |->
                          ReactionJob(reactions[Len(reactions) + 1 - i], v,
                                      isReject)]]

(* ecma_promise_trigger_reactions *)
TriggerReactions(h, reactions, v, isReject) ==
  [h EXCEPT !.q = @ \o [i \in 1..Len(reactions) |->
                          ReactionJob(reactions[i], v, isReject)]]

(* Mutant: the reactions stay in the collection. *)
SetStateKeepsReactions(h, p, isFulfilled, v) ==
  [h EXCEPT !.pr[p].pending = ~ @,
            !.pr[p].fulfilled = IF isFulfilled THEN ~ @ ELSE @,
            !.pr[p].result = v]

(* ecma_promise_set_state, ecma_promise_set_result and the new, empty      *)
(* collection of reactions.  The state bits are inverted, not assigned.    *)
SetState(h, p, isFulfilled, v) ==
  [h EXCEPT !.pr[p].pending = ~ @,
            !.pr[p].fulfilled = IF isFulfilled THEN ~ @ ELSE @,
            !.pr[p].result = v,
            !.pr[p].reactions = <<>>]

(* ecma_reject_promise *)
RejectPromise(h, p, reason) ==
  LET reactions == h.pr[p].reactions
      flagged == [h EXCEPT !.pr[p].unhandled = @ \/ reactions = <<>>]
  IN TriggerReactions(SetState(flagged, p, FALSE, reason),
                      reactions, reason, TRUE)

(* The end of ecma_fulfill_promise, for a value with no callable `then`. *)
FulfillWith(h, p, v) ==
  TriggerReactions(SetState(h, p, TRUE, v), h.pr[p].reactions, v, FALSE)

(* ecma_fulfill_promise up to the point where user code may run: a promise *)
(* has the built-in `then`, a thing may have a getter.                     *)
FulfillPromise(h, p, v) ==
  IF v = p THEN RejectPromise(h, p, Error)
  ELSE IF v \in Promises THEN Enqueue(h, Job("thenable", p, NoHandler, v))
  ELSE IF v \in Things THEN h
  ELSE FulfillWith(h, p, v)

(* The frame that the read of `then` adds to the stack. *)
GetFrame(p, v) == IF v \in Things THEN <<Job("get", p, NoHandler, v)>> ELSE <<>>

(* Mutant: no check. *)
RejectUnchecked(h, p, reason) ==
  RejectPromise([h EXCEPT !.pr[p].resolved = TRUE], p, reason)

(* ecma_reject_promise_with_checks *)
RejectWithChecks(h, p, reason) ==
  IF h.pr[p].resolved
    THEN h
    ELSE RejectPromise([h EXCEPT !.pr[p].resolved = TRUE], p, reason)

(* Mutant: ALREADY_RESOLVED is checked and not set. *)
FulfillUnmarked(h, p, v) == IF h.pr[p].resolved THEN h ELSE FulfillPromise(h, p, v)

(* ecma_fulfill_promise_with_checks *)
FulfillWithChecks(h, p, v) ==
  IF h.pr[p].resolved
    THEN h
    ELSE FulfillPromise([h EXCEPT !.pr[p].resolved = TRUE], p, v)

(* The frame it adds. *)
CheckedFrame(h, p, v) == IF h.pr[p].resolved THEN <<>> ELSE GetFrame(p, v)

(* ecma_promise_new_capability and ecma_promise_perform_then: a new        *)
(* promise d, and a reaction or, when p is settled, its job.               *)
PerformThen(h, p, d, onFulfilled, onRejected) ==
  LET made == [h EXCEPT !.pr[d] = Promise("derived", p, 0),
                        !.pr[p].handled = TRUE]
      reaction == ThenReaction(d, onFulfilled, onRejected)
  IN IF h.pr[p].pending
       THEN [made EXCEPT !.pr[p].reactions = Append(@, reaction)]
       ELSE Enqueue([made EXCEPT !.pr[p].unhandled =
                                    IF h.pr[p].fulfilled THEN @ ELSE FALSE],
                    ReactionJob(reaction, h.pr[p].result, ~ h.pr[p].fulfilled))

(* Mutant: await does not clear UNHANDLED_REJECT. *)
AsyncThenStillUnhandled(h, p, x) ==
  LET seen == [h EXCEPT !.pr[p].handled = TRUE]
  IN IF h.pr[p].pending
       THEN [seen EXCEPT !.pr[p].reactions = Append(@, AwaitReaction(x))]
       ELSE Enqueue(seen, ReactionJob(AwaitReaction(x), h.pr[p].result,
                                      ~ h.pr[p].fulfilled))

(* ecma_promise_async_then: async function x waits for p. *)
AsyncThen(h, p, x) ==
  LET seen == [h EXCEPT !.pr[p].handled = TRUE]
  IN IF h.pr[p].pending
       THEN [seen EXCEPT !.pr[p].reactions = Append(@, AwaitReaction(x))]
       ELSE Enqueue([seen EXCEPT !.pr[p].unhandled = FALSE],
                    ReactionJob(AwaitReaction(x), h.pr[p].result,
                                ~ h.pr[p].fulfilled))

----------------------------------------------------------------------------
(* Where control is. *)

NativeHandlers == {"identity", "thrower", "resolve", "reject"}

(* User code runs at the top level and above every frame but a run of the  *)
(* queue and a reaction whose handler is native.                           *)
UserCode ==
  frames # <<>> => /\ Head(frames).type # "drain"
                   /\ Head(frames).handler.h \notin NativeHandlers

Push(fs) == frames' = fs \o frames

(* Every queued adoption of a promise will create one more promise. *)
Free ==
  MaxPromises - count
  - Cardinality({i \in 1..Len(queue) : queue[i].type = "thenable"
                                       /\ queue[i].arg \in Promises})

(* What user code may pass to a resolver or return from a handler. *)
Arguments ==
  Values \cup (IF Len(frames) < MaxFrames THEN Things ELSE {})
         \cup (IF Free > 0 THEN Born ELSE {})

----------------------------------------------------------------------------
(* Operations of user code. *)

(* new Promise (executor), Promise.withResolvers () and jjs_promise (): the *)
(* executor is user code that runs next and holds the resolvers.           *)
NewPromise ==
  /\ UserCode
  /\ Free > 0
  /\ count' = count + 1
  /\ pr' = [pr EXCEPT ![count + 1] = Promise("plain", 0, 1)]
  /\ UNCHANGED <<queue, frames>>

(* The history of a call to a resolver pair not called before. *)
FirstUse(p) == [Heap EXCEPT !.pr[p].fresh = @ - 1, !.pr[p].stale = TRUE]

(* ecma_promise_resolve_handler, called through a resolver not used yet. *)
CallResolve(p, v) ==
  /\ UserCode
  /\ pr[p].fresh > 0
  /\ Put(FulfillWithChecks(FirstUse(p), p, v))
  /\ Push(CheckedFrame(Heap, p, v))
  /\ UNCHANGED count

(* ecma_promise_reject_handler; also an executor that throws. *)
CallReject(p) ==
  /\ UserCode
  /\ pr[p].fresh > 0
  /\ Put(RejectWithChecks(FirstUse(p), p, Error))
  /\ UNCHANGED <<count, frames>>

(* The same two handlers, called through a resolver that was called before. *)
RecallResolve(p, v) ==
  /\ UserCode
  /\ pr[p].stale
  /\ Put(FulfillWithChecks(Heap, p, v))
  /\ Push(CheckedFrame(Heap, p, v))
  /\ UNCHANGED count

RecallReject(p) ==
  /\ UserCode
  /\ pr[p].stale
  /\ Put(RejectWithChecks(Heap, p, Error))
  /\ UNCHANGED <<count, frames>>

(* jjs_promise_resolve and jjs_promise_reject: native code can name every  *)
(* promise it is handed.                                                   *)
HostResolve(p, v) ==
  /\ UserCode
  /\ pr[p].kind \in HostKinds
  /\ Put(FulfillWithChecks(Heap, p, v))
  /\ Push(CheckedFrame(Heap, p, v))
  /\ UNCHANGED count

HostReject(p) ==
  /\ UserCode
  /\ pr[p].kind \in HostKinds
  /\ Put(RejectWithChecks(Heap, p, Error))
  /\ UNCHANGED <<count, frames>>

(* ecma_promise_then *)
Then(p, onFulfilled, onRejected) ==
  /\ UserCode
  /\ Free > 0
  /\ count' = count + 1
  /\ Put(PerformThen(Heap, p, count + 1, onFulfilled, onRejected))
  /\ UNCHANGED frames

(* opfunc_async_create_and_await: an async function is called and waits    *)
(* for promise p at its first await.                                       *)
AsyncCall(p) ==
  /\ UserCode
  /\ Free > 0
  /\ count' = count + 1
  /\ LET h == AsyncThen(Heap, p, count + 1)
     IN Put([h EXCEPT !.pr[count + 1] = Promise("async", 0, 0)])
  /\ UNCHANGED frames

(* ecma_enqueue_microtask_job *)
QueueMicrotask ==
  /\ UserCode
  /\ Cardinality({i \in 1..Len(queue) : queue[i].type = "microtask"}) < MaxMicro
  /\ Put(Enqueue(Heap, Job("microtask", 0, NoHandler, Undef)))
  /\ UNCHANGED <<count, frames>>

(* jjs_run_jobs: ecma_process_all_enqueued_jobs is entered. *)
RunJobs ==
  /\ UserCode
  /\ queue # <<>>
  /\ Len(frames) + 2 <= MaxFrames
  /\ Push(<<Drain>>)
  /\ UNCHANGED <<pr, count, queue>>

----------------------------------------------------------------------------
(* The end of the getter of `then`, in ecma_fulfill_promise. *)

InGet == frames # <<>> /\ Head(frames).type = "get"

GetThrows ==
  /\ InGet
  /\ Put(RejectPromise(Heap, Head(frames).target, Error))
  /\ frames' = Tail(frames)
  /\ UNCHANGED count

GetCallable ==
  /\ InGet
  /\ LET f == Head(frames)
     IN /\ pr[f.target].fresh < MaxFresh
        /\ Put(Enqueue(Heap, Job("thenable", f.target, NoHandler, f.arg)))
  /\ frames' = Tail(frames)
  /\ UNCHANGED count

GetNotCallable ==
  /\ InGet
  /\ LET f == Head(frames) IN Put(FulfillWith(Heap, f.target, f.arg))
  /\ frames' = Tail(frames)
  /\ UNCHANGED count

----------------------------------------------------------------------------
(* ecma_process_all_enqueued_jobs: the head is taken off the queue before  *)
(* it is processed.                                                        *)

Draining == frames # <<>> /\ Head(frames).type = "drain"
Next1(type) == Draining /\ queue # <<>> /\ Head(queue).type = type
Popped == [Heap EXCEPT !.q = Tail(@)]

(* ecma_process_promise_reaction_job up to the call of a user's handler. *)
StartUserReaction ==
  /\ Next1("reaction")
  /\ Head(queue).handler = UserHandler
  /\ Put([Popped EXCEPT !.pr[Head(queue).target].ran = TRUE])
  /\ Push(<<Head(queue)>>)
  /\ UNCHANGED count

(* ... up to the return of a native resolver, or of the read of `then` it  *)
(* may need.                                                               *)
StartNativeReaction ==
  /\ Next1("reaction")
  /\ LET job == Head(queue)
         h == [Popped EXCEPT !.pr[job.target].ran = TRUE]
         p == job.handler.p
     IN \/ /\ job.handler.h = "resolve"
           /\ Put(FulfillWithChecks(h, p, job.arg))
           /\ Push(CheckedFrame(h, p, job.arg) \o <<job>>)
        \/ /\ job.handler.h = "reject"
           /\ Put(RejectWithChecks(h, p, job.arg))
           /\ Push(<<job>>)
        \/ /\ job.handler.h \in {"identity", "thrower"}
           /\ Put(h)
           /\ Push(<<job>>)
  /\ UNCHANGED count

InReaction(hs) ==
  frames # <<>> /\ Head(frames).type = "reaction" /\ Head(frames).handler.h \in hs

(* The rest of the job: the capability's resolve function is called with   *)
(* the handler's result ...                                                *)
ResolveCapability(v) ==
  LET d == Head(frames).target
  IN /\ Put(FulfillWithChecks(Heap, d, v))
     /\ frames' = CheckedFrame(Heap, d, v) \o Tail(frames)
     /\ UNCHANGED count

(* ... or its reject function with the reason. *)
RejectCapability(v) ==
  /\ Put(RejectWithChecks(Heap, Head(frames).target, v))
  /\ frames' = Tail(frames)
  /\ UNCHANGED count

HandlerReturns(v) == InReaction({"user"}) /\ ResolveCapability(v)
HandlerThrows == InReaction({"user"}) /\ RejectCapability(Error)

EndNativeReaction ==
  \/ InReaction({"resolve", "reject"}) /\ ResolveCapability(Undef)
  \/ InReaction({"identity"}) /\ ResolveCapability(Head(frames).arg)
  \/ InReaction({"thrower"}) /\ RejectCapability(Head(frames).arg)

(* ecma_process_promise_resolve_thenable_job for a promise q: the built-in *)
(* `then` of q is called with new resolvers of p.                          *)
AdoptPromise ==
  /\ Next1("thenable")
  /\ LET p == Head(queue).target
         q == Head(queue).arg
     IN /\ q \in Promises
        /\ Put(PerformThen([Popped EXCEPT !.pr[p].resolved = FALSE], q, count + 1,
                           Handler("resolve", p), Handler("reject", p)))
  /\ count' = count + 1
  /\ UNCHANGED frames

(* The same job for a thing: its `then` is user code, which gets the new   *)
(* resolvers.                                                              *)
StartThenable ==
  /\ Next1("thenable")
  /\ Head(queue).arg \in Things
  /\ Put([Popped EXCEPT !.pr[Head(queue).target].resolved = FALSE,
                        !.pr[Head(queue).target].fresh = @ + 1])
  /\ Push(<<Head(queue)>>)
  /\ UNCHANGED count

InJob(types) == frames # <<>> /\ Head(frames).type \in types

ThenableReturns ==
  /\ InJob({"thenable"})
  /\ frames' = Tail(frames)
  /\ UNCHANGED <<pr, count, queue>>

ThenableThrows ==
  /\ InJob({"thenable"})
  /\ Put(RejectWithChecks(Heap, Head(frames).target, Error))
  /\ frames' = Tail(frames)
  /\ UNCHANGED count

(* ecma_process_promise_async_reaction_job and ecma_process_microtask_job  *)
(* up to the point where user code runs.                                   *)
StartUserJob ==
  /\ \E type \in {"await_fulfilled", "await_rejected", "microtask"} : Next1(type)
  /\ Put(Popped)
  /\ Push(<<Head(queue)>>)
  /\ UNCHANGED count

InAsync == InJob({"await_fulfilled", "await_rejected"})

(* ecma_promise_async_await: the async function reaches another await. *)
AwaitAgain(p) ==
  /\ InAsync
  /\ Put(AsyncThen(Heap, p, Head(frames).target))
  /\ frames' = Tail(frames)
  /\ UNCHANGED count

Ended(x) == [Heap EXCEPT !.pr[x].ran = TRUE]

(* VM_OC_ASYNC_EXIT: the function's promise is settled without the check   *)
(* that the resolver functions make.                                       *)
AsyncReturns(v) ==
  /\ InAsync
  /\ LET x == Head(frames).target
     IN /\ Put(FulfillPromise(Ended(x), x, v))
        /\ frames' = GetFrame(x, v) \o Tail(frames)
  /\ UNCHANGED count

AsyncThrows ==
  /\ InAsync
  /\ LET x == Head(frames).target IN Put(RejectPromise(Ended(x), x, Error))
  /\ frames' = Tail(frames)
  /\ UNCHANGED count

MicrotaskReturns ==
  /\ InJob({"microtask"})
  /\ frames' = Tail(frames)
  /\ UNCHANGED <<pr, count, queue>>

(* Mutant: an error also drops the jobs behind. *)
MicrotaskThrowsDrops ==
  /\ InJob({"microtask"})
  /\ frames' = Tail(Tail(frames))
  /\ queue' = <<>>
  /\ UNCHANGED <<pr, count>>

(* An error ends the run; the jobs behind stay in the queue. *)
MicrotaskThrows ==
  /\ InJob({"microtask"})
  /\ frames' = Tail(Tail(frames))
  /\ UNCHANGED <<pr, count, queue>>

DrainEnds ==
  /\ Draining
  /\ queue = <<>>
  /\ frames' = Tail(frames)
  /\ UNCHANGED <<pr, count, queue>>

----------------------------------------------------------------------------

UserStep ==
  \/ NewPromise \/ QueueMicrotask \/ RunJobs
  \/ \E p \in Born :
       \/ \E v \in Arguments :
            CallResolve(p, v) \/ RecallResolve(p, v) \/ HostResolve(p, v)
       \/ CallReject(p) \/ RecallReject(p) \/ HostReject(p)
       \/ \E f \in {Identity, UserHandler}, r \in {Thrower, UserHandler} :
            Then(p, f, r)
       \/ AsyncCall(p)

(* User code comes to an end. *)
UserEnd ==
  \/ GetThrows \/ GetCallable \/ GetNotCallable
  \/ HandlerThrows \/ ThenableReturns \/ ThenableThrows
  \/ AsyncThrows \/ MicrotaskReturns \/ MicrotaskThrows
  \/ \E v \in Arguments : HandlerReturns(v) \/ AsyncReturns(v)
  \/ \E p \in Born : AwaitAgain(p)

EngineStep ==
  \/ StartUserReaction \/ StartNativeReaction \/ EndNativeReaction
  \/ AdoptPromise \/ StartThenable \/ StartUserJob \/ DrainEnds

Next == UserStep \/ UserEnd \/ EngineStep

(* The engine's own steps follow each other without a pause, the host runs *)
(* the queue as long as jobs are left, and user code returns.              *)
Fairness ==
  /\ WF_vars(EngineStep)
  /\ WF_vars(UserEnd)
  /\ WF_vars(frames = <<>> /\ RunJobs)

Spec == Init /\ [][Next]_vars /\ Fairness

----------------------------------------------------------------------------
(* Properties *)

TypeOK ==
  /\ count \in 0..MaxPromises
  /\ queue \in Seq(Jobs)
  /\ frames \in Seq(Frames)
  /\ DOMAIN pr = Promises
  /\ \A p \in Promises :
       /\ pr[p].kind \in {"none", "plain", "derived", "async"}
       /\ pr[p].pending \in BOOLEAN /\ pr[p].fulfilled \in BOOLEAN
       /\ pr[p].resolved \in BOOLEAN /\ pr[p].unhandled \in BOOLEAN
       /\ pr[p].handled \in BOOLEAN /\ pr[p].ran \in BOOLEAN
       /\ pr[p].stale \in BOOLEAN /\ pr[p].fresh \in 0..MaxFresh
       /\ pr[p].result \in Objects /\ pr[p].parent \in 0..MaxPromises
       /\ pr[p].reactions \in Seq(Reactions)

(* A promise settles at most once: once it is no longer pending, neither   *)
(* its state nor its result ever changes.  ecma_promise_set_state inverts  *)
(* the state bits, so a second settlement would make it pending again; all *)
(* that stands in the way is ALREADY_RESOLVED, which the thenable job      *)
(* clears.                                                                 *)
SettledForever ==
  [][\A p \in Promises :
       (p <= count /\ ~ pr[p].pending) =>
         /\ pr'[p].pending = pr[p].pending
         /\ pr'[p].fulfilled = pr[p].fulfilled
         /\ pr'[p].result = pr[p].result]_vars

(* The fulfil operations on p that have passed the check and not settled p *)
(* yet: the read of `then` in progress and the thenable jobs.              *)
Adoptions(p) ==
  Cardinality({i \in 1..Len(queue) :
                 queue[i].type = "thenable" /\ queue[i].target = p})
  + Cardinality({i \in 1..Len(frames) :
                 frames[i].type = "get" /\ frames[i].target = p})

(* While a promise is locked in to another value (its thenable job is in   *)
(* the queue, or its `then` is being read) it is pending, the resolvers    *)
(* that user code may hold do nothing, and there is one such value.        *)
AdoptionExclusive ==
  \A p \in Born :
    Adoptions(p) > 0 =>
      /\ Adoptions(p) = 1
      /\ pr[p].pending
      /\ pr[p].resolved \/ pr[p].ran

(* The places where the reaction of `then` (the async function) d is. *)
Places(d) ==
  Cardinality({x \in Born \X (1..MaxPromises) :
                 /\ x[2] <= Len(pr[x[1]].reactions)
                 /\ pr[x[1]].reactions[x[2]].target = d})
  + Cardinality({i \in 1..Len(queue) :
                 /\ queue[i].type \in {"reaction", "await_fulfilled",
                                       "await_rejected"}
                 /\ queue[i].target = d})
  + Cardinality({i \in 1..Len(frames) :
                 /\ frames[i].type \in {"await_fulfilled", "await_rejected"}
                 /\ frames[i].target = d})
  + (IF pr[d].ran THEN 1 ELSE 0)

(* No reaction is lost and none runs twice: it is registered with one      *)
(* promise, or its job is in the queue once, or it has run; an async       *)
(* function is suspended at one await, resumed by one job, running or      *)
(* ended.                                                                  *)
ReactionsExactlyOnce ==
  \A d \in Born : pr[d].kind \in {"derived", "async"} => Places(d) = 1

(* A job of `then` is in the queue only once the promise it was registered *)
(* with is settled; it has that promise's result as argument and the       *)
(* handler of the side that happened.                                      *)
JobsMatchPromise ==
  TypeOK /\ \A i \in 1..Len(queue) :
    LET job == queue[i]
        p == pr[job.target].parent
    IN job.type = "reaction" =>
         /\ Settled(p)
         /\ job.arg = pr[p].result
         /\ job.handler.h \in {"identity", "resolve"} => pr[p].fulfilled
         /\ job.handler.h \in {"thrower", "reject"} => ~ pr[p].fulfilled

(* The reactions of one promise run in the order in which they were        *)
(* registered, whether that was before or after it settled and however     *)
(* runs of the queue are nested or cut short by an error.                  *)
ReactionsInOrder ==
  \A d, e \in Born :
    /\ pr[d].kind = "derived" /\ pr[e].kind = "derived"
    /\ pr[d].parent = pr[e].parent /\ d < e
    /\ pr[e].ran
    => pr[d].ran

(* A promise carries the flag UNHANDLED_REJECT exactly as long as it is    *)
(* rejected and neither `then` nor await was ever called on it.            *)
UnhandledExact ==
  \A p \in Born : pr[p].unhandled <=> (Rejected(p) /\ ~ pr[p].handled)

(* "Checks whether a resolver is called before": calling a resolver again  *)
(* changes nothing.                                                        *)
RecallIgnored ==
  [][\A p \in Promises :
       (\/ p <= count /\ RecallReject(p)
        \/ p <= count /\ \E v \in Arguments : RecallResolve(p, v))
         => UNCHANGED vars]_vars

(* A reaction whose job is in the queue runs, if the host keeps running    *)
(* the queue: also when microtasks keep coming and when one of them throws. *)
JobsRun ==
  \A d \in Promises :
    (\E i \in 1..Len(queue) : queue[i].type = "reaction" /\ queue[i].target = d)
      ~> pr[d].ran
=============================================================================
