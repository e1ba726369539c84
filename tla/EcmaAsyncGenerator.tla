------------------------- MODULE EcmaAsyncGenerator -------------------------
(***************************************************************************)
(* An async generator and the job queue that drives it                     *)
(* (ecma-async-generator-object.c, ecma-jobqueue.c, opcodes.c, vm.c).      *)
(*                                                                         *)
(* Calls of next, throw and return append a task to the generator's list   *)
(* of tasks; the task at its head is the one being served.  The generator  *)
(* is woken by a job: an async generator job starts the task at the head,  *)
(* an async reaction job brings the result of the promise it awaits.       *)
(*                                                                         *)
(* User code (the body, the inner iterator of a yield*, the code of other  *)
(* jobs, the host's callbacks) may make a request, settle the awaited      *)
(* promise, enqueue other jobs or run the queue, in every state below.     *)
(* What is in progress is a stack: the generator only moves while it is on *)
(* top.  A promise is reduced to whether it is settled, and how.           *)
(***************************************************************************)
EXTENDS EcmaJobQueue

CONSTANTS
  MaxRequests,  \* bound: requests made to the generator
  MaxDepth      \* bound: calls in progress at the same time (nested runs of the queue)

ASSUME AsyncGeneratorAssumption ==
  MaxRequests \in Nat /\ MaxDepth \in Nat \ {0} /\ Cardinality(Jobs) > 2

VARIABLES
  kind,       \* what each job is: its type in next_and_type
  tasks,      \* the list u3.head: the requests not answered yet
  answered,   \* the tasks answered so far, in that order
  requests,   \* how many requests there were
  called, completed,  \* ECMA_ASYNC_GENERATOR_CALLED, ECMA_EXECUTABLE_OBJECT_COMPLETED
  await,      \* the await state, "none" when DO_AWAIT_OR_YIELD is not set
  iterator,   \* whether the inner iterator of a yield* is set
  pending,    \* whether the generator is a reaction of a pending promise
  at,         \* where the engine is in the generator's code
  stack       \* the calls in progress: jobs, and Null for a first request

queueVars == <<head, tail, next, allocated, running, closed, kind>>
genVars == <<tasks, answered, requests, called, completed, await, iterator, pending, at>>
agVars == <<queueVars, genVars, stack>>

Operations == {"next", "throw", "return"}
YieldStates == {"yieldNext", "yieldNextReturn", "yieldReturn", "yieldNextValue",
                "yieldOperation", "yieldClose"}
ForStates == {"forNext", "forClose"}
GeneratorKinds == {"generator", "resolved", "rejected"}

(* opfunc_create_executable_object: a generator that was not called yet. *)
AgInit ==
  /\ Init
  /\ kind = [j \in Jobs |-> "other"]
  /\ tasks = <<>> /\ answered = <<>> /\ requests = 0
  /\ called = FALSE /\ completed = FALSE
  /\ await = "none" /\ iterator = FALSE /\ pending = FALSE
  /\ at = "idle"
  /\ stack = <<>>

Top == stack[Len(stack)]

(* The generator is at p, and nothing was called from there. *)
AtTop(p) ==
  /\ at = p
  /\ ~ closed
  /\ stack # <<>>
  /\ Top # Null => kind[Top] \in GeneratorKinds

(* Code of the user or of the host runs.  Between the opcode that suspends *)
(* the generator and the end of the call there is none.                    *)
UserCode == ~ closed /\ at # "leave"

NoJob == UNCHANGED queueVars

(* ecma_enqueue_promise_async_generator_job and                            *)
(* ecma_enqueue_promise_async_reaction_job.                                *)
EnqueueJob(k) ==
  \E j \in Jobs : Enqueue(j) /\ kind' = [kind EXCEPT ![j] = k]

(* ecma_promise_async_await: a settled promise enqueues the reaction at    *)
(* once, a pending one keeps the generator among its reactions.            *)
AwaitPromise ==
  \/ pending' = TRUE /\ NoJob
  \/ pending' = pending /\ \E k \in {"resolved", "rejected"} : EnqueueJob(k)

(* ECMA_AWAIT_CHANGE_STATE flips the bits in which two states differ: from *)
(* any other state it makes a third one.                                   *)
ChangeState(from, to) == await' = IF await = from THEN to ELSE "corrupt"

(* ECMA_AWAIT_CLEAR_MASK, and the iterator dropped with it. *)
ClearAwait == await' = "none" /\ iterator' = FALSE

----------------------------------------------------------------------------
(* Requests *)

Task(op) == [id |-> requests + 1, op |-> op, taken |-> FALSE]

(* Mutant: the generator is woken for every request. *)
RequestWakesAlways(op) ==
  /\ UserCode /\ requests < MaxRequests
  /\ requests' = requests + 1
  /\ IF completed
       THEN NoJob /\ UNCHANGED <<tasks, called, at, stack>>
       ELSE /\ tasks' = Append(tasks, Task(op))
            /\ IF ~ called
                 THEN /\ Len(stack) < MaxDepth
                      /\ called' = TRUE /\ at' = "run" /\ stack' = Append(stack, Null)
                      /\ NoJob
                 ELSE /\ UNCHANGED <<called, at, stack>>
                      /\ EnqueueJob("generator")
  /\ UNCHANGED <<answered, completed, await, iterator, pending>>

(* The routines next, throw and return of the prototype and                *)
(* ecma_async_generator_enqueue.  After completion a request is answered   *)
(* at once, without a task.  The first request runs the generator in the   *)
(* call itself.                                                            *)
Request(op) ==
  /\ UserCode /\ requests < MaxRequests
  /\ requests' = requests + 1
  /\ \/ /\ completed
        /\ NoJob /\ UNCHANGED <<tasks, called, at, stack>>
     \/ /\ ~ completed
        /\ tasks' = Append(tasks, Task(op))
        /\ \/ /\ tasks = <<>> /\ ~ called
              /\ Len(stack) < MaxDepth
              /\ called' = TRUE /\ at' = "run" /\ stack' = Append(stack, Null)
              /\ NoJob
           \/ /\ tasks = <<>> /\ called
              /\ UNCHANGED <<called, at, stack>>
              /\ EnqueueJob("generator")
           \/ /\ tasks # <<>>
              /\ NoJob /\ UNCHANGED <<called, at, stack>>
  /\ UNCHANGED <<answered, completed, await, iterator, pending>>

(* The promise the generator awaits is settled by somebody. *)
Settle ==
  /\ UserCode /\ pending
  /\ pending' = FALSE
  /\ \E k \in {"resolved", "rejected"} : EnqueueJob(k)
  /\ UNCHANGED <<tasks, answered, requests, called, completed, await, iterator, at, stack>>

(* Any other job; two blocks are left to the generator. *)
EnqueueOther ==
  /\ UserCode
  /\ Cardinality({j \in allocated : kind[j] = "other"}) < Cardinality(Jobs) - 2
  /\ EnqueueJob("other")
  /\ UNCHANGED <<genVars, stack>>

(* The next job is taken off the queue, by the host or by a native         *)
(* function that runs the queue from inside another call.                  *)
Take ==
  /\ UserCode /\ Len(stack) < MaxDepth
  /\ Process
  /\ stack' = Append(stack, head)
  /\ at' = CASE kind[head] = "generator" -> "run"
             [] kind[head] \in {"resolved", "rejected"} -> "continue"
             [] OTHER -> at
  /\ UNCHANGED <<kind, tasks, answered, requests, called, completed, await, iterator, pending>>

(* A call returns; a job is freed. *)
Return ==
  /\ stack' = SubSeq(stack, 1, Len(stack) - 1)
  /\ IF Top = Null
       THEN NoJob
       ELSE Free(Top) /\ kind' = [kind EXCEPT ![Top] = "other"]

FinishOther ==
  /\ stack # <<>>
  /\ Top # Null
  /\ kind[Top] = "other"
  /\ Return
  /\ UNCHANGED genVars

(* The generator is suspended, or its last task is answered. *)
Leave ==
  /\ AtTop("leave")
  /\ at' = "idle"
  /\ Return
  /\ UNCHANGED <<tasks, answered, requests, called, completed, await, iterator, pending>>

----------------------------------------------------------------------------
(* The body *)

Took == tasks' = [tasks EXCEPT ![1].taken = TRUE]

(* Mutant: no job is enqueued for the next task. *)
AnswerYieldSleeps ==
  /\ answered' = Append(answered, tasks[1].id)
  /\ tasks' = Tail(tasks)
  /\ at' = "leave"
  /\ NoJob
  /\ UNCHANGED <<requests, called, completed, pending, stack>>

(* opfunc_async_generator_yield *)
AnswerYield ==
  /\ answered' = Append(answered, tasks[1].id)
  /\ tasks' = Tail(tasks)
  /\ at' = "leave"
  /\ IF Len(tasks) > 1 THEN EnqueueJob("generator") ELSE NoJob
  /\ UNCHANGED <<requests, called, completed, pending, stack>>

(* VM_OC_ASYNC_YIELD *)
Yield ==
  /\ AtTop("body")
  /\ AnswerYield
  /\ UNCHANGED <<await, iterator>>

(* VM_OC_FOR_AWAIT_OF_INIT and VM_OC_FOR_AWAIT_OF_HAS_NEXT wait for the    *)
(* next result of the iterator.                                            *)
ForNext == await' = "forNext"

(* A for-await-of that is left early waits for its iterator to close.      *)
ForClose == await' = "forClose"

(* VM_OC_GENERATOR_AWAIT, VM_OC_ASYNC_YIELD_ITERATOR and for-await-of.     *)
(* (An error before the promise is awaited goes back to the body.)         *)
Await ==
  /\ AtTop("body")
  /\ await' \in {"none", "yieldNext"} \/ ForNext \/ ForClose
  /\ iterator' = (await' = "yieldNext")
  /\ AwaitPromise
  /\ at' = "leave"
  /\ UNCHANGED <<tasks, answered, requests, called, completed, stack>>

(* The body returns or throws: opfunc_resume_executable_object marks the   *)
(* generator and ecma_async_generator_finalize is called.                  *)
End ==
  /\ AtTop("body")
  /\ completed' = TRUE
  /\ at' = "finalize"
  /\ NoJob
  /\ UNCHANGED <<tasks, answered, requests, called, await, iterator, pending, stack>>

(* Mutant: only the task being served is answered. *)
FinalizeFirst ==
  /\ AtTop("finalize")
  /\ tasks' = Tail(tasks)
  /\ answered' = Append(answered, tasks[1].id)
  /\ at' = "leave"
  /\ NoJob
  /\ UNCHANGED <<requests, called, completed, await, iterator, pending, stack>>

(* ecma_async_generator_finalize: one task.  A rejection may call back the *)
(* host before the next task is looked at.                                 *)
Finalize ==
  /\ AtTop("finalize")
  /\ tasks' = Tail(tasks)
  /\ answered' = Append(answered, tasks[1].id)
  /\ at' = IF Len(tasks) > 1 THEN "finalize" ELSE "leave"
  /\ NoJob
  /\ UNCHANGED <<requests, called, completed, await, iterator, pending, stack>>

----------------------------------------------------------------------------
(* The jobs *)

(* The generator is resumed and its body goes on. *)
Resume ==
  /\ at' = "body"
  /\ ClearAwait
  /\ NoJob
  /\ UNCHANGED <<answered, requests, called, completed, pending, stack>>

(* A function of the inner iterator was called and its result is awaited. *)
Delegate(from, to) ==
  /\ at' = "leave"
  /\ ChangeState(from, to)
  /\ AwaitPromise
  /\ UNCHANGED <<answered, requests, called, completed, iterator, stack>>

(* ecma_async_generator_run.  Outside of a yield* the body is resumed with *)
(* the operation.  Inside, the operation is passed to the iterator; for a  *)
(* throw that it does not know the iterator is closed (ecma_async_yield_   *)
(* throw); an error is thrown into the body.                               *)
Run ==
  /\ AtTop("run")
  /\ Took
  /\ \/ Resume
     \/ /\ await # "none"
        /\ \/ tasks[1].op \in {"next", "throw"} /\ Delegate("yieldOperation", "yieldNext")
           \/ tasks[1].op = "throw" /\ Delegate("yieldOperation", "yieldClose")
           \/ tasks[1].op = "return" /\ Delegate("yieldOperation", "yieldReturn")

(* Mutant: the iterator of a yield* is kept when the body goes on. *)
RejectedKeepsIterator ==
  /\ AtTop("continue") /\ kind[Top] = "rejected"
  /\ UNCHANGED tasks
  /\ \/ /\ await # "yieldReturn"
        /\ at' = "body" /\ await' = "none"
        /\ NoJob
        /\ UNCHANGED <<answered, requests, called, completed, iterator, pending, stack>>
     \/ /\ await = "yieldReturn"
        /\ await' = "yieldOperation"
        /\ at' = "throw"
        /\ NoJob
        /\ UNCHANGED <<answered, requests, called, completed, iterator, pending, stack>>

(* ecma_process_promise_async_reaction_job with a rejection: thrown into   *)
(* the body, unless it is the argument of a return, which is thrown into   *)
(* the iterator.                                                           *)
Rejected ==
  /\ AtTop("continue") /\ kind[Top] = "rejected"
  /\ UNCHANGED tasks
  /\ \/ await # "yieldReturn" /\ Resume
     \/ /\ await = "yieldReturn"
        /\ await' = "yieldOperation"
        /\ at' = "throw"
        /\ NoJob
        /\ UNCHANGED <<answered, requests, called, completed, iterator, pending, stack>>

(* ecma_await_continue in the state YIELD_OPERATION: ecma_async_yield_throw. *)
YieldThrow ==
  /\ AtTop("throw")
  /\ UNCHANGED tasks
  /\ \/ Resume
     \/ \E to \in {"yieldNext", "yieldClose"} : Delegate("yieldOperation", to)

(* ecma_await_continue for the states that wait for a result.              *)
(* A result that is not an object, or whose properties throw, or which is  *)
(* done, resumes the body; the value of the others is awaited.             *)
Resolved ==
  /\ AtTop("continue") /\ kind[Top] = "resolved"
  /\ UNCHANGED tasks
  /\ \/ await # "yieldNextValue" /\ Resume
     \/ /\ await \in {"yieldNext", "yieldNextReturn"}
        /\ Delegate(await, "yieldNextValue")
     \/ /\ await = "yieldReturn"
        /\ Delegate("yieldReturn", "yieldNextReturn")

(* The value of the inner iterator is here: it is yielded. *)
ResolvedValue ==
  /\ AtTop("continue") /\ kind[Top] = "resolved"
  /\ await = "yieldNextValue"
  /\ ChangeState("yieldNextValue", "yieldOperation")
  /\ AnswerYield
  /\ UNCHANGED iterator

----------------------------------------------------------------------------

CloseContext == stack = <<>> /\ Close /\ UNCHANGED <<kind, genVars, stack>>
DropJob == FreeEnqueued /\ UNCHANGED <<kind, genVars, stack>>

Engine == Run \/ Rejected \/ YieldThrow \/ Resolved \/ ResolvedValue \/ Finalize \/ Leave

AgNext ==
  \/ \E op \in Operations : Request(op)
  \/ Settle \/ EnqueueOther \/ Take \/ FinishOther
  \/ Yield \/ Await \/ End
  \/ Engine
  \/ CloseContext \/ DropJob

(* The host goes on running the queue; functions called by the engine and  *)
(* the code of other jobs return; awaited promises are settled; and a body *)
(* that is resumed again and again does not await for ever.                *)
AgFairness ==
  /\ WF_agVars(stack = <<>> /\ Take)
  /\ SF_agVars(FinishOther)
  /\ SF_agVars(Engine)
  /\ WF_agVars(Settle)
  /\ SF_agVars(Yield \/ End)

AgSpec == AgInit /\ [][AgNext]_agVars /\ AgFairness

----------------------------------------------------------------------------

AgTypeOK ==
  /\ TypeOK
  /\ kind \in [Jobs -> GeneratorKinds \cup {"other"}]
  /\ \A i \in 1..Len(tasks) : tasks[i].op \in Operations /\ tasks[i].id \in 1..MaxRequests
  /\ requests \in 0..MaxRequests
  /\ called \in BOOLEAN /\ completed \in BOOLEAN /\ iterator \in BOOLEAN /\ pending \in BOOLEAN
  /\ await \in {"none"} \cup YieldStates \cup ForStates
  /\ at \in {"idle", "run", "continue", "throw", "body", "finalize", "leave"}
  /\ running = {stack[i] : i \in 1..Len(stack)} \ {Null}

(* The linked list of jobs is sound although its tail dangles and freed    *)
(* jobs are used again: every job is on the list once or being processed,  *)
(* and the tail is the last one while the list is not empty.               *)
JobListSound == AgTypeOK /\ ListExact /\ TailIsLast

(* The ways in which the generator will be woken, or is awake. *)
WakeUps ==
  Cardinality({j \in OnList : kind[j] \in GeneratorKinds})
    + (IF pending THEN 1 ELSE 0)
    + (IF at \notin {"idle", "leave"} THEN 1 ELSE 0)

(* While tasks are open exactly one job, promise or call will go on with   *)
(* the generator; without a task there is none.  No wake-up is lost, and   *)
(* opfunc_resume_executable_object never finds the generator running or    *)
(* completed (its JJS_ASSERT).                                             *)
OneWakeUp == ~ closed => WakeUps = IF tasks = <<>> THEN 0 ELSE 1

(* The await state, the iterator of a yield* and the task agree with what  *)
(* the generator waits for: in the middle of a yield* it has its iterator  *)
(* (a JJS_ASSERT of ecma_process_promise_async_reaction_job), only the     *)
(* state YIELD_OPERATION waits for a request, and the value of a request   *)
(* is taken when the generator begins to serve it and not before (a        *)
(* JJS_ASSERT of opfunc_async_generator_yield).                            *)
AwaitMatches ==
  /\ iterator <=> await \in YieldStates
  /\ at = "body" => await = "none"
  /\ \A i \in 2..Len(tasks) : ~ tasks[i].taken
  /\ ~ closed /\ tasks # <<>> /\ at # "finalize" =>
       LET starts == at = "run" \/ \E j \in OnList : kind[j] = "generator"
       IN tasks[1].taken <=> ~ starts
  /\ await \in YieldStates \ {"yieldOperation"} /\ ~ closed => tasks # <<>>

(* Every task is answered once, in the order of the requests: none is      *)
(* skipped, also when the generator ends with tasks waiting.               *)
AnsweredInOrder ==
  LET open == answered \o [i \in 1..Len(tasks) |-> tasks[i].id]
  IN /\ \A i \in 1..Len(open) : open[i] = i
     /\ at = "idle" /\ completed => tasks = <<>>

(* Every request gets its answer, as long as the context lives. *)
RequestsAnswered == tasks # <<>> ~> (tasks = <<>> \/ closed)
=============================================================================
