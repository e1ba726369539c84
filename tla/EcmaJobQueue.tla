---------------------------- MODULE EcmaJobQueue ----------------------------
(***************************************************************************)
(* The job queue as a linked list (ecma-jobqueue.c): job_queue_head_p,     *)
(* job_queue_tail_p and the next pointers packed into next_and_type.       *)
(*                                                                         *)
(* Taking the last job off the list sets the head to NULL and leaves the   *)
(* tail pointing at a job that is freed once it is processed.  What the    *)
(* memory of a freed job holds is arbitrary, and the same block may be     *)
(* handed out again for another job.                                       *)
(*                                                                         *)
(* The operations of the queue; EcmaAsyncGenerator composes them with a    *)
(* user of the queue.                                                      *)
(***************************************************************************)
EXTENDS Integers, Sequences, FiniteSets

CONSTANTS
  Jobs,     \* the blocks of memory that hold jobs
  Null

ASSUME JobQueueAssumption ==
  /\ IsFiniteSet(Jobs)
  /\ Null \notin Jobs

VARIABLES
  head, tail,   \* job_queue_head_p, job_queue_tail_p
  next,         \* the next pointers
  allocated,    \* the blocks that hold a job
  running,      \* the jobs being processed
  closed        \* jjs_context_free was called

vars == <<head, tail, next, allocated, running, closed>>

(* ecma_job_queue_init; the blocks were never written. *)
Init ==
  /\ head = Null /\ tail = Null
  /\ next = [j \in Jobs |-> Null]
  /\ allocated = {} /\ running = {}
  /\ closed = FALSE

(* Mutant: the tail, and not the head, tells whether the list is empty. *)
EnqueueTrustsTail(j) ==
  /\ ~ closed
  /\ j \notin allocated
  /\ allocated' = allocated \cup {j}
  /\ tail' = j
  /\ IF tail = Null
       THEN /\ head' = j
            /\ next' = [next EXCEPT ![j] = Null]
       ELSE /\ head' = head
            /\ next' = [next EXCEPT ![j] = Null, ![tail] = j]
  /\ UNCHANGED <<running, closed>>

(* Mutant: the new job becomes the head. *)
EnqueueFirst(j) ==
  /\ ~ closed
  /\ j \notin allocated
  /\ allocated' = allocated \cup {j}
  /\ head' = j
  /\ tail' = IF head = Null THEN j ELSE tail
  /\ next' = [next EXCEPT ![j] = head]
  /\ UNCHANGED <<running, closed>>

(* ecma_enqueue_job, with the allocation of the job and its initialisation *)
(* in the ecma_enqueue_..._job functions.                                  *)
Enqueue(j) ==
  /\ ~ closed
  /\ j \notin allocated
  /\ allocated' = allocated \cup {j}
  /\ tail' = j
  /\ IF head = Null
       THEN /\ head' = j
            /\ next' = [next EXCEPT ![j] = Null]
       ELSE /\ head' = head
            /\ next' = [next EXCEPT ![j] = Null, ![tail] = j]
  /\ UNCHANGED <<running, closed>>

(* ecma_process_all_enqueued_jobs: one turn of the loop, up to the call of *)
(* the job's function.                                                     *)
Process ==
  /\ ~ closed
  /\ head # Null
  /\ head' = next[head]
  /\ running' = running \cup {head}
  /\ UNCHANGED <<tail, next, allocated, closed>>

(* What the memory of a freed job holds.  It is arbitrary; two values stand *)
(* for all: NULL, which would cut a list, and a job (the freed one), which *)
(* would put memory that is not in use on it.                              *)
Garbage(j) == {Null, j}

(* The job is processed: it is freed, and its memory may be overwritten. *)
Free(j) ==
  /\ j \in running
  /\ running' = running \ {j}
  /\ allocated' = allocated \ {j}
  /\ \E garbage \in Garbage(j) : next' = [next EXCEPT ![j] = garbage]
  /\ UNCHANGED <<head, tail, closed>>

(* jjs_context_free, which is not called from a job. *)
Close ==
  /\ ~ closed
  /\ running = {}
  /\ closed' = TRUE
  /\ UNCHANGED <<head, tail, next, allocated, running>>

(* ecma_free_all_enqueued_jobs: one turn of the loop. *)
FreeEnqueued ==
  /\ closed
  /\ head # Null
  /\ head' = next[head]
  /\ allocated' = allocated \ {head}
  /\ \E garbage \in Garbage(head) : next' = [next EXCEPT ![head] = garbage]
  /\ UNCHANGED <<tail, running, closed>>

----------------------------------------------------------------------------

(* What a walk of at most as many steps as there are jobs meets, from first *)
(* along the pointers link.                                                *)
WalkFrom(link, first) ==
  LET walk[x \in (0..Cardinality(Jobs)) \X (Jobs \cup {Null})] ==
        IF x[1] = 0 \/ x[2] = Null
          THEN <<>>
          ELSE <<x[2]>> \o walk[<<x[1] - 1, link[x[2]]>>]
  IN walk[<<Cardinality(Jobs), first>>]

(* The jobs on the list. *)
Walk == WalkFrom(next, head)

OnList == LET w == Walk IN {w[i] : i \in 1..Len(w)}

TypeOK ==
  /\ head \in Jobs \cup {Null} /\ tail \in Jobs \cup {Null}
  /\ next \in [Jobs -> Jobs \cup {Null}]
  /\ allocated \subseteq Jobs /\ running \subseteq allocated
  /\ closed \in BOOLEAN

(* Every allocated job is either on the list, once, or being processed: no *)
(* job is freed while it is reachable from the head and none is leaked.    *)
ListExact ==
  /\ OnList = allocated \ running
  /\ Len(Walk) = Cardinality(OnList)

(* JJS_ASSERT in ecma_enqueue_job: while the list is not empty the tail is *)
(* its last job.  (When it is empty the tail may point at freed memory.)   *)
TailIsLast == head # Null => tail = Walk[Len(Walk)] /\ next[tail] = Null

Fifo == INSTANCE JobFifo WITH waiting <- Walk, running <- running

(* The linked list implements the queue. *)
ImplementsFifo == Fifo!Spec
=============================================================================
