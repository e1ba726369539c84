------------------------------ MODULE JobFifo ------------------------------
(***************************************************************************)
(* What the job queue promises: jobs are processed one after the other in  *)
(* the order in which they were enqueued, each of them once, whoever asks  *)
(* for the next one (runs of the queue may be nested).                     *)
(***************************************************************************)
EXTENDS Naturals, Sequences

CONSTANTS Jobs

VARIABLES
  waiting,    \* the jobs in the queue, the oldest first
  running     \* the jobs being processed

vars == <<waiting, running>>

Init == waiting = <<>> /\ running = {}

Enqueue(j) ==
  /\ j \notin running
  /\ \A i \in 1..Len(waiting) : waiting[i] # j
  /\ waiting' = Append(waiting, j)
  /\ UNCHANGED running

Begin ==
  /\ waiting # <<>>
  /\ waiting' = Tail(waiting)
  /\ running' = running \cup {Head(waiting)}

End(j) ==
  /\ j \in running
  /\ running' = running \ {j}
  /\ UNCHANGED waiting

(* The context is destroyed: waiting jobs are dropped, oldest first. *)
Drop ==
  /\ waiting # <<>>
  /\ waiting' = Tail(waiting)
  /\ UNCHANGED running

Next == Begin \/ Drop \/ \E j \in Jobs : Enqueue(j) \/ End(j)

Spec == Init /\ [][Next]_vars
=============================================================================
