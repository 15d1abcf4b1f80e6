--------------------------- MODULE BoundedDelivery ---------------------------
(***************************************************************************)
(* Deadline dispatch of the Python runtime                                 *)
(* (packages/python/src/googlechatai/router/runtime.py): the duplicate     *)
(* guard, the handlers that are not coroutines and onDeadline callbacks    *)
(* run in one thread pool, behind a semaphore that bounds what is queued   *)
(* and running.  The event loop takes one step at a time; the workers run  *)
(* beside it.                                                              *)
(*                                                                         *)
(* The deadline is configured, as that is when the pool is used.  A store  *)
(* that is called in a worker is external and claims in one step; claims   *)
(* do not expire here.                                                     *)
(***************************************************************************)
EXTENDS Integers, Sequences, FiniteSets

CONSTANTS
  Deliveries,
  EventOf,      \* the event of each delivery
  Coroutines,   \* the deliveries whose handler is a coroutine function
  Capacity,     \* _BLOCKING_WORK_CAPACITY
  Workers,      \* _BLOCKING_WORKERS
  OnDeadline    \* whether a (blocking) on_deadline is configured

ASSUME DeliveryAssumption ==
  /\ DOMAIN EventOf = Deliveries
  /\ Coroutines \subseteq Deliveries
  /\ Capacity \in Nat \ {0} /\ Workers \in 1..Capacity
  /\ OnDeadline \in BOOLEAN

VARIABLES
  slots,     \* what is left of _blocking_work_slots
  queue,     \* the executor's queue of jobs, <<delivery, what>>
  running,   \* the jobs in a worker
  outcome,   \* what each job returned, "none" before
  task,      \* how far the _dispatch_delivery task of each delivery is
  answer,    \* the response to each delivery
  waiting,   \* what _dispatch_with_deadline of each delivery waits for
  claims,    \* external: the deliveries that were granted the claim of their event
  handled    \* history: the deliveries whose handler was started

vars == <<slots, queue, running, outcome, task, answer, waiting, claims, handled>>

Jobs == Deliveries \X {"guard", "handler", "callback"}

Tasks == {"new", "guard", "handler", "coroutine", "returned", "duplicate",
          "saturated", "raised"}

Init ==
  /\ slots = Capacity
  /\ queue = << >> /\ running = {}
  /\ outcome = [job \in Jobs |-> "none"]
  /\ task = [d \in Deliveries |-> "new"]
  /\ answer = [d \in Deliveries |-> "none"]
  /\ waiting = [d \in Deliveries |-> "no"]
  /\ claims = {} /\ handled = {}

(* _run_bounded_blocking: a slot is acquired without waiting, or not.      *)
Submit(job) ==
  /\ slots > 0
  /\ slots' = slots - 1
  /\ queue' = Append(queue, job)

Saturated == slots = 0 /\ UNCHANGED <<slots, queue>>

TaskIs(d, state) == task' = [task EXCEPT ![d] = state]

-----------------------------------------------------------------------------
\* Mutant: without a slot the delivery goes on, unguarded.
Dispatch_SkipsGuard(d) ==
  /\ task[d] = "new"
  /\ \/ Submit(<<d, "guard">>) /\ TaskIs(d, "guard") /\ UNCHANGED handled
     \/ Saturated /\ TaskIs(d, "coroutine") /\ handled' = handled \cup {d}
  /\ waiting' = [waiting EXCEPT ![d] = "task"]
  /\ UNCHANGED <<running, outcome, answer, claims>>

(* The task is created and runs up to its first await.                     *)
Dispatch(d) ==
  /\ task[d] = "new"
  /\ \/ Submit(<<d, "guard">>) /\ TaskIs(d, "guard")
     \/ Saturated /\ TaskIs(d, "saturated")
  /\ waiting' = [waiting EXCEPT ![d] = "task"]
  /\ UNCHANGED <<running, outcome, answer, claims, handled>>

(* A worker takes the job at the head of the queue.                        *)
Work ==
  /\ queue # << >> /\ Cardinality(running) < Workers
  /\ running' = running \cup {Head(queue)}
  /\ queue' = Tail(queue)
  /\ UNCHANGED <<slots, outcome, task, answer, waiting, claims, handled>>

Claimed(e) == \E d \in claims : EventOf[d] = e

\* Mutant: the slot of a job that raises is not given back.
JobEnds_LeaksSlot(job) ==
  /\ job \in running /\ running' = running \ {job}
  /\ \/ /\ slots' = slots + 1
        /\ outcome' = [outcome EXCEPT ![job] = "result"]
     \/ /\ outcome' = [outcome EXCEPT ![job] = "raised"]
        /\ UNCHANGED slots
  /\ UNCHANGED <<queue, task, answer, waiting, claims, handled>>

(* `invoke` releases the slot, whatever the function does.  The store may  *)
(* raise, before it has claimed or after.                                  *)
JobEnds(job) ==
  LET d == job[1]
      Returns(what) == outcome' = [outcome EXCEPT ![job] = what]
  IN /\ job \in running /\ running' = running \ {job}
     /\ slots' = slots + 1
     /\ \/ /\ job[2] = "guard" /\ ~Claimed(EventOf[d])
           /\ claims' = claims \cup {d}
           /\ Returns("claimed") \/ Returns("raised")
        \/ /\ job[2] = "guard" /\ Claimed(EventOf[d])
           /\ Returns("duplicate") /\ UNCHANGED claims
        \/ job[2] # "guard" /\ Returns("result") /\ UNCHANGED claims
        \/ Returns("raised") /\ UNCHANGED claims
     /\ UNCHANGED <<queue, task, answer, waiting, handled>>

(* The event loop goes on with the task after the guard, and starts the    *)
(* handler, if one is registered: in the pool, or here when it is a        *)
(* coroutine function.                                                     *)
Guarded(d) ==
  LET guard == outcome[<<d, "guard">>]
  IN /\ task[d] = "guard"
     /\ \/ /\ guard \in {"duplicate", "raised"} /\ TaskIs(d, guard)
           /\ UNCHANGED <<slots, queue, handled>>
        \/ /\ guard = "claimed" /\ TaskIs(d, "returned")
           /\ UNCHANGED <<slots, queue, handled>>
        \/ /\ guard = "claimed" /\ d \in Coroutines
           /\ TaskIs(d, "coroutine") /\ handled' = handled \cup {d}
           /\ UNCHANGED <<slots, queue>>
        \/ /\ guard = "claimed" /\ d \notin Coroutines
           /\ \/ Submit(<<d, "handler">>) /\ TaskIs(d, "handler") /\ handled' = handled \cup {d}
              \/ Saturated /\ TaskIs(d, "saturated") /\ UNCHANGED handled
     /\ UNCHANGED <<running, outcome, answer, waiting, claims>>

(* An exception of the handler is answered too: with error_response, or it *)
(* is raised (raise_handler_errors).                                       *)
HandlerEnds(d) ==
  /\ \/ task[d] = "handler" /\ outcome[<<d, "handler">>] # "none"
     \/ task[d] = "coroutine"
  /\ TaskIs(d, "returned")
  /\ UNCHANGED <<slots, queue, running, outcome, answer, waiting, claims, handled>>

-----------------------------------------------------------------------------
TaskOver(d) == task[d] \in {"returned", "duplicate", "saturated", "raised"}

Response == [returned |-> "handled", duplicate |-> "duplicate",
             saturated |-> "503", raised |-> "raised"]

(* asyncio.wait finds the task done; a DeliveryCapacityError is a 503.     *)
TaskDone(d) ==
  /\ waiting[d] = "task" /\ TaskOver(d)
  /\ answer' = [answer EXCEPT ![d] = Response[task[d]]]
  /\ waiting' = [waiting EXCEPT ![d] = "no"]
  /\ UNCHANGED <<slots, queue, running, outcome, task, claims, handled>>

\* Mutant: the timer is not armed before the guard has returned.
DeadlineExceeded_AfterGuard(d) ==
  /\ waiting[d] = "task" /\ ~TaskOver(d) /\ task[d] # "guard"
  /\ answer' = [answer EXCEPT ![d] = "still_working"]
  /\ waiting' = [waiting EXCEPT ![d] = "no"]
  /\ UNCHANGED <<slots, queue, running, outcome, task, claims, handled>>

(* The callback runs in the pool like a handler; without a slot, or        *)
(* without a callback, the fallback is answered.  The task goes on.        *)
DeadlineExceeded(d) ==
  /\ waiting[d] = "task" /\ ~TaskOver(d)
  /\ \/ /\ OnDeadline /\ Submit(<<d, "callback">>)
        /\ waiting' = [waiting EXCEPT ![d] = "callback"]
        /\ UNCHANGED answer
     \/ /\ IF OnDeadline THEN Saturated ELSE UNCHANGED <<slots, queue>>
        /\ answer' = [answer EXCEPT ![d] = "still_working"]
        /\ waiting' = [waiting EXCEPT ![d] = "no"]
  /\ UNCHANGED <<running, outcome, task, claims, handled>>

CallbackDone(d) ==
  /\ waiting[d] = "callback" /\ outcome[<<d, "callback">>] # "none"
  /\ answer' = [answer EXCEPT ![d] =
                  IF outcome[<<d, "callback">>] = "raised" THEN "raised" ELSE "deadline_reply"]
  /\ waiting' = [waiting EXCEPT ![d] = "no"]
  /\ UNCHANGED <<slots, queue, running, outcome, task, claims, handled>>

LoopStep(d) ==
  Guarded(d) \/ HandlerEnds(d) \/ TaskDone(d) \/ DeadlineExceeded(d) \/ CallbackDone(d)

PoolStep == Work \/ \E job \in Jobs : JobEnds(job)

Next == PoolStep \/ \E d \in Deliveries : Dispatch(d) \/ LoopStep(d)

Spec == Init /\ [][Next]_vars

-----------------------------------------------------------------------------
Queued == {queue[i] : i \in DOMAIN queue}

(* The state's shape; no more jobs run than there are workers.             *)
TypeOK ==
  /\ slots \in 0..Capacity
  /\ queue \in Seq(Jobs)
  /\ running \in SUBSET Jobs /\ Cardinality(running) <= Workers
  /\ outcome \in [Jobs -> {"none", "claimed", "duplicate", "raised", "result"}]
  /\ task \in [Deliveries -> Tasks]
  /\ answer \in [Deliveries -> {"none", "handled", "duplicate", "503", "raised",
                                "still_working", "deadline_reply"}]
  /\ waiting \in [Deliveries -> {"no", "task", "callback"}]
  /\ claims \subseteq Deliveries /\ handled \subseteq Deliveries

(* Every slot is either free or held by one job, queued or running: none   *)
(* is lost by a job that raises or outlives its deadline.                  *)
SlotsAccounted == slots + Len(queue) + Cardinality(running) = Capacity

(* No handler runs without duplicate protection: for each event one at     *)
(* most, of the delivery that was granted the claim.                       *)
HandlersProtected ==
  /\ handled \subseteq claims
  /\ \A d, e \in claims : EventOf[d] = EventOf[e] => d = e

(* docs/guides/2026-07-10-production-hardening.md:40-43: a delivery that   *)
(* fails for want of capacity is a retryable 503, so that delivering it    *)
(* again is not a duplicate of one that no handler has seen.               *)
CapacityFailureRetryable ==
  \A d, e \in Deliveries :
    EventOf[d] = EventOf[e] /\ answer[d] = "503" /\ answer[e] = "duplicate" =>
      \E h \in handled : EventOf[h] = EventOf[d]
=============================================================================
