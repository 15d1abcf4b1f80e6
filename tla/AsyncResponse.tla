--------------------------- MODULE AsyncResponse ---------------------------
(***************************************************************************)
(* Answering later: the event handler plans with planAsyncResponse, posts  *)
(* a placeholder and enqueues a task (packages/node/src/messages/index.ts),*)
(* a worker takes the task from the queue and edits the placeholder, or    *)
(* posts a new message when the edit fails.  The queue is the in-memory    *)
(* one, FileAsyncResponseQueue, or one that pushes (Cloud Tasks, Pub/Sub)  *)
(* (packages/node/src/queues/index.ts).                                    *)
(*                                                                         *)
(* Events are distinct deliveries: EventRouter's HandledOncePerClaim.  The *)
(* lock of the file is FileStateLock's, of which MutualExclusion is used.  *)
(* External: Google Chat, which returns the message it has for a request   *)
(* id it knows; the pushing service, which delivers a task until it is     *)
(* acknowledged; the loop of the workers; the death of the process.        *)
(*                                                                         *)
(* Request ids, and client message ids with them, are the caller's, or     *)
(* else derived from the space and the text of a message.  Then events of  *)
(* one space have ids in common, and a worker that takes a task up again   *)
(* with another text has another id.                                       *)
(***************************************************************************)
EXTENDS Integers, Sequences, FiniteSets, SequencesExt

CONSTANTS
  Events, Workers,
  QueueKinds,     \* the queues in use: a subset of {"memory", "file", "push"}
  SpaceOf,        \* the space each event is from
  Answers,        \* the texts workers come up with
  PlaceholderText,
  SlugOf,         \* slugify, of each text: it is not injective
  NoTask,
  FaultBound      \* model bound: requests that fail and crashes

ASSUME AsyncAssumption ==
  /\ QueueKinds \subseteq {"memory", "file", "push"} /\ QueueKinds # {}
  /\ Answers # {} /\ DOMAIN SlugOf = Answers \cup {PlaceholderText}
  /\ {NoTask, "nothing", "placeholder"} \cap Events = {}
  /\ Events \cap Workers = {}
  /\ FaultBound \in Nat

VARIABLES
  queueKind,
  ownIds,      \* the events for which the caller gives request ids of its own
  strategy,    \* what planAsyncResponse chose for each event
  pc,          \* the handler of each event
  tasks,       \* the queue; a task is named by its event
  holders,     \* who holds the queue file's lock
  readTasks,   \* what they have read
  working,     \* the task each worker has
  stage,       \* what the worker sends next: "final" or "fallback"
  posted,      \* external: the messages of Chat by request id: "placeholder"
               \* or the event whose answer is shown
  given,       \* history: the tasks the queue has accepted
  taken,       \* history: how often workers have taken each task up
  doubted,     \* history: the events of which an edit was reported failed
  lost,        \* history: the tasks that died with a worker or in memory,
               \* or that no request could answer
  faults

vars == <<queueKind, ownIds, strategy, pc, tasks, holders, readTasks, working, stage,
          posted, given, taken, doubted, lost, faults>>

Processes == Events \cup Workers      \* the handler of each event, the workers

(* requestIdFor, for the placeholder of an event and for an answer without *)
(* placeholder.                                                            *)
RequestId(e, message, text) ==
  IF e \in ownIds THEN <<"given", e, message>> ELSE <<"derived", SpaceOf[e], SlugOf[text]>>

PlaceholderId(e) == RequestId(e, "placeholder", PlaceholderText)

AnswerId(e, text) == RequestId(e, "answer", text)

(* Derived from the name of the placeholder, for which its id stands here. *)
FallbackId(e) == <<"fallback", PlaceholderId(e)>>

Ids ==
  LET created ==
        {<<"given", e, message>> : e \in Events, message \in {"placeholder", "answer"}}
          \cup {<<"derived", SpaceOf[e], SlugOf[text]>> : e \in Events, text \in DOMAIN SlugOf}
  IN created \cup {<<"fallback", id>> : id \in created}

Init ==
  /\ queueKind \in QueueKinds /\ ownIds \in SUBSET Events
  /\ strategy = [e \in Events |-> "none"]
  /\ pc = [e \in Events |-> "start"]
  /\ tasks = <<>> /\ holders = {} /\ readTasks = [p \in Processes |-> <<>>]
  /\ working = [w \in Workers |-> NoTask]
  /\ stage = [w \in Workers |-> "final"]
  /\ posted = [id \in Ids |-> "nothing"]
  /\ taken = [e \in Events |-> "never"]
  /\ given = {} /\ doubted = {} /\ lost = {} /\ faults = 0

Fault == faults < FaultBound /\ faults' = faults + 1

Goto(e, label) == pc' = [pc EXCEPT ![e] = label]

-----------------------------------------------------------------------------
(* The handler *)

(* asyncDeadline: the work is deferred when a placeholder is asked for or  *)
(* it is expected to take longer than the synchronous budget.              *)
Strategy(respondWithPlaceholder, exceedsSyncBudget) ==
  CASE respondWithPlaceholder -> "placeholder_then_queue"
    [] ~respondWithPlaceholder /\ exceedsSyncBudget -> "queue_only"
    [] OTHER -> "sync_response"

PlanAsyncResponse(e) ==
  /\ pc[e] = "start"
  /\ \E respondWithPlaceholder, exceedsSyncBudget \in BOOLEAN :
       strategy' = [strategy EXCEPT ![e] =
                      Strategy(respondWithPlaceholder, exceedsSyncBudget)]
  /\ Goto(e, CASE strategy'[e] = "placeholder_then_queue" -> "post"
               [] strategy'[e] = "queue_only" -> "enqueue"
               [] OTHER -> "responded")
  /\ UNCHANGED <<queueKind, ownIds, taken, tasks, holders, readTasks, working, stage, posted,
                 given, doubted, lost, faults>>

(* spaces.messages.create with a request id.                               *)
Created(id, text) ==
  posted' = IF posted[id] = "nothing" THEN [posted EXCEPT ![id] = text] ELSE posted

(* planPlaceholderResponse, executed; the handle is hydrated with the name *)
(* of the message Chat returns.  Without that message there is no handle   *)
(* and the handler ends in an error.                                       *)
PostPlaceholder(e) ==
  /\ pc[e] = "post"
  /\ \/ Created(PlaceholderId(e), "placeholder") /\ Goto(e, "enqueue") /\ UNCHANGED faults
     \/ /\ Fault /\ Goto(e, "failed")
        /\ Created(PlaceholderId(e), "placeholder") \/ UNCHANGED posted
  /\ UNCHANGED <<queueKind, ownIds, taken, strategy, tasks, holders, readTasks, working, stage,
                 given, doubted, lost>>

-----------------------------------------------------------------------------
(* The queue *)

Accepted(e) ==
  /\ tasks' = Append(tasks, e) /\ given' = given \cup {e}

EnqueueInMemory(e) ==
  /\ queueKind = "memory" /\ pc[e] = "enqueue"
  /\ Accepted(e) /\ Goto(e, "responded")
  /\ UNCHANGED <<queueKind, ownIds, taken, strategy, holders, readTasks, working, stage, posted,
                 doubted, lost, faults>>

(* The POST to Cloud Tasks or Pub/Sub.                                     *)
EnqueueByPush(e) ==
  /\ queueKind = "push" /\ pc[e] = "enqueue"
  /\ \/ Accepted(e) /\ Goto(e, "responded") /\ UNCHANGED faults
     \/ /\ Fault /\ Goto(e, "failed")
        /\ Accepted(e) \/ UNCHANGED <<tasks, given>>
  /\ UNCHANGED <<queueKind, ownIds, taken, strategy, holders, readTasks, working, stage, posted,
                 doubted, lost>>

Wants(p) ==
  \/ p \in Events /\ pc[p] = "enqueue"
  \/ p \in Workers /\ working[p] = NoTask /\ tasks # <<>>

\* Mutant: the file is read and written without the lock.
LockQueueFile_Unlocked(p) ==
  /\ queueKind = "file" /\ p \notin holders /\ Wants(p)
  /\ holders' = holders \cup {p} /\ readTasks' = [readTasks EXCEPT ![p] = tasks]
  /\ UNCHANGED <<queueKind, ownIds, taken, strategy, pc, tasks, working, stage, posted,
                 given, doubted, lost, faults>>

(* withFileStateLock, and readTasks inside it.  (A dequeue of an empty     *)
(* queue changes nothing and is left out.)                                 *)
LockQueueFile(p) ==
  /\ queueKind = "file" /\ holders = {} /\ Wants(p)
  /\ holders' = {p} /\ readTasks' = [readTasks EXCEPT ![p] = tasks]
  /\ UNCHANGED <<queueKind, ownIds, taken, strategy, pc, tasks, working, stage, posted,
                 given, doubted, lost, faults>>

Unlock(p) ==
  /\ p \in holders /\ holders' = holders \ {p}
  /\ readTasks' = [readTasks EXCEPT ![p] = <<>>]

(* writeTasks with the task at the end; a failing write keeps the file.    *)
EnqueueInFile(e) ==
  /\ queueKind = "file" /\ Unlock(e)
  /\ \/ /\ tasks' = Append(readTasks[e], e) /\ given' = given \cup {e}
        /\ Goto(e, "responded") /\ UNCHANGED faults
     \/ /\ Fault /\ Goto(e, "failed") /\ UNCHANGED <<tasks, given>>
  /\ UNCHANGED <<queueKind, ownIds, taken, strategy, working, stage, posted, doubted, lost>>

StartWork(w, e) ==
  /\ working' = [working EXCEPT ![w] = e]
  /\ stage' = [stage EXCEPT ![w] = "final"]
  /\ taken' = [taken EXCEPT ![e] = IF @ = "never" THEN "once" ELSE "again"]

DequeueFromFile(w) ==
  /\ queueKind = "file" /\ Unlock(w)
  /\ \/ /\ tasks' = Tail(readTasks[w]) /\ StartWork(w, Head(readTasks[w]))
        /\ UNCHANGED faults
     \/ Fault /\ UNCHANGED <<tasks, working, stage, taken>>
  /\ UNCHANGED <<queueKind, ownIds, strategy, pc, posted, given, doubted, lost>>

DequeueFromMemory(w) ==
  /\ queueKind = "memory" /\ working[w] = NoTask /\ tasks # <<>>
  /\ tasks' = Tail(tasks) /\ StartWork(w, Head(tasks))
  /\ UNCHANGED <<queueKind, ownIds, strategy, pc, holders, readTasks, posted,
                 given, doubted, lost, faults>>

(* A task is delivered in any order, and again while another worker has it.*)
Pushed(w) ==
  /\ queueKind = "push" /\ working[w] = NoTask
  /\ \E i \in DOMAIN tasks : StartWork(w, tasks[i])
  /\ UNCHANGED <<queueKind, ownIds, strategy, pc, tasks, holders, readTasks, posted,
                 given, doubted, lost, faults>>

-----------------------------------------------------------------------------
(* The worker *)

Finished(w) == working' = [working EXCEPT ![w] = NoTask]

(* A pushed task is acknowledged when it has been answered.                *)
TaskDone(w) ==
  /\ Finished(w)
  /\ tasks' = IF queueKind = "push" THEN SelectSeq(tasks, LAMBDA e : e # working[w])
              ELSE tasks
  /\ UNCHANGED <<stage, lost>>

\* Mutant: a pushed task is acknowledged whether it was answered or not.
TaskFails_Acknowledged(w) ==
  /\ Finished(w)
  /\ tasks' = IF queueKind = "push" THEN SelectSeq(tasks, LAMBDA e : e # working[w])
              ELSE tasks
  /\ lost' = IF queueKind = "push" THEN lost ELSE lost \cup {working[w]}
  /\ UNCHANGED stage

TaskFails(w) ==
  /\ Finished(w)
  /\ lost' = IF queueKind = "push" THEN lost ELSE lost \cup {working[w]}
  /\ UNCHANGED <<tasks, stage>>

(* planCompletePlaceholderResponse: the PATCH of the placeholder; if it    *)
(* fails, applied or not, the fallback is sent.                            *)
CompletePlaceholder(w) ==
  /\ working[w] # NoTask /\ stage[w] = "final"
  /\ strategy[working[w]] = "placeholder_then_queue"
  /\ LET e == working[w]
         edited == posted' = [posted EXCEPT ![PlaceholderId(e)] = e]
     IN \/ edited /\ TaskDone(w) /\ UNCHANGED <<doubted, faults>>
        \/ /\ Fault /\ doubted' = doubted \cup {e}
           /\ edited \/ UNCHANGED posted
           /\ stage' = [stage EXCEPT ![w] = "fallback"]
           /\ UNCHANGED <<working, tasks, lost>>
  /\ UNCHANGED <<queueKind, ownIds, taken, strategy, pc, holders, readTasks, given>>

(* A message is created under the given id, or the task fails.             *)
CreateFinal(w, id) ==
  /\ \/ Created(id, working[w]) /\ TaskDone(w) /\ UNCHANGED faults
     \/ /\ Fault /\ TaskFails(w)
        /\ Created(id, working[w]) \/ UNCHANGED posted
  /\ UNCHANGED <<queueKind, ownIds, taken, strategy, pc, holders, readTasks, given, doubted>>

CreateFallback(w) ==
  /\ working[w] # NoTask /\ stage[w] = "fallback"
  /\ CreateFinal(w, FallbackId(working[w]))

\* Mutant: the reply handle of the task is not looked at.
CreateAnswer_Always(w) ==
  /\ working[w] # NoTask /\ stage[w] = "final"
  /\ \E text \in Answers : CreateFinal(w, AnswerId(working[w], text))

(* asyncFinalDelivery without a placeholder: replyToEvent or sendToSpace.  *)
CreateAnswer(w) ==
  /\ working[w] # NoTask /\ stage[w] = "final"
  /\ strategy[working[w]] = "queue_only"
  /\ \E text \in Answers : CreateFinal(w, AnswerId(working[w], text))

-----------------------------------------------------------------------------
InHand == {working[w] : w \in Workers} \ {NoTask}

(* The process dies: handlers and workers are gone, and so is what was in  *)
(* memory.  The file and the pushing service are not.                      *)
Crash ==
  /\ Fault
  /\ pc' = [e \in Events |-> IF pc[e] \in {"post", "enqueue"} THEN "gone" ELSE pc[e]]
  /\ working' = [w \in Workers |-> NoTask]
  /\ stage' = [w \in Workers |-> "final"]
  /\ holders' = {} /\ readTasks' = [p \in Processes |-> <<>>]
  /\ tasks' = IF queueKind = "memory" THEN <<>> ELSE tasks
  /\ lost' = lost \cup (CASE queueKind = "memory" -> InHand \cup ToSet(tasks)
                          [] queueKind = "file" -> InHand
                          [] OTHER -> {})
  /\ UNCHANGED <<queueKind, ownIds, taken, strategy, posted, given, doubted>>

Handler(e) ==
  \/ PlanAsyncResponse(e) \/ PostPlaceholder(e)
  \/ EnqueueInMemory(e) \/ EnqueueByPush(e) \/ EnqueueInFile(e)

Dequeue(w) == DequeueFromFile(w) \/ DequeueFromMemory(w) \/ Pushed(w)

Answer(w) == CompletePlaceholder(w) \/ CreateFallback(w) \/ CreateAnswer(w)

Next ==
  \/ \E e \in Events : Handler(e)
  \/ \E p \in Processes : LockQueueFile(p)
  \/ \E w \in Workers : Dequeue(w) \/ Answer(w)
  \/ Crash

Spec == Init /\ [][Next]_vars

(* Handlers and workers go on; the lock is granted in turn; the service    *)
(* delivers every task it has until it is acknowledged.                    *)
Fairness ==
  /\ \A e \in Events : WF_vars(EnqueueInFile(e))
  /\ \A w \in Workers :
       /\ WF_vars(Answer(w)) /\ WF_vars(Dequeue(w)) /\ SF_vars(LockQueueFile(w))
  /\ \A e \in Events : SF_vars(\E w \in Workers : Pushed(w) /\ working'[w] = e)

FairSpec == Spec /\ Fairness

-----------------------------------------------------------------------------
(* The shape of the state; a worker that has a task knows its strategy.    *)
TypeOK ==
  /\ strategy \in [Events -> {"none", "placeholder_then_queue", "queue_only", "sync_response"}]
  /\ pc \in [Events -> {"start", "post", "enqueue", "responded", "failed", "gone"}]
  /\ tasks \in Seq(Events) /\ readTasks \in [Processes -> Seq(Events)]
  /\ holders \subseteq Processes
  /\ working \in [Workers -> Events \cup {NoTask}]
  /\ stage \in [Workers -> {"final", "fallback"}]
  /\ posted \in [Ids -> {"nothing", "placeholder"} \cup Events]
  /\ given \cup doubted \cup lost \cup ownIds \subseteq Events
  /\ taken \in [Events -> {"never", "once", "again"}]

Places(e) ==
  Cardinality({i \in DOMAIN tasks : tasks[i] = e}) + Cardinality({w \in Workers : working[w] = e})

(* The request ids the messages of an event go by.                         *)
IdsOf(e) ==
  CASE strategy[e] = "placeholder_then_queue" -> {PlaceholderId(e), FallbackId(e)}
    [] strategy[e] = "queue_only" -> {AnswerId(e, text) : text \in Answers}
    [] OTHER -> {}

(* The answer shows; where another event goes by the same id the message   *)
(* may say what that one made of it.                                       *)
Shows(e) ==
  \E id \in IdsOf(e) :
    \/ posted[id] = e
    \/ posted[id] # "nothing" /\ \E d \in Events \ {e} : id \in IdsOf(d)

(* A queue that hands its tasks over, in memory or in a file, has each     *)
(* task in one place: in the queue or with one worker, however enqueues    *)
(* and dequeues overlap; and a task it has accepted is only gone when it   *)
(* was answered or lost.                                                   *)
TasksHeldOnce ==
  queueKind # "push" =>
    \A e \in Events :
      /\ Places(e) <= 1
      /\ e \in given /\ Places(e) = 0 => e \in lost \/ Shows(e)

(* "edit ... instead of creating a second Chat message": an answer shows   *)
(* in two messages only if an edit was reported failed that had been made, *)
(* or that a redelivered task made later; or if there was no placeholder   *)
(* to edit and a task that was pushed again was answered in other words,   *)
(* under a request id derived from them.                                   *)
NoSecondAnswer ==
  \A e \in Events :
    Cardinality({id \in Ids : posted[id] = e}) > 1 =>
      \/ e \in doubted
      \/ /\ queueKind = "push" /\ taken[e] = "again"
         /\ strategy[e] = "queue_only" /\ e \notin ownIds

(* Whatever fails, an accepted task is done with in the end: answered,     *)
(* unless it died with its worker or with the memory it was in, or no      *)
(* request of a worker that has only one attempt got through.              *)
EveryTaskAnswered ==
  \A e \in Events : e \in given ~> Places(e) = 0 /\ (e \in lost \/ Shows(e))
=============================================================================
