---------------------- MODULE AnswersAndPollingProofs ----------------------
(***************************************************************************)
(* For every set of events and workers, kind of queue, spaces, texts and   *)
(* number of faults, with request ids of the caller or ids derived from    *)
(* space and text, which events may have in common: an answer stands in    *)
(* two messages only if an edit was reported failed or a task pushed again *)
(* was answered in other words, and a queue that hands its tasks over      *)
(* keeps each in one place.  For every page size, way of polling and       *)
(* number of crashes: polling hands a snapshot on once, and once more for  *)
(* every crash.                                                            *)
(***************************************************************************)
EXTENDS AsyncResponse, PollingIngestion, FiniteSetTheorems, TLAPS

(* The functions have their domains; what a queue holds plays no part.     *)
Shape ==
  /\ strategy \in [Events -> {"none", "placeholder_then_queue", "queue_only", "sync_response"}]
  /\ pc \in [Events -> {"start", "post", "enqueue", "responded", "failed", "gone"}]
  /\ working = [w \in Workers |-> working[w]]
  /\ stage = [w \in Workers |-> stage[w]]
  /\ posted = [id \in Ids |-> posted[id]]
  /\ taken \in [Events -> {"never", "once", "again"}]

(* A strategy is chosen once, only then is a placeholder posted, and the   *)
(* fallback follows a failed edit.                                         *)
CauseInv ==
  /\ \A e \in Events :
       /\ pc[e] = "start" => strategy[e] = "none"
       /\ pc[e] = "post" => strategy[e] = "placeholder_then_queue"
  /\ \A w \in Workers :
       working[w] \in Events /\ stage[w] = "fallback" =>
         strategy[working[w]] = "placeholder_then_queue" /\ working[w] \in doubted

(* Who made the message that goes by an id.                                *)
OriginOf(id, e) ==
  id \in IdsOf(e) /\ (strategy[e] = "queue_only" \/ e \in doubted \/ id = PlaceholderId(e))

OriginInv == \A id \in Ids, e \in Events : posted[id] = e => OriginOf(id, e)

Held(e) == \E w \in Workers : working[w] = e

(* What has not been taken up is not answered; what has been taken up once *)
(* is with one worker, and without placeholder it is answered once.        *)
TakenInv ==
  \A e \in Events :
    /\ taken[e] = "never" => ~Held(e) /\ \A id \in Ids : posted[id] # e
    /\ taken[e] = "once" =>
         /\ \A v, w \in Workers : working[v] = e /\ working[w] = e => v = w
         /\ strategy[e] = "queue_only" =>
              /\ \A i, j \in Ids : posted[i] = e /\ posted[j] = e => i = j
              /\ Held(e) => \A id \in Ids : posted[id] # e

AnswerInv == Shape /\ CauseInv /\ OriginInv /\ TakenInv

(* A step keeps the ids an event goes by.                                  *)
IdsKept ==
  /\ ownIds' = ownIds
  /\ \A e \in Events : strategy[e] # "none" => strategy'[e] = strategy[e]

LEMMA IdsOfEvent ==
  ASSUME NEW e \in Events
  PROVE  /\ PlaceholderId(e) \in Ids /\ FallbackId(e) \in Ids /\ IdsOf(e) \subseteq Ids
         /\ \A text \in Answers : AnswerId(e, text) \in Ids
         /\ FallbackId(e) # PlaceholderId(e)
<1>1. \A message \in {"placeholder", "answer"}, text \in DOMAIN SlugOf :
        RequestId(e, message, text) \in Ids /\ <<"fallback", RequestId(e, message, text)>> \in Ids
  <2> DEFINE created ==
        {<<"given", d, message>> : d \in Events, message \in {"placeholder", "answer"}}
          \cup {<<"derived", SpaceOf[d], SlugOf[text]>> : d \in Events, text \in DOMAIN SlugOf}
  <2>1. created \subseteq Ids /\ \A id \in created : <<"fallback", id>> \in Ids BY DEF Ids
  <2> SUFFICES ASSUME NEW message \in {"placeholder", "answer"}, NEW text \in DOMAIN SlugOf
               PROVE  RequestId(e, message, text) \in created
    BY <2>1
  <2>2. /\ <<"given", e, message>> \in created
        /\ <<"derived", SpaceOf[e], SlugOf[text]>> \in created
    OBVIOUS
  <2>3. QED BY <2>2 DEF RequestId
<1>2. /\ PlaceholderId(e) \in Ids /\ FallbackId(e) \in Ids
      /\ \A text \in Answers : AnswerId(e, text) \in Ids
  BY <1>1, AsyncAssumption DEF PlaceholderId, FallbackId, AnswerId
<1>3. IdsOf(e) \subseteq Ids BY <1>2 DEF IdsOf
<1>4. FallbackId(e) # PlaceholderId(e) BY DEF FallbackId, PlaceholderId, RequestId
<1>5. QED BY <1>2, <1>3, <1>4

LEMMA IdsStay ==
  ASSUME IdsKept
  PROVE  \A e \in Events : PlaceholderId(e)' = PlaceholderId(e) /\ IdsOf(e) \subseteq IdsOf(e)'
<1>1. \A e \in Events : \A message, text :
        RequestId(e, message, text)' = RequestId(e, message, text)
  BY DEF IdsKept, RequestId
<1>2. \A e \in Events :
        /\ PlaceholderId(e)' = PlaceholderId(e) /\ FallbackId(e)' = FallbackId(e)
        /\ \A text \in Answers : AnswerId(e, text)' = AnswerId(e, text)
  BY <1>1 DEF PlaceholderId, FallbackId, AnswerId
<1>3. QED BY <1>2 DEF IdsOf, IdsKept

(* Messages are posted under ids that say who posts them.                  *)
LEMMA OriginKeeps ==
  ASSUME OriginInv, IdsKept, doubted \subseteq doubted',
         \A id \in Ids, e \in Events :
           posted'[id] = e => posted[id] = e \/ OriginOf(id, e)
  PROVE  OriginInv'
<1>1. ASSUME NEW id \in Ids, NEW e \in Events, OriginOf(id, e) PROVE OriginOf(id, e)'
  <2>1. strategy'[e] = strategy[e] BY <1>1 DEF OriginOf, IdsOf, IdsKept
  <2>2. QED BY <1>1, <2>1, IdsStay DEF OriginOf
<1>2. QED BY <1>1 DEF OriginInv

(* Nobody takes a task up or answers one that had no placeholder.          *)
LEMMA TakenKeeps ==
  ASSUME OriginInv, TakenInv, IdsKept, taken' = taken,
         \A w \in Workers : working'[w] \in {working[w], NoTask},
         \A id \in Ids, e \in Events :
           posted'[id] = e =>
             posted[id] = e \/ (Held(e) /\ strategy[e] = "placeholder_then_queue")
  PROVE  TakenInv'
<1> SUFFICES ASSUME NEW e \in Events
             PROVE  /\ taken[e] = "never" => ~Held(e)' /\ \A id \in Ids : posted'[id] # e
                    /\ taken[e] = "once" =>
                         /\ \A v, w \in Workers : working'[v] = e /\ working'[w] = e => v = w
                         /\ strategy'[e] = "queue_only" =>
                              /\ \A i, j \in Ids : posted'[i] = e /\ posted'[j] = e => i = j
                              /\ Held(e)' => \A id \in Ids : posted'[id] # e
  BY DEF TakenInv
<1>1. e # NoTask BY AsyncAssumption
<1>2. Held(e)' => Held(e) BY <1>1 DEF Held
<1>3. \A w \in Workers : working'[w] = e => working[w] = e BY <1>1
<1>4. taken[e] = "never" => ~Held(e)' /\ \A id \in Ids : posted'[id] # e
  BY <1>2 DEF TakenInv
<1>5. taken[e] = "once" => \A v, w \in Workers : working'[v] = e /\ working'[w] = e => v = w
  BY <1>3 DEF TakenInv
<1>6. ASSUME strategy'[e] = "queue_only"
      PROVE  strategy[e] = "queue_only" \/ \A id \in Ids : posted[id] # e
  <2>1. CASE strategy[e] = "none"
    <3>1. IdsOf(e) = {} BY <2>1 DEF IdsOf
    <3>2. QED BY <3>1 DEF OriginInv, OriginOf
  <2>2. CASE strategy[e] # "none" BY <1>6, <2>2 DEF IdsKept
  <2>3. QED BY <2>1, <2>2
<1>7. ASSUME strategy'[e] = "queue_only", NEW id \in Ids, posted'[id] = e PROVE posted[id] = e
  BY <1>7 DEF IdsKept
<1>8. ASSUME taken[e] = "once", strategy'[e] = "queue_only"
      PROVE  /\ \A i, j \in Ids : posted'[i] = e /\ posted'[j] = e => i = j
             /\ Held(e)' => \A id \in Ids : posted'[id] # e
  BY <1>2, <1>6, <1>7, <1>8 DEF TakenInv
<1>9. QED BY <1>4, <1>5, <1>8

LEMMA TakeUp ==
  ASSUME AnswerInv, NEW w \in Workers, NEW e, StartWork(w, e), UNCHANGED <<strategy, posted>>
  PROVE  TakenInv'
<1> SUFFICES ASSUME NEW d \in Events
             PROVE  /\ taken'[d] = "never" => ~Held(d)' /\ \A id \in Ids : posted[id] # d
                    /\ taken'[d] = "once" =>
                         /\ \A u, v \in Workers : working'[u] = d /\ working'[v] = d => u = v
                         /\ strategy[d] = "queue_only" =>
                              /\ \A i, j \in Ids : posted[i] = d /\ posted[j] = d => i = j
                              /\ Held(d)' => \A id \in Ids : posted[id] # d
  BY DEF TakenInv
<1>1. /\ working'[w] = e
      /\ \A v \in Workers : v # w => working'[v] = working[v]
  BY DEF StartWork, AnswerInv, Shape
<1>2. CASE d = e
  <2>1. taken'[d] = IF taken[d] = "never" THEN "once" ELSE "again"
    BY <1>2 DEF StartWork, AnswerInv, Shape
  <2>2. ASSUME taken'[d] = "once"
        PROVE  ~Held(d) /\ \A id \in Ids : posted[id] # d
    BY <2>1, <2>2 DEF AnswerInv, TakenInv
  <2>3. taken'[d] # "never" BY <2>1
  <2>4. ASSUME taken'[d] = "once", NEW v \in Workers, working'[v] = d PROVE v = w
    BY <1>1, <2>2, <2>4 DEF Held
  <2>5. QED BY <2>2, <2>3, <2>4
<1>3. CASE d # e
  <2>1. taken'[d] = taken[d] BY <1>3 DEF StartWork, AnswerInv, Shape
  <2>2. \A v \in Workers : working'[v] = d => working[v] = d BY <1>1, <1>3
  <2>3. Held(d)' => Held(d) BY <2>2 DEF Held
  <2>4. QED BY <2>1, <2>2, <2>3 DEF AnswerInv, TakenInv
<1>4. QED BY <1>2, <1>3

(* A worker answers, under one id, a task that had no placeholder.         *)
LEMMA AnswerOnce ==
  ASSUME AnswerInv, NEW w \in Workers, working[w] # NoTask, UNCHANGED <<strategy, taken>>,
         strategy[working[w]] = "queue_only",
         working' = [working EXCEPT ![w] = NoTask],
         NEW id, Created(id, working[w]) \/ UNCHANGED posted
  PROVE  TakenInv'
<1> DEFINE e == working[w]
<1> SUFFICES ASSUME NEW d \in Events
             PROVE  /\ taken[d] = "never" => ~Held(d)' /\ \A i \in Ids : posted'[i] # d
                    /\ taken[d] = "once" =>
                         /\ \A u, v \in Workers : working'[u] = d /\ working'[v] = d => u = v
                         /\ strategy[d] = "queue_only" =>
                              /\ \A i, j \in Ids : posted'[i] = d /\ posted'[j] = d => i = j
                              /\ Held(d)' => \A i \in Ids : posted'[i] # d
  BY DEF TakenInv
<1>1. \A i \in Ids : posted'[i] = posted[i] \/ (i = id /\ posted'[i] = e)
  BY DEF Created, AnswerInv, Shape
<1>2. d # NoTask BY AsyncAssumption
<1>3. /\ working'[w] = NoTask
      /\ \A v \in Workers : v # w => working'[v] = working[v]
  BY DEF AnswerInv, Shape
<1>4. \A v \in Workers : working'[v] = d => working[v] = d /\ v # w BY <1>2, <1>3
<1>5. Held(d)' => Held(d) BY <1>4 DEF Held
<1>6. CASE d # e
  <2>1. \A i \in Ids : posted'[i] = d => posted[i] = d BY <1>1, <1>6
  <2>2. QED BY <1>4, <1>5, <2>1 DEF AnswerInv, TakenInv
<1>7. CASE d = e
  <2>1. Held(d) BY <1>7 DEF Held
  <2>2. taken[d] # "never" BY <2>1 DEF AnswerInv, TakenInv
  <2>3. ASSUME taken[d] = "once"
        PROVE  /\ \A u, v \in Workers : working[u] = d /\ working[v] = d => u = v
               /\ \A i \in Ids : posted[i] # d
    BY <1>7, <2>1, <2>3 DEF AnswerInv, TakenInv
  <2>4. taken[d] = "once" => ~Held(d)' BY <1>4, <1>7, <2>3 DEF Held
  <2>5. taken[d] = "once" => \A u, v \in Workers : ~(working'[u] = d)
    BY <2>4 DEF Held
  <2>6. taken[d] = "once" => \A i, j \in Ids : posted'[i] = d /\ posted'[j] = d => i = j
    BY <1>1, <2>3
  <2>7. QED BY <2>2, <2>4, <2>5, <2>6
<1>8. QED BY <1>6, <1>7

LEMMA AnswerInit == Init => AnswerInv
<1> SUFFICES ASSUME Init PROVE AnswerInv OBVIOUS
<1>1. Shape /\ CauseInv BY DEF Init, Shape, CauseInv
<1>2. \A e \in Events : e # "nothing" /\ e # NoTask BY AsyncAssumption
<1>3. \A id \in Ids : posted[id] = "nothing" BY DEF Init
<1>4. \A e \in Events : ~Held(e) /\ taken[e] = "never" BY <1>2 DEF Init, Held
<1>5. OriginInv BY <1>2, <1>3 DEF OriginInv
<1>6. TakenInv BY <1>2, <1>3, <1>4 DEF TakenInv
<1>7. QED BY <1>1, <1>5, <1>6 DEF AnswerInv

LEMMA AnswerNext == AnswerInv /\ [Next]_vars => AnswerInv'
<1> SUFFICES ASSUME AnswerInv, [Next]_vars PROVE AnswerInv' OBVIOUS
<1> USE DEF AnswerInv
<1>1. ASSUME NEW e \in Events, PlanAsyncResponse(e) PROVE AnswerInv'
  <2>1. /\ UNCHANGED <<ownIds, working, stage, posted, taken, doubted>> /\ pc[e] = "start"
        /\ strategy'[e] \in {"none", "placeholder_then_queue", "queue_only", "sync_response"}
        /\ pc' = [pc EXCEPT ![e] = CASE strategy'[e] = "placeholder_then_queue" -> "post"
                                     [] strategy'[e] = "queue_only" -> "enqueue"
                                     [] OTHER -> "responded"]
        /\ \A d \in Events : d # e => strategy'[d] = strategy[d]
        /\ strategy' \in
             [Events -> {"none", "placeholder_then_queue", "queue_only", "sync_response"}]
    BY <1>1 DEF PlanAsyncResponse, Strategy, Goto, Shape
  <2>2. /\ strategy[e] = "none" /\ pc'[e] # "start"
        /\ pc'[e] = "post" => strategy'[e] = "placeholder_then_queue"
        /\ \A d \in Events : d # e => pc'[d] = pc[d]
        /\ pc' \in [Events -> {"start", "post", "enqueue", "responded", "failed", "gone"}]
    BY <2>1 DEF Shape, CauseInv
  <2>3. Shape' BY <2>1, <2>2 DEF Shape
  <2>4. CauseInv'
    <3>1. \A d \in Events : /\ pc'[d] = "start" => strategy'[d] = "none"
                            /\ pc'[d] = "post" => strategy'[d] = "placeholder_then_queue"
      BY <2>1, <2>2 DEF CauseInv
    <3>2. \A d \in Events :
            strategy[d] = "placeholder_then_queue" => strategy'[d] = strategy[d]
      BY <2>1, <2>2
    <3>3. QED BY <2>1, <3>1, <3>2 DEF CauseInv
  <2>5. IdsKept BY <2>1, <2>2 DEF IdsKept
  <2>6. OriginInv' BY <2>1, <2>5, OriginKeeps
  <2>7. TakenInv' BY <2>1, <2>5, TakenKeeps
  <2>8. QED BY <2>3, <2>4, <2>6, <2>7
<1>2. ASSUME NEW e \in Events, PostPlaceholder(e) PROVE AnswerInv'
  <2>1. /\ UNCHANGED <<ownIds, strategy, working, stage, taken, doubted>>
        /\ pc[e] = "post" /\ (Goto(e, "enqueue") \/ Goto(e, "failed"))
        /\ Created(PlaceholderId(e), "placeholder") \/ UNCHANGED posted
    BY <1>2 DEF PostPlaceholder
  <2>2. Shape' /\ CauseInv' BY <2>1 DEF Shape, CauseInv, Goto, Created
  <2>3. \A d \in Events : d # "placeholder" BY AsyncAssumption
  <2>4. \A id \in Ids :
          posted'[id] = posted[id] \/ (id = PlaceholderId(e) /\ posted'[id] = "placeholder")
    BY <2>1 DEF Created, Shape
  <2>5. IdsKept BY <2>1 DEF IdsKept
  <2>6. OriginInv' BY <2>1, <2>3, <2>4, <2>5, OriginKeeps
  <2>7. TakenInv' BY <2>1, <2>3, <2>4, <2>5, TakenKeeps
  <2>8. QED BY <2>2, <2>6, <2>7
<1>3. ASSUME NEW e \in Events, EnqueueInMemory(e) \/ EnqueueByPush(e) \/ EnqueueInFile(e)
      PROVE  AnswerInv'
  <2>1. /\ UNCHANGED <<ownIds, strategy, working, stage, posted, taken, doubted>>
        /\ Goto(e, "responded") \/ Goto(e, "failed")
    BY <1>3 DEF EnqueueInMemory, EnqueueByPush, EnqueueInFile
  <2>2. Shape' /\ CauseInv' BY <2>1 DEF Shape, CauseInv, Goto
  <2>3. IdsKept BY <2>1 DEF IdsKept
  <2>4. OriginInv' /\ TakenInv' BY <2>1, <2>3, OriginKeeps, TakenKeeps
  <2>5. QED BY <2>2, <2>4
<1>4. ASSUME NEW w \in Workers, Dequeue(w) PROVE AnswerInv'
  <2>1. UNCHANGED <<ownIds, strategy, pc, posted, doubted>>
    BY <1>4 DEF Dequeue, DequeueFromFile, DequeueFromMemory, Pushed
  <2>2. IdsKept /\ OriginInv' BY <2>1, OriginKeeps DEF IdsKept
  <2>3. ASSUME NEW e, StartWork(w, e) PROVE AnswerInv'
    <3>1. Shape' /\ CauseInv' BY <2>1, <2>3 DEF Shape, CauseInv, StartWork
    <3>2. TakenInv' BY <2>1, <2>3, TakeUp
    <3>3. QED BY <2>2, <3>1, <3>2
  <2>4. CASE UNCHANGED <<working, stage, taken>>
    <3>1. Shape' /\ CauseInv' BY <2>1, <2>4 DEF Shape, CauseInv
    <3>2. TakenInv' BY <2>1, <2>2, <2>4, TakenKeeps
    <3>3. QED BY <2>2, <3>1, <3>2
  <2>5. QED BY <1>4, <2>3, <2>4 DEF Dequeue, DequeueFromFile, DequeueFromMemory, Pushed
<1>5. ASSUME NEW w \in Workers, CompletePlaceholder(w) PROVE AnswerInv'
  <2> DEFINE e == working[w]
  <2>1. /\ UNCHANGED <<ownIds, strategy, pc, taken>> /\ doubted \subseteq doubted'
        /\ strategy[e] = "placeholder_then_queue"
        /\ posted' = [posted EXCEPT ![PlaceholderId(e)] = e] \/ UNCHANGED posted
        /\ \/ working' = [working EXCEPT ![w] = NoTask] /\ UNCHANGED stage
           \/ UNCHANGED working /\ stage' = [stage EXCEPT ![w] = "fallback"] /\ e \in doubted'
    BY <1>5 DEF CompletePlaceholder, TaskDone, Finished
  <2>2. Shape' /\ CauseInv' BY <2>1, AsyncAssumption DEF Shape, CauseInv
  <2>3. \A id \in Ids : posted'[id] = posted[id] \/ (id = PlaceholderId(e) /\ posted'[id] = e)
    BY <2>1 DEF Shape
  <2>4. OriginOf(PlaceholderId(e), e) BY <2>1 DEF OriginOf, IdsOf
  <2>5. Held(e) BY DEF Held
  <2>6. IdsKept BY <2>1 DEF IdsKept
  <2>7. \A v \in Workers : working'[v] \in {working[v], NoTask} BY <2>1 DEF Shape
  <2> HIDE DEF e
  <2>8. OriginInv' BY <2>1, <2>3, <2>4, <2>6, OriginKeeps
  <2>9. TakenInv' BY <2>1, <2>3, <2>5, <2>6, <2>7, TakenKeeps
  <2>10. QED BY <2>2, <2>8, <2>9
<1>6. ASSUME NEW w \in Workers, CreateFallback(w) PROVE AnswerInv'
  <2> DEFINE e == working[w]
  <2>1. /\ UNCHANGED <<ownIds, strategy, pc, stage, taken, doubted>> /\ stage[w] = "fallback"
        /\ working' = [working EXCEPT ![w] = NoTask]
        /\ Created(FallbackId(e), e) \/ UNCHANGED posted
    BY <1>6 DEF CreateFallback, CreateFinal, TaskDone, TaskFails, Finished
  <2>2. Shape' /\ CauseInv' BY <2>1, AsyncAssumption DEF Shape, CauseInv, Created
  <2>3. \A id \in Ids : posted'[id] = posted[id] \/ (id = FallbackId(e) /\ posted'[id] = e)
    BY <2>1 DEF Created, Shape
  <2>4. e \in Events => /\ strategy[e] = "placeholder_then_queue"
                        /\ OriginOf(FallbackId(e), e)
    BY <2>1 DEF CauseInv, OriginOf, IdsOf
  <2>5. Held(e) BY DEF Held
  <2>6. IdsKept BY <2>1 DEF IdsKept
  <2>7. \A v \in Workers : working'[v] \in {working[v], NoTask} BY <2>1 DEF Shape
  <2> HIDE DEF e
  <2>8. OriginInv' BY <2>1, <2>3, <2>4, <2>6, OriginKeeps
  <2>9. TakenInv' BY <2>1, <2>3, <2>4, <2>5, <2>6, <2>7, TakenKeeps
  <2>10. QED BY <2>2, <2>8, <2>9
<1>7. ASSUME NEW w \in Workers, CreateAnswer(w) PROVE AnswerInv'
  <2> DEFINE e == working[w]
  <2>1. PICK text \in Answers : CreateFinal(w, AnswerId(e, text)) BY <1>7 DEF CreateAnswer
  <2>2. /\ UNCHANGED <<ownIds, strategy, pc, stage, taken, doubted>>
        /\ e # NoTask /\ strategy[e] = "queue_only"
        /\ working' = [working EXCEPT ![w] = NoTask]
        /\ Created(AnswerId(e, text), e) \/ UNCHANGED posted
    BY <1>7, <2>1 DEF CreateAnswer, CreateFinal, TaskDone, TaskFails, Finished
  <2>3. Shape' /\ CauseInv' BY <2>2, AsyncAssumption DEF Shape, CauseInv, Created
  <2>4. \A id \in Ids : posted'[id] = posted[id] \/ (id = AnswerId(e, text) /\ posted'[id] = e)
    BY <2>2 DEF Created, Shape
  <2>5. OriginOf(AnswerId(e, text), e) BY <2>2 DEF OriginOf, IdsOf
  <2>6. IdsKept BY <2>2 DEF IdsKept
  <2>7. TakenInv' BY <2>2, AnswerOnce
  <2> HIDE DEF e
  <2>8. OriginInv' BY <2>2, <2>4, <2>5, <2>6, OriginKeeps
  <2>9. QED BY <2>3, <2>7, <2>8
<1>8. CASE Crash
  <2>1. /\ UNCHANGED <<ownIds, strategy, posted, taken, doubted>>
        /\ pc' = [e \in Events |-> IF pc[e] \in {"post", "enqueue"} THEN "gone" ELSE pc[e]]
        /\ working' = [w \in Workers |-> NoTask] /\ stage' = [w \in Workers |-> "final"]
    BY <1>8 DEF Crash
  <2>2. Shape' /\ CauseInv' BY <2>1 DEF Shape, CauseInv
  <2>3. IdsKept BY <2>1 DEF IdsKept
  <2>4. OriginInv' /\ TakenInv' BY <2>1, <2>3, OriginKeeps, TakenKeeps
  <2>5. QED BY <2>2, <2>4
<1>9. CASE (\E p \in Processes : LockQueueFile(p)) \/ UNCHANGED vars
  <2>1. UNCHANGED <<ownIds, strategy, pc, working, stage, posted, taken, doubted>>
    BY <1>9 DEF LockQueueFile, vars
  <2>2. Shape' /\ CauseInv' BY <2>1 DEF Shape, CauseInv
  <2>3. IdsKept BY <2>1 DEF IdsKept
  <2>4. OriginInv' /\ TakenInv' BY <2>1, <2>3, OriginKeeps, TakenKeeps
  <2>5. QED BY <2>2, <2>4
<1>10. QED BY <1>1, <1>2, <1>3, <1>4, <1>5, <1>6, <1>7, <1>8, <1>9 DEF Next, Handler, Answer
-----------------------------------------------------------------------------
(* A queue that hands its tasks over.                                      *)
Queued(e) == \E i \in DOMAIN tasks : tasks[i] = e

QueueShape ==
  /\ queueKind \in {"memory", "file"}
  /\ tasks \in Seq(Events) /\ readTasks \in [Processes -> Seq(Events)]
  /\ working \in [Workers -> Events \cup {NoTask}]
  /\ given \subseteq Events /\ holders \subseteq Processes

(* What the one holder of the lock has read is what is there, and what it  *)
(* came for is still to be done.                                           *)
LockInv ==
  /\ queueKind # "file" => holders = {}
  /\ \A p, q \in holders : p = q
  /\ \A p \in holders : readTasks[p] = tasks /\ Wants(p)

(* A task is accepted once, by the last step of its handler, and taken up  *)
(* once.                                                                   *)
PlaceInv ==
  /\ \A i, j \in DOMAIN tasks : tasks[i] = tasks[j] => i = j
  /\ \A v, w \in Workers : working[v] = working[w] /\ working[v] # NoTask => v = w
  /\ \A i \in DOMAIN tasks : tasks[i] \in given /\ \A w \in Workers : working[w] # tasks[i]
  /\ \A w \in Workers : working[w] \in given \cup {NoTask}
  /\ \A e \in given : pc[e] = "responded"
  /\ \A i \in DOMAIN tasks : taken[tasks[i]] = "never"
  /\ \A e \in Events : taken[e] # "again" /\ (e \notin given => taken[e] = "never")

(* A placeholder is that of an event, of several perhaps.                  *)
IsPlaceholderId(id) ==
  \E e \in Events : strategy[e] = "placeholder_then_queue" /\ id = PlaceholderId(e)

PostedInv ==
  \A id \in Ids : \/ posted[id] \in {"nothing"} \cup Events
                  \/ posted[id] = "placeholder" /\ IsPlaceholderId(id)

(* An accepted task is somewhere, lost or answered.                        *)
KeptInv == \A e \in given : Queued(e) \/ Held(e) \/ e \in lost \/ Shows(e)

HandedInv == QueueShape /\ LockInv /\ PlaceInv /\ PostedInv /\ KeptInv

HeldInv == AnswerInv /\ (queueKind # "push" => HandedInv)

LEMMA AppendIsLast ==
  ASSUME NEW S, NEW s \in Seq(S), NEW x \in S
  PROVE  /\ Append(s, x) \in Seq(S)
         /\ DOMAIN Append(s, x) = DOMAIN s \cup {Len(s) + 1}
         /\ Append(s, x)[Len(s) + 1] = x /\ Len(s) + 1 \notin DOMAIN s
         /\ \A i \in DOMAIN s : Append(s, x)[i] = s[i]
<1>1. /\ Append(s, x) \in Seq(S) /\ Len(Append(s, x)) = Len(s) + 1
      /\ Append(s, x)[Len(s) + 1] = x
      /\ \A i \in 1..Len(s) : Append(s, x)[i] = s[i]
  OBVIOUS
<1>2. /\ DOMAIN s = 1..Len(s) /\ DOMAIN Append(s, x) = 1..(Len(s) + 1)
      /\ Len(s) \in Nat
  BY <1>1
<1>3. QED BY <1>1, <1>2

LEMMA TailIsRest ==
  ASSUME NEW S, NEW s \in Seq(S), s # <<>>
  PROVE  /\ Tail(s) \in Seq(S) /\ Head(s) \in S /\ 1 \in DOMAIN s /\ Head(s) = s[1]
         /\ \A i \in DOMAIN Tail(s) : i + 1 \in DOMAIN s \ {1} /\ Tail(s)[i] = s[i + 1]
         /\ \A i \in DOMAIN s \ {1} : i - 1 \in DOMAIN Tail(s) /\ Tail(s)[i - 1] = s[i]
<1>1. /\ Tail(s) \in Seq(S) /\ Head(s) \in S /\ Head(s) = s[1] /\ Len(s) \in Nat \ {0}
      /\ Len(Tail(s)) = Len(s) - 1
      /\ \A i \in 1..(Len(s) - 1) : Tail(s)[i] = s[i + 1]
  OBVIOUS
<1>2. DOMAIN s = 1..Len(s) /\ DOMAIN Tail(s) = 1..(Len(s) - 1) BY <1>1
<1>3. \A i \in 2..Len(s) : i - 1 \in 1..(Len(s) - 1) /\ (i - 1) + 1 = i BY <1>1
<1>4. QED BY <1>1, <1>2, <1>3

(* A handler puts its task at the end of the queue.                        *)
LEMMA AppendKeeps ==
  ASSUME HandedInv, Shape, NEW e \in Events, pc[e] = "enqueue", tasks' = Append(tasks, e),
         given' = given \cup {e}, Goto(e, "responded"), UNCHANGED <<working, taken, lost>>,
         \A d \in Events : Shows(d) => Shows(d)'
  PROVE  tasks' \in Seq(Events) /\ given' \subseteq Events /\ PlaceInv' /\ KeptInv'
<1> DEFINE last == Len(tasks) + 1
<1>1. /\ tasks' \in Seq(Events) /\ DOMAIN tasks' = DOMAIN tasks \cup {last}
      /\ tasks'[last] = e /\ last \notin DOMAIN tasks
      /\ \A i \in DOMAIN tasks : tasks'[i] = tasks[i]
  BY AppendIsLast DEF HandedInv, QueueShape
<1> HIDE DEF last
<1>2. /\ e \notin given /\ e # NoTask /\ given' \subseteq Events
      /\ \A d \in given' : pc'[d] = "responded"
  BY AsyncAssumption DEF HandedInv, PlaceInv, QueueShape, Shape, Goto
<1>3. PlaceInv' BY <1>1, <1>2 DEF HandedInv, PlaceInv
<1>4. \A d \in given' : Queued(d)' \/ Held(d)' \/ d \in lost' \/ Shows(d)'
  <2>1. Queued(e)' BY <1>1 DEF Queued
  <2>2. ASSUME NEW d \in given PROVE Queued(d)' \/ Held(d)' \/ d \in lost' \/ Shows(d)'
    <3>1. Queued(d) => Queued(d)' BY <1>1 DEF Queued
    <3>2. (Held(d) => Held(d)') /\ (Shows(d) => Shows(d)')
      BY DEF Held, HandedInv, QueueShape
    <3>3. QED BY <3>1, <3>2 DEF HandedInv, KeptInv
  <2>3. QED BY <2>1, <2>2
<1>5. KeptInv' BY <1>4 DEF KeptInv
<1>6. QED BY <1>1, <1>2, <1>3, <1>5

(* A worker takes the first task.                                          *)
LEMMA TakeKeeps ==
  ASSUME HandedInv, Shape, NEW w \in Workers, working[w] = NoTask, tasks # <<>>,
         tasks' = Tail(tasks), StartWork(w, Head(tasks)), UNCHANGED <<pc, given, lost>>,
         \A d \in Events : Shows(d) => Shows(d)'
  PROVE  /\ tasks' \in Seq(Events) /\ working' \in [Workers -> Events \cup {NoTask}]
         /\ PlaceInv' /\ KeptInv'
<1> DEFINE e == Head(tasks)
<1>1. /\ tasks' \in Seq(Events) /\ e \in Events /\ 1 \in DOMAIN tasks /\ e = tasks[1]
      /\ \A i \in DOMAIN tasks' : i + 1 \in DOMAIN tasks \ {1} /\ tasks'[i] = tasks[i + 1]
      /\ \A i \in DOMAIN tasks \ {1} : i - 1 \in DOMAIN tasks' /\ tasks'[i - 1] = tasks[i]
  BY TailIsRest DEF HandedInv, QueueShape
<1>2. /\ working' \in [Workers -> Events \cup {NoTask}] /\ working'[w] = e
      /\ \A v \in Workers : v # w => working'[v] = working[v]
  BY <1>1 DEF HandedInv, QueueShape, StartWork
<1>3. DOMAIN tasks \subseteq Int /\ DOMAIN tasks' \subseteq Int
  BY <1>1 DEF HandedInv, QueueShape
<1> HIDE DEF e
<1>4. PlaceInv'
  <2>1. \A i, j \in DOMAIN tasks' : tasks'[i] = tasks'[j] => i = j
    BY <1>1, <1>3 DEF HandedInv, PlaceInv
  <2>2. \A i \in DOMAIN tasks' : tasks'[i] \in given /\ tasks'[i] # e
    BY <1>1 DEF HandedInv, PlaceInv
  <2>3. \A i \in DOMAIN tasks', v \in Workers : working[v] # tasks'[i]
    BY <1>1 DEF HandedInv, PlaceInv
  <2>4. \A v \in Workers : working[v] # e /\ e \in given
    BY <1>1 DEF HandedInv, PlaceInv
  <2>5. taken'[e] = "once" /\ \A d \in Events : d # e => taken'[d] = taken[d]
    BY <1>1 DEF StartWork, Shape, HandedInv, PlaceInv, e
  <2>6. /\ \A i \in DOMAIN tasks' : taken'[tasks'[i]] = "never"
        /\ \A d \in Events : taken'[d] # "again" /\ (d \notin given => taken'[d] = "never")
    <3>1. \A i \in DOMAIN tasks' : tasks'[i] \in Events /\ taken[tasks'[i]] = "never"
      BY <1>1, <2>2 DEF HandedInv, QueueShape, PlaceInv
    <3>2. QED BY <2>2, <2>4, <2>5, <3>1 DEF HandedInv, PlaceInv
  <2>7. QED BY <1>2, <2>1, <2>2, <2>3, <2>4, <2>6 DEF HandedInv, PlaceInv
<1>5. ASSUME NEW d \in given PROVE Queued(d)' \/ Held(d)' \/ d \in lost' \/ Shows(d)'
  <2>1. Queued(d) => Queued(d)' \/ Held(d)'
    <3>1. ASSUME NEW i \in DOMAIN tasks, tasks[i] = d PROVE Queued(d)' \/ Held(d)'
      <4>1. CASE i = 1 BY <1>1, <1>2, <3>1, <4>1 DEF Held
      <4>2. CASE i # 1
        <5>1. i - 1 \in DOMAIN tasks' /\ tasks'[i - 1] = d BY <1>1, <3>1, <4>2
        <5>2. QED BY <5>1 DEF Queued
      <4>3. QED BY <4>1, <4>2
    <3>2. QED BY <3>1 DEF Queued
  <2>2. (Held(d) => Held(d)') /\ (Shows(d) => Shows(d)')
    <3>1. d # NoTask BY AsyncAssumption DEF HandedInv, QueueShape
    <3>2. Held(d) => Held(d)' BY <1>2, <3>1 DEF Held
    <3>3. Shows(d) => Shows(d)' BY DEF HandedInv, QueueShape
    <3>4. QED BY <3>2, <3>3
  <2>3. QED BY <2>1, <2>2 DEF HandedInv, KeptInv
<1>6. KeptInv' BY <1>5 DEF KeptInv
<1>7. QED BY <1>1, <1>2, <1>4, <1>6

(* What an event posts under one of its ids leaves the answers that are    *)
(* shown.                                                                  *)
LEMMA PostKeeps ==
  ASSUME IdsKept, NEW e,
         \A id \in Ids :
           \/ posted'[id] = posted[id]
           \/ posted[id] = "nothing"
           \/ e \in Events /\ id \in IdsOf(e) /\ posted'[id] = e
  PROVE  \A d \in Events : Shows(d) => Shows(d)'
<1> SUFFICES ASSUME NEW d \in Events, Shows(d) PROVE Shows(d)' OBVIOUS
<1>1. PICK id \in IdsOf(d) : \/ posted[id] = d
                             \/ /\ posted[id] # "nothing"
                                /\ \E c \in Events \ {d} : id \in IdsOf(c)
  BY DEF Shows
<1>2. d # "nothing" /\ (e \in Events => e # "nothing") BY AsyncAssumption
<1>3. id \in Ids /\ posted[id] # "nothing" BY <1>1, <1>2, IdsOfEvent
<1>4. \/ posted'[id] = d
      \/ posted'[id] # "nothing" /\ \E c \in Events \ {d} : id \in IdsOf(c)
  BY <1>1, <1>2, <1>3
<1>5. \A c \in Events : IdsOf(c) \subseteq IdsOf(c)' BY IdsStay
<1>6. QED BY <1>1, <1>4, <1>5 DEF Shows

LEMMA NothingPosted ==
  ASSUME UNCHANGED <<ownIds, strategy, posted>>
  PROVE  IdsKept /\ \A d \in Events : Shows(d) => Shows(d)'
<1>1. IdsKept BY DEF IdsKept
<1>2. \A d \in Events : Shows(d) => Shows(d)' BY <1>1, PostKeeps
<1>3. QED BY <1>1, <1>2

LEMMA PlaceholderKeeps ==
  ASSUME PostedInv, IdsKept,
         \A id \in Ids : \/ posted'[id] = posted[id] \/ posted'[id] \in Events
                         \/ posted'[id] = "placeholder" /\ IsPlaceholderId(id)
  PROVE  PostedInv'
<1>1. \A id : IsPlaceholderId(id) => IsPlaceholderId(id)'
  BY IdsStay DEF IsPlaceholderId, IdsKept
<1>2. QED BY <1>1 DEF PostedInv

(* An answer created under an id of its event is shown, unless there is    *)
(* the message of another event already.                                   *)
LEMMA AnswerIsShown ==
  ASSUME Shape, OriginInv, PostedInv, UNCHANGED <<ownIds, strategy>>,
         NEW e \in Events, NEW id \in IdsOf(e), Created(id, e),
         strategy[e] = "queue_only" \/ id # PlaceholderId(e)
  PROVE  Shows(e)'
<1>1. id \in Ids BY IdsOfEvent
<1>2. id \in IdsOf(e)' /\ \A d \in Events : IdsOf(d) \subseteq IdsOf(d)'
  BY IdsStay DEF IdsKept
<1>3. CASE posted[id] = "nothing"
  <2>1. posted'[id] = e BY <1>1, <1>3 DEF Created, Shape
  <2>2. QED BY <1>2, <2>1 DEF Shows
<1>4. CASE posted[id] = "placeholder"
  <2>1. PICK d \in Events : strategy[d] = "placeholder_then_queue" /\ id = PlaceholderId(d)
    BY <1>1, <1>4, AsyncAssumption DEF PostedInv, IsPlaceholderId
  <2>2. d # e BY <2>1
  <2>3. id \in IdsOf(d) BY <2>1 DEF IdsOf
  <2>4. posted'[id] # "nothing" BY <1>4 DEF Created
  <2>5. QED BY <1>2, <2>2, <2>3, <2>4 DEF Shows
<1>5. ASSUME NEW d \in Events, posted[id] = d PROVE Shows(e)'
  <2>1. id \in IdsOf(d) BY <1>1, <1>5 DEF OriginInv, OriginOf
  <2>2. d # "nothing" BY AsyncAssumption
  <2>3. posted'[id] = d BY <1>5, <2>2 DEF Created
  <2>4. QED BY <1>2, <2>1, <2>2, <2>3 DEF Shows
<1>6. posted[id] \in {"nothing", "placeholder"} \cup Events BY <1>1 DEF PostedInv
<1>7. QED BY <1>3, <1>4, <1>5, <1>6

(* A worker is done with its task.                                         *)
LEMMA ReleaseKeeps ==
  ASSUME HandedInv, NEW w \in Workers, NEW e \in Events, working[w] = e,
         working' = [working EXCEPT ![w] = NoTask], UNCHANGED <<tasks, given, taken, pc>>,
         lost \subseteq lost', \A d \in Events : Shows(d) => Shows(d)',
         e \in lost' \/ Shows(e)'
  PROVE  working' \in [Workers -> Events \cup {NoTask}] /\ PlaceInv' /\ KeptInv'
<1>1. /\ working' \in [Workers -> Events \cup {NoTask}] /\ working'[w] = NoTask
      /\ \A v \in Workers : v # w => working'[v] = working[v]
      /\ given \subseteq Events /\ NoTask \notin Events
  BY AsyncAssumption DEF HandedInv, QueueShape
<1>2. PlaceInv' BY <1>1 DEF HandedInv, PlaceInv
<1>3. ASSUME NEW d \in given PROVE Queued(d)' \/ Held(d)' \/ d \in lost' \/ Shows(d)'
  <2>1. Queued(d) => Queued(d)' BY DEF Queued
  <2>2. Held(d) => Held(d)' \/ d = e BY <1>1 DEF Held
  <2>3. d \in Events /\ (Shows(d) => Shows(d)') BY <1>1
  <2>4. QED BY <2>1, <2>2, <2>3 DEF HandedInv, KeptInv
<1>4. KeptInv' BY <1>3 DEF KeptInv
<1>5. QED BY <1>1, <1>2, <1>4
(* The queue, the workers and what is accepted stay as they are.           *)
LEMMA NothingMoves ==
  ASSUME HandedInv, UNCHANGED <<tasks, working, given, lost>>,
         \A d \in Events : Shows(d) => Shows(d)'
  PROVE  KeptInv'
BY DEF HandedInv, QueueShape, KeptInv, Queued, Held

(* A handler that has not accepted anything goes on.                       *)
LEMMA HandlerMoves ==
  ASSUME HandedInv, NEW e \in Events, pc[e] \notin {"enqueue", "responded"},
         \A d \in Events : d # e => pc'[d] = pc[d],
         UNCHANGED <<queueKind, tasks, holders, readTasks, working, taken, given, lost>>,
         PostedInv', \A d \in Events : Shows(d) => Shows(d)'
  PROVE  HandedInv'
<1>1. QueueShape' BY DEF HandedInv, QueueShape
<1>2. LockInv' BY AsyncAssumption DEF HandedInv, LockInv, Wants
<1>3. PlaceInv' BY DEF HandedInv, QueueShape, PlaceInv
<1>4. KeptInv' BY NothingMoves
<1>5. QED BY <1>1, <1>2, <1>3, <1>4 DEF HandedInv

LEMMA EnqueueKeeps ==
  ASSUME HandedInv, Shape, queueKind # "push", NEW e \in Events,
         EnqueueInMemory(e) \/ EnqueueByPush(e) \/ EnqueueInFile(e)
  PROVE  HandedInv'
<1>1. CASE EnqueueInMemory(e)
  <2>1. /\ pc[e] = "enqueue" /\ tasks' = Append(tasks, e) /\ given' = given \cup {e}
        /\ Goto(e, "responded") /\ queueKind # "file"
        /\ UNCHANGED <<queueKind, ownIds, strategy, holders, readTasks, working, taken, lost>>
        /\ UNCHANGED posted
    BY <1>1 DEF EnqueueInMemory, Accepted
  <2>2. tasks' \in Seq(Events) /\ given' \subseteq Events /\ PlaceInv' /\ KeptInv'
    BY <2>1, NothingPosted, AppendKeeps
  <2>3. QueueShape' /\ LockInv' BY <2>1, <2>2 DEF HandedInv, QueueShape, LockInv
  <2>4. QED BY <2>1, <2>2, <2>3, NothingPosted, PlaceholderKeeps DEF HandedInv
<1>2. CASE EnqueueInFile(e)
  <2>1. /\ e \in holders /\ pc[e] = "enqueue" /\ readTasks[e] = tasks /\ holders' = {}
        /\ readTasks' = [readTasks EXCEPT ![e] = <<>>]
        /\ UNCHANGED <<queueKind, ownIds, strategy, working, posted, taken, lost>>
    BY <1>2, AsyncAssumption DEF EnqueueInFile, Unlock, HandedInv, LockInv, Wants
  <2>2. LockInv' BY <2>1 DEF LockInv
  <2>3. readTasks' \in [Processes -> Seq(Events)] BY <2>1 DEF HandedInv, QueueShape
  <2>4. CASE tasks' = Append(tasks, e) /\ given' = given \cup {e} /\ Goto(e, "responded")
    <3>1. tasks' \in Seq(Events) /\ given' \subseteq Events /\ PlaceInv' /\ KeptInv'
      BY <2>1, <2>4, NothingPosted, AppendKeeps
    <3>2. QueueShape' BY <2>1, <2>3, <3>1 DEF HandedInv, QueueShape
    <3>3. QED BY <2>1, <2>2, <3>1, <3>2, NothingPosted, PlaceholderKeeps DEF HandedInv
  <2>5. CASE Goto(e, "failed") /\ UNCHANGED <<tasks, given>>
    <3>1. QueueShape' BY <2>1, <2>3, <2>5 DEF HandedInv, QueueShape
    <3>2. PlaceInv' BY <2>1, <2>5 DEF HandedInv, QueueShape, PlaceInv, Goto, Shape
    <3>3. KeptInv' BY <2>1, <2>5, NothingPosted, NothingMoves
    <3>4. QED BY <2>1, <2>2, <3>1, <3>2, <3>3, NothingPosted, PlaceholderKeeps DEF HandedInv
  <2>6. QED BY <1>2, <2>1, <2>4, <2>5 DEF EnqueueInFile
<1>3. QED BY <1>1, <1>2 DEF EnqueueByPush

LEMMA DequeueKeeps ==
  ASSUME HandedInv, Shape, queueKind # "push", NEW w \in Workers, Dequeue(w)
  PROVE  HandedInv'
<1>1. CASE DequeueFromMemory(w)
  <2>1. /\ working[w] = NoTask /\ tasks # <<>> /\ tasks' = Tail(tasks) /\ queueKind # "file"
        /\ StartWork(w, Head(tasks))
        /\ UNCHANGED <<queueKind, ownIds, strategy, pc, holders, readTasks, given, posted, lost>>
    BY <1>1 DEF DequeueFromMemory
  <2>2. /\ tasks' \in Seq(Events) /\ working' \in [Workers -> Events \cup {NoTask}]
        /\ PlaceInv' /\ KeptInv'
    BY <2>1, NothingPosted, TakeKeeps
  <2>3. QueueShape' /\ LockInv' BY <2>1, <2>2 DEF HandedInv, QueueShape, LockInv
  <2>4. QED BY <2>1, <2>2, <2>3, NothingPosted, PlaceholderKeeps DEF HandedInv
<1>2. CASE DequeueFromFile(w)
  <2>1. /\ w \in holders /\ working[w] = NoTask /\ tasks # <<>> /\ readTasks[w] = tasks
        /\ holders' = {} /\ readTasks' = [readTasks EXCEPT ![w] = <<>>]
        /\ UNCHANGED <<queueKind, ownIds, strategy, pc, given, posted, lost>>
    BY <1>2, AsyncAssumption DEF DequeueFromFile, Unlock, HandedInv, LockInv, Wants
  <2>2. LockInv' BY <2>1 DEF LockInv
  <2>3. readTasks' \in [Processes -> Seq(Events)] BY <2>1 DEF HandedInv, QueueShape
  <2>4. CASE tasks' = Tail(tasks) /\ StartWork(w, Head(tasks))
    <3>1. /\ tasks' \in Seq(Events) /\ working' \in [Workers -> Events \cup {NoTask}]
          /\ PlaceInv' /\ KeptInv'
      BY <2>1, <2>4, NothingPosted, TakeKeeps
    <3>2. QueueShape' BY <2>1, <2>3, <3>1 DEF HandedInv, QueueShape
    <3>3. QED BY <2>1, <2>2, <3>1, <3>2, NothingPosted, PlaceholderKeeps DEF HandedInv
  <2>5. CASE UNCHANGED <<tasks, working, taken>>
    <3>1. QueueShape' BY <2>1, <2>3, <2>5 DEF HandedInv, QueueShape
    <3>2. PlaceInv' BY <2>1, <2>5 DEF HandedInv, PlaceInv
    <3>3. KeptInv' BY <2>1, <2>5, NothingPosted, NothingMoves
    <3>4. QED BY <2>1, <2>2, <3>1, <3>2, <3>3, NothingPosted, PlaceholderKeeps DEF HandedInv
  <2>6. QED BY <1>2, <2>1, <2>4, <2>5 DEF DequeueFromFile
<1>3. QED BY <1>1, <1>2 DEF Dequeue, Pushed

LEMMA WorkerKeeps ==
  ASSUME HandedInv, AnswerInv, queueKind # "push", NEW w \in Workers, Answer(w)
  PROVE  HandedInv'
<1> DEFINE e == working[w]
<1>1. /\ e # NoTask /\ e \in Events
      /\ UNCHANGED <<queueKind, pc, tasks, holders, readTasks, given, taken>>
      /\ UNCHANGED <<ownIds, strategy>> /\ lost \subseteq lost'
      /\ working' = [working EXCEPT ![w] = NoTask] \/ (UNCHANGED working /\ UNCHANGED lost)
  BY DEF Answer, CompletePlaceholder, CreateFallback, CreateAnswer, CreateFinal,
         TaskDone, TaskFails, Finished, HandedInv, QueueShape
<1>2. \E id \in IdsOf(e) :
        /\ \/ UNCHANGED posted \/ Created(id, e)
           \/ posted' = [posted EXCEPT ![id] = e]
        /\ \/ UNCHANGED working \/ e \in lost'
           \/ Created(id, e) /\ (strategy[e] = "queue_only" \/ id # PlaceholderId(e))
           \/ posted' = [posted EXCEPT ![id] = e]
  <2>1. CASE CompletePlaceholder(w)
    <3>1. PlaceholderId(e) \in IdsOf(e) BY <2>1 DEF CompletePlaceholder, IdsOf
    <3>2. /\ UNCHANGED posted \/ posted' = [posted EXCEPT ![PlaceholderId(e)] = e]
          /\ UNCHANGED working \/ posted' = [posted EXCEPT ![PlaceholderId(e)] = e]
      BY <2>1 DEF CompletePlaceholder, TaskDone
    <3>3. QED BY <3>1, <3>2
  <2>2. ASSUME NEW id \in IdsOf(e), CreateFinal(w, id),
               strategy[e] = "queue_only" \/ id # PlaceholderId(e)
        PROVE  /\ UNCHANGED posted \/ Created(id, e)
               /\ e \in lost' \/ Created(id, e)
    BY <2>2 DEF CreateFinal, TaskDone, TaskFails, HandedInv, QueueShape
  <2>3. CASE CreateFallback(w)
    <3>1. FallbackId(e) \in IdsOf(e) /\ FallbackId(e) # PlaceholderId(e)
      BY <1>1, <2>3, IdsOfEvent DEF CreateFallback, AnswerInv, CauseInv, IdsOf
    <3>2. QED BY <2>2, <2>3, <3>1 DEF CreateFallback
  <2>4. CASE CreateAnswer(w)
    <3>1. PICK text \in Answers : CreateFinal(w, AnswerId(e, text)) BY <2>4 DEF CreateAnswer
    <3>2. AnswerId(e, text) \in IdsOf(e) /\ strategy[e] = "queue_only"
      BY <2>4 DEF CreateAnswer, IdsOf
    <3>3. QED BY <2>2, <3>1, <3>2
  <2>5. QED BY <2>1, <2>3, <2>4 DEF Answer
<1>3. IdsKept BY <1>1 DEF IdsKept
<1>4. \A i \in Ids : \/ posted'[i] = posted[i]
                     \/ i \in IdsOf(e) /\ posted'[i] = e
  BY <1>2 DEF Created, AnswerInv, Shape
<1> HIDE DEF e
<1>5. PostedInv' BY <1>1, <1>3, <1>4, PlaceholderKeeps DEF HandedInv
<1>6. \A d \in Events : Shows(d) => Shows(d)' BY <1>1, <1>3, <1>4, PostKeeps
<1>7. LockInv'
  BY <1>1, AsyncAssumption DEF HandedInv, QueueShape, LockInv, Wants, e
<1>8. CASE UNCHANGED working /\ UNCHANGED lost
  <2>1. QueueShape' /\ PlaceInv' BY <1>1, <1>8 DEF HandedInv, QueueShape, PlaceInv
  <2>2. KeptInv' BY <1>1, <1>6, <1>8, NothingMoves
  <2>3. QED BY <1>5, <1>7, <2>1, <2>2 DEF HandedInv
<1>9. CASE working' = [working EXCEPT ![w] = NoTask]
  <2>1. working' # working BY <1>1, <1>9 DEF HandedInv, QueueShape, e
  <2>2. PICK d \in Events : d = e BY <1>1
  <2>3. d \in lost' \/ Shows(d)'
    <3>1. PICK id \in IdsOf(d) :
            \/ d \in lost'
            \/ Created(id, d) /\ (strategy[d] = "queue_only" \/ id # PlaceholderId(d))
            \/ posted' = [posted EXCEPT ![id] = d]
      BY <1>2, <2>1, <2>2
    <3>2. CASE Created(id, d) /\ (strategy[d] = "queue_only" \/ id # PlaceholderId(d))
      BY <1>1, <3>2, AnswerIsShown DEF HandedInv, AnswerInv
    <3>3. CASE posted' = [posted EXCEPT ![id] = d]
      <4>1. id \in Ids /\ id \in IdsOf(d)' BY <1>3, IdsOfEvent, IdsStay
      <4>2. posted'[id] = d BY <3>3, <4>1 DEF AnswerInv, Shape
      <4>3. QED BY <4>1, <4>2 DEF Shows
    <3>4. QED BY <3>1, <3>2, <3>3
  <2>4. working' \in [Workers -> Events \cup {NoTask}] /\ PlaceInv' /\ KeptInv'
    <3>1. d = working[w] BY <2>2 DEF e
    <3>2. QED BY <1>1, <1>6, <1>9, <2>3, <3>1, ReleaseKeeps
  <2>5. QueueShape' BY <1>1, <2>4 DEF HandedInv, QueueShape
  <2>6. QED BY <1>5, <1>7, <2>4, <2>5 DEF HandedInv
<1>10. QED BY <1>1, <1>8, <1>9

(* What was in memory or in the hands of a worker is lost, the file stays. *)
LEMMA CrashKeeps ==
  ASSUME HandedInv, Shape, queueKind # "push", Crash
  PROVE  HandedInv'
<1>1. /\ pc' = [e \in Events |-> IF pc[e] \in {"post", "enqueue"} THEN "gone" ELSE pc[e]]
      /\ working' = [w \in Workers |-> NoTask] /\ holders' = {}
      /\ readTasks' = [p \in Processes |-> <<>>]
      /\ UNCHANGED <<queueKind, ownIds, strategy, posted, given, taken>>
      /\ <<>> \in Seq(Events)
  BY DEF Crash
<1>2. \/ tasks' = <<>> /\ lost' = lost \cup (InHand \cup ToSet(tasks))
      \/ tasks' = tasks /\ lost' = lost \cup InHand
  <2>1. CASE queueKind = "memory" BY <2>1 DEF Crash
  <2>2. CASE queueKind = "file" BY <2>2 DEF Crash
  <2>3. QED BY <2>1, <2>2 DEF HandedInv, QueueShape
<1>3. QueueShape' /\ LockInv' BY <1>1, <1>2 DEF HandedInv, QueueShape, LockInv
<1>4. PlaceInv'
  <2>1. \A d \in given : pc'[d] = "responded" BY <1>1 DEF HandedInv, PlaceInv, QueueShape
  <2>2. DOMAIN tasks' = {} \/ tasks' = tasks BY <1>2
  <2>3. \A i \in DOMAIN tasks : tasks[i] # NoTask
    BY AsyncAssumption DEF HandedInv, QueueShape
  <2>4. QED BY <1>1, <2>1, <2>2, <2>3 DEF HandedInv, PlaceInv
<1>5. ASSUME NEW d \in given PROVE Queued(d)' \/ Held(d)' \/ d \in lost' \/ Shows(d)'
  <2>1. Held(d) => d \in lost'
    BY <1>2, AsyncAssumption DEF Held, InHand, HandedInv, QueueShape
  <2>2. Queued(d) => Queued(d)' \/ d \in lost' BY <1>2 DEF Queued, ToSet
  <2>3. d \in Events /\ lost \subseteq lost' BY <1>2 DEF HandedInv, QueueShape
  <2>4. Shows(d) => Shows(d)' BY <1>1, <2>3, NothingPosted
  <2>5. QED BY <2>1, <2>2, <2>3, <2>4 DEF HandedInv, KeptInv
<1>6. KeptInv' BY <1>1, <1>5 DEF KeptInv
<1>7. QED BY <1>1, <1>3, <1>4, <1>6, NothingPosted, PlaceholderKeeps DEF HandedInv

LEMMA HeldInit == Init => HeldInv
<1> SUFFICES ASSUME Init, queueKind # "push" PROVE HandedInv
  BY AnswerInit DEF HeldInv
<1>1. QueueShape BY AsyncAssumption DEF Init, QueueShape
<1>2. LockInv /\ PlaceInv BY DEF Init, LockInv, PlaceInv
<1>3. PostedInv BY DEF Init, PostedInv
<1>4. KeptInv BY DEF Init, KeptInv
<1>5. QED BY <1>1, <1>2, <1>3, <1>4 DEF HandedInv

LEMMA HeldNext == HeldInv /\ [Next]_vars => HeldInv'
<1> SUFFICES ASSUME HeldInv, [Next]_vars PROVE HeldInv' OBVIOUS
<1>1. AnswerInv' BY AnswerNext DEF HeldInv
<1>2. queueKind' = queueKind
  BY DEF Next, Handler, Dequeue, Answer, PlanAsyncResponse, PostPlaceholder, EnqueueInMemory,
         EnqueueByPush, EnqueueInFile, LockQueueFile, DequeueFromFile, DequeueFromMemory, Pushed,
         CompletePlaceholder, CreateFallback, CreateAnswer, CreateFinal, Crash, vars
<1> SUFFICES ASSUME queueKind # "push" PROVE HandedInv'
  BY <1>1, <1>2 DEF HeldInv
<1>3. HandedInv /\ AnswerInv /\ Shape BY DEF HeldInv, AnswerInv
<1>4. ASSUME NEW e \in Events, PlanAsyncResponse(e) PROVE HandedInv'
  <2>1. /\ pc[e] = "start" /\ \A d \in Events : d # e => pc'[d] = pc[d]
        /\ UNCHANGED <<queueKind, tasks, holders, readTasks, working, taken, given, lost>>
        /\ UNCHANGED <<ownIds, posted>>
        /\ \A d \in Events : d # e => strategy'[d] = strategy[d]
    BY <1>3, <1>4 DEF PlanAsyncResponse, Goto, Shape
  <2>2. IdsKept BY <1>3, <2>1 DEF IdsKept, AnswerInv, CauseInv
  <2>3. PostedInv' BY <1>3, <2>1, <2>2, PlaceholderKeeps DEF HandedInv
  <2>4. \A d \in Events : Shows(d) => Shows(d)' BY <2>1, <2>2, PostKeeps
  <2>5. QED BY <1>3, <2>1, <2>3, <2>4, HandlerMoves
<1>5. ASSUME NEW e \in Events, PostPlaceholder(e) PROVE HandedInv'
  <2>1. /\ pc[e] = "post" /\ \A d \in Events : d # e => pc'[d] = pc[d]
        /\ UNCHANGED <<queueKind, tasks, holders, readTasks, working, taken, given, lost>>
        /\ UNCHANGED <<ownIds, strategy>>
        /\ Created(PlaceholderId(e), "placeholder") \/ UNCHANGED posted
    BY <1>3, <1>5 DEF PostPlaceholder, Goto, Shape
  <2>2. \A id \in Ids :
          \/ posted'[id] = posted[id]
          \/ posted[id] = "nothing" /\ id = PlaceholderId(e) /\ posted'[id] = "placeholder"
    BY <1>3, <2>1 DEF Created, Shape
  <2>3. IdsKept /\ IsPlaceholderId(PlaceholderId(e))
    BY <1>3, <2>1 DEF IdsKept, IsPlaceholderId, AnswerInv, CauseInv
  <2>4. PostedInv' BY <1>3, <2>2, <2>3, PlaceholderKeeps DEF HandedInv
  <2>5. \A d \in Events : Shows(d) => Shows(d)' BY <2>2, <2>3, PostKeeps
  <2>6. QED BY <1>3, <2>1, <2>4, <2>5, HandlerMoves
<1>6. ASSUME NEW p \in Processes, LockQueueFile(p) PROVE HandedInv'
  <2>1. /\ holders' = {p} /\ readTasks' = [readTasks EXCEPT ![p] = tasks] /\ Wants(p)
        /\ queueKind = "file"
        /\ UNCHANGED <<queueKind, pc, tasks, working, taken, given, lost>>
        /\ UNCHANGED <<ownIds, strategy, posted>>
    BY <1>6 DEF LockQueueFile
  <2>2. QueueShape' BY <1>3, <2>1 DEF HandedInv, QueueShape
  <2>3. Wants(p)' BY <2>1 DEF Wants
  <2>4. readTasks'[p] = tasks BY <1>3, <2>1 DEF HandedInv, QueueShape
  <2>5. LockInv' BY <2>1, <2>3, <2>4 DEF LockInv
  <2>6. PlaceInv' BY <1>3, <2>1 DEF HandedInv, PlaceInv
  <2>7. PostedInv' /\ KeptInv'
    BY <1>3, <2>1, NothingPosted, PlaceholderKeeps, NothingMoves DEF HandedInv
  <2>8. QED BY <2>2, <2>5, <2>6, <2>7 DEF HandedInv
<1>7. CASE UNCHANGED vars
  <2>1. /\ UNCHANGED <<queueKind, pc, tasks, holders, readTasks, working, taken, given, lost>>
        /\ UNCHANGED <<ownIds, strategy, posted>>
    BY <1>7 DEF vars
  <2>2. QueueShape' /\ PlaceInv' BY <1>3, <2>1 DEF HandedInv, QueueShape, PlaceInv
  <2>3. LockInv' BY <1>3, <2>1 DEF HandedInv, LockInv, Wants
  <2>4. PostedInv' /\ KeptInv'
    BY <1>3, <2>1, NothingPosted, PlaceholderKeeps, NothingMoves DEF HandedInv
  <2>5. QED BY <2>2, <2>3, <2>4 DEF HandedInv
<1>8. QED
  BY <1>3, <1>4, <1>5, <1>6, <1>7, EnqueueKeeps, DequeueKeeps, WorkerKeeps, CrashKeeps
  DEF Next, Handler

LEMMA HeldInvariant == Spec => []HeldInv
BY HeldInit, HeldNext, PTL DEF Spec

LEMMA AtMostOne ==
  ASSUME NEW S, \A x, y \in S : x = y
  PROVE  Cardinality(S) = (IF S = {} THEN 0 ELSE 1)
<1>1. CASE S = {} BY <1>1, FS_EmptySet
<1>2. CASE S # {}
  <2>1. PICK x \in S : TRUE BY <1>2
  <2>2. S = {x} BY <2>1
  <2>3. QED BY <1>2, <2>2, FS_Singleton
<1>3. QED BY <1>1, <1>2

(* An answer is in one message, whoever else uses its ids: a task with a   *)
(* placeholder edits it, and one without creates its message once, however *)
(* handlers, workers and crashes interleave.  It is in more only if an     *)
(* edit was reported failed, or if a pushing service delivered a task      *)
(* without placeholder again and its ids are derived from the text.        *)
THEOREM AnsweredOnce == Spec => []NoSecondAnswer
<1>1. ASSUME HeldInv PROVE NoSecondAnswer
  <2> SUFFICES ASSUME NEW e \in Events, e \notin doubted,
                      ~ /\ queueKind = "push" /\ taken[e] = "again"
                        /\ strategy[e] = "queue_only" /\ e \notin ownIds
               PROVE  ~(Cardinality({id \in Ids : posted[id] = e}) > 1)
    BY DEF NoSecondAnswer
  <2> DEFINE shown == {id \in Ids : posted[id] = e}
  <2>1. \A id \in shown : OriginOf(id, e) BY <1>1 DEF HeldInv, AnswerInv, OriginInv
  <2>2. taken[e] \in {"never", "once", "again"} BY <1>1 DEF HeldInv, AnswerInv, Shape
  <2>3. \A i, j \in shown : i = j
    <3>1. CASE strategy[e] # "queue_only" BY <2>1, <3>1 DEF OriginOf
    <3>2. CASE strategy[e] = "queue_only" /\ taken[e] # "again"
      BY <1>1, <2>2, <3>2 DEF HeldInv, AnswerInv, TakenInv
    <3>3. CASE strategy[e] = "queue_only" /\ e \in ownIds
      <4>1. IdsOf(e) = {AnswerId(e, text) : text \in Answers} BY <3>3 DEF IdsOf
      <4>2. \A text \in Answers : AnswerId(e, text) = <<"given", e, "answer">>
        BY <3>3 DEF AnswerId, RequestId
      <4>3. QED BY <2>1, <4>1, <4>2 DEF OriginOf
    <3>4. CASE queueKind # "push"
      <4>1. taken[e] # "again" BY <1>1, <3>4 DEF HeldInv, HandedInv, PlaceInv
      <4>2. QED BY <3>1, <3>2, <4>1
    <3>5. QED BY <3>1, <3>2, <3>3, <3>4
  <2>4. Cardinality(shown) \in {0, 1} BY <2>3, AtMostOne
  <2>5. QED BY <2>4
<1>2. QED BY <1>1, HeldInvariant, PTL

(* In memory and in a file a task is in one place, however enqueues and    *)
(* dequeues overlap and whoever dies, until it is answered or lost.        *)
THEOREM HeldInOnePlace == Spec => []TasksHeldOnce
<1>1. ASSUME HeldInv PROVE TasksHeldOnce
  <2> SUFFICES ASSUME queueKind # "push", NEW e \in Events
               PROVE  /\ Places(e) <= 1
                      /\ e \in given /\ Places(e) = 0 =>
                           e \in lost \/ Shows(e)
    BY DEF TasksHeldOnce
  <2> DEFINE queued == {i \in DOMAIN tasks : tasks[i] = e}
             held == {w \in Workers : working[w] = e}
  <2>1. HandedInv /\ e # NoTask BY <1>1, AsyncAssumption DEF HeldInv
  <2>2. \A i, j \in queued : i = j BY <2>1 DEF HandedInv, PlaceInv
  <2>3. \A v, w \in held : v = w BY <2>1 DEF HandedInv, PlaceInv
  <2>4. queued = {} \/ held = {} BY <2>1 DEF HandedInv, PlaceInv
  <2> HIDE DEF queued, held
  <2>5. /\ Cardinality(queued) = (IF queued = {} THEN 0 ELSE 1)
        /\ Cardinality(held) = (IF held = {} THEN 0 ELSE 1)
    BY <2>2, <2>3, AtMostOne
  <2>6. Places(e) = Cardinality(queued) + Cardinality(held)
    BY DEF Places, queued, held
  <2>7. Places(e) = 0 => queued = {} /\ held = {} BY <2>5, <2>6
  <2>8. queued = {} /\ held = {} => ~Queued(e) /\ ~Held(e) BY DEF queued, held, Queued, Held
  <2>9. Places(e) <= 1 BY <2>4, <2>5, <2>6
  <2>10. QED BY <2>1, <2>7, <2>8, <2>9 DEF HandedInv, KeptInv
<1>2. QED BY <1>1, HeldInvariant, PTL
-----------------------------------------------------------------------------
(* Polling *)
(* What has not been seen in this life of the poller was handed on in      *)
(* former ones only, at most once in each.                                 *)
LifeInv ==
  /\ IsABag(handed) /\ crashes \in Nat
  /\ \A message \in BagToSet(handed) :
       /\ handed[message] <= 1 + crashes
       /\ pollerAt = "down" => handed[message] <= crashes
       /\ DuplicateKey(message) \notin checkpoint.seenKeys => handed[message] <= crashes

LEMMA BagSum ==
  ASSUME NEW B, IsABag(B), NEW S
  PROVE  LET sum == B (+) SetToBag(S)
         IN  /\ IsABag(sum) /\ BagToSet(sum) = BagToSet(B) \cup S
             /\ \A x \in BagToSet(B) : B[x] \in Nat /\ sum[x] = B[x] + (IF x \in S THEN 1 ELSE 0)
             /\ \A x \in S \ BagToSet(B) : sum[x] = 1
BY DEF IsABag, BagToSet, SetToBag, (+)

LEMMA LifeInit == PollingInit => LifeInv
BY DEF PollingInit, LifeInv, EmptyBag, IsABag, BagToSet, SetToBag

LEMMA LifeNext == LifeInv /\ [PollingNext]_pollingVars => LifeInv'
<1> SUFFICES ASSUME LifeInv, [PollingNext]_pollingVars PROVE LifeInv' OBVIOUS
<1>1. \A message : DuplicateKey(message)' = DuplicateKey(message)
  BY DEF DuplicateKey, EffectiveSnapshotTime
<1>2. CASE ProcessPage
  <2> DEFINE new == {message \in response.messages : DuplicateKey(message) \notin checkpoint.seenKeys}
  <2>1. /\ pollerAt' = "save" /\ crashes' = crashes /\ crashes \in Nat
        /\ handed' = handed (+) SetToBag(new)
        /\ checkpoint'.seenKeys = checkpoint.seenKeys \cup
             {DuplicateKey(message) : message \in response.messages}
    <3>1. response.messages \ {message \in response.messages : DuplicateKey(message) \in checkpoint.seenKeys}
            = new
      OBVIOUS
    <3>2. QED BY <1>2, <3>1 DEF ProcessPage, SeenKeys, LifeInv
  <2>2. IsABag(handed) BY DEF LifeInv
  <2>3. /\ IsABag(handed') /\ BagToSet(handed') = BagToSet(handed) \cup new
        /\ \A message \in BagToSet(handed) :
             /\ handed[message] \in Nat
             /\ handed'[message] = handed[message] + (IF message \in new THEN 1 ELSE 0)
        /\ \A message \in new \ BagToSet(handed) : handed'[message] = 1
    BY <2>1, <2>2, BagSum
  <2>4. ASSUME NEW message \in BagToSet(handed')
        PROVE  /\ handed'[message] <= 1 + crashes
               /\ DuplicateKey(message) \notin checkpoint'.seenKeys =>
                    handed'[message] <= crashes
    <3>1. CASE message \in new
      <4>1. message \in BagToSet(handed) => handed[message] <= crashes
        BY <3>1 DEF LifeInv
      <4>2. DuplicateKey(message) \in checkpoint'.seenKeys BY <2>1, <3>1
      <4>3. QED BY <2>1, <2>3, <3>1, <4>1, <4>2
    <3>2. CASE message \notin new
      <4>1. message \in BagToSet(handed) /\ handed'[message] = handed[message]
        BY <2>3, <3>2
      <4>2. QED BY <2>1, <4>1 DEF LifeInv
    <3>3. QED BY <3>1, <3>2
  <2>5. QED BY <1>1, <2>1, <2>3, <2>4 DEF LifeInv
<1>3. CASE PollerCrash
  <2>1. handed' = handed /\ crashes' = crashes + 1
    BY <1>3 DEF PollerCrash
  <2>2. \A message \in BagToSet(handed) : handed[message] \in Nat BY BagSum DEF LifeInv
  <2>3. QED BY <2>1, <2>2 DEF LifeInv
<1>4. CASE LoadCheckpoint
  BY <1>1, <1>4 DEF LoadCheckpoint, LifeInv
<1>5. CASE \/ CreateMessage \/ EditMessage \/ DeleteMessage
           \/ RequestPage \/ SaveCheckpoint \/ UNCHANGED pollingVars
  <2>1. UNCHANGED <<handed, crashes, checkpoint>> /\ (pollerAt' = "down" => pollerAt = "down")
    BY <1>5 DEF CreateMessage, EditMessage, DeleteMessage, Change, RequestPage, SaveCheckpoint,
                pollingVars
  <2>2. QED BY <1>1, <2>1 DEF LifeInv
<1>6. QED BY <1>2, <1>3, <1>4, <1>5 DEF PollingNext, Poll

(* A snapshot is handed on once, and once more for every crash, however    *)
(* the pages overlap and the space changes meanwhile.                      *)
THEOREM OncePerLife == PollingSpec => []HandedOnOncePerLife
<1>1. LifeInv => HandedOnOncePerLife BY DEF LifeInv, HandedOnOncePerLife
<1>2. QED BY <1>1, LifeInit, LifeNext, PTL DEF PollingSpec
=============================================================================
