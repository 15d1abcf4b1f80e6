---------------------- MODULE DeliveryAndContextProofs ----------------------
(***************************************************************************)
(* What reaches a program, and what a model is handed of it.  For every    *)
(* set of deliveries and every size of the pools: no slot is ever lost or  *)
(* counted twice, no handler starts without the claim of its event, and no *)
(* claim is made for a POST that was not verified in time.  For all        *)
(* messages, quotes, pages and limits: a model that is to answer is given  *)
(* the conversation in reading order, and told when a text is missing.     *)
(***************************************************************************)
EXTENDS AsgiDelivery, ConversationContext, SequenceInduction, FiniteSetTheorems, TLAPS

(* The part of the state's shape the arguments need.                       *)
Shape ==
  /\ slots \in Nat
  /\ queue \in Seq(Jobs)
  /\ running \in SUBSET Jobs /\ IsFiniteSet(running)
  /\ outcome \in [Jobs -> {"none", "claimed", "duplicate", "raised", "result"}]
  /\ task \in [Deliveries -> Tasks]
  /\ waiting \in [Deliveries -> {"no", "task", "callback"}]
  /\ claims \subseteq Deliveries /\ handled \subseteq Deliveries

Active == Queued \cup running

(* A job that has not been submitted yet is neither queued nor running.    *)
FreshInv ==
  \A d \in Deliveries :
    /\ task[d] = "new" => <<d, "guard">> \notin Active
    /\ task[d] \in {"new", "guard"} => <<d, "handler">> \notin Active
    /\ waiting[d] = "task" \/ task[d] = "new" => <<d, "callback">> \notin Active
    /\ waiting[d] = "task" => task[d] # "new"

(* No job is in two places.                                                *)
PlacesInv ==
  /\ \A i, j \in DOMAIN queue : queue[i] = queue[j] => i = j
  /\ \A i \in DOMAIN queue : queue[i] \notin running

(* A guard that reports a claim was granted it.                            *)
GrantInv == \A d \in Deliveries : outcome[<<d, "guard">>] = "claimed" => d \in claims

IInv == Shape /\ FreshInv /\ PlacesInv /\ SlotsAccounted /\ GrantInv /\ HandlersProtected

LEMMA InitInv == Init => IInv
<1> SUFFICES ASSUME Init PROVE IInv OBVIOUS
<1>1. IsFiniteSet({}) /\ Cardinality({}) = 0 BY FS_EmptySet
<1>2. Shape BY <1>1, DeliveryAssumption DEF Init, Shape, Tasks
<1>3. Active = {} BY DEF Init, Active, Queued
<1>4. FreshInv /\ PlacesInv BY <1>3 DEF Init, FreshInv, PlacesInv
<1>5. SlotsAccounted BY <1>1, DeliveryAssumption DEF Init, SlotsAccounted
<1>6. GrantInv /\ HandlersProtected BY DEF Init, GrantInv, HandlersProtected, Jobs
<1>7. QED BY <1>2, <1>4, <1>5, <1>6 DEF IInv

(* A job that is not active takes a slot and its place in the queue.       *)
LEMMA SubmitStep ==
  ASSUME Shape, PlacesInv, SlotsAccounted, NEW job \in Jobs, job \notin Active,
         Submit(job), UNCHANGED running
  PROVE  /\ slots' \in Nat /\ queue' \in Seq(Jobs) /\ PlacesInv' /\ SlotsAccounted'
         /\ Active' = Active \cup {job}
<1>1. /\ slots > 0 /\ slots' = slots - 1 /\ queue' = Append(queue, job)
      /\ queue \in Seq(Jobs) /\ slots \in Nat /\ running' = running
  BY DEF Submit, Shape
<1>2. Len(queue) \in Nat /\ DOMAIN queue = 1..Len(queue) BY <1>1
<1>3. /\ queue' \in Seq(Jobs) /\ Len(queue') = Len(queue) + 1
      /\ DOMAIN queue' = 1..(Len(queue) + 1)
      /\ \A i \in 1..Len(queue) : queue'[i] = queue[i]
      /\ queue'[Len(queue) + 1] = job
  BY <1>1, <1>2
<1>4. job \notin running /\ \A i \in DOMAIN queue : queue[i] # job BY DEF Active, Queued
<1>5. PlacesInv' BY <1>1, <1>2, <1>3, <1>4 DEF PlacesInv
<1>6. Cardinality(running) \in Nat BY FS_CardinalityType DEF Shape
<1>7. SlotsAccounted' BY <1>1, <1>2, <1>3, <1>6, DeliveryAssumption DEF SlotsAccounted
<1>8. Queued' = Queued \cup {job}
  <2>1. ASSUME NEW x \in Queued' PROVE x \in Queued \cup {job}
    BY <1>2, <1>3, <2>1 DEF Queued
  <2>2. ASSUME NEW x \in Queued PROVE x \in Queued'
    <3>1. PICK i \in 1..Len(queue) : queue[i] = x BY <1>2, <2>2 DEF Queued
    <3>2. i \in DOMAIN queue' /\ queue'[i] = x BY <1>2, <1>3, <3>1
    <3>3. QED BY <3>2 DEF Queued
  <2>3. job \in Queued'
    <3>1. Len(queue) + 1 \in DOMAIN queue' BY <1>2, <1>3
    <3>2. QED BY <1>3, <3>1 DEF Queued
  <2>4. QED BY <2>1, <2>2, <2>3
<1>9. QED BY <1>1, <1>3, <1>5, <1>7, <1>8 DEF Active

(* A worker moves the head of the queue to the running jobs.               *)
LEMMA WorkInv == ASSUME IInv, Work PROVE IInv'
<1> DEFINE job == Head(queue)
<1>1. /\ queue \in Seq(Jobs) /\ queue # << >> /\ queue' = Tail(queue) /\ Shape
      /\ running' = running \cup {job}
      /\ UNCHANGED <<slots, outcome, task, answer, waiting, claims, handled>>
  BY DEF IInv, Shape, Work
<1>2. /\ Len(queue) \in Nat /\ Len(queue) > 0 /\ DOMAIN queue = 1..Len(queue)
      /\ job = queue[1] /\ job \in Jobs
      /\ queue' \in Seq(Jobs) /\ Len(queue') = Len(queue) - 1
      /\ DOMAIN queue' = 1..(Len(queue) - 1)
      /\ \A i \in 1..(Len(queue) - 1) : queue'[i] = queue[i + 1]
  BY <1>1
<1>3. job \notin running BY <1>2 DEF IInv, PlacesInv
<1>4. IsFiniteSet(running') /\ Cardinality(running') = Cardinality(running) + 1
  BY <1>1, <1>3, FS_AddElement DEF Shape
<1>5. Shape' BY <1>1, <1>2, <1>4 DEF Shape
<1>6. PlacesInv'
  <2>1. \A i, j \in DOMAIN queue' : queue'[i] = queue'[j] => i = j
    <3>1. TAKE i, j \in DOMAIN queue'
    <3>2. i + 1 \in DOMAIN queue /\ j + 1 \in DOMAIN queue /\ i \in Int /\ j \in Int
      BY <1>2
    <3>3. queue[i + 1] = queue[j + 1] => i + 1 = j + 1 BY <3>2 DEF IInv, PlacesInv
    <3>4. QED BY <1>2, <3>2, <3>3
  <2>2. \A i \in DOMAIN queue' : queue'[i] \notin running'
    <3>1. TAKE i \in DOMAIN queue'
    <3>2. i + 1 \in DOMAIN queue /\ i + 1 # 1 /\ 1 \in DOMAIN queue BY <1>2
    <3>3. queue[i + 1] \notin running /\ queue[i + 1] # queue[1]
      BY <3>2 DEF IInv, PlacesInv
    <3>4. QED BY <1>1, <1>2, <3>3
  <2>3. QED BY <2>1, <2>2 DEF PlacesInv
<1>7. SlotsAccounted'
  <2>1. Cardinality(running) \in Nat BY <1>1, FS_CardinalityType DEF Shape
  <2>2. slots \in Nat /\ slots + Len(queue) + Cardinality(running) = Capacity
    BY DEF IInv, SlotsAccounted, Shape
  <2>3. QED BY <1>1, <1>2, <1>4, <2>1, <2>2 DEF SlotsAccounted
<1>8. Active' \subseteq Active
  <2>1. job \in Queued BY <1>2 DEF Queued
  <2>2. ASSUME NEW x \in Queued' PROVE x \in Queued
    <3>1. PICK i \in DOMAIN queue' : queue'[i] = x BY <2>2 DEF Queued
    <3>2. i + 1 \in DOMAIN queue /\ queue[i + 1] = x BY <1>2, <3>1
    <3>3. QED BY <3>2 DEF Queued
  <2>3. QED BY <1>1, <2>1, <2>2 DEF Active
<1>9. FreshInv' BY <1>1, <1>8 DEF IInv, FreshInv
<1>10. GrantInv' /\ HandlersProtected' BY <1>1 DEF IInv, GrantInv, HandlersProtected
<1>11. QED BY <1>5, <1>6, <1>7, <1>9, <1>10 DEF IInv

(* A job that ends, however it does, gives its slot back.                  *)
LEMMA JobEndsInv == ASSUME IInv, NEW job \in Jobs, JobEnds(job) PROVE IInv'
<1> DEFINE d == job[1]
<1>1. /\ job \in running /\ running' = running \ {job} /\ slots' = slots + 1 /\ Shape
      /\ UNCHANGED <<queue, task, answer, waiting, handled>>
  BY DEF IInv, JobEnds
<1>2. d \in Deliveries /\ job = <<d, job[2]>> BY DEF Jobs
<1>3. /\ IsFiniteSet(running') /\ Cardinality(running') = Cardinality(running) - 1
      /\ Cardinality(running) \in Nat
  BY <1>1, FS_RemoveElement, FS_CardinalityType DEF Shape
<1>4. \/ /\ job[2] = "guard" /\ ~Claimed(EventOf[d]) /\ claims' = claims \cup {d}
         /\ outcome' = [outcome EXCEPT ![job] = "claimed"]
      \/ /\ job[2] = "guard" /\ ~Claimed(EventOf[d]) /\ claims' = claims \cup {d}
         /\ outcome' = [outcome EXCEPT ![job] = "raised"]
      \/ /\ claims' = claims
         /\ \E what \in {"duplicate", "raised", "result"} :
              outcome' = [outcome EXCEPT ![job] = what]
  BY DEF JobEnds
<1>5. Shape' BY <1>1, <1>2, <1>3, <1>4, SMTT(30) DEF Shape
<1>6. PlacesInv' BY <1>1 DEF IInv, PlacesInv
<1>7. SlotsAccounted'
  <2>1. slots + Len(queue) + Cardinality(running) = Capacity /\ slots \in Nat /\ Len(queue) \in Nat
    BY <1>1 DEF IInv, SlotsAccounted, Shape
  <2>2. QED BY <1>1, <1>3, <2>1 DEF SlotsAccounted
<1>8. Active' \subseteq Active BY <1>1 DEF Active, Queued
<1>9. FreshInv' BY <1>1, <1>8 DEF IInv, FreshInv
<1>10. GrantInv' /\ HandlersProtected'
  <2>1. CASE /\ ~Claimed(EventOf[d]) /\ claims' = claims \cup {d}
             /\ \E what \in {"claimed", "raised"} : outcome' = [outcome EXCEPT ![job] = what]
    <3>1. GrantInv'
      <4> SUFFICES ASSUME NEW e \in Deliveries, outcome'[<<e, "guard">>] = "claimed"
                   PROVE  e \in claims'
        BY DEF GrantInv
      <4>1. CASE <<e, "guard">> = job BY <1>2, <2>1, <4>1
      <4>2. CASE <<e, "guard">> # job
        <5>1. <<e, "guard">> \in Jobs BY DEF Jobs
        <5>2. outcome[<<e, "guard">>] = "claimed" BY <1>1, <2>1, <4>2, <5>1 DEF Shape
        <5>3. QED BY <2>1, <5>2 DEF IInv, GrantInv
      <4>3. QED BY <4>1, <4>2
    <3>2. \A e \in claims : EventOf[e] # EventOf[d] BY <2>1 DEF Claimed
    <3>3. HandlersProtected' BY <1>1, <2>1, <3>2 DEF IInv, HandlersProtected
    <3>4. QED BY <3>1, <3>3
  <2>2. CASE /\ claims' = claims
             /\ \E what \in {"duplicate", "raised", "result"} :
                  outcome' = [outcome EXCEPT ![job] = what]
    <3>1. GrantInv'
      <4> SUFFICES ASSUME NEW e \in Deliveries, outcome'[<<e, "guard">>] = "claimed"
                   PROVE  e \in claims'
        BY DEF GrantInv
      <4>1. <<e, "guard">> \in Jobs BY DEF Jobs
      <4>2. outcome[<<e, "guard">>] = "claimed" BY <1>1, <2>2, <4>1 DEF Shape
      <4>3. QED BY <2>2, <4>2 DEF IInv, GrantInv
    <3>2. HandlersProtected' BY <1>1, <2>2 DEF IInv, HandlersProtected
    <3>3. QED BY <3>1, <3>2
  <2>3. QED BY <1>4, <2>1, <2>2
<1>11. QED BY <1>5, <1>6, <1>7, <1>9, <1>10 DEF IInv

(* What the event loop does without the pool.                              *)
LEMMA QuietInv ==
  ASSUME IInv, UNCHANGED <<slots, queue, running, outcome, claims>>,
         task' \in [Deliveries -> Tasks],
         waiting' \in [Deliveries -> {"no", "task", "callback"}],
         handled' \subseteq claims,
         \A d \in Deliveries :
           /\ task'[d] = "new" => task[d] = "new"
           /\ task'[d] = "guard" => task[d] \in {"new", "guard"}
           /\ waiting'[d] = "task" =>
                task'[d] # "new" /\ (waiting[d] = "task" \/ task[d] = "new")
  PROVE  IInv'
<1>1. Shape' BY DEF IInv, Shape
<1>2. Active' = Active BY DEF Active, Queued
<1>3. FreshInv' BY <1>2 DEF IInv, FreshInv
<1>4. PlacesInv' /\ SlotsAccounted' BY DEF IInv, PlacesInv, SlotsAccounted
<1>5. GrantInv' /\ HandlersProtected' BY DEF IInv, GrantInv, HandlersProtected
<1>6. QED BY <1>1, <1>3, <1>4, <1>5 DEF IInv

(* What it hands to the pool.                                              *)
LEMMA SubmitInv ==
  ASSUME IInv, NEW d \in Deliveries, NEW what \in {"guard", "handler", "callback"},
         <<d, what>> \notin Active, Submit(<<d, what>>),
         UNCHANGED <<running, outcome, claims>>,
         task' \in [Deliveries -> Tasks],
         waiting' \in [Deliveries -> {"no", "task", "callback"}],
         handled' \subseteq claims,
         \A e \in Deliveries :
           /\ task'[e] = "new" => task[e] = "new"
           /\ task'[e] = "guard" => task[e] \in {"new", "guard"}
           /\ waiting'[e] = "task" =>
                task'[e] # "new" /\ (waiting[e] = "task" \/ task[e] = "new"),
         task'[d] # "new",
         what = "handler" => task'[d] # "guard",
         what = "callback" => waiting'[d] # "task"
  PROVE  IInv'
<1>1. <<d, what>> \in Jobs BY DEF Jobs
<1>2. /\ slots' \in Nat /\ queue' \in Seq(Jobs) /\ PlacesInv' /\ SlotsAccounted'
      /\ Active' = Active \cup {<<d, what>>}
  BY <1>1, SubmitStep DEF IInv
<1>3. Shape' BY <1>2 DEF IInv, Shape
<1>4. FreshInv' BY <1>2 DEF IInv, FreshInv
<1>5. GrantInv' /\ HandlersProtected' BY DEF IInv, GrantInv, HandlersProtected
<1>6. QED BY <1>2, <1>3, <1>4, <1>5 DEF IInv

LEMMA DispatchInv == ASSUME IInv, NEW d \in Deliveries, Dispatch(d) PROVE IInv'
<1>1. /\ task[d] = "new" /\ UNCHANGED <<running, outcome, claims, handled>> /\ Shape
      /\ handled' \subseteq claims
  BY DEF Dispatch, IInv, HandlersProtected
<1>2. waiting' = [waiting EXCEPT ![d] = "task"] BY DEF Dispatch
<1>3. CASE Submit(<<d, "guard">>) /\ TaskIs(d, "guard")
  <2>1. <<d, "guard">> \notin Active BY <1>1 DEF IInv, FreshInv
  <2>2. /\ task' \in [Deliveries -> Tasks]
        /\ waiting' \in [Deliveries -> {"no", "task", "callback"}]
        /\ task'[d] = "guard"
        /\ \A e \in Deliveries :
             /\ task'[e] = "new" => task[e] = "new"
             /\ task'[e] = "guard" => task[e] \in {"new", "guard"}
             /\ waiting'[e] = "task" =>
                  task'[e] # "new" /\ (waiting[e] = "task" \/ task[e] = "new")
    BY <1>1, <1>2, <1>3 DEF TaskIs, Shape, Tasks, IInv, FreshInv
  <2>3. QED BY <1>1, <1>3, <2>1, <2>2, SubmitInv
<1>4. CASE Saturated /\ TaskIs(d, "saturated")
  <2>1. /\ task' \in [Deliveries -> Tasks]
        /\ waiting' \in [Deliveries -> {"no", "task", "callback"}]
        /\ \A e \in Deliveries :
             /\ task'[e] = "new" => task[e] = "new"
             /\ task'[e] = "guard" => task[e] \in {"new", "guard"}
             /\ waiting'[e] = "task" =>
                  task'[e] # "new" /\ (waiting[e] = "task" \/ task[e] = "new")
    BY <1>1, <1>2, <1>4 DEF TaskIs, Shape, Tasks, IInv, FreshInv
  <2>2. QED BY <1>1, <1>4, <2>1, QuietInv DEF Saturated
<1>5. QED BY <1>3, <1>4 DEF Dispatch

LEMMA GuardedInv == ASSUME IInv, NEW d \in Deliveries, Guarded(d) PROVE IInv'
<1>1. /\ task[d] = "guard" /\ UNCHANGED <<running, outcome, claims, waiting>> /\ Shape
      /\ handled \subseteq claims
      /\ outcome[<<d, "guard">>] = "claimed" => d \in claims
  BY DEF Guarded, IInv, HandlersProtected, GrantInv
<1>2. \A state \in Tasks \ {"new", "guard"} : TaskIs(d, state) =>
        /\ task' \in [Deliveries -> Tasks]
        /\ waiting' \in [Deliveries -> {"no", "task", "callback"}]
        /\ task'[d] = state
        /\ \A e \in Deliveries :
             /\ task'[e] = "new" => task[e] = "new"
             /\ task'[e] = "guard" => task[e] \in {"new", "guard"}
             /\ waiting'[e] = "task" =>
                  task'[e] # "new" /\ (waiting[e] = "task" \/ task[e] = "new")
  BY <1>1 DEF TaskIs, Shape, IInv, FreshInv
<1>3. CASE /\ \E state \in {"duplicate", "raised", "returned", "coroutine", "saturated"} :
                TaskIs(d, state)
           /\ UNCHANGED <<slots, queue>> /\ handled' \subseteq claims
  BY <1>1, <1>2, <1>3, QuietInv DEF Tasks
<1>4. CASE Submit(<<d, "handler">>) /\ TaskIs(d, "handler") /\ handled' \subseteq claims
  <2>1. <<d, "handler">> \notin Active BY <1>1 DEF IInv, FreshInv
  <2>2. "handler" \in Tasks \ {"new", "guard"} BY DEF Tasks
  <2>3. QED BY <1>1, <1>2, <1>4, <2>1, <2>2, SubmitInv
<1>5. QED BY <1>1, <1>3, <1>4 DEF Guarded, Saturated

LEMMA NextInv == IInv /\ [Next]_vars => IInv'
<1> SUFFICES ASSUME IInv, [Next]_vars PROVE IInv' OBVIOUS
<1>0. Shape /\ handled \subseteq claims BY DEF IInv, HandlersProtected
<1>1. ASSUME NEW d \in Deliveries, HandlerEnds(d) PROVE IInv'
  BY <1>0, <1>1, QuietInv DEF HandlerEnds, TaskIs, Shape, Tasks, IInv, FreshInv
<1>2. ASSUME NEW d \in Deliveries, TaskDone(d) PROVE IInv'
  BY <1>0, <1>2, QuietInv DEF TaskDone, Shape, IInv, FreshInv
<1>3. ASSUME NEW d \in Deliveries, CallbackDone(d) PROVE IInv'
  BY <1>0, <1>3, QuietInv DEF CallbackDone, Shape, IInv, FreshInv
<1>4. ASSUME NEW d \in Deliveries, DeadlineExceeded(d) PROVE IInv'
  <2>1. /\ waiting[d] = "task" /\ UNCHANGED <<running, outcome, task, claims, handled>>
        /\ <<d, "callback">> \notin Active
    BY <1>4 DEF DeadlineExceeded, IInv, FreshInv
  <2>2. CASE Submit(<<d, "callback">>) /\ waiting' = [waiting EXCEPT ![d] = "callback"]
    BY <1>0, <2>1, <2>2, SubmitInv DEF Shape, IInv, FreshInv
  <2>3. CASE UNCHANGED <<slots, queue>> /\ waiting' = [waiting EXCEPT ![d] = "no"]
    BY <1>0, <2>1, <2>3, QuietInv DEF Shape, IInv, FreshInv
  <2>4. QED BY <1>4, <2>2, <2>3 DEF DeadlineExceeded, Saturated
<1>5. CASE UNCHANGED vars
  BY <1>0, <1>5, QuietInv DEF vars, Shape, IInv, FreshInv
<1>6. QED
  BY <1>1, <1>2, <1>3, <1>4, <1>5, WorkInv, JobEndsInv, DispatchInv, GuardedInv
  DEF Next, PoolStep, LoopStep

LEMMA DeliveryInvariant == Spec => []IInv
BY InitInv, NextInv, PTL DEF Spec

-----------------------------------------------------------------------------
Distinct(q) == \A i, j \in DOMAIN q : q[i] = q[j] => i = j

Members(q) == {q[i] : i \in DOMAIN q}

(* Someone new joins a queue.                                              *)
LEMMA Joined ==
  ASSUME NEW S, NEW q \in Seq(S), NEW x \in S, Distinct(q), x \notin Members(q)
  PROVE  LET r == Append(q, x)
         IN r \in Seq(S) /\ Len(r) = Len(q) + 1 /\ Distinct(r) /\ Members(r) = Members(q) \cup {x}
<1> DEFINE r == Append(q, x)
<1>1. Len(q) \in Nat /\ DOMAIN q = 1..Len(q) OBVIOUS
<1>2. /\ r \in Seq(S) /\ Len(r) = Len(q) + 1 /\ DOMAIN r = 1..(Len(q) + 1)
      /\ \A i \in 1..Len(q) : r[i] = q[i]
      /\ r[Len(q) + 1] = x
  BY <1>1
<1>3. \A i \in 1..Len(q) : q[i] # x BY <1>1 DEF Members
<1> HIDE DEF r
<1>4. Distinct(r)
  <2> SUFFICES ASSUME NEW i \in 1..(Len(q) + 1), NEW j \in 1..(Len(q) + 1), r[i] = r[j]
               PROVE  i = j
    BY <1>2 DEF Distinct
  <2>1. CASE i \in 1..Len(q) /\ j \in 1..Len(q) BY <1>1, <1>2, <2>1 DEF Distinct
  <2>2. CASE i \notin 1..Len(q) \/ j \notin 1..Len(q)
    <3>1. \A k \in 1..(Len(q) + 1) : k \in 1..Len(q) \/ k = Len(q) + 1 BY <1>1
    <3>2. QED BY <1>2, <1>3, <2>2, <3>1
  <2>3. QED BY <2>1, <2>2
<1>5. Members(r) = Members(q) \cup {x}
  <2>1. ASSUME NEW y \in Members(r) PROVE y \in Members(q) \cup {x}
    <3>1. PICK i \in 1..(Len(q) + 1) : y = r[i] BY <1>2 DEF Members
    <3>2. i \in 1..Len(q) \/ i = Len(q) + 1 BY <1>1
    <3>3. QED BY <1>1, <1>2, <3>1, <3>2 DEF Members
  <2>2. ASSUME NEW y \in Members(q) PROVE y \in Members(r)
    <3>1. PICK i \in 1..Len(q) : y = q[i] BY <1>1 DEF Members
    <3>2. i \in DOMAIN r /\ r[i] = y BY <1>1, <1>2, <3>1
    <3>3. QED BY <3>2 DEF Members
  <2>3. x \in Members(r)
    <3>1. Len(q) + 1 \in DOMAIN r BY <1>1, <1>2
    <3>2. QED BY <1>2, <3>1 DEF Members
  <2>4. QED BY <2>1, <2>2, <2>3
<1>6. QED BY <1>2, <1>4, <1>5 DEF r

(* The first of a queue leaves it.                                         *)
LEMMA Left ==
  ASSUME NEW S, NEW q \in Seq(S), q # << >>, Distinct(q)
  PROVE  LET r == Tail(q)
         IN /\ r \in Seq(S) /\ Len(r) = Len(q) - 1 /\ Distinct(r) /\ Len(q) \in Nat
            /\ Head(q) \in Members(q) /\ Members(r) \subseteq Members(q) \ {Head(q)}
<1> DEFINE r == Tail(q)
<1>1. /\ Len(q) \in Nat /\ Len(q) > 0 /\ DOMAIN q = 1..Len(q) /\ Head(q) = q[1]
      /\ r \in Seq(S) /\ Len(r) = Len(q) - 1 /\ DOMAIN r = 1..(Len(q) - 1)
      /\ \A i \in 1..(Len(q) - 1) : r[i] = q[i + 1]
  OBVIOUS
<1> HIDE DEF r
<1>2. \A i \in 1..(Len(q) - 1) : i \in Int /\ i + 1 \in DOMAIN q /\ i + 1 # 1 /\ 1 \in DOMAIN q
  BY <1>1
<1>3. Distinct(r)
  <2> SUFFICES ASSUME NEW i \in 1..(Len(q) - 1), NEW j \in 1..(Len(q) - 1), r[i] = r[j]
               PROVE  i = j
    BY <1>1 DEF Distinct
  <2>1. i + 1 = j + 1 BY <1>1, <1>2 DEF Distinct
  <2>2. QED BY <1>2, <2>1
<1>4. Head(q) \in Members(q) BY <1>1 DEF Members
<1>5. ASSUME NEW y \in Members(r) PROVE y \in Members(q) \ {Head(q)}
  <2>1. PICK i \in 1..(Len(q) - 1) : y = q[i + 1] BY <1>1 DEF Members
  <2>2. q[i + 1] # q[1] BY <1>2 DEF Distinct
  <2>3. QED BY <1>1, <1>2, <2>1, <2>2 DEF Members
<1>6. QED BY <1>1, <1>3, <1>4, <1>5 DEF r

-----------------------------------------------------------------------------
(* The POSTs around the deliveries.                                        *)
PostShape ==
  /\ post \in [Deliveries -> {"new", "direct", "verifying", "reading", "dispatched"} \cup Statuses]
  /\ verifierSlots \in Nat
  /\ verifierQueue \in Seq(Deliveries)
  /\ verifierRunning \in SUBSET Deliveries /\ IsFiniteSet(verifierRunning)
  /\ verdict \in [Deliveries -> Verdicts \cup {"none", "awaitable"}]

VerifierActive == Members(verifierQueue) \cup verifierRunning

VerifierSlotsInv ==
  verifierSlots + Len(verifierQueue) + Cardinality(verifierRunning) = VerifierCapacity

VerifierPlacesInv ==
  Distinct(verifierQueue) /\ Members(verifierQueue) \cap verifierRunning = {}

(* A verification goes on only for a POST without a verdict.               *)
VerifyingInv == \A d \in VerifierActive : verdict[d] = "none" /\ post[d] # "new"

(* What is read was verified, and so is what was dispatched over HTTP; a   *)
(* new POST has no verdict.                                                *)
AdmittedInv ==
  \A d \in Deliveries :
    /\ post[d] = "new" => verdict[d] = "none"
    /\ post[d] = "reading" => verdict[d] = "ok"
    /\ post[d] = "dispatched" => verdict[d] = "ok"
    /\ task[d] # "new" =>
         \/ post[d] = "direct"
         \/ post[d] \in {"dispatched", "200", "503", "raised"} /\ verdict[d] = "ok"

(* Only what was dispatched is claimed.                                    *)
DispatchedInv == \A d \in claims : task[d] # "new"

AInv ==
  /\ IInv /\ PostShape /\ VerifierSlotsInv /\ VerifierPlacesInv
  /\ VerifyingInv /\ AdmittedInv /\ DispatchedInv

LEMMA AsgiInitInv == AsgiInit => AInv
<1> SUFFICES ASSUME AsgiInit PROVE AInv OBVIOUS
<1>1. IInv BY InitInv DEF AsgiInit
<1>2. IsFiniteSet({}) /\ Cardinality({}) = 0 BY FS_EmptySet
<1>3. PostShape /\ VerifierSlotsInv
  BY <1>2, VerifierAssumption DEF AsgiInit, PostInit, PostShape, VerifierSlotsInv
<1>4. VerifierActive = {} BY DEF AsgiInit, PostInit, VerifierActive, Members
<1>5. VerifierPlacesInv /\ VerifyingInv
  BY <1>4 DEF AsgiInit, PostInit, VerifierPlacesInv, VerifyingInv, Distinct, Members
<1>6. AdmittedInv /\ DispatchedInv
  BY DEF AsgiInit, PostInit, Init, AdmittedInv, DispatchedInv
<1>7. QED BY <1>1, <1>3, <1>5, <1>6 DEF AInv

(* Every step of AsgiDelivery is one of BoundedDelivery or leaves it alone. *)
LEMMA AsgiStep == [AsgiNext]_asgiVars => [Next]_vars
BY DEF AsgiNext, PostStep, ReceivePost, VerifierWork, VerifierEnds, AwaitedVerdict,
       PostVerified, VerificationTimesOut, ReadBody, Respond, DispatchDirectly,
       Next, asgiVars

LEMMA ActiveDeliveries == ASSUME PostShape PROVE VerifierActive \subseteq Deliveries
BY DEF PostShape, VerifierActive, Members

LEMMA ReceivePostInv == ASSUME AInv, NEW d \in Deliveries, ReceivePost(d) PROVE AInv'
<1>1. /\ post[d] = "new" /\ UNCHANGED <<vars, verifierRunning, verdict>> /\ PostShape
      /\ post' = [post EXCEPT ![d] = post'[d]]
      /\ post'[d] \in {"verifying", "503", "413"}
  BY DEF ReceivePost, PostIs, AInv, PostShape
<1>2. IInv' BY <1>1, NextInv DEF AInv
<1>3. task[d] = "new" /\ verdict[d] = "none" BY <1>1 DEF AInv, AdmittedInv
<1>4. d \notin VerifierActive BY <1>1 DEF AInv, VerifyingInv
<1>5. AdmittedInv' /\ DispatchedInv'
  BY <1>1, <1>3 DEF AInv, AdmittedInv, DispatchedInv, vars, PostShape
<1>6. post' \in [Deliveries -> {"new", "direct", "verifying", "reading", "dispatched"} \cup Statuses]
  BY <1>1 DEF PostShape, Statuses
<1>7. CASE UNCHANGED <<verifierSlots, verifierQueue>>
  <2>1. PostShape' BY <1>1, <1>6, <1>7 DEF PostShape
  <2>2. VerifierActive' = VerifierActive BY <1>1, <1>7 DEF VerifierActive
  <2>3. VerifyingInv' BY <1>1, <1>4, <2>2, ActiveDeliveries DEF AInv, VerifyingInv, PostShape
  <2>4. VerifierSlotsInv' /\ VerifierPlacesInv'
    BY <1>1, <1>7 DEF AInv, VerifierSlotsInv, VerifierPlacesInv
  <2>5. QED BY <1>2, <1>5, <2>1, <2>3, <2>4 DEF AInv
<1>8. CASE /\ verifierSlots > 0 /\ verifierSlots' = verifierSlots - 1
           /\ verifierQueue' = Append(verifierQueue, d) /\ post'[d] = "verifying"
  <2>1. /\ verifierQueue' \in Seq(Deliveries) /\ Len(verifierQueue') = Len(verifierQueue) + 1
        /\ Distinct(verifierQueue') /\ Members(verifierQueue') = Members(verifierQueue) \cup {d}
    BY <1>1, <1>4, <1>8, Joined DEF PostShape, VerifierActive, AInv, VerifierPlacesInv
  <2>2. PostShape' BY <1>1, <1>6, <1>8, <2>1 DEF PostShape
  <2>3. VerifierSlotsInv'
    <3>1. Cardinality(verifierRunning) \in Nat /\ Len(verifierQueue) \in Nat
      BY <1>1, FS_CardinalityType DEF PostShape
    <3>2. QED BY <1>1, <1>8, <2>1, <3>1 DEF AInv, VerifierSlotsInv, PostShape
  <2>4. VerifierPlacesInv' BY <1>1, <1>4, <2>1 DEF AInv, VerifierPlacesInv, VerifierActive
  <2>5. VerifierActive' = VerifierActive \cup {d} BY <1>1, <2>1 DEF VerifierActive
  <2>6. VerifyingInv' BY <1>1, <1>3, <1>8, <2>5, ActiveDeliveries DEF AInv, VerifyingInv, PostShape
  <2>7. QED BY <1>2, <1>5, <2>2, <2>3, <2>4, <2>6 DEF AInv
<1>9. QED BY <1>1, <1>7, <1>8 DEF ReceivePost, PostIs, PostShape

LEMMA VerifierWorkInv == ASSUME AInv, VerifierWork PROVE AInv'
<1> DEFINE d == Head(verifierQueue)
<1>1. /\ verifierQueue # << >> /\ verifierQueue' = Tail(verifierQueue) /\ PostShape
      /\ verifierRunning' = verifierRunning \cup {d}
      /\ UNCHANGED <<vars, post, verifierSlots, verdict>>
  BY DEF VerifierWork, AInv
<1>2. /\ verifierQueue' \in Seq(Deliveries) /\ Len(verifierQueue') = Len(verifierQueue) - 1
      /\ Distinct(verifierQueue') /\ Len(verifierQueue) \in Nat
      /\ d \in Members(verifierQueue)
      /\ Members(verifierQueue') \subseteq Members(verifierQueue) \ {d}
  BY <1>1, Left DEF PostShape, AInv, VerifierPlacesInv
<1>3. d \notin verifierRunning /\ d \in Deliveries
  BY <1>1, <1>2 DEF AInv, VerifierPlacesInv, PostShape, Members
<1>4. IsFiniteSet(verifierRunning') /\ Cardinality(verifierRunning') = Cardinality(verifierRunning) + 1
  BY <1>1, <1>3, FS_AddElement DEF PostShape
<1>5. IInv' BY <1>1, NextInv DEF AInv
<1>6. PostShape' BY <1>1, <1>2, <1>3, <1>4 DEF PostShape
<1>7. VerifierSlotsInv'
  <2>1. Cardinality(verifierRunning) \in Nat BY <1>1, FS_CardinalityType DEF PostShape
  <2>2. QED BY <1>1, <1>2, <1>4, <2>1 DEF AInv, VerifierSlotsInv, PostShape
<1>8. VerifierPlacesInv' BY <1>1, <1>2 DEF AInv, VerifierPlacesInv
<1>9. VerifierActive' \subseteq VerifierActive BY <1>1, <1>2 DEF VerifierActive
<1>10. VerifyingInv' /\ AdmittedInv' /\ DispatchedInv'
  BY <1>1, <1>9 DEF AInv, VerifyingInv, AdmittedInv, DispatchedInv, vars
<1>11. QED BY <1>5, <1>6, <1>7, <1>8, <1>10 DEF AInv

LEMMA VerifierEndsInv == ASSUME AInv, NEW d \in Deliveries, VerifierEnds(d) PROVE AInv'
<1>1. /\ d \in verifierRunning /\ verifierRunning' = verifierRunning \ {d} /\ PostShape
      /\ verifierSlots' = verifierSlots + 1
      /\ verdict' = [verdict EXCEPT ![d] = verdict'[d]]
      /\ verdict'[d] \in Verdicts \cup {"awaitable"}
      /\ UNCHANGED <<vars, post, verifierQueue>>
  BY DEF VerifierEnds, AInv, PostShape
<1>2. verdict[d] = "none" /\ post[d] # "new"
  BY <1>1 DEF AInv, VerifyingInv, VerifierActive
<1>3. IsFiniteSet(verifierRunning') /\ Cardinality(verifierRunning') = Cardinality(verifierRunning) - 1
  BY <1>1, FS_RemoveElement DEF PostShape
<1>4. IInv' BY <1>1, NextInv DEF AInv
<1>5. PostShape' BY <1>1, <1>3 DEF PostShape
<1>6. VerifierSlotsInv'
  <2>1. Cardinality(verifierRunning) \in Nat /\ Len(verifierQueue) \in Nat
    BY <1>1, FS_CardinalityType DEF PostShape
  <2>2. QED BY <1>1, <1>3, <2>1 DEF AInv, VerifierSlotsInv, PostShape
<1>7. VerifierPlacesInv' BY <1>1 DEF AInv, VerifierPlacesInv
<1>8. VerifierActive' \subseteq VerifierActive \ {d}
  BY <1>1 DEF VerifierActive, AInv, VerifierPlacesInv, Members
<1>9. VerifyingInv' BY <1>1, <1>8, ActiveDeliveries DEF AInv, VerifyingInv, PostShape
<1>10. AdmittedInv' /\ DispatchedInv'
  BY <1>1, <1>2 DEF AInv, AdmittedInv, DispatchedInv, vars, PostShape
<1>11. QED BY <1>4, <1>5, <1>6, <1>7, <1>9, <1>10 DEF AInv

(* What leaves the verifier's pool alone.                                  *)
LEMMA PoolAloneInv ==
  ASSUME AInv, [AsgiNext]_asgiVars, UNCHANGED <<verifierSlots, verifierQueue, verifierRunning>>,
         post' \in [Deliveries -> {"new", "direct", "verifying", "reading", "dispatched"} \cup Statuses],
         verdict' \in [Deliveries -> Verdicts \cup {"none", "awaitable"}],
         \A d \in VerifierActive : verdict'[d] = "none" /\ post'[d] # "new",
         AdmittedInv', DispatchedInv'
  PROVE  AInv'
<1>1. IInv' BY AsgiStep, NextInv DEF AInv
<1>2. PostShape' /\ VerifierSlotsInv' /\ VerifierPlacesInv'
  BY DEF AInv, PostShape, VerifierSlotsInv, VerifierPlacesInv
<1>3. VerifyingInv' BY DEF VerifyingInv, VerifierActive
<1>4. QED BY <1>1, <1>2, <1>3 DEF AInv

(* What the event loop and the pool of BoundedDelivery do.                 *)
LEMMA DeliveryStepInv ==
  ASSUME AInv, PoolStep \/ \E d \in Deliveries : LoopStep(d), UNCHANGED postVars
  PROVE  AInv'
<1>1. [AsgiNext]_asgiVars BY DEF AsgiNext
<1>2. Shape /\ PostShape BY DEF AInv, IInv
<1>3. \A d \in Deliveries : task'[d] = "new" <=> task[d] = "new"
  <2>1. ASSUME PoolStep PROVE task' = task BY <2>1 DEF PoolStep, Work, JobEnds
  <2>2. ASSUME NEW d \in Deliveries, LoopStep(d)
        PROVE  task' = task \/ \E what \in Tasks \ {"new"} : task[d] # "new" /\ TaskIs(d, what)
    BY <2>2 DEF LoopStep, Guarded, HandlerEnds, TaskDone, DeadlineExceeded, CallbackDone, Tasks
  <2>3. QED BY <1>2, <2>1, <2>2 DEF TaskIs, Shape
<1>4. \A d \in claims' : d \in claims \/ task[d] # "new"
  <2>1. ASSUME NEW job \in Jobs, JobEnds(job), NEW d \in claims', d \notin claims
        PROVE  task[d] # "new"
    <3>1. d = job[1] /\ job[2] = "guard" /\ job \in running BY <2>1 DEF JobEnds
    <3>2. d \in Deliveries /\ job = <<d, "guard">> BY <3>1 DEF Jobs
    <3>3. job \in Active BY <3>1 DEF Active
    <3>4. QED BY <3>2, <3>3 DEF AInv, IInv, FreshInv
  <2>2. ASSUME Work PROVE claims' = claims BY <2>2 DEF Work
  <2>3. ASSUME NEW d \in Deliveries, LoopStep(d) PROVE claims' = claims
    BY <2>3 DEF LoopStep, Guarded, HandlerEnds, TaskDone, DeadlineExceeded, CallbackDone
  <2>4. QED BY <2>1, <2>2, <2>3 DEF PoolStep
<1>5. IInv' BY <1>1, AsgiStep, NextInv DEF AInv
<1>6. DispatchedInv' BY <1>2, <1>3, <1>4, <1>5 DEF AInv, DispatchedInv, IInv, Shape
<1>7. AdmittedInv' BY <1>3 DEF AInv, AdmittedInv, postVars
<1>8. QED BY <1>1, <1>2, <1>6, <1>7, PoolAloneInv DEF postVars, PostShape, AInv, VerifyingInv

LEMMA AsgiNextInv == AInv /\ [AsgiNext]_asgiVars => AInv'
<1> SUFFICES ASSUME AInv, [AsgiNext]_asgiVars PROVE AInv' OBVIOUS
<1> USE DEF PostShape, Statuses, Verdicts
<1>0. PostShape /\ Shape BY DEF AInv, IInv
<1>1. ASSUME NEW d \in Deliveries, AwaitedVerdict(d) PROVE AInv'
  <2>1. d \notin VerifierActive BY <1>1 DEF AwaitedVerdict, AInv, VerifyingInv
  <2>2. AdmittedInv' /\ DispatchedInv'
    BY <1>0, <1>1 DEF AwaitedVerdict, AInv, AdmittedInv, DispatchedInv, vars
  <2>3. QED BY <1>0, <1>1, <2>1, <2>2, PoolAloneInv DEF AwaitedVerdict, AInv, VerifyingInv
<1>2. ASSUME NEW d \in Deliveries,
             PostVerified(d) \/ VerificationTimesOut(d) \/ Respond(d)
      PROVE  AInv'
  <2>1. /\ UNCHANGED <<vars, verifierSlots, verifierQueue, verifierRunning, verdict>>
        /\ \E what \in Statuses \cup {"reading"} :
             /\ PostIs(d, what)
             /\ what = "reading" => verdict[d] = "ok"
             /\ post[d] = "verifying" \/ (post[d] = "dispatched" /\ what \in {"200", "503", "raised"})
    BY <1>2 DEF PostVerified, VerificationTimesOut, Respond, StatusOf
  <2>2. AdmittedInv' /\ DispatchedInv'
    BY <1>0, <2>1 DEF AInv, AdmittedInv, DispatchedInv, vars, PostIs
  <2>3. QED BY <1>0, <2>1, <2>2, PoolAloneInv DEF AInv, VerifyingInv, PostIs
<1>3. ASSUME NEW d \in Deliveries, ReadBody(d) PROVE AInv'
  <2>1. post[d] = "reading" /\ verdict[d] = "ok" BY <1>3 DEF ReadBody, AInv, AdmittedInv
  <2>2. task[d] = "new" BY <2>1 DEF AInv, AdmittedInv
  <2>0. [AsgiNext]_asgiVars /\ UNCHANGED <<verifierSlots, verifierQueue, verifierRunning, verdict>>
    BY <1>3 DEF AsgiNext, PostStep, ReadBody
  <2>3. CASE UNCHANGED vars /\ (PostIs(d, "413") \/ PostIs(d, "400"))
    <3>1. AdmittedInv' /\ DispatchedInv'
      BY <1>0, <1>3, <2>1, <2>2, <2>3 DEF ReadBody, AInv, AdmittedInv, DispatchedInv, vars, PostIs
    <3>2. \E what \in {"400", "413"} : post' = [post EXCEPT ![d] = what] BY <2>3 DEF PostIs
    <3>3. /\ post' \in [Deliveries -> {"new", "direct", "verifying", "reading", "dispatched"}
                                        \cup Statuses]
          /\ \A e \in VerifierActive : verdict'[e] = "none" /\ post'[e] # "new"
      BY <1>0, <2>0, <3>2, ActiveDeliveries DEF AInv, VerifyingInv
    <3>4. QED BY <1>0, <2>0, <3>1, <3>3, PoolAloneInv
  <2>4. CASE PostIs(d, "dispatched") /\ Dispatch(d)
    <3>1. claims' = claims /\ \E what \in Tasks \ {"new"} : TaskIs(d, what)
      BY <2>4 DEF Dispatch, Tasks
    <3>2. AdmittedInv' /\ DispatchedInv'
      BY <1>0, <1>3, <2>1, <2>2, <2>4, <3>1
      DEF ReadBody, AInv, AdmittedInv, DispatchedInv, PostIs, TaskIs, Shape
    <3>3. QED BY <1>0, <2>0, <2>4, <3>2, PoolAloneInv DEF AInv, VerifyingInv, PostIs
  <2>5. QED BY <1>3, <2>3, <2>4 DEF ReadBody
<1>4. ASSUME NEW d \in Deliveries, DispatchDirectly(d) PROVE AInv'
  <2>1. claims' = claims /\ \E what \in Tasks \ {"new"} : TaskIs(d, what)
    BY <1>4 DEF DispatchDirectly, Dispatch, Tasks
  <2>2. AdmittedInv' /\ DispatchedInv'
    BY <1>0, <1>4, <2>1 DEF DispatchDirectly, AInv, AdmittedInv, DispatchedInv, PostIs, TaskIs, Shape
  <2>3. QED BY <1>0, <1>4, <2>2, PoolAloneInv DEF DispatchDirectly, AInv, VerifyingInv, PostIs
<1>5. CASE UNCHANGED asgiVars
  <2>1. AdmittedInv' /\ DispatchedInv'
    BY <1>5 DEF asgiVars, postVars, vars, AInv, AdmittedInv, DispatchedInv
  <2>2. QED BY <1>0, <1>5, <2>1, PoolAloneInv DEF asgiVars, postVars, AInv, VerifyingInv
<1>6. QED
  BY <1>1, <1>2, <1>3, <1>4, <1>5, ReceivePostInv, VerifierWorkInv, VerifierEndsInv, DeliveryStepInv
  DEF AsgiNext, PostStep

LEMMA AsgiInvariant == AsgiSpec => []AInv
BY AsgiInitInv, AsgiNextInv, PTL DEF AsgiSpec

(* The adapter and the application dispatch as BoundedDelivery does.       *)
THEOREM DeliversAsSpecified == AsgiSpec => Spec
<1>1. AsgiInit => Init BY DEF AsgiInit
<1>2. QED BY <1>1, AsgiStep, PTL DEF AsgiSpec, Spec

(* In both pools every slot is free or held by one job that is queued or   *)
(* running.                                                                *)
THEOREM PoolsKept == AsgiSpec => []PoolsAccounted
<1>1. AInv => PoolsAccounted BY DEF AInv, IInv, VerifierSlotsInv, PoolsAccounted
<1>2. QED BY <1>1, AsgiInvariant, PTL

(* Every handler that started holds the claim of its event, no other       *)
(* delivery of the event does, and a POST that does was verified in time.  *)
THEOREM Protected == AsgiSpec => []OnlyAdmittedHandled
<1>1. AInv => OnlyAdmittedHandled
  <2> SUFFICES ASSUME AInv PROVE OnlyAdmittedHandled OBVIOUS
  <2>1. HandlersProtected /\ claims \subseteq Deliveries BY DEF AInv, IInv, Shape
  <2>2. QED BY <2>1 DEF AInv, AdmittedInv, DispatchedInv, OnlyAdmittedHandled
<1>2. QED BY <1>1, AsgiInvariant, PTL

---------------------------------------------------------------------------
(* The context of a conversation.                                          *)

(* What the inputs are made of.                                            *)
LEMMA InputTypes ==
  ASSUME contextInput \in ContextInputs
  PROVE  /\ contextInput.pages \in Seq(Page) /\ contextInput.pages # <<>>
         /\ contextInput.limit \in Nat /\ contextInput.maxQuoteDepth \in Nat
         /\ contextInput.options.maxTextChars \in Nat \ {0}
         /\ contextInput.options.maxTotalTextChars \in Nat \ {0}
         /\ contextInput.options.maxFragments \in Nat \ {0}
         /\ contextInput.options.maxQuoteDepth \in Nat
BY ContextAssumption DEF ContextOptions

LEMMA RawTypes ==
  ASSUME NEW raw \in RawMessages
  PROVE  /\ raw.name \in STRING /\ raw.created \in Nat /\ raw.chars \in Nat /\ raw.notes \in Nat
         /\ raw.attachments \in Nat /\ raw.quotes \in Seq(RawMessages)
         /\ raw.metadata \in Seq(QuotedMetadata)
         /\ raw.metadata # <<>> => raw.metadata[1] \in QuotedMetadata
<1>1. raw \in RawMessage BY ContextAssumption
<1>2. raw.metadata \in Seq(QuotedMetadata) BY <1>1 DEF RawMessage
<1>3. raw.metadata # <<>> => 1 \in 1..Len(raw.metadata)
  BY <1>2, EmptySeq, LenProperties
<1>4. raw.metadata # <<>> => raw.metadata[1] \in QuotedMetadata
  BY <1>2, <1>3, ElementOfSeq
<1>5. QED BY <1>1, <1>2, <1>4 DEF RawMessage

(* What a snapshot is made into is a message.                              *)
LEMMA SnapshotIsMessage ==
  ASSUME NEW raw \in RawMessages, raw.metadata # <<>>
  PROVE  LET data == raw.metadata[1] IN
         \A i \in 1..Len(data.snapshot) : SnapshotMessage(data, data.snapshot[i]) \in RawMessages
<1>1. raw.metadata \in Seq(QuotedMetadata) /\ raw.metadata[1] \in QuotedMetadata BY RawTypes
<1>2. 1 \in DOMAIN raw.metadata BY <1>1, EmptySeq, LenProperties
<1>3. raw.metadata[1] \in Range(raw.metadata) BY <1>2 DEF Range
<1>4. raw.metadata[1].snapshot \in Seq(Nat) BY <1>1 DEF QuotedMetadata
<1>5. ASSUME NEW i \in 1..Len(raw.metadata[1].snapshot)
      PROVE  SnapshotMessage(raw.metadata[1], raw.metadata[1].snapshot[i]) \in RawMessages
  <2>1. i \in DOMAIN raw.metadata[1].snapshot BY <1>4, LenProperties
  <2>2. raw.metadata[1].snapshot[i] \in Range(raw.metadata[1].snapshot) BY <2>1 DEF Range
  <2>3. QED BY <1>3, <2>2, ContextAssumption
<1>6. QED BY <1>5

LEMMA PagesFlattened ==
  ASSUME contextInput \in ContextInputs
  PROVE  AllMessages \in Seq(RawMessages)
<1> DEFINE pages == contextInput.pages
           lists == [i \in DOMAIN pages |-> pages[i].messages]
<1>1. pages \in Seq(Page) BY InputTypes
<1> HIDE DEF pages
<1>2. DOMAIN pages = 1..Len(pages) /\ Len(pages) \in Nat /\ \A i \in 1..Len(pages) : pages[i] \in Page
  BY <1>1, LenProperties, ElementOfSeq
<1>3. \A i \in 1..Len(pages) : pages[i].messages \in Seq(RawMessages) BY <1>2 DEF Page
<1>4. lists \in Seq(Seq(RawMessages)) BY <1>2, <1>3
<1> HIDE DEF lists
<1>5. FlattenSeq(lists) \in Seq(RawMessages) BY <1>4, Flattened
<1>6. QED BY <1>5 DEF AllMessages, lists, pages

(* There is a last one of some indices.                                    *)
LEMMA LastIndex ==
  ASSUME NEW n \in Nat, NEW S \in SUBSET (1..n), S # {}
  PROVE  Max(S) \in S
<1> DEFINE T == {k \in Nat : (\E i \in S : n - i <= k) => \E i \in S : \A j \in S : i >= j}
<1>1. 0 \in T
  <2>1. \A i \in S : n - i <= 0 => i = n OBVIOUS
  <2>2. \A j \in S : n >= j OBVIOUS
  <2>3. QED BY <2>1, <2>2
<1>2. ASSUME NEW k \in Nat, k \in T
      PROVE  k + 1 \in T
  <2>1. SUFFICES ASSUME NEW i \in S, n - i <= k + 1, ~(\E j \in S : n - j <= k)
                 PROVE  \E l \in S : \A j \in S : l >= j
    BY <1>2
  <2>2. \A j \in S : i >= j BY <2>1
  <2>3. QED BY <2>2
<1> HIDE DEF T
<1>3. Nat \subseteq T BY <1>1, <1>2, SetInduction
<1>4. n \in T /\ \A i \in S : n - i <= n BY <1>3
<1>5. \E i \in S : \A j \in S : i >= j BY <1>4 DEF T
<1>6. QED BY <1>5 DEF Max

LEMMA FoundMessage ==
  ASSUME contextInput \in ContextInputs, NEW data
  PROVE  /\ LookupQuotedMessage(data) \in Seq(RawMessages)
         /\ LookupQuotedMessage(data) # <<>> => LookupQuotedMessage(data)[1].name = data.name
<1> DEFINE messages == AllMessages
           named == {i \in DOMAIN messages : messages[i].name = data.name}
           found == messages[Max(named)]
<1>1. messages \in Seq(RawMessages) BY PagesFlattened
<1> HIDE DEF messages
<1>2. /\ Len(messages) \in Nat /\ DOMAIN messages = 1..Len(messages)
      /\ \A i \in 1..Len(messages) : messages[i] \in RawMessages
  BY <1>1, LenProperties, ElementOfSeq
<1>3. CASE named # {} /\ found.updated = data.updated
  <2>1. Max(named) \in named BY <1>2, <1>3, LastIndex
  <2>2. found \in RawMessages /\ found.name = data.name BY <1>2, <2>1
  <2>3. LookupQuotedMessage(data) = <<found>> BY <1>3 DEF LookupQuotedMessage, messages
  <2> HIDE DEF found, named
  <2>4. QED BY <2>2, <2>3
<1>4. CASE ~(named # {} /\ found.updated = data.updated)
  <2>1. LookupQuotedMessage(data) = <<>> BY <1>4 DEF LookupQuotedMessage, messages
  <2>2. QED BY <2>1
<1>5. QED BY <1>3, <1>4

LEMMA QuotedMessage ==
  ASSUME contextInput \in ContextInputs, NEW raw \in RawMessages, raw.metadata # <<>>
  PROVE  LET data == raw.metadata[1]
             quoted == QuotedSnapshotMessage(data)
         IN /\ quoted \in Seq(RawMessages)
            /\ data.message # <<>> => quoted = data.message
            /\ data.message = <<>> /\ data.snapshot # <<>> =>
                 quoted # <<>> /\ quoted[1].name = data.name
<1> DEFINE data == raw.metadata[1]
           made == [i \in DOMAIN data.snapshot |-> SnapshotMessage(data, data.snapshot[i])]
           found == LookupQuotedMessage(data)
<1>1. /\ data.message \in Seq(RawMessages) /\ data.snapshot \in Seq(Nat)
      /\ \A i \in 1..Len(data.snapshot) : SnapshotMessage(data, data.snapshot[i]) \in RawMessages
  BY RawTypes, SnapshotIsMessage DEF QuotedMetadata
<1>2. found \in Seq(RawMessages) /\ (found # <<>> => found[1].name = data.name) BY FoundMessage
<1>3. QuotedSnapshotMessage(data) =
        IF data.message # <<>> THEN data.message ELSE IF found # <<>> THEN found ELSE made
  BY DEF QuotedSnapshotMessage
<1> HIDE DEF data, found
<1>4. DOMAIN data.snapshot = 1..Len(data.snapshot) /\ Len(data.snapshot) \in Nat
  BY <1>1, LenProperties
<1>5. /\ made \in Seq(RawMessages) /\ Len(made) = Len(data.snapshot)
      /\ \A i \in 1..Len(data.snapshot) : made[i].name = data.name
  BY <1>1, <1>4 DEF SnapshotMessage
<1>6. data.snapshot # <<>> => 1 \in 1..Len(data.snapshot) BY <1>1, <1>4, EmptySeq
<1> HIDE DEF made
<1>7. data.snapshot # <<>> => made # <<>> /\ made[1].name = data.name
  BY <1>4, <1>5, <1>6
<1>8. QED BY <1>1, <1>2, <1>3, <1>5, <1>7 DEF data

(* What a message quotes is what came with it, or of its name.             *)
LEMMA RecordTypes ==
  ASSUME contextInput \in ContextInputs, NEW raw \in RawMessages
  PROVE  LET records == QuotedMessageRecords(raw) IN
         /\ records \in Seq(RawMessages)
         /\ QuotedTexts(raw) \subseteq RawMessages
         /\ \A text \in QuotedTexts(raw) : \E i \in 1..Len(records) :
              \/ records[i] = text
              \/ records[i].name = text.name /\ text.quotes = <<>> /\ text.metadata = <<>>
<1> DEFINE records == QuotedMessageRecords(raw)
           data == raw.metadata[1]
           quoted == IF raw.metadata = <<>> THEN <<>> ELSE QuotedSnapshotMessage(data)
           fits == quoted # <<>> /\ quoted[1].name \notin NamesOf(raw.quotes)
           Told == IF data.message # <<>> THEN {data.message[1]}
                   ELSE IF data.snapshot # <<>> THEN {SnapshotMessage(data, data.snapshot[1])}
                   ELSE {}
           told == IF raw.metadata = <<>> THEN {} ELSE Told
<1>1. raw.quotes \in Seq(RawMessages) BY RawTypes
<1>2. /\ quoted \in Seq(RawMessages)
      /\ \A text \in told : /\ text \in RawMessages /\ quoted # <<>> /\ text.name = quoted[1].name
                            /\ \/ text = quoted[1]
                               \/ text.quotes = <<>> /\ text.metadata = <<>>
  <2>1. CASE raw.metadata = <<>> BY <2>1
  <2>2. CASE raw.metadata # <<>>
    <3>1. /\ quoted = QuotedSnapshotMessage(data) /\ told = Told BY <2>2
    <3>2. /\ quoted \in Seq(RawMessages)
          /\ data.message # <<>> => quoted = data.message
          /\ data.message = <<>> /\ data.snapshot # <<>> =>
               quoted # <<>> /\ quoted[1].name = data.name
      BY <2>2, <3>1, QuotedMessage
    <3>3. /\ data.message \in Seq(RawMessages) /\ data.snapshot \in Seq(Nat)
          /\ \A i \in 1..Len(data.snapshot) : SnapshotMessage(data, data.snapshot[i]) \in RawMessages
      BY <2>2, RawTypes, SnapshotIsMessage DEF QuotedMetadata
    <3> HIDE DEF quoted, data
    <3>4. CASE data.message # <<>>
      <4>1. data.message[1] \in RawMessages BY <3>3, <3>4, EmptySeq, LenProperties, ElementOfSeq
      <4>2. QED BY <3>1, <3>2, <3>4, <4>1
    <3>5. CASE data.message = <<>> /\ data.snapshot # <<>>
      <4>1. 1 \in 1..Len(data.snapshot) BY <3>3, <3>5, EmptySeq, LenProperties
      <4>2. SnapshotMessage(data, data.snapshot[1]) \in RawMessages BY <3>3, <4>1
      <4>3. told = {SnapshotMessage(data, data.snapshot[1])} BY <3>1, <3>5
      <4>4. LET text == SnapshotMessage(data, data.snapshot[1]) IN
            text.name = data.name /\ text.quotes = <<>> /\ text.metadata = <<>>
        BY DEF SnapshotMessage
      <4>5. QED BY <3>2, <3>5, <4>2, <4>3, <4>4
    <3>6. CASE data.message = <<>> /\ data.snapshot = <<>> BY <3>1, <3>2, <3>6
    <3>7. QED BY <3>4, <3>5, <3>6
  <2>3. QED BY <2>1, <2>2
<1>3. records = IF fits THEN Append(raw.quotes, quoted[1]) ELSE raw.quotes
  BY DEF QuotedMessageRecords
<1>4. QuotedTexts(raw) = Range(raw.quotes) \cup {text \in told : text.name \notin NamesOf(raw.quotes)}
  BY DEF QuotedTexts
<1> HIDE DEF records, quoted, told
<1>5. /\ Len(raw.quotes) \in Nat /\ DOMAIN raw.quotes = 1..Len(raw.quotes)
      /\ \A i \in 1..Len(raw.quotes) : raw.quotes[i] \in RawMessages
  BY <1>1, LenProperties, ElementOfSeq
<1>6. quoted # <<>> => quoted[1] \in RawMessages
  BY <1>2, EmptySeq, LenProperties, ElementOfSeq
<1>7. fits => /\ records \in Seq(RawMessages) /\ Len(records) = Len(raw.quotes) + 1
              /\ records[Len(raw.quotes) + 1] = quoted[1]
              /\ \A i \in 1..Len(raw.quotes) : records[i] = raw.quotes[i]
  BY <1>1, <1>3, <1>6, AppendProperties
<1>8. /\ records \in Seq(RawMessages) /\ Len(records) >= Len(raw.quotes)
      /\ \A i \in 1..Len(raw.quotes) : records[i] = raw.quotes[i]
  BY <1>1, <1>3, <1>5, <1>7
<1>9. Len(records) \in Nat BY <1>8, LenProperties
<1>10. ASSUME NEW text \in QuotedTexts(raw)
       PROVE  /\ text \in RawMessages
              /\ \E i \in 1..Len(records) :
                   \/ records[i] = text
                   \/ records[i].name = text.name /\ text.quotes = <<>> /\ text.metadata = <<>>
  <2>1. CASE text \in Range(raw.quotes)
    <3>1. PICK i \in 1..Len(raw.quotes) : text = raw.quotes[i] BY <1>5, <2>1 DEF Range
    <3>2. i \in 1..Len(records) /\ records[i] = text BY <1>5, <1>8, <1>9, <3>1
    <3>3. QED BY <1>5, <3>1, <3>2
  <2>2. CASE text \notin Range(raw.quotes)
    <3>1. text \in told /\ text.name \notin NamesOf(raw.quotes) BY <1>4, <1>10, <2>2
    <3>2. fits BY <1>2, <3>1
    <3>3. Len(raw.quotes) + 1 \in 1..Len(records) /\ records[Len(raw.quotes) + 1] = quoted[1]
      BY <1>5, <1>7, <3>2
    <3>4. QED BY <1>2, <3>1, <3>3
  <2>3. QED BY <2>1, <2>2
<1>11. QED BY <1>8, <1>10 DEF records

(* The context of a message.                                               *)
LEMMA QuotedContext ==
  ASSUME contextInput \in ContextInputs, NEW message \in ContextMessage
  PROVE  LET records == QuotedMessageRecords(message.raw)
             quotes == QuotedBy(message)
         IN /\ quotes \in Seq(ContextMessage)
            /\ ~IsSkipped(message) =>
                 /\ Len(quotes) = Len(records)
                 /\ \A i \in 1..Len(records) : quotes[i].raw = records[i]
<1> DEFINE records == QuotedMessageRecords(message.raw)
           path == Append(message.path, message.raw.name)
           made == [i \in DOMAIN records |-> [raw |-> records[i], path |-> path]]
<1>1. message.raw \in RawMessages /\ message.path \in Seq(STRING) BY DEF ContextMessage
<1>2. records \in Seq(RawMessages) BY <1>1, RecordTypes
<1>3. path \in Seq(STRING) BY <1>1, RawTypes, AppendProperties
<1>4. QuotedBy(message) = IF IsSkipped(message) THEN <<>> ELSE made BY DEF QuotedBy
<1> HIDE DEF records, path
<1>5. /\ DOMAIN records = 1..Len(records) /\ Len(records) \in Nat
      /\ \A i \in 1..Len(records) : records[i] \in RawMessages
  BY <1>2, LenProperties, ElementOfSeq
<1>6. \A i \in 1..Len(records) : [raw |-> records[i], path |-> path] \in ContextMessage
  BY <1>3, <1>5 DEF ContextMessage
<1>7. made \in Seq(ContextMessage) /\ Len(made) = Len(records) BY <1>5, <1>6
<1>8. \A i \in 1..Len(records) : made[i].raw = records[i] BY <1>5
<1> HIDE DEF made
<1>9. QED BY <1>4, <1>7, <1>8 DEF records

LEMMA MessageCounts ==
  ASSUME contextInput \in ContextInputs, NEW message \in ContextMessage
  PROVE  /\ CharsOf(message) \in Nat /\ NotesOf(message) \in Nat /\ AttachmentsOf(message) \in Nat
         /\ AttachmentsOf(message) > 0 => NotesOf(message) > 0
         /\ IsSkipped(message) => NotesOf(message) = 1
<1> DEFINE raw == message.raw
           placed == IF message.path # <<>> \/ contextInput.thread THEN 1 ELSE 0
           quoting == IF message.path = <<>> THEN Len(QuotedMessageRecords(raw)) ELSE 0
<1>1. raw \in RawMessages BY DEF ContextMessage
<1>2. raw.chars \in Nat /\ raw.notes \in Nat /\ raw.attachments \in Nat BY <1>1, RawTypes
<1>3. Len(QuotedMessageRecords(raw)) \in Nat BY <1>1, RecordTypes, LenProperties
<1>4. placed \in Nat /\ quoting \in Nat BY <1>3
<1>5. NotesOf(message) = IF IsSkipped(message) THEN 1
                         ELSE raw.notes + placed + quoting + raw.attachments
  BY DEF NotesOf
<1>6. /\ CharsOf(message) = (IF IsSkipped(message) THEN 0 ELSE raw.chars)
      /\ AttachmentsOf(message) = (IF IsSkipped(message) THEN 0 ELSE raw.attachments)
  BY DEF CharsOf, AttachmentsOf
<1> HIDE DEF raw, placed, quoting
<1>7. QED BY <1>2, <1>4, <1>5, <1>6

(* Sorting loses none.                                                     *)
LEMMA SortedKeeps ==
  ASSUME NEW messages \in Seq(RawMessages)
  PROVE  LET sorted == SortedByTime(messages) IN
         /\ sorted \in Seq(RawMessages) /\ Len(sorted) = Len(messages)
         /\ Range(messages) \subseteq Range(sorted)
<1> DEFINE n == Len(messages)
           Sooner(i, j) == IF contextInput.desc THEN messages[i].created > messages[j].created
                           ELSE messages[i].created < messages[j].created
           Before(i, j) == \/ Sooner(i, j)
                           \/ messages[i].created = messages[j].created /\ i < j
           ahead == [i \in 1..n |-> {j \in 1..n : Before(j, i)}]
           rank == [i \in 1..n |-> 1 + Cardinality(ahead[i])]
<1>1. /\ n \in Nat /\ DOMAIN messages = 1..n
      /\ \A i \in 1..n : messages[i] \in RawMessages /\ messages[i].created \in Nat
  BY LenProperties, ElementOfSeq, RawTypes
<1>2. \A i \in 1..n : ~Before(i, i) BY <1>1
<1>3. \A i \in 1..n, j \in 1..n : i # j => Before(i, j) \/ Before(j, i)
  <2>1. CASE contextInput.desc BY <1>1, <2>1
  <2>2. CASE ~contextInput.desc BY <1>1, <2>2
  <2>3. QED BY <2>1, <2>2
<1>4. \A i \in 1..n, j \in 1..n, k \in 1..n : Before(i, j) /\ Before(j, k) => Before(i, k)
  <2>1. CASE contextInput.desc BY <1>1, <2>1
  <2>2. CASE ~contextInput.desc BY <1>1, <2>2
  <2>3. QED BY <2>1, <2>2
<1>5. SortedByTime(messages) =
        [k \in 1..n |-> messages[CHOOSE i \in 1..n : 1 + Cardinality({j \in 1..n : Before(j, i)}) = k]]
  BY <1>1 DEF SortedByTime
<1>6. \A i \in 1..n : ahead[i] = {j \in 1..n : Before(j, i)} OBVIOUS
<1> HIDE DEF Before, ahead, n
<1>7. IsFiniteSet(1..n) /\ Cardinality(1..n) = n
  <2>1. 1 \in Int /\ n \in Int /\ n = (IF 1 > n THEN 0 ELSE n - 1 + 1) BY <1>1
  <2>2. IsFiniteSet(1..n) /\ Cardinality(1..n) = (IF 1 > n THEN 0 ELSE n - 1 + 1)
    BY <2>1, FS_Interval
  <2>3. QED BY <2>1, <2>2
<1>8. ASSUME NEW i \in 1..n
      PROVE  /\ IsFiniteSet(ahead[i]) /\ Cardinality(ahead[i]) \in Nat /\ rank[i] \in 1..n
             /\ rank[i] = 1 + Cardinality(ahead[i])
  <2>1. ahead[i] \subseteq 1..n /\ i \notin ahead[i] BY <1>2, <1>6
  <2>2. IsFiniteSet(ahead[i]) /\ Cardinality(ahead[i]) <= n /\ (Cardinality(ahead[i]) = n => FALSE)
    BY <1>7, <2>1, FS_Subset
  <2>3. Cardinality(ahead[i]) \in Nat BY <2>2, FS_CardinalityType
  <2>4. QED BY <1>1, <2>2, <2>3
<1>9. ASSUME NEW i \in 1..n, NEW k \in 1..n, Before(i, k)
      PROVE  rank[i] < rank[k]
  <2>1. ahead[i] \subseteq ahead[k] /\ i \in ahead[k] /\ i \notin ahead[i]
    BY <1>2, <1>4, <1>6, <1>9
  <2>2. Cardinality(ahead[i]) <= Cardinality(ahead[k])
        /\ Cardinality(ahead[i]) # Cardinality(ahead[k])
    BY <1>8, <2>1, FS_Subset
  <2>3. QED BY <1>8, <2>2
<1>10. \A i \in 1..n, k \in 1..n : rank[i] = rank[k] => i = k
  <2>1. ASSUME NEW i \in 1..n, NEW k \in 1..n, rank[i] = rank[k], i # k
        PROVE  FALSE
    <3>1. Before(i, k) \/ Before(k, i) BY <1>3, <2>1
    <3>2. rank[i] < rank[k] \/ rank[k] < rank[i] BY <1>9, <3>1
    <3>3. rank[i] \in Int /\ rank[k] \in Int BY <1>8
    <3> HIDE DEF rank
    <3>4. QED BY <2>1, <3>2, <3>3
  <2>2. QED BY <2>1
<1>11. rank \in Injection(1..n, 1..n)
  <2>1. rank \in [1..n -> 1..n] BY <1>8
  <2>2. DOMAIN rank = 1..n OBVIOUS
  <2> HIDE DEF rank
  <2>3. QED BY <1>10, <2>1, <2>2 DEF Injection, IsInjective
<1>12. rank \in Surjection(1..n, 1..n) BY <1>7, <1>11, FS_Injection
<1>13. \A k \in 1..n : \E i \in 1..n : rank[i] = k BY <1>12 DEF Surjection
<1>14. \A i \in 1..n : rank[i] = 1 + Cardinality({j \in 1..n : Before(j, i)}) BY <1>6
<1> HIDE DEF rank
<1> DEFINE sorted == SortedByTime(messages)
           at == [k \in 1..n |-> CHOOSE i \in 1..n : 1 + Cardinality({j \in 1..n : Before(j, i)}) = k]
<1>15. \A k \in 1..n : sorted[k] = messages[at[k]] BY <1>5
<1>16. DOMAIN sorted = 1..n /\ sorted = [k \in 1..n |-> sorted[k]] BY <1>5
<1>17. ASSUME NEW k \in 1..n
       PROVE  at[k] \in 1..n /\ rank[at[k]] = k
  <2>1. \E i \in 1..n : 1 + Cardinality({j \in 1..n : Before(j, i)}) = k BY <1>13, <1>14
  <2>2. at[k] \in 1..n /\ 1 + Cardinality({j \in 1..n : Before(j, at[k])}) = k BY <2>1
  <2>3. QED BY <1>14, <2>2
<1> HIDE DEF at, sorted
<1>18. \A k \in 1..n : sorted[k] \in RawMessages BY <1>1, <1>15, <1>17
<1>19. sorted \in Seq(RawMessages) /\ Len(sorted) = n BY <1>1, <1>16, <1>18
<1>20. ASSUME NEW x \in Range(messages)
       PROVE  x \in Range(sorted)
  <2>1. PICK i \in 1..n : x = messages[i] BY <1>1 DEF Range
  <2>2. rank[i] \in 1..n BY <1>8
  <2>3. at[rank[i]] = i BY <1>10, <1>17, <2>2
  <2>4. sorted[rank[i]] = x BY <1>15, <2>1, <2>2, <2>3
  <2>5. QED BY <1>16, <2>2, <2>4 DEF Range
<1>21. QED BY <1>19, <1>20 DEF sorted, n

(* The budget keeps the order, and all if it keeps as many.                *)
LEMMA BudgetKeeps ==
  ASSUME NEW messages \in Seq(ContextMessage)
  PROVE  LET included == ApplyModelTokenBudget(messages) IN
         /\ included \in Seq(ContextMessage)
         /\ Len(included) >= Len(messages) => included = messages
<1> DEFINE n == Len(messages)
           X == Seq(ContextMessage)
           tokens(kept) == FoldLeft(LAMBDA sum, message : sum + EstimateTokens(message), 0, kept)
           Include(kept, message) == IF tokens(Append(kept, message)) <= contextInput.tokens
                                     THEN Append(kept, message) ELSE kept
           IsIncluded(f) ==
             f = [i \in 0..n |-> IF i = 0 THEN <<>> ELSE Include(f[i - 1], messages[i])]
           included == CHOOSE f : IsIncluded(f)
           F == [i \in 1..n |-> [kept \in X |-> Include(kept, messages[i])]]
<1>1. n \in Nat /\ (\A i \in 1..n : messages[i] \in ContextMessage) /\ \A i \in 1..n : i - 1 \in 0..n
  BY LenProperties, ElementOfSeq
<1>2. ApplyModelTokenBudget(messages) =
        IF contextInput.tokens = NoBudget THEN messages ELSE included[n]
  BY DEF ApplyModelTokenBudget
<1>3. \A kept, message : Include(kept, message) \in {kept, Append(kept, message)} OBVIOUS
<1> HIDE DEF Include, n
<1>4. ASSUME NEW i \in 1..n, NEW kept \in X
      PROVE  Include(kept, messages[i]) \in X
  BY <1>1, <1>3, AppendProperties
<1>5. F \in [1..n -> [X -> X]] /\ \A i \in 1..n, kept \in X : F[i][kept] = Include(kept, messages[i])
  BY <1>4
<1>6. <<>> \in X OBVIOUS
<1> HIDE DEF F, X
<1>7. IsIncluded(included)
  <2>1. PICK g \in [0..n -> X] : LeadsOn(g, <<>>, n, F) BY <1>1, <1>5, <1>6, Iterated
  <2>2. \A i \in 1..n : g[i] = Include(g[i - 1], messages[i])
    BY <1>1, <1>5, <2>1 DEF LeadsOn
  <2>3. \A i \in 0..n : i # 0 => i \in 1..n BY <1>1
  <2>4. IsIncluded(g) BY <2>1, <2>2, <2>3 DEF LeadsOn
  <2>5. QED BY <2>4
<1> HIDE DEF included
<1>8. included[0] = <<>> /\ \A i \in 1..n : included[i] = Include(included[i - 1], messages[i])
  <2>1. \A i \in 0..n : included[i] = IF i = 0 THEN <<>> ELSE Include(included[i - 1], messages[i])
    BY <1>7, Zenon
  <2>2. 0 \in 0..n /\ \A i \in 1..n : i \in 0..n /\ i # 0 BY <1>1
  <2>3. QED BY <2>1, <2>2, Zenon
<1> DEFINE S == {i \in 0..n : /\ included[i] \in X /\ Len(included[i]) <= i
                              /\ Len(included[i]) = i =>
                                   \A j \in 1..i : included[i][j] = messages[j]}
<1>9. 0 \in S
  <2>1. Len(<<>>) = 0 /\ 0 \in 0..n /\ \A j \in 1..0 : FALSE BY <1>1
  <2>2. QED BY <1>6, <1>8, <2>1
<1>10. ASSUME NEW i \in 1..n, i - 1 \in S
       PROVE  i \in S
  <2> DEFINE last == included[i - 1]
             message == messages[i]
  <2>1. /\ last \in X /\ Len(last) <= i - 1
        /\ Len(last) = i - 1 => \A j \in 1..(i - 1) : last[j] = messages[j]
    BY <1>10
  <2>2. included[i] \in {last, Append(last, message)} BY <1>3, <1>8
  <2>3. message \in ContextMessage /\ i \in 0..n BY <1>1
  <2> HIDE DEF last, message
  <2>4. Len(last) \in Nat BY <2>1, LenProperties DEF X
  <2>5. CASE included[i] = last
    <3>1. Len(included[i]) <= i /\ Len(included[i]) # i BY <2>1, <2>4, <2>5
    <3>2. QED BY <2>1, <2>3, <2>5, <3>1
  <2>6. CASE included[i] = Append(last, message)
    <3>1. /\ included[i] \in X /\ Len(included[i]) = Len(last) + 1
          /\ included[i][Len(last) + 1] = message
          /\ \A j \in 1..Len(last) : included[i][j] = last[j]
      BY <2>1, <2>3, <2>6, AppendProperties DEF X
    <3>2. ASSUME Len(included[i]) = i, NEW j \in 1..i
          PROVE  included[i][j] = messages[j]
      <4>1. Len(last) = i - 1 BY <2>4, <3>1, <3>2
      <4>2. CASE j = i BY <3>1, <4>1, <4>2 DEF message
      <4>3. CASE j # i
        <5>1. j \in 1..(i - 1) BY <4>3
        <5>2. QED BY <2>1, <3>1, <4>1, <5>1
      <4>4. QED BY <4>2, <4>3
    <3>3. Len(included[i]) <= i BY <2>1, <2>4, <3>1
    <3>4. QED BY <2>3, <3>1, <3>2, <3>3
  <2>7. QED BY <2>2, <2>5, <2>6
<1> HIDE DEF S
<1>11. 0..n \subseteq S BY <1>1, <1>9, <1>10, UpTo
<1>12. n \in S BY <1>1, <1>11
<1>13. /\ included[n] \in X /\ Len(included[n]) <= n
       /\ Len(included[n]) = n => \A j \in 1..n : included[n][j] = messages[j]
  BY <1>12 DEF S
<1>14. Len(included[n]) \in Nat BY <1>13, LenProperties DEF X
<1>15. Len(included[n]) >= n => included[n] = messages
  <2>1. SUFFICES ASSUME Len(included[n]) = n
                 PROVE  included[n] = messages
    BY <1>1, <1>13, <1>14
  <2>2. \A j \in 1..n : included[n][j] = messages[j] BY <1>13, <2>1
  <2>3. QED BY <1>13, <2>1, <2>2, SeqEqual DEF X, n
<1>16. QED BY <1>2, <1>13, <1>15 DEF X, n

(* The context has messages and notes, and says so when it does not have   *)
(* all messages of the pages.                                              *)
ContextKeepsMessages(made) ==
  /\ made.messages \in Seq(ContextMessage) /\ made.notes \in Nat
  /\ \/ made.truncated \/ made.inaccessible
     \/ \A raw \in Range(AllMessages) : [raw |-> raw, path |-> <<>>] \in Range(made.messages)

LEMMA ContextBuilt ==
  ASSUME contextInput \in ContextInputs
  PROVE  ContextKeepsMessages(BuildConversationContext)
<1> DEFINE all        == AllMessages
           many       == Len(all)
           sorted     == SortedByTime(all)
           most       == IF many <= contextInput.limit THEN many ELSE contextInput.limit
           limited    == SubSeq(sorted, 1, most)
           more       == Last(contextInput.pages).more
           truncated  == many > contextInput.limit \/ more
           normalized == [i \in DOMAIN limited |-> [raw |-> limited[i], path |-> <<>>]]
           included   == ApplyModelTokenBudget(normalized)
           dropped    == Len(included) < Len(normalized)
           OneIf(b)   == IF b THEN 1 ELSE 0
           failed     == \E i \in DOMAIN contextInput.pages : contextInput.pages[i].error
           made       == BuildConversationContext
<1>1. made = IF failed
             THEN [messages |-> <<>>, notes |-> 1, truncated |-> FALSE, inaccessible |-> TRUE]
             ELSE [messages |-> included, notes |-> OneIf(more) + OneIf(truncated) + OneIf(dropped),
                   truncated |-> truncated \/ dropped, inaccessible |-> FALSE]
  BY DEF BuildConversationContext, ContextOf
<1>2. all \in Seq(RawMessages) BY PagesFlattened
<1> HIDE DEF all, made
<1>3. many \in Nat /\ contextInput.limit \in Nat BY <1>2, InputTypes, LenProperties
<1>4. sorted \in Seq(RawMessages) /\ Len(sorted) = many /\ Range(all) \subseteq Range(sorted)
  BY <1>2, SortedKeeps
<1> HIDE DEF sorted, many
<1>5. most \in 0..many BY <1>3
<1> HIDE DEF most
<1>6. /\ limited \in Seq(RawMessages) /\ Len(limited) = most
      /\ \A i \in 1..most : limited[i] = sorted[i]
  BY <1>3, <1>4, <1>5, SubSeqProperties
<1>7. most = many => limited = sorted BY <1>4, <1>6, SeqEqual
<1> HIDE DEF limited
<1>8. /\ DOMAIN limited = 1..most /\ most \in Nat
      /\ \A i \in 1..most : limited[i] \in RawMessages
  BY <1>6, LenProperties, ElementOfSeq
<1>9. \A i \in 1..most : [raw |-> limited[i], path |-> <<>>] \in ContextMessage
  BY <1>8 DEF ContextMessage
<1>10. /\ normalized \in Seq(ContextMessage) /\ Len(normalized) = most /\ DOMAIN normalized = 1..most
       /\ \A i \in 1..most : normalized[i] = [raw |-> limited[i], path |-> <<>>]
  BY <1>8, <1>9
<1> HIDE DEF normalized
<1>11. included \in Seq(ContextMessage) /\ (Len(included) >= Len(normalized) => included = normalized)
  BY <1>10, BudgetKeeps
<1> HIDE DEF included
<1>12. Len(included) \in Nat BY <1>11, LenProperties
<1>13. made.messages \in Seq(ContextMessage) /\ made.notes \in Nat
  <2>1. CASE failed BY <1>1, <2>1
  <2>2. CASE ~failed
    <3>1. made.messages = included /\ made.notes = OneIf(more) + OneIf(truncated) + OneIf(dropped)
      BY <1>1, <2>2
    <3>2. OneIf(more) \in 0..1 /\ OneIf(truncated) \in 0..1 /\ OneIf(dropped) \in 0..1 OBVIOUS
    <3>3. QED BY <1>11, <3>1, <3>2
  <2>3. QED BY <2>1, <2>2
<1>14. ASSUME ~(made.truncated \/ made.inaccessible), NEW raw \in Range(all)
       PROVE  [raw |-> raw, path |-> <<>>] \in Range(made.messages)
  <2>1. made.messages = included /\ ~truncated /\ ~dropped BY <1>1, <1>14
  <2>2. included = normalized BY <1>10, <1>11, <1>12, <2>1
  <2>3. most = many BY <1>3, <2>1 DEF most
  <2>4. PICK i \in 1..most : raw = limited[i]
    BY <1>4, <1>7, <1>8, <1>14, <2>3 DEF Range
  <2>5. normalized[i] = [raw |-> raw, path |-> <<>>] BY <1>10, <2>4
  <2>6. QED BY <1>10, <2>1, <2>2, <2>5 DEF Range
<1>15. QED BY <1>13, <1>14 DEF ContextKeepsMessages, all, made

---------------------------------------------------------------------------
(* Fragments, and how they are offered.                                    *)

FragmentTypes ==
  {"context_note", "chat_message", "quoted_message", "message_note", "attachment"}

FragmentNames == {raw.name : raw \in RawMessages} \cup {""}

ContextFragment ==
  [type : FragmentTypes, name : FragmentNames, skipped : BOOLEAN, chars : Nat \cup {NoText},
   cut : BOOLEAN]

PendingMessage ==
  [message : ContextMessage, quoteDepth : 0..contextInput.options.maxQuoteDepth]

ContextProjection ==
  [step : {"notes", "messages", "done"}, pending : Seq(PendingMessage),
   fragments : Seq(ContextFragment), chars : Nat, refused : BOOLEAN, truncated : BOOLEAN,
   omitted : Nat, quoteDepthLimited : BOOLEAN]

(* Of what is offered together, the first two fragments are texts, and     *)
(* only the first one may be longer than a character.                      *)
Offerable(F) ==
  \A i \in 1..Len(F) : (i <= 2 => F[i].chars # NoText) /\ (i >= 2 => F[i].chars <= 1)

WithinLimits(p) ==
  /\ p.chars <= contextInput.options.maxTotalTextChars
  /\ Len(p.fragments) <= contextInput.options.maxFragments

IsFull(p) ==
  \/ Len(p.fragments) >= contextInput.options.maxFragments
  \/ p.chars >= contextInput.options.maxTotalTextChars

CutShortOf(f, whole) == f.cut /\ [f EXCEPT !.chars = whole.chars, !.cut = whole.cut] = whole

LEMMA ClippedTyped ==
  ASSUME contextInput \in ContextInputs, NEW chars \in Nat \cup {NoText}
  PROVE  LET most == contextInput.options.maxTextChars
             clipped == IF chars > most THEN most ELSE chars
         IN /\ clipped \in Nat \cup {NoText} /\ clipped <= chars
            /\ chars # NoText => clipped # NoText
            /\ (chars > most) \in BOOLEAN
<1> DEFINE most == contextInput.options.maxTextChars
<1>1. most \in Nat \ {0} BY InputTypes
<1> HIDE DEF most
<1>2. QED BY <1>1 DEF NoText, most

LEMMA FragmentTyped ==
  ASSUME contextInput \in ContextInputs,
         NEW type \in FragmentTypes, NEW message \in ContextMessage, NEW chars \in Nat \cup {NoText}
  PROVE  LET f == Fragment(type, message, chars) IN
         /\ f \in ContextFragment /\ f.type = type /\ f.name = message.raw.name
         /\ f.skipped = IsSkipped(message)
         /\ (chars # NoText => f.chars # NoText) /\ f.chars <= chars
<1> DEFINE most == contextInput.options.maxTextChars
           clipped == IF chars > most THEN most ELSE chars
           f == Fragment(type, message, chars)
<1>1. message.raw \in RawMessages BY DEF ContextMessage
<1>2. message.raw.name \in FragmentNames BY <1>1 DEF FragmentNames
<1>3. IsSkipped(message) \in BOOLEAN BY DEF IsSkipped
<1>4. /\ clipped \in Nat \cup {NoText} /\ clipped <= chars /\ (chars # NoText => clipped # NoText)
      /\ (chars > most) \in BOOLEAN
  BY ClippedTyped
<1>5. f = [type |-> type, name |-> message.raw.name, skipped |-> IsSkipped(message),
           chars |-> clipped, cut |-> chars > most]
  BY DEF Fragment, Clipped
<1> HIDE DEF clipped, most, f
<1>6. f \in ContextFragment BY <1>2, <1>3, <1>4, <1>5 DEF ContextFragment
<1>7. QED BY <1>4, <1>5, <1>6 DEF f

LEMMA NotesTyped ==
  ASSUME contextInput \in ContextInputs, context.notes \in Nat
  PROVE  ContextNotes \in Seq(ContextFragment) /\ Offerable(ContextNotes)
<1> DEFINE note == Clipped("context_note", "", FALSE, 1)
           n == context.notes
<1>1. /\ "context_note" \in FragmentTypes /\ "" \in FragmentNames /\ FALSE \in BOOLEAN
      /\ 1 \in Nat \cup {NoText} /\ 1 # NoText
  BY DEF NoText, FragmentTypes, FragmentNames
<1>2. note \in ContextFragment /\ note.chars # NoText /\ note.chars <= 1
  <2> DEFINE most == contextInput.options.maxTextChars
             clipped == IF 1 > most THEN most ELSE 1
  <2>1. /\ clipped \in Nat \cup {NoText} /\ clipped <= 1 /\ (1 # NoText => clipped # NoText)
        /\ (1 > most) \in BOOLEAN
    BY <1>1, ClippedTyped
  <2>2. note = [type |-> "context_note", name |-> "", skipped |-> FALSE, chars |-> clipped,
                cut |-> 1 > most]
    BY DEF Clipped
  <2> HIDE DEF clipped, most, note
  <2>3. QED BY <1>1, <2>1, <2>2 DEF ContextFragment
<1>3. ContextNotes = [i \in 1..n |-> note] BY DEF ContextNotes
<1> HIDE DEF note, n
<1>4. n \in Nat BY DEF n
<1>5. /\ ContextNotes \in Seq(ContextFragment) /\ Len(ContextNotes) = n
      /\ \A i \in 1..n : ContextNotes[i] = note
  BY <1>2, <1>3, <1>4
<1>6. QED BY <1>2, <1>5 DEF Offerable

(* The fragments of a message: its text comes first, and if it is skipped  *)
(* the next one is the note that says so.                                  *)
LEMMA FragmentsTyped ==
  ASSUME contextInput \in ContextInputs, NEW message \in ContextMessage, NEW depth \in Nat
  PROVE  LET F == FragmentsOf(message, depth) IN
         /\ F \in Seq(ContextFragment) /\ Offerable(F)
         /\ \E f \in Range(F) : /\ f.type \in {"chat_message", "quoted_message"}
                                /\ f.name = message.raw.name /\ f.skipped = IsSkipped(message)
         /\ IsSkipped(message) =>
              \E f \in Range(F) : f.type = "message_note" /\ f.name = message.raw.name /\ f.skipped
<1> DEFINE type == IF depth = 0 THEN "chat_message" ELSE "quoted_message"
           text == Fragment(type, message, CharsOf(message))
           note == Fragment("message_note", message, 1)
           file == Fragment("attachment", message, NoText)
           n == NotesOf(message)
           k == AttachmentsOf(message)
           a == <<text>>
           b == [i \in 1..n |-> note]
           c == [i \in 1..k |-> file]
           F == FragmentsOf(message, depth)
<1>1. F = (a \o b) \o c BY DEF FragmentsOf
<1>2. CharsOf(message) \in Nat /\ n \in Nat /\ k \in Nat /\ (k > 0 => n > 0) /\ (IsSkipped(message) => n = 1)
  BY MessageCounts
<1>3. /\ type \in {"chat_message", "quoted_message"} /\ type \in FragmentTypes
      /\ "message_note" \in FragmentTypes /\ "attachment" \in FragmentTypes
      /\ 1 \in Nat \cup {NoText} /\ 1 # NoText /\ NoText \in Nat \cup {NoText}
      /\ CharsOf(message) \in Nat \cup {NoText} /\ CharsOf(message) # NoText
  <2>1. \A x \in Nat : x \in Nat \cup {NoText} /\ x # NoText BY DEF NoText
  <2>2. NoText \in Nat \cup {NoText} /\ 1 \in Nat OBVIOUS
  <2>3. type \in {"chat_message", "quoted_message"} OBVIOUS
  <2>4. "message_note" \in FragmentTypes /\ "attachment" \in FragmentTypes BY DEF FragmentTypes
  <2> HIDE DEF type
  <2>5. type \in FragmentTypes BY <2>3 DEF FragmentTypes
  <2>6. QED BY <1>2, <2>1, <2>2, <2>3, <2>4, <2>5
<1>4. /\ text \in ContextFragment /\ text.type = type /\ text.name = message.raw.name
      /\ text.skipped = IsSkipped(message) /\ text.chars # NoText
  BY <1>3, FragmentTyped
<1>5. /\ note \in ContextFragment /\ note.type = "message_note" /\ note.name = message.raw.name
      /\ note.skipped = IsSkipped(message) /\ note.chars # NoText /\ note.chars <= 1
  BY <1>3, FragmentTyped
<1>6. file \in ContextFragment /\ file.chars <= NoText
  BY <1>3, FragmentTyped
<1>7. file.chars <= 1 BY <1>6 DEF NoText, ContextFragment
<1> HIDE DEF text, note, file, n, k, F, type
<1>8. /\ a \in Seq(ContextFragment) /\ Len(a) = 1 /\ a[1] = text
      /\ b \in Seq(ContextFragment) /\ Len(b) = n /\ \A i \in 1..n : b[i] = note
      /\ c \in Seq(ContextFragment) /\ Len(c) = k /\ \A i \in 1..k : c[i] = file
  BY <1>2, <1>4, <1>5, <1>6
<1> HIDE DEF a, b, c
<1>9. /\ a \o b \in Seq(ContextFragment) /\ Len(a \o b) = 1 + n
      /\ \A i \in 1..(1 + n) : (a \o b)[i] = IF i <= 1 THEN a[i] ELSE b[i - 1]
  <2>1. /\ a \o b \in Seq(ContextFragment) /\ Len(a \o b) = Len(a) + Len(b)
        /\ \A i \in 1..(Len(a) + Len(b)) : (a \o b)[i] = IF i <= Len(a) THEN a[i] ELSE b[i - Len(a)]
    BY <1>8, ConcatProperties
  <2>2. QED BY <1>8, <2>1
<1>10. /\ F \in Seq(ContextFragment) /\ Len(F) = 1 + n + k
       /\ \A i \in 1..(1 + n + k) : F[i] = IF i <= 1 + n THEN (a \o b)[i] ELSE c[i - (1 + n)]
  <2> DEFINE d == a \o b
  <2>1. d \in Seq(ContextFragment) /\ Len(d) = 1 + n BY <1>9
  <2> HIDE DEF d
  <2>2. /\ d \o c \in Seq(ContextFragment) /\ Len(d \o c) = Len(d) + Len(c)
        /\ \A i \in 1..(Len(d) + Len(c)) : (d \o c)[i] = IF i <= Len(d) THEN d[i] ELSE c[i - Len(d)]
    BY <1>8, <2>1, ConcatProperties
  <2>3. F = d \o c BY <1>1 DEF d
  <2>4. /\ F \in Seq(ContextFragment) /\ Len(F) = 1 + n + k
        /\ \A i \in 1..(1 + n + k) : F[i] = IF i <= 1 + n THEN d[i] ELSE c[i - (1 + n)]
    BY <1>8, <2>1, <2>2, <2>3
  <2>5. QED BY <2>4 DEF d
<1>11. F[1] = text BY <1>2, <1>8, <1>9, <1>10
<1>12. \A i \in 2..(1 + n) : F[i] = note
  <2>1. ASSUME NEW i \in 2..(1 + n)
        PROVE  F[i] = note
    <3>1. i \in 1..(1 + n + k) /\ i \in 1..(1 + n) /\ i - 1 \in 1..n BY <1>2
    <3>2. ~(i <= 1) /\ i <= 1 + n BY <1>2
    <3>3. F[i] = (a \o b)[i] BY <1>10, <3>1, <3>2
    <3>4. (a \o b)[i] = b[i - 1] BY <1>9, <3>1, <3>2
    <3>5. QED BY <1>8, <3>1, <3>3, <3>4
  <2>2. QED BY <2>1
<1>13. \A i \in (2 + n)..(1 + n + k) : F[i] = file /\ i > 2
  <2>1. ASSUME NEW i \in (2 + n)..(1 + n + k)
        PROVE  F[i] = file /\ i > 2
    <3>1. i \in 1..(1 + n + k) /\ ~(i <= 1 + n) /\ i - (1 + n) \in 1..k BY <1>2
    <3>2. F[i] = file BY <1>8, <1>10, <3>1
    <3>3. k > 0 /\ n > 0 BY <1>2, <3>1
    <3>4. QED BY <1>2, <3>2, <3>3
  <2>2. QED BY <2>1
<1>14. Offerable(F)
  <2>1. ASSUME NEW i \in 1..Len(F)
        PROVE  (i <= 2 => F[i].chars # NoText) /\ (i >= 2 => F[i].chars <= 1)
    <3>1. CASE i = 1 BY <1>4, <1>11, <3>1
    <3>2. CASE i \in 2..(1 + n) BY <1>5, <1>12, <3>2
    <3>3. CASE i \in (2 + n)..(1 + n + k) BY <1>7, <1>13, <3>3
    <3>4. QED BY <1>2, <1>10, <3>1, <3>2, <3>3
  <2>2. QED BY <2>1 DEF Offerable
<1>15. DOMAIN F = 1..(1 + n + k) BY <1>10, LenProperties
<1>16. text \in Range(F)
  <2>1. 1 \in DOMAIN F BY <1>2, <1>15
  <2>2. QED BY <1>11, <2>1 DEF Range
<1>17. IsSkipped(message) => note \in Range(F)
  <2>1. SUFFICES ASSUME IsSkipped(message)
                 PROVE  note \in Range(F)
    OBVIOUS
  <2>2. n = 1 /\ 2 \in DOMAIN F /\ 2 \in 2..(1 + n) BY <1>2, <1>15, <2>1
  <2>3. QED BY <1>12, <2>2 DEF Range
<1>18. QED BY <1>3, <1>4, <1>5, <1>10, <1>14, <1>16, <1>17 DEF F

(* What an offer comes to: it is refused where there is no room, or given, *)
(* at least in part.                                                       *)
IsRefused(p, q) ==
  /\ q.refused /\ q.fragments = p.fragments /\ q.chars = p.chars
  /\ IF p.refused THEN q = p ELSE q.truncated /\ IsFull(p)

IsGiven(p, q, f) ==
  \E given \in ContextFragment :
    /\ ~p.refused /\ ~q.refused /\ q.fragments = Append(p.fragments, given)
    /\ f.chars # NoText => ~IsFull(p)
    /\ q.truncated = (p.truncated \/ given.cut)
    /\ given = f \/ (CutShortOf(given, f) /\ IsFull(q) /\ f.chars >= 2)

SameElse(p, q) == q.step = p.step /\ q.pending = p.pending

LEMMA Offered ==
  ASSUME contextInput \in ContextInputs, NEW p \in ContextProjection, WithinLimits(p),
         NEW f \in ContextFragment
  PROVE  LET q == Offer(p, f) IN
         /\ q \in ContextProjection /\ WithinLimits(q) /\ SameElse(p, q)
         /\ IsRefused(p, q) \/ IsGiven(p, q, f)
<1> DEFINE options   == contextInput.options
           total     == options.maxTotalTextChars
           most      == options.maxFragments
           remaining == total - p.chars
           cutShort  == [f EXCEPT !.chars = remaining, !.cut = TRUE]
           given     == IF f.chars > remaining THEN cutShort ELSE f
           q         == Offer(p, f)
           full      == \/ Len(p.fragments) >= most
                        \/ f.chars # NoText /\ remaining <= 0
<1> SUFFICES /\ q \in ContextProjection /\ WithinLimits(q) /\ SameElse(p, q)
             /\ IsRefused(p, q) \/ IsGiven(p, q, f)
  OBVIOUS
<1>1. total \in Nat \ {0} /\ most \in Nat \ {0} BY InputTypes
<1>2. q = IF p.refused THEN p
          ELSE IF full THEN [p EXCEPT !.refused = TRUE, !.truncated = TRUE, !.omitted = @ + 1]
          ELSE [p EXCEPT !.fragments = Append(@, given),
                         !.chars = @ + (IF given.chars > 0 THEN given.chars ELSE 0),
                         !.truncated = @ \/ given.cut]
  BY DEF Offer
<1>3. p.chars <= total /\ Len(p.fragments) <= most BY DEF WithinLimits
<1>4. IsFull(p) <=> Len(p.fragments) >= most \/ p.chars >= total BY DEF IsFull
<1>5. /\ p.chars \in Nat /\ p.fragments \in Seq(ContextFragment) /\ p.omitted \in Nat
      /\ p.truncated \in BOOLEAN /\ p.refused \in BOOLEAN
  BY DEF ContextProjection
<1>6. Len(p.fragments) \in Nat BY <1>5, LenProperties
<1>7. f.chars \in Nat \cup {NoText} BY DEF ContextFragment
<1>8. \A r : IsFull(r) <=> Len(r.fragments) >= most \/ r.chars >= total BY DEF IsFull
<1>9. \A r : WithinLimits(r) <=> r.chars <= total /\ Len(r.fragments) <= most BY DEF WithinLimits
<1> HIDE DEF total, most, q
<1>10. CASE p.refused BY <1>2, <1>10 DEF IsRefused, SameElse
<1>11. CASE ~p.refused /\ full
  <2>1. q = [p EXCEPT !.refused = TRUE, !.truncated = TRUE, !.omitted = @ + 1] BY <1>2, <1>11
  <2>2. IsFull(p) BY <1>1, <1>4, <1>5, <1>11
  <2>3. /\ q.refused = TRUE /\ q.truncated = TRUE /\ q.fragments = p.fragments /\ q.chars = p.chars
        /\ q.step = p.step /\ q.pending = p.pending
    BY <2>1 DEF ContextProjection
  <2>4. q \in ContextProjection
    <3>1. p.omitted + 1 \in Nat BY <1>5
    <3>2. q = [p EXCEPT !.refused = TRUE, !.truncated = TRUE, !.omitted = p.omitted + 1] BY <2>1
    <3>3. QED BY <3>1, <3>2 DEF ContextProjection
  <2>5. IsRefused(p, q) BY <1>11, <2>2, <2>3 DEF IsRefused
  <2>6. QED BY <1>3, <1>9, <2>3, <2>4, <2>5 DEF SameElse
<1>12. CASE ~p.refused /\ ~full
  <2>1. q = [p EXCEPT !.fragments = Append(@, given),
                      !.chars = @ + (IF given.chars > 0 THEN given.chars ELSE 0),
                      !.truncated = @ \/ given.cut]
    BY <1>2, <1>12
  <2>2. remaining \in Nat /\ (f.chars # NoText => remaining > 0) BY <1>1, <1>3, <1>5, <1>12
  <2>3. f.chars > remaining => f.chars \in Nat /\ f.chars >= 2 /\ remaining > 0
    BY <1>7, <2>2 DEF NoText
  <2>4. /\ given \in ContextFragment /\ (given.chars > 0 => given.chars <= remaining)
        /\ given.chars \in Nat \cup {NoText}
        /\ given = f \/ (CutShortOf(given, f) /\ f.chars >= 2 /\ given.chars = remaining /\ remaining > 0)
    <3>1. CASE f.chars > remaining
      <4>1. given = cutShort BY <3>1
      <4>2. cutShort \in ContextFragment /\ cutShort.chars = remaining /\ cutShort.cut
        BY <2>2 DEF ContextFragment
      <4>3. [cutShort EXCEPT !.chars = f.chars, !.cut = f.cut] = f BY DEF ContextFragment
      <4> HIDE DEF cutShort
      <4>4. QED BY <2>2, <2>3, <3>1, <4>1, <4>2, <4>3 DEF CutShortOf
    <3>2. CASE ~(f.chars > remaining)
      <4>1. given = f BY <3>2
      <4>2. f.chars > 0 => f.chars <= remaining BY <1>7, <2>2, <3>2 DEF NoText
      <4>3. QED BY <1>7, <4>1, <4>2
    <3>3. QED BY <3>1, <3>2
  <2>5. given.cut \in BOOLEAN BY <2>4 DEF ContextFragment
  <2> HIDE DEF given, remaining
  <2> DEFINE more == IF given.chars > 0 THEN given.chars ELSE 0
  <2>6. more \in Nat /\ p.chars + more <= total
    <3>1. remaining = total - p.chars BY DEF remaining
    <3>2. QED BY <1>1, <1>3, <1>5, <2>2, <2>4, <3>1 DEF NoText
  <2>7. given.chars = remaining /\ remaining > 0 => p.chars + more = total
    BY <1>1, <1>5 DEF remaining
  <2> HIDE DEF more
  <2>8. /\ Append(p.fragments, given) \in Seq(ContextFragment)
        /\ Len(Append(p.fragments, given)) = Len(p.fragments) + 1
    BY <1>5, <2>4, AppendProperties
  <2>9. (p.truncated \/ given.cut) \in BOOLEAN BY <1>5, <2>5
  <2>10. q = [p EXCEPT !.fragments = Append(p.fragments, given), !.chars = p.chars + more,
                       !.truncated = p.truncated \/ given.cut]
    BY <2>1 DEF more
  <2>11. /\ q.fragments = Append(p.fragments, given) /\ q.chars = p.chars + more
         /\ q.truncated = (p.truncated \/ given.cut) /\ q.refused = p.refused
         /\ q.step = p.step /\ q.pending = p.pending
    BY <2>10 DEF ContextProjection
  <2>12. q \in ContextProjection
    <3>1. p.chars + more \in Nat BY <1>5, <2>6
    <3>2. QED BY <2>8, <2>9, <2>10, <3>1 DEF ContextProjection
  <2>13. WithinLimits(q) BY <1>1, <1>3, <1>6, <1>9, <1>12, <2>6, <2>8, <2>11
  <2>14. f.chars # NoText => ~IsFull(p)
    <3>1. remaining = total - p.chars BY DEF remaining
    <3>2. QED BY <1>1, <1>4, <1>5, <1>6, <1>12, <2>2, <3>1
  <2>15. given.chars = remaining /\ remaining > 0 => IsFull(q)
    BY <1>1, <1>8, <2>7, <2>11
  <2>16. IsGiven(p, q, f) BY <1>12, <2>4, <2>11, <2>14, <2>15 DEF IsGiven
  <2>17. QED BY <2>11, <2>12, <2>13, <2>16 DEF SameElse
<1>13. QED BY <1>10, <1>11, <1>12

(* So many fragments of B have been offered: those handed on are its       *)
(* beginning, but for the last one, which may be cut short.                *)
GivesSoFar(fragments, B, m) ==
  /\ Len(fragments) <= m
  /\ \A i \in 1..Len(fragments) :
       \/ fragments[i] = B[i]
       \/ i = Len(fragments) /\ CutShortOf(fragments[i], B[i])

LeavesOut(fragments, B, m) ==
  \/ Len(fragments) < m
  \/ Len(fragments) > 0 /\ fragments[Len(fragments)] # B[Len(fragments)]

(* Nothing is missing that is not owned up to.                             *)
OwnsUp(p) ==
  ~p.truncated => ~p.refused /\ \A f \in Range(p.fragments) : ~f.cut

(* So many of the fragments F, which B has behind its first m, have been   *)
(* offered to p.                                                           *)
IsOffered(p, q, F, B, m, n) ==
  /\ q \in ContextProjection /\ WithinLimits(q) /\ SameElse(p, q) /\ OwnsUp(q)
  /\ GivesSoFar(q.fragments, B, m + n)
  /\ q.refused \/ LeavesOut(q.fragments, B, m + n) => IsFull(q)
  /\ LeavesOut(q.fragments, B, m + n) => q.refused \/ n <= 1
  /\ ~q.truncated => /\ ~p.truncated /\ Range(p.fragments) \subseteq Range(q.fragments)
                     /\ \A i \in 1..n : F[i] \in Range(q.fragments)

LEMMA OfferedNext ==
  ASSUME contextInput \in ContextInputs, NEW p, NEW q, NEW F \in Seq(ContextFragment), Offerable(F),
         NEW B \in Seq(ContextFragment), NEW m \in Nat, NEW n \in 1..Len(F),
         m + Len(F) <= Len(B), \A i \in 1..Len(F) : B[m + i] = F[i],
         IsOffered(p, q, F, B, m, n - 1)
  PROVE  IsOffered(p, Offer(q, F[n]), F, B, m, n)
<1> DEFINE f == F[n]
           r == Offer(q, f)
           k == m + n
<1>1. Len(F) \in Nat /\ n \in Nat /\ n >= 1 /\ k \in Nat /\ k - 1 \in Nat /\ m + (n - 1) = k - 1
      /\ f \in ContextFragment /\ B[k] = f
  BY LenProperties, ElementOfSeq
<1>2. (n <= 2 => f.chars # NoText) /\ (n >= 2 => f.chars <= 1) BY DEF Offerable
<1>3. /\ q \in ContextProjection /\ WithinLimits(q) /\ SameElse(p, q) /\ OwnsUp(q)
      /\ GivesSoFar(q.fragments, B, k - 1)
      /\ q.refused \/ LeavesOut(q.fragments, B, k - 1) => IsFull(q)
      /\ LeavesOut(q.fragments, B, k - 1) => q.refused \/ n - 1 <= 1
      /\ ~q.truncated => /\ ~p.truncated /\ Range(p.fragments) \subseteq Range(q.fragments)
                         /\ \A i \in 1..(n - 1) : F[i] \in Range(q.fragments)
  BY <1>1 DEF IsOffered
<1>4. /\ r \in ContextProjection /\ WithinLimits(r) /\ SameElse(q, r)
      /\ IsRefused(q, r) \/ IsGiven(q, r, f)
  BY <1>1, <1>3, Offered
<1>5. SUFFICES IsOffered(p, r, F, B, m, n) OBVIOUS
<1> HIDE DEF f, r, k
<1>6. q.fragments \in Seq(ContextFragment) /\ Len(q.fragments) \in Nat
  BY <1>3, LenProperties DEF ContextProjection
<1>7. SameElse(p, r) BY <1>3, <1>4 DEF SameElse
<1>8. CASE IsRefused(q, r)
  <2>1. /\ r.refused /\ r.fragments = q.fragments /\ r.chars = q.chars
        /\ IF q.refused THEN r = q ELSE r.truncated /\ IsFull(q)
    BY <1>8 DEF IsRefused
  <2>2. r.truncated BY <1>3, <2>1 DEF OwnsUp
  <2>3. IsFull(r) BY <1>3, <2>1 DEF IsFull
  <2>4. GivesSoFar(r.fragments, B, k) BY <1>1, <1>3, <1>6, <2>1 DEF GivesSoFar
  <2>5. QED BY <1>4, <1>7, <2>1, <2>2, <2>3, <2>4 DEF IsOffered, OwnsUp, k
<1>9. CASE IsGiven(q, r, f)
  <2>1. PICK given \in ContextFragment :
          /\ ~q.refused /\ ~r.refused /\ r.fragments = Append(q.fragments, given)
          /\ f.chars # NoText => ~IsFull(q)
          /\ r.truncated = (q.truncated \/ given.cut)
          /\ given = f \/ (CutShortOf(given, f) /\ IsFull(r) /\ f.chars >= 2)
    BY <1>9 DEF IsGiven
  <2>2. ~LeavesOut(q.fragments, B, k - 1)
    <3>1. SUFFICES ASSUME LeavesOut(q.fragments, B, k - 1)
                   PROVE  FALSE
      OBVIOUS
    <3>2. n <= 2 BY <1>1, <1>3, <2>1, <3>1
    <3>3. QED BY <1>2, <1>3, <2>1, <3>1, <3>2
  <2>3. /\ Len(q.fragments) = k - 1
        /\ Len(q.fragments) > 0 => q.fragments[Len(q.fragments)] = B[Len(q.fragments)]
    BY <1>1, <1>3, <1>6, <2>2 DEF LeavesOut, GivesSoFar
  <2>4. \A i \in 1..(k - 1) : q.fragments[i] = B[i]
    BY <1>1, <1>3, <2>3 DEF GivesSoFar
  <2>5. /\ Len(r.fragments) = k /\ r.fragments[k] = given
        /\ \A i \in 1..(k - 1) : r.fragments[i] = q.fragments[i]
    BY <1>1, <1>6, <2>1, <2>3, AppendProperties, SMTT(30)
  <2>6. Range(r.fragments) = Range(q.fragments) \cup {given} BY <1>6, <2>1, RangeAppended
  <2>7. GivesSoFar(r.fragments, B, k)
    <3>1. ASSUME NEW i \in 1..k
          PROVE  \/ r.fragments[i] = B[i]
                 \/ i = k /\ CutShortOf(r.fragments[i], B[i])
      <4>1. CASE i = k BY <1>1, <2>1, <2>5, <4>1
      <4>2. CASE i # k
        <5>1. i \in 1..(k - 1) BY <1>1, <4>2
        <5>2. QED BY <2>4, <2>5, <5>1
      <4>3. QED BY <4>1, <4>2
    <3>2. QED BY <1>1, <2>5, <3>1 DEF GivesSoFar
  <2>8. LeavesOut(r.fragments, B, k) => IsFull(r) /\ n <= 1
    <3>1. SUFFICES ASSUME LeavesOut(r.fragments, B, k)
                   PROVE  IsFull(r) /\ n <= 1
      OBVIOUS
    <3>2. given # f BY <1>1, <2>5, <3>1 DEF LeavesOut
    <3>3. f.chars \in Int BY <1>1 DEF ContextFragment, NoText
    <3>4. QED BY <1>1, <1>2, <2>1, <3>2, <3>3
  <2>9. ASSUME ~r.truncated
        PROVE  /\ ~q.truncated /\ ~given.cut /\ given = f
               /\ Range(q.fragments) \subseteq Range(r.fragments) /\ f \in Range(r.fragments)
    BY <2>1, <2>6, <2>9 DEF CutShortOf
  <2>10. OwnsUp(r) BY <1>3, <2>1, <2>6, <2>9 DEF OwnsUp
  <2>11. ASSUME ~r.truncated
         PROVE  /\ ~p.truncated /\ Range(p.fragments) \subseteq Range(r.fragments)
                /\ \A i \in 1..n : F[i] \in Range(r.fragments)
    <3>1. ASSUME NEW i \in 1..n
          PROVE  F[i] \in Range(r.fragments)
      <4>1. CASE i = n BY <2>9, <2>11, <4>1 DEF f
      <4>2. CASE i # n
        <5>1. i \in 1..(n - 1) BY <1>1, <4>2
        <5>2. QED BY <1>3, <2>9, <2>11, <5>1
      <4>3. QED BY <4>1, <4>2
    <3>2. QED BY <1>3, <2>9, <2>11, <3>1
  <2>12. QED BY <1>4, <1>7, <2>1, <2>7, <2>8, <2>10, <2>11 DEF IsOffered, k
<1>10. QED BY <1>4, <1>8, <1>9

LEMMA OfferedAll ==
  ASSUME contextInput \in ContextInputs, NEW p \in ContextProjection, WithinLimits(p), OwnsUp(p),
         ~p.refused, NEW F \in Seq(ContextFragment), Offerable(F),
         NEW B \in Seq(ContextFragment), NEW m \in Nat,
         m + Len(F) <= Len(B), \A i \in 1..Len(F) : B[m + i] = F[i],
         GivesSoFar(p.fragments, B, m), LeavesOut(p.fragments, B, m) => IsFull(p)
  PROVE  IsOffered(p, OfferAll(p, F), F, B, m, Len(F))
<1> DEFINE n == Len(F)
           X == ContextProjection
           IsOfferedBy(f) == f = [i \in 0..n |-> IF i = 0 THEN p ELSE Offer(f[i - 1], F[i])]
           offered == CHOOSE f : IsOfferedBy(f)
           Within == {q \in X : WithinLimits(q)}
           G == [i \in 1..n |-> [q \in Within |-> Offer(q, F[i])]]
<1>1. n \in Nat /\ (\A i \in 1..n : F[i] \in ContextFragment) /\ \A i \in 1..n : i - 1 \in 0..n
  BY LenProperties, ElementOfSeq
<1>2. OfferAll(p, F) = offered[n] BY DEF OfferAll
<1> HIDE DEF n
<1>3. ASSUME NEW i \in 1..n, NEW q \in Within
      PROVE  Offer(q, F[i]) \in Within
  BY <1>1, Offered
<1>4. G \in [1..n -> [Within -> Within]] /\ \A i \in 1..n, q \in Within : G[i][q] = Offer(q, F[i])
  BY <1>3
<1>5. p \in Within OBVIOUS
<1> HIDE DEF G, Within
<1>6. IsOfferedBy(offered)
  <2>1. PICK g \in [0..n -> Within] : LeadsOn(g, p, n, G) BY <1>1, <1>4, <1>5, Iterated
  <2>2. \A i \in 1..n : g[i] = Offer(g[i - 1], F[i])
    BY <1>1, <1>4, <2>1 DEF LeadsOn
  <2>3. \A i \in 0..n : i # 0 => i \in 1..n BY <1>1
  <2>4. IsOfferedBy(g) BY <2>1, <2>2, <2>3 DEF LeadsOn
  <2>5. QED BY <2>4
<1> HIDE DEF offered
<1>7. offered[0] = p /\ \A i \in 1..n : offered[i] = Offer(offered[i - 1], F[i])
  <2>1. \A i \in 0..n : offered[i] = IF i = 0 THEN p ELSE Offer(offered[i - 1], F[i])
    BY <1>6, Zenon
  <2>2. 0 \in 0..n /\ \A i \in 1..n : i \in 0..n /\ i # 0 BY <1>1
  <2>3. QED BY <2>1, <2>2, Zenon
<1> DEFINE S == {i \in 0..n : IsOffered(p, offered[i], F, B, m, i)}
<1>8. 0 \in S
  <2>1. m + 0 = m /\ 0 <= 1 /\ 0 \in 0..n /\ \A i \in 1..0 : FALSE BY <1>1
  <2>2. IsOffered(p, p, F, B, m, 0) BY <2>1 DEF IsOffered, SameElse
  <2>3. QED BY <1>7, <2>1, <2>2
<1>9. ASSUME NEW i \in 1..n, i - 1 \in S
      PROVE  i \in S
  <2>1. IsOffered(p, offered[i - 1], F, B, m, i - 1) BY <1>9
  <2>2. IsOffered(p, Offer(offered[i - 1], F[i]), F, B, m, i) BY <2>1, OfferedNext DEF n
  <2>3. QED BY <1>1, <1>7, <2>2
<1> HIDE DEF S
<1>10. 0..n \subseteq S BY <1>1, <1>8, <1>9, UpTo
<1>11. n \in S BY <1>1, <1>10
<1>12. QED BY <1>2, <1>11 DEF S, n

---------------------------------------------------------------------------
(* The listing of the context.                                             *)

QuotesListed(x, message) ==
  LET quotes == QuotedBy(message) IN FlattenSeq([i \in DOMAIN quotes |-> x[quotes[i]]])

ListedWith(x, message, k) ==
  FragmentsOf(message, contextInput.options.maxQuoteDepth - k)
    \o (IF k = 0 THEN <<>> ELSE QuotesListed(x, message))

Listings == [ContextMessage -> Seq(ContextFragment)]

LEMMA QuotesListedTyped ==
  ASSUME contextInput \in ContextInputs, NEW x \in Listings, NEW message \in ContextMessage
  PROVE  QuotesListed(x, message) \in Seq(ContextFragment)
<1> DEFINE quotes == QuotedBy(message)
           lists == [i \in DOMAIN quotes |-> x[quotes[i]]]
<1>1. quotes \in Seq(ContextMessage) BY QuotedContext
<1>2. QuotesListed(x, message) = FlattenSeq(lists) BY DEF QuotesListed
<1> HIDE DEF quotes
<1>3. DOMAIN quotes = 1..Len(quotes) /\ Len(quotes) \in Nat /\ \A i \in 1..Len(quotes) : quotes[i] \in ContextMessage
  BY <1>1, LenProperties, ElementOfSeq
<1>4. \A i \in 1..Len(quotes) : x[quotes[i]] \in Seq(ContextFragment) BY <1>3 DEF Listings
<1>5. lists \in Seq(Seq(ContextFragment)) BY <1>3, <1>4
<1> HIDE DEF lists
<1>6. QED BY <1>2, <1>5, Flattened

LEMMA ListedWithTyped ==
  ASSUME contextInput \in ContextInputs, NEW k \in 0..contextInput.options.maxQuoteDepth,
         NEW message \in ContextMessage, NEW x, k # 0 => x \in Listings
  PROVE  ListedWith(x, message, k) \in Seq(ContextFragment)
<1> DEFINE most == contextInput.options.maxQuoteDepth
           rest == IF k = 0 THEN <<>> ELSE QuotesListed(x, message)
           F == FragmentsOf(message, most - k)
<1>1. most - k \in Nat BY InputTypes
<1>2. F \in Seq(ContextFragment) BY <1>1, FragmentsTyped
<1>3. rest \in Seq(ContextFragment) BY QuotesListedTyped
<1>4. ListedWith(x, message, k) = F \o rest BY DEF ListedWith
<1> HIDE DEF F, rest
<1>5. QED BY <1>2, <1>3, <1>4, ConcatProperties

LEMMA ListingUnfolded ==
  ASSUME contextInput \in ContextInputs
  PROVE  \A k \in 0..contextInput.options.maxQuoteDepth :
           /\ FragmentsWithQuotes[k] \in Listings
           /\ \A message \in ContextMessage :
                FragmentsWithQuotes[k][message] = ListedWith(FragmentsWithQuotes[k - 1], message, k)
<1> DEFINE most == contextInput.options.maxQuoteDepth
           IsListing(f) ==
             f = [k \in 0..most |->
                    [message \in ContextMessage |->
                       LET quotes == QuotedBy(message)
                       IN FragmentsOf(message, most - k)
                            \o (IF k = 0 THEN <<>>
                                ELSE FlattenSeq([i \in DOMAIN quotes |-> f[k - 1][quotes[i]]]))]]
           listed == CHOOSE f : IsListing(f)
           base == [message \in ContextMessage |-> ListedWith(<<>>, message, 0)]
           G == [k \in 1..most |->
                   [x \in Listings |-> [message \in ContextMessage |-> ListedWith(x, message, k)]]]
<1>1. FragmentsWithQuotes = listed BY DEF FragmentsWithQuotes
<1>2. most \in Nat BY InputTypes
<1>3. ASSUME NEW k \in 1..most, NEW x \in Listings
      PROVE  [message \in ContextMessage |-> ListedWith(x, message, k)] \in Listings
  <2>1. k \in 0..most BY <1>2
  <2>2. \A message \in ContextMessage : ListedWith(x, message, k) \in Seq(ContextFragment)
    BY <2>1, ListedWithTyped
  <2>3. QED BY <2>2 DEF Listings
<1>4. base \in Listings
  <2>1. 0 \in 0..most BY <1>2
  <2>2. \A message \in ContextMessage : ListedWith(<<>>, message, 0) \in Seq(ContextFragment)
    BY <2>1, ListedWithTyped
  <2>3. QED BY <2>2 DEF Listings
<1>5. /\ G \in [1..most -> [Listings -> Listings]]
      /\ \A k \in 1..most, x \in Listings :
           G[k][x] = [message \in ContextMessage |-> ListedWith(x, message, k)]
  BY <1>3
<1>6. \A k, x, message :
        ListedWith(x, message, k) =
          (LET quotes == QuotedBy(message)
           IN FragmentsOf(message, most - k)
                \o (IF k = 0 THEN <<>>
                    ELSE FlattenSeq([i \in DOMAIN quotes |-> x[quotes[i]]])))
  BY DEF ListedWith, QuotesListed
<1>7. \A x, message : ListedWith(x, message, 0) = ListedWith(<<>>, message, 0)
  BY DEF ListedWith
<1> HIDE DEF G, base
<1>8. \E f : IsListing(f)
  <2>1. PICK g \in [0..most -> Listings] : LeadsOn(g, base, most, G) BY <1>2, <1>4, <1>5, Iterated
  <2>2. \A k \in 0..most : g[k] = [message \in ContextMessage |-> ListedWith(g[k - 1], message, k)]
    <3>1. g[0] = base BY <2>1 DEF LeadsOn
    <3>2. base = [message \in ContextMessage |-> ListedWith(g[0 - 1], message, 0)]
      <4>1. \A message \in ContextMessage : ListedWith(g[0 - 1], message, 0) = ListedWith(<<>>, message, 0)
        BY <1>7
      <4>2. QED BY <4>1 DEF base
    <3>3. ASSUME NEW k \in 1..most
          PROVE  g[k] = [message \in ContextMessage |-> ListedWith(g[k - 1], message, k)]
      <4>1. k - 1 \in 0..most BY <1>2
      <4>2. g[k - 1] \in Listings BY <4>1
      <4>3. g[k] = G[k][g[k - 1]] BY <2>1 DEF LeadsOn
      <4>4. QED BY <1>5, <4>2, <4>3
    <3>4. \A k \in 0..most : k = 0 \/ k \in 1..most BY <1>2
    <3>5. QED BY <3>1, <3>2, <3>3, <3>4
  <2>3. g = [k \in 0..most |-> [message \in ContextMessage |-> ListedWith(g[k - 1], message, k)]]
    BY <2>2
  <2>4. IsListing(g) BY <2>3 DEF ListedWith, QuotesListed
  <2>5. QED BY <2>4
<1>9. IsListing(listed) BY <1>8
<1> HIDE DEF listed
<1>10. listed = [k \in 0..most |-> [message \in ContextMessage |-> ListedWith(listed[k - 1], message, k)]]
  BY <1>9 DEF ListedWith, QuotesListed
<1>11. \A k \in 0..most : listed[k] = [message \in ContextMessage |-> ListedWith(listed[k - 1], message, k)]
  BY <1>10
<1> DEFINE S == {k \in 0..most : listed[k] \in Listings}
<1>12. 0 \in S
  <2>1. 0 \in 0..most BY <1>2
  <2>2. \A message \in ContextMessage : ListedWith(listed[0 - 1], message, 0) \in Seq(ContextFragment)
    BY <2>1, ListedWithTyped
  <2>3. listed[0] \in Listings BY <1>11, <2>1, <2>2 DEF Listings
  <2>4. QED BY <2>1, <2>3
<1>13. ASSUME NEW k \in 1..most, k - 1 \in S
       PROVE  k \in S
  <2>1. k \in 0..most BY <1>2
  <2>2. [message \in ContextMessage |-> ListedWith(listed[k - 1], message, k)] \in Listings
    BY <1>3, <1>13
  <2>3. QED BY <1>11, <2>1, <2>2
<1> HIDE DEF S
<1>14. 0..most \subseteq S BY <1>2, <1>12, <1>13, UpTo
<1>15. \A k \in 0..most : listed[k] \in Listings BY <1>14 DEF S
<1>16. \A k \in 0..most : \A message \in ContextMessage :
         listed[k][message] = ListedWith(listed[k - 1], message, k)
  BY <1>11
<1>17. QED BY <1>1, <1>15, <1>16

(* The listings of what is pending.                                        *)
ListedItem(item) ==
  FragmentsWithQuotes[contextInput.options.maxQuoteDepth - item.quoteDepth][item.message]

ListsOf(pending) == [i \in DOMAIN pending |-> ListedItem(pending[i])]

Listed(pending) == FlattenSeq(ListsOf(pending))

LEMMA ItemListed ==
  ASSUME contextInput \in ContextInputs, NEW item \in PendingMessage
  PROVE  /\ ListedItem(item) \in Seq(ContextFragment)
         /\ contextInput.options.maxQuoteDepth - item.quoteDepth \in 0..contextInput.options.maxQuoteDepth
         /\ item.message \in ContextMessage /\ item.quoteDepth \in Nat
<1> DEFINE most == contextInput.options.maxQuoteDepth
           k == most - item.quoteDepth
<1>1. most \in Nat /\ item.quoteDepth \in 0..most /\ item.message \in ContextMessage
  BY InputTypes DEF PendingMessage
<1> HIDE DEF most
<1>2. k \in 0..most /\ item.quoteDepth \in Nat BY <1>1
<1>3. FragmentsWithQuotes[k] \in Listings BY <1>2, ListingUnfolded DEF most
<1>4. FragmentsWithQuotes[k][item.message] \in Seq(ContextFragment) BY <1>1, <1>3 DEF Listings
<1>5. QED BY <1>1, <1>2, <1>4 DEF ListedItem, most

LEMMA ListsTyped ==
  ASSUME contextInput \in ContextInputs, NEW pending \in Seq(PendingMessage)
  PROVE  /\ ListsOf(pending) \in Seq(Seq(ContextFragment)) /\ Len(ListsOf(pending)) = Len(pending)
         /\ \A i \in 1..Len(pending) : ListsOf(pending)[i] = ListedItem(pending[i])
         /\ Listed(pending) \in Seq(ContextFragment)
<1> DEFINE lists == ListsOf(pending)
<1>1. /\ DOMAIN pending = 1..Len(pending) /\ Len(pending) \in Nat
      /\ \A i \in 1..Len(pending) : pending[i] \in PendingMessage
  BY LenProperties, ElementOfSeq
<1>2. \A i \in 1..Len(pending) : ListedItem(pending[i]) \in Seq(ContextFragment) BY <1>1, ItemListed
<1>3. lists = [i \in 1..Len(pending) |-> ListedItem(pending[i])] BY <1>1 DEF ListsOf
<1> HIDE DEF lists
<1>4. /\ lists \in Seq(Seq(ContextFragment)) /\ Len(lists) = Len(pending)
      /\ \A i \in 1..Len(pending) : lists[i] = ListedItem(pending[i])
  BY <1>1, <1>2, <1>3
<1>5. FlattenSeq(lists) \in Seq(ContextFragment) BY <1>4, Flattened
<1>6. QED BY <1>4, <1>5 DEF Listed, lists

LEMMA ListedJoined ==
  ASSUME contextInput \in ContextInputs,
         NEW a \in Seq(PendingMessage), NEW b \in Seq(PendingMessage)
  PROVE  Listed(a \o b) = Listed(a) \o Listed(b)
<1> DEFINE c == a \o b
           x == ListsOf(a)
           y == ListsOf(b)
           z == ListsOf(c)
           T == Seq(ContextFragment)
<1>1. /\ c \in Seq(PendingMessage) /\ Len(c) = Len(a) + Len(b) /\ Len(a) \in Nat /\ Len(b) \in Nat
      /\ \A i \in 1..(Len(a) + Len(b)) : c[i] = IF i <= Len(a) THEN a[i] ELSE b[i - Len(a)]
  BY ConcatProperties, LenProperties
<1> HIDE DEF c
<1>2. /\ x \in Seq(T) /\ Len(x) = Len(a) /\ \A i \in 1..Len(a) : x[i] = ListedItem(a[i])
      /\ y \in Seq(T) /\ Len(y) = Len(b) /\ \A i \in 1..Len(b) : y[i] = ListedItem(b[i])
      /\ z \in Seq(T) /\ Len(z) = Len(c) /\ \A i \in 1..Len(c) : z[i] = ListedItem(c[i])
  BY <1>1, ListsTyped
<1> HIDE DEF x, y, z, T
<1>3. /\ x \o y \in Seq(T) /\ Len(x \o y) = Len(x) + Len(y)
      /\ \A i \in 1..(Len(x) + Len(y)) : (x \o y)[i] = IF i <= Len(x) THEN x[i] ELSE y[i - Len(x)]
  <2>1. x \in Seq(T) /\ y \in Seq(T) BY <1>2
  <2>2. QED BY <2>1, ConcatProperties
<1>4. ASSUME NEW i \in 1..Len(z)
      PROVE  z[i] = (x \o y)[i]
  <2>1. i \in 1..(Len(a) + Len(b)) BY <1>1, <1>2
  <2>2. CASE i <= Len(a)
    <3>1. i \in 1..Len(a) /\ i \in 1..(Len(x) + Len(y)) BY <1>1, <1>2, <2>1, <2>2
    <3>2. (x \o y)[i] = x[i] BY <1>2, <1>3, <2>2, <3>1
    <3>3. c[i] = a[i] BY <1>1, <2>1, <2>2
    <3>4. QED BY <1>1, <1>2, <2>1, <3>1, <3>2, <3>3
  <2>3. CASE ~(i <= Len(a))
    <3>1. i - Len(a) \in 1..Len(b) /\ i \in 1..(Len(x) + Len(y)) BY <1>1, <1>2, <2>1, <2>3
    <3>2. (x \o y)[i] = y[i - Len(a)] BY <1>2, <1>3, <2>3, <3>1
    <3>3. c[i] = b[i - Len(a)] BY <1>1, <2>1, <2>3
    <3>4. QED BY <1>1, <1>2, <2>1, <3>1, <3>2, <3>3
  <2>4. QED BY <2>2, <2>3
<1>5. z = x \o y BY <1>1, <1>2, <1>3, <1>4, SeqEqual
<1>6. FlattenSeq(x \o y) = FlattenSeq(x) \o FlattenSeq(y) BY <1>2, FlattenedJoined DEF T
<1>7. QED BY <1>5, <1>6 DEF Listed, c, x, y, z

LEMMA ListedOne ==
  ASSUME contextInput \in ContextInputs, NEW item \in PendingMessage
  PROVE  Listed(<<item>>) = ListedItem(item)
<1> DEFINE a == <<item>>
           x == ListsOf(a)
           s == ListedItem(item)
<1>1. a \in Seq(PendingMessage) /\ Len(a) = 1 /\ a[1] = item OBVIOUS
<1> HIDE DEF a
<1>2. x \in Seq(Seq(ContextFragment)) /\ Len(x) = 1 /\ x[1] = s BY <1>1, ListsTyped
<1>3. s \in Seq(ContextFragment) BY ItemListed
<1> HIDE DEF x, s
<1>4. x = <<s>>
  <2>1. <<s>> \in Seq(Seq(ContextFragment)) /\ Len(<<s>>) = 1 /\ <<s>>[1] = s BY <1>3
  <2>2. \A i \in 1..1 : i = 1 OBVIOUS
  <2>3. QED BY <1>2, <2>1, <2>2, SeqEqual
<1>5. QED BY <1>3, <1>4, FlattenedOne DEF Listed, a, x, s

LEMMA PendingTyped ==
  ASSUME contextInput \in ContextInputs, NEW messages \in Seq(ContextMessage),
         NEW depth \in 0..contextInput.options.maxQuoteDepth
  PROVE  LET pending == PendingMessages(messages, depth)
             x == FragmentsWithQuotes[contextInput.options.maxQuoteDepth - depth]
         IN /\ pending \in Seq(PendingMessage) /\ Len(pending) = Len(messages)
            /\ \A i \in 1..Len(messages) : pending[i].message = messages[i]
            /\ Listed(pending) = FlattenSeq([i \in DOMAIN messages |-> x[messages[i]]])
<1> DEFINE pending == PendingMessages(messages, depth)
           x == FragmentsWithQuotes[contextInput.options.maxQuoteDepth - depth]
<1>1. /\ DOMAIN messages = 1..Len(messages) /\ Len(messages) \in Nat
      /\ \A i \in 1..Len(messages) : messages[i] \in ContextMessage
  BY LenProperties, ElementOfSeq
<1>2. pending = [i \in 1..Len(messages) |-> [message |-> messages[i], quoteDepth |-> depth]]
  BY <1>1 DEF PendingMessages
<1>3. \A i \in 1..Len(messages) : [message |-> messages[i], quoteDepth |-> depth] \in PendingMessage
  BY <1>1 DEF PendingMessage
<1> HIDE DEF pending
<1>4. /\ pending \in Seq(PendingMessage) /\ Len(pending) = Len(messages)
      /\ DOMAIN pending = 1..Len(messages)
      /\ \A i \in 1..Len(messages) : pending[i].message = messages[i] /\ pending[i].quoteDepth = depth
  BY <1>1, <1>2, <1>3
<1>5. ListsOf(pending) = [i \in DOMAIN messages |-> x[messages[i]]]
  <2>1. \A i \in 1..Len(messages) : ListedItem(pending[i]) = x[messages[i]] BY <1>4 DEF ListedItem
  <2> HIDE DEF x
  <2>2. ListsOf(pending) = [i \in 1..Len(messages) |-> ListedItem(pending[i])] BY <1>4 DEF ListsOf
  <2>3. QED BY <1>1, <2>1, <2>2
<1>6. QED BY <1>4, <1>5 DEF Listed, pending

(* The listing of the first of what is pending: its own fragments, then    *)
(* what it quotes.                                                         *)
LEMMA HeadListed ==
  ASSUME contextInput \in ContextInputs, NEW pending \in Seq(PendingMessage), pending # <<>>
  PROVE  LET current == Head(pending)
             depth == current.quoteDepth
             most == contextInput.options.maxQuoteDepth
             F == FragmentsOf(current.message, depth)
             quotes == QuotedBy(current.message)
         IN /\ current \in PendingMessage /\ Tail(pending) \in Seq(PendingMessage)
            /\ \A i \in 1..Len(pending) :
                 pending[i] = current \/ pending[i] \in Range(Tail(pending))
            /\ Listed(pending) =
                 F \o (IF depth = most THEN Listed(Tail(pending))
                       ELSE Listed(PendingMessages(quotes, depth + 1) \o Tail(pending)))
<1> DEFINE current == Head(pending)
           rest == Tail(pending)
           depth == current.quoteDepth
           most == contextInput.options.maxQuoteDepth
           message == current.message
           F == FragmentsOf(message, depth)
           quotes == QuotedBy(message)
           more == PendingMessages(quotes, depth + 1)
           k == most - depth
<1>1. /\ current \in PendingMessage /\ rest \in Seq(PendingMessage) /\ pending = <<current>> \o rest
      /\ Len(rest) = Len(pending) - 1 /\ current = pending[1]
      /\ \A i \in 1..Len(rest) : rest[i] = pending[i + 1]
  BY HeadTailProperties
<1>2. Len(pending) \in Nat /\ DOMAIN rest = 1..Len(rest) BY <1>1, LenProperties
<1>3. most \in Nat /\ depth \in 0..most /\ message \in ContextMessage
  BY <1>1, InputTypes DEF PendingMessage
<1> HIDE DEF current, rest
<1>4. ASSUME NEW i \in 1..Len(pending)
      PROVE  pending[i] = current \/ pending[i] \in Range(rest)
  <2>1. CASE i = 1 BY <1>1, <2>1
  <2>2. CASE i # 1
    <3>1. i - 1 \in 1..Len(rest) /\ (i - 1) + 1 = i BY <1>1, <1>2, <2>2
    <3>2. rest[i - 1] = pending[i] BY <1>1, <3>1
    <3>3. QED BY <1>2, <3>1, <3>2 DEF Range
  <2>3. QED BY <2>1, <2>2
<1>5. Listed(pending) = ListedItem(current) \o Listed(rest)
  <2> DEFINE one == <<current>>
  <2>1. one \in Seq(PendingMessage) BY <1>1
  <2>2. Listed(one) = ListedItem(current) BY <1>1, ListedOne
  <2>3. pending = one \o rest BY <1>1
  <2> HIDE DEF one
  <2>4. Listed(pending) = Listed(one) \o Listed(rest) BY <1>1, <2>1, <2>3, ListedJoined
  <2>5. QED BY <2>2, <2>4
<1> HIDE DEF depth, message, most
<1>6. k \in 0..most /\ most - k = depth /\ k - 1 = most - (depth + 1) BY <1>3
<1>7. ListedItem(current) = F \o (IF k = 0 THEN <<>> ELSE QuotesListed(FragmentsWithQuotes[k - 1], message))
  <2>1. ListedItem(current) = FragmentsWithQuotes[k][message] BY DEF ListedItem, depth, message, most
  <2>2. FragmentsWithQuotes[k][message] = ListedWith(FragmentsWithQuotes[k - 1], message, k)
    BY <1>3, <1>6, ListingUnfolded DEF most
  <2>3. ListedWith(FragmentsWithQuotes[k - 1], message, k) =
          FragmentsOf(message, most - k)
            \o (IF k = 0 THEN <<>> ELSE QuotesListed(FragmentsWithQuotes[k - 1], message))
    BY DEF ListedWith, most
  <2>4. QED BY <1>6, <2>1, <2>2, <2>3
<1>8. F \in Seq(ContextFragment) /\ Listed(rest) \in Seq(ContextFragment)
  <2>1. depth \in Nat BY <1>3
  <2>2. F \in Seq(ContextFragment) BY <1>3, <2>1, FragmentsTyped
  <2>3. Listed(rest) \in Seq(ContextFragment) BY <1>1, ListsTyped
  <2>4. QED BY <2>2, <2>3
<1>9. Listed(pending) = F \o (IF depth = most THEN Listed(rest) ELSE Listed(more \o rest))
  <2>1. CASE depth = most
    <3>1. k = 0 BY <1>3, <2>1
    <3>2. ListedItem(current) = F \o <<>> BY <1>7, <3>1
    <3> HIDE DEF F
    <3>3. F \o <<>> = F BY <1>8, ConcatEmptySeq
    <3>4. QED BY <1>5, <2>1, <3>2, <3>3
  <2>2. CASE depth # most
    <3>1. k # 0 /\ depth + 1 \in 0..most BY <1>3, <2>2
    <3>2. quotes \in Seq(ContextMessage) BY <1>3, QuotedContext
    <3>3. /\ more \in Seq(PendingMessage)
          /\ Listed(more) = QuotesListed(FragmentsWithQuotes[k - 1], message)
      <4> HIDE DEF quotes
      <4>1. /\ more \in Seq(PendingMessage)
            /\ Listed(more) = FlattenSeq([i \in DOMAIN quotes |-> FragmentsWithQuotes[most - (depth + 1)][quotes[i]]])
        BY <3>1, <3>2, PendingTyped DEF most
      <4>2. QuotesListed(FragmentsWithQuotes[k - 1], message) =
              FlattenSeq([i \in DOMAIN quotes |-> FragmentsWithQuotes[most - (depth + 1)][quotes[i]]])
        BY <1>6 DEF QuotesListed, quotes
      <4>3. QED BY <4>1, <4>2
    <3> HIDE DEF more, F
    <3>4. Listed(more) \in Seq(ContextFragment) BY <3>3, ListsTyped
    <3>5. ListedItem(current) = F \o Listed(more) BY <1>7, <3>1, <3>3
    <3>6. Listed(more \o rest) = Listed(more) \o Listed(rest) BY <1>1, <3>3, ListedJoined
    <3> DEFINE a == Listed(more)
               b == Listed(rest)
    <3>7. a \in Seq(ContextFragment) /\ b \in Seq(ContextFragment) BY <1>8, <3>4
    <3>8. Listed(pending) = (F \o a) \o b /\ Listed(more \o rest) = a \o b BY <1>5, <3>5, <3>6
    <3> HIDE DEF a, b
    <3>9. (F \o a) \o b = F \o (a \o b)
      <4>1. F \in Seq(ContextFragment) BY <1>8
      <4>2. QED BY <3>7, <4>1, SMTT(30)
    <3>10. QED BY <2>2, <3>8, <3>9
  <2>3. QED BY <2>1, <2>2
<1>10. QED BY <1>1, <1>4, <1>9 DEF current, rest, depth, message, most

(* All of it is the listing of the notes and of what is pending at first.  *)
LEMMA CompleteListed ==
  ASSUME contextInput \in ContextInputs, context.messages \in Seq(ContextMessage)
  PROVE  /\ PendingMessages(context.messages, 0) \in Seq(PendingMessage)
         /\ CompleteProjection = ContextNotes \o Listed(PendingMessages(context.messages, 0))
<1> DEFINE most == contextInput.options.maxQuoteDepth
           messages == context.messages
           pending == PendingMessages(messages, 0)
<1>1. most \in Nat /\ 0 \in 0..most /\ most - 0 = most BY InputTypes
<1>2. /\ pending \in Seq(PendingMessage)
      /\ Listed(pending) = FlattenSeq([i \in DOMAIN messages |-> FragmentsWithQuotes[most - 0][messages[i]]])
  BY <1>1, PendingTyped
<1>3. Listed(pending) = FlattenSeq([i \in DOMAIN messages |-> FragmentsWithQuotes[most][messages[i]]])
  BY <1>1, <1>2
<1>4. CompleteProjection =
        ContextNotes \o FlattenSeq([i \in DOMAIN messages |-> FragmentsWithQuotes[most][messages[i]]])
  BY DEF CompleteProjection
<1>5. QED BY <1>2, <1>3, <1>4

---------------------------------------------------------------------------
(* The invariant.  What is handed on is the beginning of the listing so    *)
(* far: it falls short of it only when a limit is reached.  And there are  *)
(* messages all fragments of which are handed on, until something is       *)
(* truncated: those of the context and what they quote, but for what is    *)
(* still pending.                                                          *)

MessagesOf(items) == {item.message : item \in Range(items)}

IsTold(p, S) ==
  /\ Range(context.messages) \subseteq S \cup MessagesOf(p.pending)
  /\ \A message \in S :
       /\ \E depth \in Nat : Range(FragmentsOf(message, depth)) \subseteq Range(p.fragments)
       /\ Range(QuotedBy(message)) \subseteq S \cup MessagesOf(p.pending)

IsUpTo(p) ==
  \E A \in Seq(ContextFragment) :
    /\ CompleteProjection = A \o Listed(p.pending)
    /\ GivesSoFar(p.fragments, CompleteProjection, Len(A))
    /\ LeavesOut(p.fragments, CompleteProjection, Len(A)) => IsFull(p)

ProjectionInv(p) ==
  /\ p \in ContextProjection /\ WithinLimits(p) /\ OwnsUp(p)
  /\ p.step = "notes" => /\ p.fragments = <<>> /\ ~p.refused
                         /\ p.pending = PendingMessages(context.messages, 0)
  /\ p.step = "messages" => ~p.refused /\ IsUpTo(p)
  /\ p.step = "done" =>
       /\ GivesSoFar(p.fragments, CompleteProjection, Len(CompleteProjection))
       /\ p.truncated \/ p.pending = <<>>
  /\ ~p.truncated => \E S \in SUBSET ContextMessage : IsTold(p, S)

ContextInv ==
  /\ contextInput \in ContextInputs
  /\ ContextKeepsMessages(context)
  /\ ProjectionInv(projection)

LEMMA CompleteTyped ==
  ASSUME contextInput \in ContextInputs, ContextKeepsMessages(context)
  PROVE  CompleteProjection \in Seq(ContextFragment)
<1> DEFINE pending == PendingMessages(context.messages, 0)
           rest == Listed(pending)
<1>1. context.messages \in Seq(ContextMessage) /\ context.notes \in Nat BY DEF ContextKeepsMessages
<1>2. pending \in Seq(PendingMessage) /\ CompleteProjection = ContextNotes \o rest
  BY <1>1, CompleteListed
<1> HIDE DEF pending
<1>3. rest \in Seq(ContextFragment) BY <1>2, ListsTyped
<1>4. ContextNotes \in Seq(ContextFragment) BY <1>1, NotesTyped
<1> HIDE DEF rest
<1>5. QED BY <1>2, <1>3, <1>4, ConcatProperties

LEMMA NotesProjected ==
  ASSUME contextInput \in ContextInputs, ContextKeepsMessages(context),
         NEW p, ProjectionInv(p), p.step = "notes", NEW q,
         q = [OfferAll(p, ContextNotes) EXCEPT !.step = "messages", !.refused = FALSE]
  PROVE  ProjectionInv(q)
<1> DEFINE F == ContextNotes
           B == CompleteProjection
           rest == Listed(p.pending)
           n == Len(F)
           r == OfferAll(p, F)
<1>1. context.messages \in Seq(ContextMessage) /\ context.notes \in Nat BY DEF ContextKeepsMessages
<1>2. /\ p \in ContextProjection /\ WithinLimits(p) /\ OwnsUp(p)
      /\ p.fragments = <<>> /\ ~p.refused /\ p.pending = PendingMessages(context.messages, 0)
      /\ ~p.truncated => \E S \in SUBSET ContextMessage : IsTold(p, S)
  BY DEF ProjectionInv
<1>3. p.pending \in Seq(PendingMessage) /\ B = F \o rest BY <1>1, <1>2, CompleteListed
<1>4. F \in Seq(ContextFragment) /\ Offerable(F) BY <1>1, NotesTyped
<1>5. rest \in Seq(ContextFragment) BY <1>3, ListsTyped
<1> HIDE DEF F, B, rest
<1>6. /\ B \in Seq(ContextFragment) /\ Len(B) = n + Len(rest) /\ n \in Nat /\ Len(rest) \in Nat
      /\ \A i \in 1..(n + Len(rest)) : B[i] = IF i <= n THEN F[i] ELSE rest[i - n]
  BY <1>3, <1>4, <1>5, ConcatProperties, LenProperties
<1>7. 0 + n <= Len(B) /\ \A i \in 1..n : B[0 + i] = F[i] BY <1>6
<1>8. GivesSoFar(p.fragments, B, 0) /\ ~LeavesOut(p.fragments, B, 0)
  BY <1>2 DEF GivesSoFar, LeavesOut
<1>9. IsOffered(p, r, F, B, 0, n) BY <1>2, <1>4, <1>6, <1>7, <1>8, OfferedAll
<1> HIDE DEF r
<1>10. /\ r \in ContextProjection /\ WithinLimits(r) /\ SameElse(p, r) /\ OwnsUp(r)
       /\ GivesSoFar(r.fragments, B, n)
       /\ r.refused \/ LeavesOut(r.fragments, B, n) => IsFull(r)
       /\ ~r.truncated => ~p.truncated /\ Range(p.fragments) \subseteq Range(r.fragments)
  BY <1>6, <1>9 DEF IsOffered
<1>11. /\ q.step = "messages" /\ q.refused = FALSE /\ q.fragments = r.fragments /\ q.chars = r.chars
       /\ q.truncated = r.truncated /\ q.pending = r.pending /\ q \in ContextProjection
  BY <1>10 DEF ContextProjection, r, F
<1>12. q.pending = p.pending BY <1>10, <1>11 DEF SameElse
<1>13. WithinLimits(q) /\ OwnsUp(q) /\ (IsFull(r) => IsFull(q))
  BY <1>10, <1>11 DEF WithinLimits, OwnsUp, IsFull
<1>14. IsUpTo(q)
  <2>1. CompleteProjection = F \o Listed(q.pending) BY <1>3, <1>12 DEF B, rest
  <2>2. /\ GivesSoFar(q.fragments, CompleteProjection, Len(F))
        /\ LeavesOut(q.fragments, CompleteProjection, Len(F)) => IsFull(q)
    BY <1>10, <1>11, <1>13 DEF B
  <2>3. QED BY <1>4, <2>1, <2>2 DEF IsUpTo
<1>15. ~q.truncated => \E S \in SUBSET ContextMessage : IsTold(q, S)
  <2>1. SUFFICES ASSUME ~q.truncated
                 PROVE  \E S \in SUBSET ContextMessage : IsTold(q, S)
    OBVIOUS
  <2>2. ~p.truncated /\ Range(p.fragments) \subseteq Range(q.fragments) BY <1>10, <1>11, <2>1
  <2>3. PICK S \in SUBSET ContextMessage : IsTold(p, S) BY <1>2, <2>2
  <2>4. IsTold(q, S) BY <1>12, <2>2, <2>3 DEF IsTold
  <2>5. QED BY <2>4
<1>16. QED BY <1>11, <1>13, <1>14, <1>15 DEF ProjectionInv

(* One more message is told.                                               *)
LEMMA ToldNext ==
  ASSUME NEW p, NEW q, NEW S \in SUBSET ContextMessage, IsTold(p, S),
         NEW message \in ContextMessage, NEW depth \in Nat,
         \A item \in Range(p.pending) : item.message = message \/ item \in Range(q.pending),
         Range(p.fragments) \subseteq Range(q.fragments),
         Range(FragmentsOf(message, depth)) \subseteq Range(q.fragments),
         Range(QuotedBy(message)) \subseteq MessagesOf(q.pending)
  PROVE  \E T \in SUBSET ContextMessage : IsTold(q, T)
<1> DEFINE T == S \cup {message}
<1>1. S \cup MessagesOf(p.pending) \subseteq T \cup MessagesOf(q.pending) BY DEF MessagesOf
<1>2. Range(context.messages) \subseteq T \cup MessagesOf(q.pending) BY <1>1 DEF IsTold
<1>3. ASSUME NEW told \in T
      PROVE  /\ \E d \in Nat : Range(FragmentsOf(told, d)) \subseteq Range(q.fragments)
             /\ Range(QuotedBy(told)) \subseteq T \cup MessagesOf(q.pending)
  <2>1. CASE told = message BY <2>1
  <2>2. CASE told # message
    <3>1. told \in S BY <2>2
    <3>2. PICK d \in Nat : Range(FragmentsOf(told, d)) \subseteq Range(p.fragments) BY <3>1 DEF IsTold
    <3>3. Range(FragmentsOf(told, d)) \subseteq Range(q.fragments) BY <3>2
    <3>4. Range(QuotedBy(told)) \subseteq T \cup MessagesOf(q.pending) BY <1>1, <3>1 DEF IsTold
    <3>5. QED BY <3>3, <3>4
  <2>3. QED BY <2>1, <2>2
<1>4. T \in SUBSET ContextMessage OBVIOUS
<1> HIDE DEF T
<1>5. IsTold(q, T) BY <1>2, <1>3 DEF IsTold
<1>6. QED BY <1>4, <1>5

LEMMA GivesUpTo ==
  ASSUME NEW fragments, Len(fragments) \in Nat, NEW B, NEW m \in Nat, NEW n \in Nat, m <= n,
         GivesSoFar(fragments, B, m)
  PROVE  GivesSoFar(fragments, B, n)
<1>1. Len(fragments) <= n BY DEF GivesSoFar
<1>2. QED BY <1>1 DEF GivesSoFar

(* What becomes of a projection p when its next message is told.           *)
IsProjected(p, q) ==
  LET current == Head(p.pending)
      most    == contextInput.options.maxQuoteDepth
      quotes  == QuotedBy(current.message)
      r == OfferAll([p EXCEPT !.pending = Tail(@)], FragmentsOf(current.message, current.quoteDepth))
  IN /\ r.refused => q = [r EXCEPT !.step = "done"]
     /\ ~r.refused /\ current.quoteDepth = most =>
          q = IF quotes = <<>> THEN r ELSE OmitForQuoteDepth(r)
     /\ ~r.refused /\ current.quoteDepth < most => q = PushQuotes(r, quotes, current.quoteDepth)

LEMMA MessageProjected ==
  ASSUME contextInput \in ContextInputs, ContextKeepsMessages(context),
         NEW p, ProjectionInv(p), p.step = "messages", p.pending # <<>>,
         NEW q, IsProjected(p, q)
  PROVE  ProjectionInv(q)
<1> DEFINE current == Head(p.pending)
           quotes == QuotedBy(current.message)
           most == contextInput.options.maxQuoteDepth
           depth == current.quoteDepth
           message == current.message
           tail == Tail(p.pending)
           popped == [p EXCEPT !.pending = tail]
           F == FragmentsOf(message, depth)
           r == OfferAll(popped, F)
           B == CompleteProjection
           more == PendingMessages(quotes, depth + 1)
           left == IF depth = most THEN tail ELSE more \o tail
           rest == Listed(left)
           n == Len(F)
<1>0. /\ r.refused => q = [r EXCEPT !.step = "done"]
      /\ ~r.refused /\ depth = most => q = IF quotes = <<>> THEN r ELSE OmitForQuoteDepth(r)
      /\ ~r.refused /\ depth < most => q = PushQuotes(r, quotes, depth)
  BY DEF IsProjected
<1> HIDE DEF r
<1>1. /\ p \in ContextProjection /\ WithinLimits(p) /\ OwnsUp(p) /\ ~p.refused /\ IsUpTo(p)
      /\ ~p.truncated => \E S \in SUBSET ContextMessage : IsTold(p, S)
  BY DEF ProjectionInv
<1>2. p.pending \in Seq(PendingMessage) BY <1>1 DEF ContextProjection
<1>3. /\ current \in PendingMessage /\ tail \in Seq(PendingMessage)
      /\ \A i \in 1..Len(p.pending) : p.pending[i] = current \/ p.pending[i] \in Range(tail)
      /\ Listed(p.pending) = F \o (IF depth = most THEN Listed(tail) ELSE Listed(more \o tail))
  BY <1>2, HeadListed
<1>4. most \in Nat /\ depth \in 0..most /\ message \in ContextMessage
  BY <1>3, InputTypes DEF PendingMessage
<1>5. quotes \in Seq(ContextMessage) BY <1>4, QuotedContext
<1>6. depth # most => /\ more \in Seq(PendingMessage) /\ Len(more) = Len(quotes)
                      /\ \A i \in 1..Len(quotes) : more[i].message = quotes[i]
                      /\ more \o tail \in Seq(PendingMessage)
  <2>1. SUFFICES ASSUME depth # most
                 PROVE  /\ more \in Seq(PendingMessage) /\ Len(more) = Len(quotes)
                        /\ \A i \in 1..Len(quotes) : more[i].message = quotes[i]
                        /\ more \o tail \in Seq(PendingMessage)
    OBVIOUS
  <2>2. depth + 1 \in 0..most BY <1>4, <2>1
  <2>3. /\ more \in Seq(PendingMessage) /\ Len(more) = Len(quotes)
        /\ \A i \in 1..Len(quotes) : more[i].message = quotes[i]
    BY <1>5, <2>2, PendingTyped
  <2> HIDE DEF more, tail
  <2>4. QED BY <1>3, <2>3, ConcatProperties
<1>7. left \in Seq(PendingMessage) /\ Listed(p.pending) = F \o rest BY <1>3, <1>6
<1>8. depth \in Nat BY <1>4
<1>9. F \in Seq(ContextFragment) /\ Offerable(F) BY <1>4, <1>8, FragmentsTyped
<1>10. B \in Seq(ContextFragment) BY CompleteTyped
<1>11. rest \in Seq(ContextFragment) BY <1>7, ListsTyped
<1>12. PICK A \in Seq(ContextFragment) :
         /\ B = A \o Listed(p.pending) /\ GivesSoFar(p.fragments, B, Len(A))
         /\ LeavesOut(p.fragments, B, Len(A)) => IsFull(p)
  BY <1>1 DEF IsUpTo
<1>13. r = OfferAll(popped, F) /\ Range(quotes) = Range(QuotedBy(message)) BY DEF r
<1> HIDE DEF current, quotes, most, depth, message, tail, popped, F, B, more, rest, left
<1> DEFINE m == Len(A)
           A2 == A \o F
<1>14. /\ m \in Nat /\ n \in Nat /\ Len(rest) \in Nat
       /\ A2 \in Seq(ContextFragment) /\ Len(A2) = m + n
       /\ \A i \in 1..(m + n) : A2[i] = IF i <= m THEN A[i] ELSE F[i - m]
  BY <1>9, <1>11, ConcatProperties, LenProperties
<1>15. B = A2 \o rest
  <2>1. F \in Seq(ContextFragment) BY <1>9
  <2>2. A \o (F \o rest) = (A \o F) \o rest BY <1>11, <2>1, SMTT(30)
  <2>3. B = A \o (F \o rest) BY <1>7, <1>12
  <2>4. QED BY <2>2, <2>3 DEF A2
<1> HIDE DEF A2, m, n
<1>16. /\ Len(B) = (m + n) + Len(rest)
       /\ \A i \in 1..(m + n + Len(rest)) : B[i] = IF i <= m + n THEN A2[i] ELSE rest[i - (m + n)]
  <2>1. /\ A2 \o rest \in Seq(ContextFragment) /\ Len(A2 \o rest) = Len(A2) + Len(rest)
        /\ \A i \in 1..(Len(A2) + Len(rest)) :
             (A2 \o rest)[i] = IF i <= Len(A2) THEN A2[i] ELSE rest[i - Len(A2)]
    <3>1. A2 \in Seq(ContextFragment) BY <1>14
    <3>2. QED BY <1>11, <3>1, ConcatProperties
  <2>2. Len(A2) = m + n BY <1>14
  <2>3. QED BY <1>15, <2>1, <2>2
<1>17. m + n <= Len(B) /\ \A i \in 1..n : B[m + i] = F[i]
  <2>1. ASSUME NEW i \in 1..n
        PROVE  B[m + i] = F[i]
    <3>1. /\ m + i \in 1..(m + n) /\ m + i \in 1..(m + n + Len(rest)) /\ m + i <= m + n
          /\ ~(m + i <= m) /\ (m + i) - m = i
      BY <1>14
    <3>2. QED BY <1>14, <1>16, <3>1
  <2>2. QED BY <1>14, <1>16, <2>1
<1>18. /\ popped \in ContextProjection /\ popped.pending = tail /\ popped.fragments = p.fragments
       /\ popped.chars = p.chars /\ popped.refused = p.refused /\ popped.truncated = p.truncated
       /\ popped.step = p.step
  BY <1>1, <1>3 DEF ContextProjection, popped
<1>19. /\ WithinLimits(popped) /\ OwnsUp(popped) /\ ~popped.refused
       /\ GivesSoFar(popped.fragments, B, m)
       /\ LeavesOut(popped.fragments, B, m) => IsFull(popped)
  BY <1>1, <1>12, <1>18 DEF WithinLimits, OwnsUp, IsFull, m
<1>20. IsOffered(popped, r, F, B, m, n)
  BY <1>9, <1>10, <1>13, <1>14, <1>17, <1>18, <1>19, OfferedAll DEF n
<1>21. /\ r \in ContextProjection /\ WithinLimits(r) /\ OwnsUp(r)
       /\ r.step = p.step /\ r.pending = tail
       /\ GivesSoFar(r.fragments, B, m + n)
       /\ LeavesOut(r.fragments, B, m + n) => IsFull(r)
       /\ ~r.truncated => /\ ~p.truncated /\ Range(p.fragments) \subseteq Range(r.fragments)
                          /\ \A i \in 1..n : F[i] \in Range(r.fragments)
  BY <1>18, <1>20 DEF IsOffered, SameElse
<1>22. ~r.truncated => /\ ~p.truncated /\ Range(p.fragments) \subseteq Range(r.fragments)
                       /\ Range(F) \subseteq Range(r.fragments)
  <2>1. DOMAIN F = 1..n BY <1>9, LenProperties DEF n
  <2>2. Range(F) = {F[i] : i \in 1..n} BY <2>1 DEF Range
  <2>3. QED BY <1>21, <2>2
<1>23. \A item \in Range(p.pending) : item = current \/ item \in Range(tail)
  <2>1. DOMAIN p.pending = 1..Len(p.pending) BY <1>2, LenProperties
  <2>2. QED BY <1>3, <2>1 DEF Range
<1>24. CASE r.refused
  <2>1. q = [r EXCEPT !.step = "done"] BY <1>0, <1>24
  <2>2. /\ q \in ContextProjection /\ q.step = "done" /\ q.fragments = r.fragments
        /\ q.chars = r.chars /\ q.truncated = r.truncated /\ q.refused = r.refused
    BY <1>21, <2>1 DEF ContextProjection
  <2>3. r.truncated BY <1>21, <1>24 DEF OwnsUp
  <2>4. WithinLimits(q) /\ OwnsUp(q) BY <1>21, <2>2, <2>3 DEF WithinLimits, OwnsUp
  <2>5. GivesSoFar(q.fragments, B, Len(B))
    <3>1. Len(r.fragments) \in Nat BY <1>21, LenProperties DEF ContextProjection
    <3>2. Len(B) \in Nat BY <1>10, LenProperties
    <3>3. m + n <= Len(B) /\ m + n \in Nat BY <1>14, <1>17
    <3>4. GivesSoFar(r.fragments, B, m + n) BY <1>21
    <3>5. GivesSoFar(r.fragments, B, Len(B)) BY <3>1, <3>2, <3>3, <3>4, GivesUpTo
    <3>6. QED BY <2>2, <3>5
  <2>6. QED BY <2>2, <2>3, <2>4, <2>5 DEF ProjectionInv, B
<1>25. CASE ~r.refused /\ depth = most /\ quotes # <<>>
  <2>1. q = OmitForQuoteDepth(r) BY <1>0, <1>25
  <2>2. r.omitted + 1 \in Nat BY <1>21 DEF ContextProjection
  <2>3. q = [r EXCEPT !.truncated = TRUE, !.quoteDepthLimited = TRUE, !.omitted = r.omitted + 1]
    BY <2>1 DEF OmitForQuoteDepth
  <2>4. /\ q \in ContextProjection /\ q.step = r.step /\ q.fragments = r.fragments
        /\ q.chars = r.chars /\ q.truncated = TRUE /\ q.refused = r.refused /\ q.pending = r.pending
    BY <1>21, <2>2, <2>3 DEF ContextProjection
  <2>5. WithinLimits(q) /\ OwnsUp(q) /\ (IsFull(r) => IsFull(q))
    BY <1>21, <2>4 DEF WithinLimits, OwnsUp, IsFull
  <2>6. left = q.pending BY <1>21, <1>25, <2>4 DEF left
  <2>7. IsUpTo(q) BY <1>14, <1>15, <1>21, <2>4, <2>5, <2>6 DEF IsUpTo, rest, B
  <2>8. q.step = "messages" /\ ~q.refused BY <1>21, <1>25, <2>4
  <2>9. QED BY <2>4, <2>5, <2>7, <2>8 DEF ProjectionInv
<1>26. CASE ~r.refused /\ (depth # most \/ quotes = <<>>)
  <2>1. q = [r EXCEPT !.pending = left]
    <3>1. CASE depth = most
      <4>1. q = r /\ left = tail BY <1>0, <1>26, <3>1 DEF left
      <4>2. QED BY <1>21, <4>1 DEF ContextProjection
    <3>2. CASE depth # most
      <4>1. depth < most BY <1>4, <3>2
      <4>2. q = PushQuotes(r, quotes, depth) BY <1>0, <1>26, <4>1
      <4>3. QED BY <1>21, <3>2, <4>2 DEF PushQuotes, more, left
    <3>3. QED BY <3>1, <3>2
  <2>2. /\ q \in ContextProjection /\ q.step = r.step /\ q.fragments = r.fragments
        /\ q.chars = r.chars /\ q.truncated = r.truncated /\ q.refused = r.refused
        /\ q.pending = left
    BY <1>7, <1>21, <2>1 DEF ContextProjection
  <2>3. WithinLimits(q) /\ OwnsUp(q) /\ (IsFull(r) => IsFull(q))
    BY <1>21, <2>2 DEF WithinLimits, OwnsUp, IsFull
  <2>4. IsUpTo(q) BY <1>14, <1>15, <1>21, <2>2, <2>3 DEF IsUpTo, rest, B
  <2>5. q.step = "messages" /\ ~q.refused BY <1>21, <1>26, <2>2
  <2>6. /\ Range(tail) \subseteq Range(left)
        /\ Range(quotes) \subseteq MessagesOf(left)
    <3>1. CASE depth = most
      <4>1. left = tail /\ quotes = <<>> BY <1>26, <3>1 DEF left
      <4>2. QED BY <4>1 DEF Range
    <3>2. CASE depth # most
      <4>1. left = more \o tail BY <3>2 DEF left
      <4>2. Range(more) \cup Range(tail) = Range(left) BY <1>3, <1>6, <3>2, <4>1, RangeJoined
      <4>3. /\ DOMAIN quotes = 1..Len(quotes) /\ DOMAIN more = 1..Len(quotes)
        BY <1>5, <1>6, <3>2, LenProperties
      <4>4. ASSUME NEW i \in 1..Len(quotes)
            PROVE  quotes[i] \in MessagesOf(left)
        <5>1. more[i] \in Range(left) BY <4>2, <4>3 DEF Range
        <5>2. more[i].message = quotes[i] BY <1>6, <3>2
        <5>3. QED BY <5>1, <5>2 DEF MessagesOf
      <4>5. Range(quotes) = {quotes[i] : i \in 1..Len(quotes)} BY <4>3 DEF Range
      <4>6. QED BY <4>2, <4>4, <4>5
    <3>3. QED BY <3>1, <3>2
  <2>7. ~q.truncated => \E T \in SUBSET ContextMessage : IsTold(q, T)
    <3>1. SUFFICES ASSUME ~q.truncated
                   PROVE  \E T \in SUBSET ContextMessage : IsTold(q, T)
      OBVIOUS
    <3>2. /\ ~p.truncated /\ Range(p.fragments) \subseteq Range(q.fragments)
          /\ Range(F) \subseteq Range(q.fragments)
      BY <1>22, <2>2, <3>1
    <3>3. PICK S \in SUBSET ContextMessage : IsTold(p, S) BY <1>1, <3>2
    <3>4. \A item \in Range(p.pending) : item.message = message \/ item \in Range(q.pending)
      BY <1>23, <2>2, <2>6 DEF message
    <3>5. Range(QuotedBy(message)) \subseteq MessagesOf(q.pending) BY <1>13, <2>2, <2>6
    <3>6. Range(FragmentsOf(message, depth)) \subseteq Range(q.fragments) BY <3>2 DEF F
    <3>7. QED BY <1>4, <1>8, <3>2, <3>3, <3>4, <3>5, <3>6, ToldNext
  <2>8. QED BY <2>2, <2>3, <2>4, <2>5, <2>7 DEF ProjectionInv
<1>27. QED BY <1>24, <1>25, <1>26

LEMMA ProjectionEnded ==
  ASSUME contextInput \in ContextInputs, ContextKeepsMessages(context),
         NEW p, ProjectionInv(p), p.step = "messages", p.pending = <<>>, NEW q,
         q = [p EXCEPT !.step = "done"]
  PROVE  ProjectionInv(q)
<1> DEFINE B == CompleteProjection
<1>1. /\ p \in ContextProjection /\ WithinLimits(p) /\ OwnsUp(p) /\ ~p.refused /\ IsUpTo(p)
      /\ ~p.truncated => \E S \in SUBSET ContextMessage : IsTold(p, S)
  BY DEF ProjectionInv
<1>2. /\ q \in ContextProjection /\ q.step = "done" /\ q.fragments = p.fragments
      /\ q.chars = p.chars /\ q.truncated = p.truncated /\ q.refused = p.refused
      /\ q.pending = p.pending
  BY <1>1 DEF ContextProjection
<1>3. WithinLimits(q) /\ OwnsUp(q) BY <1>1, <1>2 DEF WithinLimits, OwnsUp
<1>4. PICK A \in Seq(ContextFragment) :
        B = A \o Listed(p.pending) /\ GivesSoFar(p.fragments, B, Len(A))
  BY <1>1 DEF IsUpTo
<1>5. B = A
  <2>1. ListsOf(<<>>) = <<>> BY DEF ListsOf
  <2>2. Listed(p.pending) = <<>> BY <2>1, FlattenedNone DEF Listed
  <2>3. A \o <<>> = A BY ConcatEmptySeq
  <2> HIDE DEF B
  <2>4. QED BY <1>4, <2>2, <2>3
<1>6. GivesSoFar(q.fragments, B, Len(B)) BY <1>2, <1>4, <1>5
<1>7. ~q.truncated => \E S \in SUBSET ContextMessage : IsTold(q, S)
  BY <1>1, <1>2 DEF IsTold
<1>8. QED BY <1>2, <1>3, <1>6, <1>7 DEF ProjectionInv

---------------------------------------------------------------------------
(* When nothing is truncated, all texts owed are given.                    *)

LEMMA ToldGiven ==
  ASSUME contextInput \in ContextInputs, projection \in ContextProjection, OwnsUp(projection),
         ~projection.truncated, NEW S \in SUBSET ContextMessage, IsTold(projection, S),
         NEW message \in S
  PROVE  IF IsSkipped(message) THEN IsNoted(message.raw.name) ELSE IsWhole(message.raw.name)
<1> DEFINE fragments == projection.fragments
<1>1. PICK depth \in Nat : Range(FragmentsOf(message, depth)) \subseteq Range(fragments)
  BY DEF IsTold
<1>2. \A f \in Range(fragments) : ~f.cut BY DEF OwnsUp
<1> DEFINE F == FragmentsOf(message, depth)
<1>3. /\ \E f \in Range(F) : /\ f.type \in {"chat_message", "quoted_message"}
                             /\ f.name = message.raw.name /\ f.skipped = IsSkipped(message)
      /\ IsSkipped(message) =>
           \E f \in Range(F) : f.type = "message_note" /\ f.name = message.raw.name /\ f.skipped
  BY FragmentsTyped
<1> HIDE DEF F
<1>4. CASE IsSkipped(message)
  <2>1. PICK f \in Range(F) : f.type = "message_note" /\ f.name = message.raw.name /\ f.skipped
    BY <1>3, <1>4
  <2>2. f \in Range(fragments) BY <1>1, <2>1 DEF F
  <2>3. QED BY <1>4, <2>1, <2>2 DEF IsNoted
<1>5. CASE ~IsSkipped(message)
  <2>1. PICK f \in Range(F) : /\ f.type \in {"chat_message", "quoted_message"}
                              /\ f.name = message.raw.name /\ f.skipped = IsSkipped(message)
    BY <1>3
  <2>2. f \in Range(fragments) BY <1>1, <2>1 DEF F
  <2>3. ~f.cut /\ ~f.skipped BY <1>2, <1>5, <2>1, <2>2
  <2>4. QED BY <1>5, <2>1, <2>2, <2>3 DEF IsWhole
<1>6. QED BY <1>4, <1>5

QuotedOf(texts) == UNION {QuotedTexts(raw) : raw \in {text \in texts : ~IsNoted(text.name)}}

(* What is owed is in any set that has the messages of the pages and what  *)
(* those of it quote that are not skipped.                                 *)
LEMMA OwedWithin ==
  ASSUME contextInput \in ContextInputs, NEW Good \in SUBSET RawMessages,
         Range(AllMessages) \subseteq Good, QuotedOf(Good) \subseteq Good
  PROVE  TextsOwed \subseteq Good
<1> DEFINE n == contextInput.options.maxQuoteDepth + 1
           IsOwed(f) ==
             f = [k \in 0..n |->
                    IF k = 0 THEN Range(AllMessages)
                    ELSE f[k - 1] \cup
                         UNION {QuotedTexts(raw) : raw \in {text \in f[k - 1] : ~IsNoted(text.name)}}]
           owed == CHOOSE f : IsOwed(f)
           X == SUBSET Good
           base == Range(AllMessages)
           G == [k \in 1..n |-> [s \in X |-> s \cup QuotedOf(s)]]
<1>1. n \in Nat /\ \A k \in 1..n : k - 1 \in 0..n BY InputTypes
<1>2. TextsOwed = owed[n] BY DEF TextsOwed
<1>3. \A s \in X : s \cup QuotedOf(s) \in X BY DEF QuotedOf
<1>4. base \in X OBVIOUS
<1>5. G \in [1..n -> [X -> X]] /\ \A k \in 1..n, s \in X : G[k][s] = s \cup QuotedOf(s)
  BY <1>3
<1> HIDE DEF n, X, G
<1>6. \E f \in [0..n -> X] : IsOwed(f)
  <2>1. PICK g \in [0..n -> X] : LeadsOn(g, base, n, G) BY <1>1, <1>4, <1>5, Iterated
  <2>2. g[0] = base /\ \A k \in 1..n : g[k] = g[k - 1] \cup QuotedOf(g[k - 1])
    BY <1>1, <1>5, <2>1 DEF LeadsOn
  <2>3. \A k \in 0..n : k = 0 \/ (k # 0 /\ k \in 1..n) BY <1>1
  <2>4. \A k \in 0..n : g[k] = IF k = 0 THEN base ELSE g[k - 1] \cup QuotedOf(g[k - 1])
    BY <2>2, <2>3
  <2>5. g = [k \in 0..n |-> IF k = 0 THEN base ELSE g[k - 1] \cup QuotedOf(g[k - 1])]
    BY <2>4
  <2>6. IsOwed(g) BY <2>5 DEF QuotedOf
  <2>7. QED BY <2>6
<1>7. IsOwed(owed) BY <1>6
<1> HIDE DEF owed
<1>8. \A k \in 0..n : owed[k] = IF k = 0 THEN base ELSE owed[k - 1] \cup QuotedOf(owed[k - 1])
  <2>1. owed = [k \in 0..n |-> IF k = 0 THEN base ELSE owed[k - 1] \cup QuotedOf(owed[k - 1])]
    BY <1>7 DEF QuotedOf
  <2>2. QED BY <2>1
<1> DEFINE T == {k \in 0..n : owed[k] \in X}
<1>9. 0 \in T
  <2>1. 0 \in 0..n BY <1>1
  <2>2. owed[0] = base BY <1>8, <2>1
  <2>3. QED BY <1>4, <2>1, <2>2
<1>10. ASSUME NEW k \in 1..n, k - 1 \in T
       PROVE  k \in T
  <2>1. k \in 0..n /\ k # 0 BY <1>1
  <2>2. owed[k] = owed[k - 1] \cup QuotedOf(owed[k - 1]) BY <1>8, <2>1
  <2>3. owed[k - 1] \in X BY <1>10
  <2>4. QED BY <1>3, <2>1, <2>2, <2>3
<1> HIDE DEF T
<1>11. 0..n \subseteq T BY <1>1, <1>9, <1>10, UpTo
<1>12. owed[n] \in X BY <1>1, <1>11 DEF T
<1>13. QED BY <1>2, <1>12 DEF X

LEMMA OwedGiven ==
  ASSUME ContextInv, projection.step = "done", ~projection.truncated,
         ~context.truncated, ~context.inaccessible
  PROVE  \A raw \in TextsOwed : IsNoted(raw.name) \/ IsWhole(raw.name)
<1>1. /\ contextInput \in ContextInputs /\ projection \in ContextProjection /\ OwnsUp(projection)
      /\ \A raw \in Range(AllMessages) : [raw |-> raw, path |-> <<>>] \in Range(context.messages)
      /\ projection.pending = <<>>
  BY DEF ContextInv, ContextKeepsMessages, ProjectionInv
<1>2. PICK S \in SUBSET ContextMessage : IsTold(projection, S) BY DEF ContextInv, ProjectionInv
<1>3. MessagesOf(projection.pending) = {} BY <1>1 DEF MessagesOf, Range
<1>4. /\ Range(context.messages) \subseteq S
      /\ \A message \in S : Range(QuotedBy(message)) \subseteq S
  BY <1>2, <1>3 DEF IsTold
<1>5. \A message \in S :
        IF IsSkipped(message) THEN IsNoted(message.raw.name) ELSE IsWhole(message.raw.name)
  BY <1>1, <1>2, ToldGiven
<1> DEFINE IsLeaf(raw) == raw.quotes = <<>> /\ raw.metadata = <<>>
           IsShown(raw) == \E message \in S : message.raw = raw /\ ~IsSkipped(message)
           Good == {raw \in RawMessages : \/ IsNoted(raw.name)
                                          \/ IsWhole(raw.name) /\ (IsLeaf(raw) \/ IsShown(raw))}
<1>6. ASSUME NEW raw \in Range(AllMessages)
      PROVE  raw \in Good
  <2> DEFINE message == [raw |-> raw, path |-> <<>>]
  <2>1. message \in S BY <1>1, <1>4
  <2>2. ~IsSkipped(message) BY DEF IsSkipped
  <2>3. message.raw = raw OBVIOUS
  <2>4. raw \in RawMessages BY <1>2, <2>1, <2>3 DEF ContextMessage
  <2> HIDE DEF message
  <2>5. IsWhole(raw.name) BY <1>5, <2>1, <2>2, <2>3
  <2>6. QED BY <2>1, <2>2, <2>3, <2>4, <2>5
<1>7. ASSUME NEW raw \in Good, ~IsNoted(raw.name), NEW text \in QuotedTexts(raw)
      PROVE  text \in Good
  <2>1. raw \in RawMessages /\ (IsLeaf(raw) \/ IsShown(raw)) BY <1>7
  <2> DEFINE records == QuotedMessageRecords(raw)
  <2>2. /\ text \in RawMessages /\ records \in Seq(RawMessages)
        /\ \E i \in 1..Len(records) :
             \/ records[i] = text
             \/ records[i].name = text.name /\ text.quotes = <<>> /\ text.metadata = <<>>
    BY <1>1, <2>1, RecordTypes
  <2>3. CASE IsLeaf(raw)
    <3>1. Range(<<>>) = {} BY DEF Range
    <3>2. QuotedTexts(raw) = {} BY <2>3, <3>1 DEF QuotedTexts
    <3>3. QED BY <3>2
  <2>4. CASE IsShown(raw)
    <3>1. PICK message \in S : message.raw = raw /\ ~IsSkipped(message) BY <2>4
    <3> DEFINE quotes == QuotedBy(message)
    <3>2. /\ quotes \in Seq(ContextMessage) /\ Len(quotes) = Len(records)
          /\ \A i \in 1..Len(records) : quotes[i].raw = records[i]
      BY <1>1, <3>1, QuotedContext
    <3> HIDE DEF quotes, records
    <3>3. PICK i \in 1..Len(records) :
            \/ records[i] = text
            \/ records[i].name = text.name /\ IsLeaf(text)
      BY <2>2
    <3> DEFINE quoted == quotes[i]
    <3>4. quoted \in S /\ quoted.raw = records[i]
      <4>1. i \in DOMAIN quotes BY <3>2, LenProperties
      <4>2. quoted \in Range(quotes) BY <4>1 DEF Range
      <4>3. Range(quotes) \subseteq S BY <1>4 DEF quotes
      <4>4. QED BY <3>2, <4>2, <4>3
    <3> HIDE DEF quoted
    <3>5. quoted.raw.name = text.name /\ (quoted.raw = text \/ IsLeaf(text)) BY <3>3, <3>4
    <3>6. CASE IsSkipped(quoted)
      <4>1. IsNoted(text.name) BY <1>5, <3>4, <3>5, <3>6
      <4>2. QED BY <2>2, <4>1
    <3>7. CASE ~IsSkipped(quoted)
      <4>1. IsWhole(text.name) BY <1>5, <3>4, <3>5, <3>7
      <4>2. IsLeaf(text) \/ IsShown(text) BY <3>4, <3>5, <3>7
      <4> HIDE DEF IsLeaf, IsShown
      <4>3. QED BY <2>2, <4>1, <4>2
    <3>8. QED BY <3>6, <3>7
  <2>5. QED BY <2>1, <2>3, <2>4
<1>8. \A raw \in Good : IsNoted(raw.name) \/ IsWhole(raw.name) OBVIOUS
<1>9. Good \in SUBSET RawMessages OBVIOUS
<1> HIDE DEF Good
<1>10. QuotedOf(Good) \subseteq Good BY <1>7 DEF QuotedOf
<1>11. TextsOwed \subseteq Good BY <1>1, <1>6, <1>9, <1>10, OwedWithin
<1>12. QED BY <1>8, <1>11

LEMMA InvAccounts == ContextInv => ContextAccounted
<1>1. SUFFICES ASSUME ContextInv, projection.step = "done"
               PROVE  ContextAccounted
  BY DEF ContextAccounted
<1> DEFINE fragments == projection.fragments
           complete == CompleteProjection
<1>2. /\ GivesSoFar(fragments, complete, Len(complete)) /\ WithinLimits(projection)
      /\ contextInput \in ContextInputs /\ projection \in ContextProjection
  BY <1>1 DEF ContextInv, ProjectionInv
<1>3. DOMAIN fragments = 1..Len(fragments) BY <1>2, LenProperties DEF ContextProjection
<1>4. \/ context.truncated \/ context.inaccessible \/ projection.truncated
      \/ \A raw \in TextsOwed : IsNoted(raw.name) \/ IsWhole(raw.name)
  BY <1>1, OwedGiven
<1> HIDE DEF complete
<1>5. /\ Len(fragments) <= Len(complete)
      /\ \A i \in DOMAIN fragments :
           \/ fragments[i] = complete[i]
           \/ i = Len(fragments) /\ CutShortOf(fragments[i], complete[i])
  BY <1>2, <1>3 DEF GivesSoFar
<1>6. QED BY <1>2, <1>4, <1>5 DEF ContextAccounted, IsBeginning, WithinLimits, CutShortOf, complete

---------------------------------------------------------------------------
(* What is said of the input and the context is said as long as they stay. *)
LEMMA SameInput ==
  ASSUME contextInput' = contextInput, context' = context
  PROVE  /\ AllMessages' = AllMessages /\ CompleteProjection' = CompleteProjection
         /\ FragmentsWithQuotes' = FragmentsWithQuotes /\ ContextProjection' = ContextProjection
         /\ \A message : QuotedBy(message)' = QuotedBy(message)
         /\ \A message, depth : FragmentsOf(message, depth)' = FragmentsOf(message, depth)
<1>1. AllMessages' = AllMessages BY SMT DEF AllMessages
<1>2. \A message : QuotedBy(message)' = QuotedBy(message)
  BY SMT DEF QuotedBy, QuotedMessageRecords, QuotedSnapshotMessage, LookupQuotedMessage,
             IsSkipped, AllMessages
<1>3. \A message, depth : FragmentsOf(message, depth)' = FragmentsOf(message, depth)
  BY SMT DEF FragmentsOf, Fragment, Clipped, CharsOf, NotesOf, AttachmentsOf,
             QuotedMessageRecords, QuotedSnapshotMessage, LookupQuotedMessage, IsSkipped,
             AllMessages
<1>4. FragmentsWithQuotes' = FragmentsWithQuotes
  BY SMT DEF FragmentsWithQuotes, QuotedBy, FragmentsOf, Fragment, Clipped, CharsOf, NotesOf,
             AttachmentsOf, QuotedMessageRecords, QuotedSnapshotMessage, LookupQuotedMessage,
             IsSkipped, AllMessages
<1>5. CompleteProjection' = CompleteProjection
  BY <1>4, SMT DEF CompleteProjection, ContextNotes, Clipped
<1>6. ContextProjection' = ContextProjection BY SMT DEF ContextProjection, PendingMessage
<1>7. QED BY <1>1, <1>2, <1>3, <1>4, <1>5, <1>6

LEMMA SameInv ==
  ASSUME contextInput' = contextInput, context' = context, ContextInv, ProjectionInv(projection')
  PROVE  ContextInv'
<1>1. ContextKeepsMessages(context)'
  <2>1. ContextKeepsMessages(context) BY DEF ContextInv
  <2>2. QED BY <2>1, SameInput DEF ContextKeepsMessages
<1>2. WithinLimits(projection)' /\ OwnsUp(projection)'
  <2>1. WithinLimits(projection') /\ OwnsUp(projection') BY DEF ProjectionInv
  <2>2. QED BY <2>1 DEF WithinLimits, OwnsUp
<1>3. projection'.step = "messages" => IsUpTo(projection)'
  <2>1. projection'.step = "messages" => IsUpTo(projection') BY DEF ProjectionInv
  <2>2. QED BY <2>1, SameInput DEF IsUpTo, IsFull, Listed, ListsOf, ListedItem
<1>4. \A S : IsTold(projection', S) => IsTold(projection, S)'
  BY SameInput DEF IsTold
<1>5. QED BY <1>1, <1>2, <1>3, <1>4, SameInput DEF ContextInv, ProjectionInv, PendingMessages

(* What the model is given is the beginning of the context in reading      *)
(* order, within the limits, and what it is not given is owned up to       *)
(* (projectModelContext and buildConversationContext): for any messages,   *)
(* quotes, limits and budgets.                                             *)
THEOREM ContextKept == ContextSpec => []ContextAccounted
<1>1. ContextInitFrom(ContextInputs) => ContextInv
  <2>1. SUFFICES ASSUME ContextInitFrom(ContextInputs)
                 PROVE  ContextInv
    OBVIOUS
  <2> DEFINE p == projection
             pending == PendingMessages(context.messages, 0)
  <2>2. /\ contextInput \in ContextInputs /\ context = BuildConversationContext
        /\ p = [step |-> "notes", pending |-> pending,
                fragments |-> <<>>, chars |-> 0, refused |-> FALSE, truncated |-> FALSE,
                omitted |-> 0, quoteDepthLimited |-> FALSE]
    BY <2>1 DEF ContextInitFrom
  <2>3. ContextKeepsMessages(context) BY <2>2, ContextBuilt
  <2>4. context.messages \in Seq(ContextMessage) BY <2>3 DEF ContextKeepsMessages
  <2>5. pending \in Seq(PendingMessage) BY <2>2, <2>4, CompleteListed
  <2>6. Range(context.messages) \subseteq MessagesOf(pending)
    <3>1. 0 \in 0..contextInput.options.maxQuoteDepth BY <2>2, InputTypes
    <3>2. /\ Len(pending) = Len(context.messages)
          /\ \A i \in 1..Len(context.messages) : pending[i].message = context.messages[i]
      BY <2>2, <2>4, <3>1, PendingTyped
    <3> HIDE DEF pending
    <3>3. /\ DOMAIN pending = 1..Len(context.messages)
          /\ DOMAIN context.messages = 1..Len(context.messages)
      BY <2>4, <2>5, <3>2, LenProperties
    <3>4. ASSUME NEW i \in 1..Len(context.messages)
          PROVE  context.messages[i] \in MessagesOf(pending)
      <4>1. pending[i] \in Range(pending) BY <3>3 DEF Range
      <4>2. QED BY <3>2, <4>1 DEF MessagesOf
    <3>5. Range(context.messages) = {context.messages[i] : i \in 1..Len(context.messages)}
      BY <3>3 DEF Range
    <3>6. QED BY <3>4, <3>5
  <2> HIDE DEF pending
  <2>7. p \in ContextProjection BY <2>2, <2>5 DEF ContextProjection
  <2>8. WithinLimits(p)
    <3>1. contextInput.options.maxTotalTextChars >= 0 /\ contextInput.options.maxFragments >= 0
      BY <2>2, InputTypes
    <3>2. p.chars = 0 /\ Len(p.fragments) = 0 BY <2>2
    <3>3. QED BY <3>1, <3>2 DEF WithinLimits
  <2>9. OwnsUp(p) BY <2>2 DEF OwnsUp, Range
  <2>10. IsTold(p, {}) BY <2>2, <2>6 DEF IsTold
  <2>11. ProjectionInv(p) BY <2>2, <2>7, <2>8, <2>9, <2>10 DEF ProjectionInv, pending
  <2>12. QED BY <2>2, <2>3, <2>11 DEF ContextInv
<1>2. ContextInv /\ [ContextNext]_contextVars => ContextInv'
  <2>1. SUFFICES ASSUME ContextInv, [ContextNext]_contextVars
                 PROVE  ContextInv'
    OBVIOUS
  <2>2. /\ contextInput \in ContextInputs /\ ContextKeepsMessages(context)
        /\ ProjectionInv(projection)
    BY <2>1 DEF ContextInv
  <2>3. CASE ProjectNotes
    <3>1. ProjectionInv(projection') BY <2>2, <2>3, NotesProjected DEF ProjectNotes
    <3>2. QED BY <2>1, <2>3, <3>1, SameInv DEF ProjectNotes
  <2>4. CASE ProjectMessage
    <3> DEFINE current == Head(projection.pending)
               most    == contextInput.options.maxQuoteDepth
               popped  == [projection EXCEPT !.pending = Tail(@)]
               r       == OfferAll(popped, FragmentsOf(current.message, current.quoteDepth))
               quotes  == QuotedBy(current.message)
    <3>1. /\ projection.step = "messages" /\ projection.pending # <<>>
          /\ projection' =
               CASE current.quoteDepth > most -> OmitForQuoteDepth(popped)
                 [] current.quoteDepth <= most /\ r.refused -> [r EXCEPT !.step = "done"]
                 [] current.quoteDepth = most /\ ~r.refused ->
                      IF quotes = <<>> THEN r ELSE OmitForQuoteDepth(r)
                 [] OTHER -> PushQuotes(r, quotes, current.quoteDepth)
          /\ contextInput' = contextInput /\ context' = context
      BY <2>4 DEF ProjectMessage
    <3>2. projection.pending \in Seq(PendingMessage)
      BY <2>2 DEF ProjectionInv, ContextProjection
    <3>3. current \in PendingMessage BY <3>1, <3>2, HeadTailProperties
    <3>4. most \in Nat /\ current.quoteDepth \in 0..most
      BY <2>2, <3>3, InputTypes DEF PendingMessage
    <3> HIDE DEF most, popped, r, quotes, current
    <3>5. /\ r.refused => projection' = [r EXCEPT !.step = "done"]
          /\ ~r.refused /\ current.quoteDepth = most =>
               projection' = IF quotes = <<>> THEN r ELSE OmitForQuoteDepth(r)
          /\ ~r.refused /\ current.quoteDepth < most =>
               projection' = PushQuotes(r, quotes, current.quoteDepth)
      BY <3>1, <3>4
    <3>6. IsProjected(projection, projection')
      BY <3>5 DEF IsProjected, most, popped, r, quotes, current
    <3>7. ProjectionInv(projection') BY <2>2, <3>1, <3>6, MessageProjected
    <3>8. QED BY <2>1, <3>1, <3>7, SameInv
  <2>5. CASE ProjectionEnds
    <3>1. ProjectionInv(projection') BY <2>2, <2>5, ProjectionEnded DEF ProjectionEnds
    <3>2. QED BY <2>1, <2>5, <3>1, SameInv DEF ProjectionEnds
  <2>6. CASE UNCHANGED contextVars
    <3>1. projection' = projection /\ contextInput' = contextInput /\ context' = context
      BY <2>6 DEF contextVars
    <3>2. ProjectionInv(projection') BY <2>2, <3>1
    <3>3. QED BY <2>1, <3>1, <3>2, SameInv
  <2>7. QED BY <2>1, <2>3, <2>4, <2>5, <2>6 DEF ContextNext
<1>3. QED BY <1>1, <1>2, InvAccounts, PTL DEF ContextSpec
=============================================================================
