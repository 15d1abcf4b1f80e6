---------------------------- MODULE AsgiDelivery ----------------------------
(***************************************************************************)
(* A POST on its way through the Python adapters                           *)
(* (packages/python/src/googlechatai/adapters/asgi.py and fastapi.py): the *)
(* declared length, the verifier, which runs in a pool of its own and      *)
(* against a timeout, the body, and the dispatch of BoundedDelivery.  A    *)
(* delivery may also be dispatched by the application itself: from its     *)
(* event loop, or from a thread, which hands it to the supervisor's loop   *)
(* and waits.  The adapter has a verifier.  Paths, methods and headers are *)
(* left out.                                                               *)
(***************************************************************************)
EXTENDS BoundedDelivery

CONSTANTS
  VerifierCapacity,   \* _VERIFIER_WORK_CAPACITY
  VerifierWorkers     \* _VERIFIER_WORKERS

ASSUME VerifierAssumption ==
  /\ VerifierCapacity \in Nat \ {0} /\ VerifierWorkers \in 1..VerifierCapacity

VARIABLES
  post,            \* how far each POST is: a stage or its status; "direct" is none
  verifierSlots,   \* what is left of _verifier_work_slots
  verifierQueue,   \* the verifications that wait for a worker
  verifierRunning, \* those in a worker
  verdict          \* what the verifier said of each POST

postVars == <<post, verifierSlots, verifierQueue, verifierRunning, verdict>>

asgiVars == <<vars, postVars>>

Statuses == {"200", "400", "401", "413", "500", "503", "raised"}

Verdicts == {"ok", "refused", "raised"}

PostIs(d, what) == post' = [post EXCEPT ![d] = what]

PostInit ==
  /\ post = [d \in Deliveries |-> "new"]
  /\ verifierSlots = VerifierCapacity
  /\ verifierQueue = << >> /\ verifierRunning = {}
  /\ verdict = [d \in Deliveries |-> "none"]

AsgiInit == Init /\ PostInit

-----------------------------------------------------------------------------
(* A declared length over the limit is refused before anything is asked of *)
(* the verifier; without a slot for it the POST is a 503.                  *)
ReceivePost(d) ==
  /\ post[d] = "new"
  /\ \/ PostIs(d, "413") /\ UNCHANGED <<verifierSlots, verifierQueue>>
     \/ /\ verifierSlots > 0 /\ PostIs(d, "verifying")
        /\ verifierSlots' = verifierSlots - 1
        /\ verifierQueue' = Append(verifierQueue, d)
     \/ /\ verifierSlots = 0 /\ PostIs(d, "503")
        /\ UNCHANGED <<verifierSlots, verifierQueue>>
  /\ UNCHANGED <<vars, verifierRunning, verdict>>

VerifierWork ==
  /\ verifierQueue # << >> /\ Cardinality(verifierRunning) < VerifierWorkers
  /\ verifierRunning' = verifierRunning \cup {Head(verifierQueue)}
  /\ verifierQueue' = Tail(verifierQueue)
  /\ UNCHANGED <<vars, post, verifierSlots, verdict>>

\* Mutant: a verification that ends after its timeout keeps its slot.
VerifierEnds_LeaksLate(d) ==
  /\ d \in verifierRunning /\ verifierRunning' = verifierRunning \ {d}
  /\ verifierSlots' = IF post[d] = "verifying" THEN verifierSlots + 1 ELSE verifierSlots
  /\ \E v \in Verdicts \cup {"awaitable"} : verdict' = [verdict EXCEPT ![d] = v]
  /\ UNCHANGED <<vars, post, verifierQueue>>

(* A verifier may return an awaitable, which goes on in the event loop.    *)
VerifierEnds(d) ==
  /\ d \in verifierRunning /\ verifierRunning' = verifierRunning \ {d}
  /\ verifierSlots' = verifierSlots + 1
  /\ \E v \in Verdicts \cup {"awaitable"} : verdict' = [verdict EXCEPT ![d] = v]
  /\ UNCHANGED <<vars, post, verifierQueue>>

(* The timeout cancels what is awaited.                                    *)
AwaitedVerdict(d) ==
  /\ post[d] = "verifying" /\ verdict[d] = "awaitable"
  /\ \E v \in Verdicts : verdict' = [verdict EXCEPT ![d] = v]
  /\ UNCHANGED <<vars, post, verifierSlots, verifierQueue, verifierRunning>>

PostVerified(d) ==
  /\ post[d] = "verifying" /\ verdict[d] \in Verdicts
  /\ PostIs(d, CASE verdict[d] = "ok" -> "reading"
                 [] verdict[d] = "refused" -> "401"
                 [] verdict[d] = "raised" -> "500")
  /\ UNCHANGED <<vars, verifierSlots, verifierQueue, verifierRunning, verdict>>

\* Mutant: a verifier that is late is no reason to refuse the POST.
VerificationTimesOut_Admits(d) ==
  /\ post[d] = "verifying" /\ verdict[d] \notin Verdicts
  /\ PostIs(d, "reading")
  /\ UNCHANGED <<vars, verifierSlots, verifierQueue, verifierRunning, verdict>>

(* The timeout is an exception like others of the verifier.  Its job keeps *)
(* its slot until it has run.                                              *)
VerificationTimesOut(d) ==
  /\ post[d] = "verifying" /\ verdict[d] \notin Verdicts
  /\ PostIs(d, "500")
  /\ UNCHANGED <<vars, verifierSlots, verifierQueue, verifierRunning, verdict>>

(* The body is too long, or is no JSON object, or is dispatched.           *)
ReadBody(d) ==
  /\ post[d] = "reading"
  /\ \/ (PostIs(d, "413") \/ PostIs(d, "400")) /\ UNCHANGED vars
     \/ PostIs(d, "dispatched") /\ Dispatch(d)
  /\ UNCHANGED <<verifierSlots, verifierQueue, verifierRunning, verdict>>

StatusOf(reply) == IF reply \in {"503", "raised"} THEN reply ELSE "200"

Respond(d) ==
  /\ post[d] = "dispatched" /\ answer[d] # "none"
  /\ PostIs(d, StatusOf(answer[d]))
  /\ UNCHANGED <<vars, verifierSlots, verifierQueue, verifierRunning, verdict>>

PostStep(d) ==
  \/ ReceivePost(d) \/ VerifierEnds(d) \/ AwaitedVerdict(d) \/ PostVerified(d)
  \/ VerificationTimesOut(d) \/ ReadBody(d) \/ Respond(d)

(* dispatch_async, or dispatch with its coroutine in the supervisor's loop. *)
DispatchDirectly(d) ==
  /\ post[d] = "new" /\ PostIs(d, "direct") /\ Dispatch(d)
  /\ UNCHANGED <<verifierSlots, verifierQueue, verifierRunning, verdict>>

AsgiNext ==
  \/ VerifierWork
  \/ \E d \in Deliveries : DispatchDirectly(d) \/ PostStep(d)
  \/ (PoolStep \/ \E d \in Deliveries : LoopStep(d)) /\ UNCHANGED postVars

AsgiSpec == AsgiInit /\ [][AsgiNext]_asgiVars

(* The event loop and its timers go on; a client may never send the rest   *)
(* of its body, and a verifier, a job or a coroutine may never end.        *)
AsgiFairness ==
  \A d \in Deliveries :
    WF_asgiVars(\/ PostVerified(d) \/ VerificationTimesOut(d) \/ Respond(d)
                \/ /\ Guarded(d) \/ TaskDone(d) \/ DeadlineExceeded(d) \/ CallbackDone(d)
                   /\ UNCHANGED postVars)

AsgiFairSpec == AsgiSpec /\ AsgiFairness

-----------------------------------------------------------------------------
(* The shape of the state.                                                 *)
PostTypeOK ==
  /\ post \in [Deliveries -> {"new", "direct", "verifying", "reading", "dispatched"} \cup Statuses]
  /\ verifierSlots \in 0..VerifierCapacity
  /\ verifierQueue \in Seq(Deliveries)
  /\ verifierRunning \in SUBSET Deliveries /\ Cardinality(verifierRunning) <= VerifierWorkers
  /\ verdict \in [Deliveries -> Verdicts \cup {"none", "awaitable"}]

(* In both pools every slot is free or held by one job, queued or running: *)
(* none is lost by a job that raises or that outlives its deadline.        *)
PoolsAccounted ==
  /\ SlotsAccounted
  /\ verifierSlots + Len(verifierQueue) + Cardinality(verifierRunning) = VerifierCapacity

(* No POST's handler runs, nor is its event claimed, unless the verifier   *)
(* let it pass in time; and for each event one handler runs at most, of    *)
(* the delivery that was granted the claim.                                *)
OnlyAdmittedHandled ==
  /\ HandlersProtected
  /\ \A d \in claims :
       /\ verdict[d] = "ok" \/ post[d] = "direct"
       /\ post[d] \in {"direct", "dispatched", "200", "503", "raised"}

Pending(d) ==
  post[d] \in {"verifying", "dispatched"} \/ (post[d] = "direct" /\ answer[d] = "none")

(* A POST is answered, and a dispatch of the application returns, though   *)
(* the verifier, the store or a handler never return, unless the client    *)
(* does not send the body or the application's own deadline callback is    *)
(* waited for, which queues in the pool like everything else.              *)
EveryDispatchAnswered ==
  \A d \in Deliveries :
    Pending(d) ~> ~Pending(d) \/ waiting[d] = "callback"
=============================================================================
