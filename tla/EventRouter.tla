----------------------------- MODULE EventRouter -----------------------------
(***************************************************************************)
(* GoogleChatAI of packages/node/src/router/runtime.ts: what fetch does    *)
(* with one delivery of an event - verification, parsing, the duplicate    *)
(* guard, the middleware chain, the handlers, the deadline - for several   *)
(* deliveries at once.                                                     *)
(*                                                                         *)
(* Google Chat is external: it delivers an event any number of times, in   *)
(* any order.  The claim is one step (IdempotentClaim is what the stores   *)
(* are shown to implement).  Middlewares and handlers are the              *)
(* application's: they return, throw, or never end, and a middleware may   *)
(* call next() as often as it likes and need not wait for it.              *)
(***************************************************************************)
EXTENDS Integers, Sequences

CONSTANTS
  Requests,     \* deliveries, each an HTTP request of its own
  RoutedEvents, \* the events they are deliveries of
  KindOf,       \* the kind of each event
  Keyed,        \* the events that have an idempotencyKey
  Registered,   \* the groups of handlers the application has registered
  Middlewares,  \* how many middlewares it uses
  Deadline,     \* "none", "default" or "callback" (onDeadline)
  ExpiryBound   \* model bound: claims that expire

HandlerGroups == {"named", "bare", "specific", "generic", "message", "unknown"}

Kinds == {"slash", "mention", "updated", "message", "card", "unknown"}

ASSUME RouterAssumption ==
  /\ KindOf \in [RoutedEvents -> Kinds]
  /\ Keyed \subseteq RoutedEvents
  /\ Registered \subseteq HandlerGroups
  /\ Middlewares \in Nat
  /\ Deadline \in {"none", "default", "callback"}
  /\ ExpiryBound \in Nat

Frames == 0..Middlewares   \* the last one is dispatchToHandlers

VARIABLES
  phase,         \* of each request
  event,         \* the event it delivers
  answer,        \* the response, once there is one
  frame,         \* run(index) of each request: "idle", "running" or its outcome
  currentIndex,
  tried,         \* the groups dispatchToHandlers has called, in order
  claimed,       \* external: the events claimed and not expired
  claimCount,    \* external: the claims of each event recorded so far
  granted,       \* history: the number of the claim a request was granted
  dispatched     \* history: how often a request came to its handlers

routerVars == <<phase, event, answer, frame, currentIndex, tried, claimed, claimCount,
                granted, dispatched>>

requestVars == <<phase, event, answer>>
chainVars == <<frame, currentIndex, tried, dispatched>>
storeVars == <<claimed, claimCount, granted>>

Phases == {"new", "verify", "parse", "guard", "run", "callback", "done", "gone"}

Outcomes == {"result", "undefined", "threw"}

Refusals == {"method_not_allowed", "verifier_error", "unauthorized", "bad_request"}

Answers == Refusals \cup {"none", "duplicate", "rejected", "handled", "empty",
                         "handler_error", "still_working", "deadline_reply"}

RouterInit ==
  /\ phase = [r \in Requests |-> "new"]
  /\ event \in [Requests -> RoutedEvents]
  /\ answer = [r \in Requests |-> "none"]
  /\ frame = [r \in Requests |-> [i \in Frames |-> "idle"]]
  /\ currentIndex = [r \in Requests |-> -1]
  /\ tried = [r \in Requests |-> << >>]
  /\ claimed = {} /\ claimCount = [e \in RoutedEvents |-> 0]
  /\ granted = [r \in Requests |-> 0]
  /\ dispatched = [r \in Requests |-> 0]

RouterGoto(r, next) ==
  /\ phase' = [phase EXCEPT ![r] = next]
  /\ UNCHANGED <<event, answer>>

RouterAnswer(r, response) ==
  /\ phase' = [phase EXCEPT ![r] = "done"]
  /\ answer' = [answer EXCEPT ![r] = response]
  /\ UNCHANGED event

-----------------------------------------------------------------------------
(* fetch, up to the first await.                                           *)
Arrive(r) ==
  /\ phase[r] = "new"
  /\ RouterGoto(r, "verify") \/ RouterAnswer(r, "method_not_allowed")
  /\ UNCHANGED <<chainVars, storeVars>>

Record(r, e) ==
  /\ claimed' = claimed \cup {e}
  /\ claimCount' = [claimCount EXCEPT ![e] = @ + 1]
  /\ granted' = [granted EXCEPT ![r] = claimCount[e] + 1]

\* Mutant: the claim is made before the request is verified.
Verify_AfterClaim(r) ==
  /\ phase[r] = "verify"
  /\ \/ RouterGoto(r, "parse")
     \/ \E refusal \in {"verifier_error", "unauthorized"} : RouterAnswer(r, refusal)
  /\ IF event[r] \in claimed THEN UNCHANGED storeVars ELSE Record(r, event[r])
  /\ UNCHANGED chainVars

Verify(r) ==
  /\ phase[r] = "verify"
  /\ \/ RouterGoto(r, "parse")
     \/ \E refusal \in {"verifier_error", "unauthorized"} : RouterAnswer(r, refusal)
  /\ UNCHANGED <<chainVars, storeVars>>

(* request.json() and, in handlePayload, normalizeEvent.                   *)
Parse(r) ==
  /\ phase[r] = "parse"
  /\ RouterGoto(r, "guard") \/ RouterAnswer(r, "bad_request")
  /\ UNCHANGED <<chainVars, storeVars>>

(* handleEvent goes on to runMiddlewareChain, whose run(0) starts at once: *)
(* a middleware, or the dispatch when there is none.                       *)
Run(r, i) ==
  /\ currentIndex' = [currentIndex EXCEPT ![r] = i]
  /\ frame' = [frame EXCEPT ![r][i] = "running"]
  /\ dispatched' = [dispatched EXCEPT ![r] = IF i = Middlewares THEN @ + 1 ELSE @]
  /\ tried' = [tried EXCEPT ![r] = IF i = Middlewares THEN << >> ELSE @]

\* Mutant: the answer of the store is not looked at.
Guard_Ignored(r) ==
  /\ phase[r] = "guard"
  /\ IF event[r] \in claimed THEN UNCHANGED storeVars ELSE Record(r, event[r])
  /\ RouterGoto(r, "run") /\ Run(r, 0)

(* guardDuplicateEventDelivery.  An error of the store is not caught: the  *)
(* promise of fetch rejects, and the claim may have been recorded or not.  *)
Guard(r) ==
  /\ phase[r] = "guard"
  /\ \/ /\ event[r] \notin Keyed
        /\ RouterGoto(r, "run") /\ Run(r, 0)
        /\ UNCHANGED storeVars
     \/ /\ event[r] \in Keyed \ claimed
        /\ Record(r, event[r])
        /\ \/ RouterGoto(r, "run") /\ Run(r, 0)
           \/ RouterAnswer(r, "rejected") /\ UNCHANGED chainVars
     \/ /\ event[r] \in Keyed
        /\ \/ event[r] \in claimed /\ RouterAnswer(r, "duplicate")
           \/ RouterAnswer(r, "rejected")
        /\ UNCHANGED <<chainVars, storeVars>>

-----------------------------------------------------------------------------
Alive(r) == phase[r] # "gone"

RunsIn(r, i) == Alive(r) /\ frame[r][i] = "running"

(* A middleware calls next().  When that has been done before, the call    *)
(* throws (a middleware that catches it changes nothing).                  *)
CallNext(r, i) ==
  /\ RunsIn(r, i) /\ i < Middlewares
  /\ \/ i + 1 > currentIndex[r] /\ Run(r, i + 1)
     \/ /\ i + 1 <= currentIndex[r]
        /\ frame' = [frame EXCEPT ![r][i] = "threw"]
        /\ UNCHANGED <<currentIndex, tried, dispatched>>
  /\ UNCHANGED <<requestVars, storeVars>>

(* A middleware ends, with what next() gave it or something of its own,    *)
(* whether or not what it started has ended.                               *)
MiddlewareEnds(r, i) ==
  /\ RunsIn(r, i) /\ i < Middlewares
  /\ \E outcome \in Outcomes : frame' = [frame EXCEPT ![r][i] = outcome]
  /\ UNCHANGED <<requestVars, storeVars, currentIndex, tried, dispatched>>

(* handlersForEvent: the groups of handlers for an event, in order.        *)
HandlersForEvent(kind) ==
  SelectSeq(
    CASE kind = "slash" -> <<"named", "bare", "generic", "message", "unknown">>
      [] kind = "mention" -> <<IF "specific" \in Registered THEN "specific" ELSE "message",
                               "generic", "unknown">>
      [] kind = "updated" -> <<"specific", "generic", "message", "unknown">>
      [] kind = "message" -> <<"generic", "message", "unknown">>
      [] kind = "card" -> <<"specific", "generic", "unknown">>
      [] OTHER -> <<"generic", "unknown">>,
    LAMBDA group : group \in Registered)

(* dispatchToHandlers calls one handler after the other until one has a    *)
(* result or throws; a group is one handler here.                          *)
RunHandler(r) ==
  LET handlers == HandlersForEvent(KindOf[event[r]])
      n == Len(tried[r]) + 1
  IN /\ RunsIn(r, Middlewares)
     /\ \/ /\ n <= Len(handlers)
           /\ tried' = [tried EXCEPT ![r] = Append(@, handlers[n])]
           /\ \/ UNCHANGED frame
              \/ \E outcome \in {"result", "threw"} :
                   frame' = [frame EXCEPT ![r][Middlewares] = outcome]
        \/ /\ n > Len(handlers)
           /\ frame' = [frame EXCEPT ![r][Middlewares] = "undefined"]
           /\ UNCHANGED tried
     /\ UNCHANGED <<requestVars, storeVars, currentIndex, dispatched>>

-----------------------------------------------------------------------------
ResponseTo(outcome) ==
  CASE outcome = "result" -> "handled"
    [] outcome = "undefined" -> "empty"
    [] outcome = "threw" -> "handler_error"

(* The chain wins the race, and runs out of things to do before the timer  *)
(* can fire.  A late result is only logged.                                *)
Settle(r) ==
  /\ phase[r] = "run" /\ frame[r][0] \in Outcomes
  /\ RouterAnswer(r, ResponseTo(frame[r][0]))
  /\ UNCHANGED <<chainVars, storeVars>>

\* Mutant: the timer is cleared when the handlers are reached.
DeadlineExceeded_NotInHandlers(r) ==
  /\ Deadline # "none"
  /\ phase[r] = "run" /\ frame[r][0] = "running" /\ dispatched[r] = 0
  /\ RouterAnswer(r, "still_working")
  /\ UNCHANGED <<chainVars, storeVars>>

DeadlineExceeded(r) ==
  /\ Deadline # "none"
  /\ phase[r] = "run" /\ frame[r][0] = "running"
  /\ IF Deadline = "callback" THEN RouterGoto(r, "callback")
                             ELSE RouterAnswer(r, "still_working")
  /\ UNCHANGED <<chainVars, storeVars>>

OnDeadline(r) ==
  /\ phase[r] = "callback"
  /\ \E response \in {"deadline_reply", "handler_error"} : RouterAnswer(r, response)
  /\ UNCHANGED <<chainVars, storeVars>>

-----------------------------------------------------------------------------
(* A claim expires; the next delivery may claim the event again.           *)
Expire(e) ==
  /\ e \in claimed /\ claimCount[e] <= ExpiryBound
  /\ claimed' = claimed \ {e}
  /\ UNCHANGED <<requestVars, chainVars, claimCount, granted>>

(* The process dies with all it was doing; the claims outlive it.          *)
RouterCrash ==
  /\ \E r \in Requests : phase[r] \notin {"new", "gone"}
  /\ phase' = [r \in Requests |-> IF phase[r] = "new" THEN "new" ELSE "gone"]
  /\ UNCHANGED <<event, answer, chainVars, storeVars>>

RouterStep(r) ==
  Verify(r) \/ Parse(r) \/ Guard(r) \/ Settle(r) \/ DeadlineExceeded(r)

RouterNext ==
  \/ \E r \in Requests :
       \/ Arrive(r) \/ RouterStep(r) \/ RunHandler(r) \/ OnDeadline(r)
       \/ \E i \in Frames : CallNext(r, i) \/ MiddlewareEnds(r, i)
  \/ \E e \in RoutedEvents : Expire(e)
  \/ RouterCrash

RouterSpec == RouterInit /\ [][RouterNext]_routerVars

(* The verifier, the store and the timer answer; nothing is asked of the   *)
(* application's middlewares, handlers and onDeadline.                     *)
RouterFairSpec == RouterSpec /\ \A r \in Requests : WF_routerVars(RouterStep(r))

-----------------------------------------------------------------------------
(* The state's shape; the chain never goes beyond its last frame, and no   *)
(* frame after currentIndex has started.                                   *)
RouterTypeOK ==
  /\ phase \in [Requests -> Phases]
  /\ event \in [Requests -> RoutedEvents]
  /\ answer \in [Requests -> Answers]
  /\ frame \in [Requests -> [Frames -> Outcomes \cup {"idle", "running"}]]
  /\ currentIndex \in [Requests -> -1..Middlewares]
  /\ tried \in [Requests -> Seq(HandlerGroups)]
  /\ claimed \subseteq RoutedEvents
  /\ claimCount \in [RoutedEvents -> Nat]
  /\ granted \in [Requests -> Nat]
  /\ dispatched \in [Requests -> Nat]
  /\ \A r \in Requests : \A i \in Frames :
       frame[r][i] = "idle" <=> i > currentIndex[r]

(* Of the deliveries of one event, one reaches the handlers for every      *)
(* claim, and once, however often and in whatever order the middlewares    *)
(* call next(): a redelivery does so only after the claim has expired.  A  *)
(* request that is refused, for whatever reason, leaves no claim behind,   *)
(* so that it cannot make the real delivery look like a duplicate.         *)
HandledOncePerClaim ==
  \A r \in Requests :
    /\ dispatched[r] <= 1
    /\ event[r] \in Keyed /\ dispatched[r] > 0 =>
         /\ granted[r] > 0
         /\ \A s \in Requests \ {r} : event[s] = event[r] => granted[s] # granted[r]
    /\ answer[r] \in Refusals => granted[r] = 0 /\ dispatched[r] = 0

(* With a deadline every request is answered, though handlers may never    *)
(* return, unless the process dies or the request waits for the            *)
(* application's own onDeadline, which no deadline bounds.                 *)
EveryRequestAnswered ==
  \A r \in Requests : phase[r] = "verify" ~> phase[r] \in {"done", "gone", "callback"}
=============================================================================
