---------------------------- MODULE PlanExecutor ----------------------------
(***************************************************************************)
(* executeChatPlan (packages/node/src/execute/index.ts): the executions of *)
(* call plans, at once and one after the other, that share an idempotency  *)
(* store - a request delivered twice, or repeated after its process died.  *)
(*                                                                         *)
(* A request goes out through the retrying client, of which RetryTransport *)
(* shows that "ok" means carried out and that a failure tells nothing.     *)
(* The store claims in one step, as IdempotentClaim says, and keeps its    *)
(* claims here.                                                            *)
(***************************************************************************)
EXTENDS Naturals, Sequences

CONSTANTS
  Executions,
  PlanOf,      \* the plan of each execution
  OptionsOf,   \* its options
  NoId

(* The principals for which there is a source of tokens are options.auth.  *)
Options == [mode : {"dryRun", "live"}, overrideCapability : BOOLEAN,
            allowDirectMessages : BOOLEAN, auth : SUBSET {"app", "user"}]

(* A plan is what CallPlans makes: its requests have a method, an id, and  *)
(* may need the name of a space or a list of pins from an earlier answer.  *)
ASSUME PlanAssumption ==
  \A e \in Executions :
    /\ OptionsOf[e] \in Options
    /\ Len(PlanOf[e].requests) \in Nat \ {0}
    /\ DOMAIN PlanOf[e].requests = 1..Len(PlanOf[e].requests)
    /\ \A i \in DOMAIN PlanOf[e].requests :
         PlanOf[e].requests[i].method \in {"GET", "POST", "PATCH", "DELETE"}

VARIABLES
  pc,
  at,        \* the request an execution is at
  steps,     \* the status of each step
  fallback,  \* the status of the fallback of the step it was for
  responses, \* for each step what its response says
  ok,        \* execution.ok
  claims,    \* external: [id, by, step] claimed in the store
  sent       \* history: [by, step, fallback] of the requests handed to the client

vars == <<pc, at, steps, fallback, responses, ok, claims, sent>>

StepsOf(e) == DOMAIN PlanOf[e].requests

(* What the later steps of a plan look for in a response: the name of a    *)
(* space, the pins, and a nextPageToken.                                   *)
Response == [space : BOOLEAN, pins : BOOLEAN, pinned : BOOLEAN, more : BOOLEAN]

NoResponse == [space |-> FALSE, pins |-> FALSE, pinned |-> FALSE, more |-> FALSE]

Statuses == {"not_reached", "planned", "skipped", "duplicate", "already_pinned",
             "executed", "failed"}

Init ==
  /\ pc = [e \in Executions |-> "new"]
  /\ at = [e \in Executions |-> 1]
  /\ steps = [e \in Executions |-> [i \in StepsOf(e) |-> "not_reached"]]
  /\ fallback = [e \in Executions |-> "none"]
  /\ responses = [e \in Executions |-> [i \in StepsOf(e) |-> NoResponse]]
  /\ ok = [e \in Executions |-> FALSE]
  /\ claims = {} /\ sent = {}

Request(e) == PlanOf[e].requests[at[e]]

Goto(e, label) == pc' = [pc EXCEPT ![e] = label]

Mark(e, status) == steps' = [steps EXCEPT ![e][at[e]] = status]

(* The loop goes on with the next request, or ends well.                   *)
Advance(e) ==
  IF at[e] < Len(PlanOf[e].requests)
  THEN at' = [at EXCEPT ![e] = @ + 1] /\ Goto(e, "request") /\ UNCHANGED ok
  ELSE ok' = [ok EXCEPT ![e] = TRUE] /\ Goto(e, "done") /\ UNCHANGED at

(* The rest of the plan is not reached.                                    *)
Halt(e) == Goto(e, "done") /\ UNCHANGED <<at, ok>>

-----------------------------------------------------------------------------
(* computeBlock                                                            *)
Blocked(e) ==
  LET plan == PlanOf[e]  options == OptionsOf[e]
  IN \/ ~plan.capable /\ ~options.overrideCapability
     \/ plan.directMessage /\ ~options.allowDirectMessages
     \/ options.mode = "live" /\ plan.authMode \notin options.auth

All(e, status) == steps' = [steps EXCEPT ![e] = [i \in StepsOf(e) |-> status]]

Start(e) ==
  /\ pc[e] = "new"
  /\ \/ /\ OptionsOf[e].mode = "dryRun"
        /\ All(e, "planned") /\ ok' = [ok EXCEPT ![e] = ~Blocked(e)]
        /\ Goto(e, "done")
     \/ /\ OptionsOf[e].mode = "live" /\ Blocked(e)
        /\ All(e, "skipped") /\ Goto(e, "done") /\ UNCHANGED ok
     \/ /\ OptionsOf[e].mode = "live" /\ ~Blocked(e)
        /\ Goto(e, "request") /\ UNCHANGED <<steps, ok>>
  /\ UNCHANGED <<at, fallback, responses, claims, sent>>

(* resolvePath: the resolver looks for a space among all the responses.    *)
PathResolved(e) == Request(e).needsSpace => \E i \in StepsOf(e) : responses[e][i].space

(* lastMessagePinsListResponse                                             *)
Lists(e) == {i \in StepsOf(e) : steps[e][i] = "executed" /\ responses[e][i].pins}

(* The last of them, if there is one.                                      *)
LastList(e) == {i \in Lists(e) : \A j \in Lists(e) : j <= i}

LastListHas(e, field) == \E i \in LastList(e) : responses[e][i][field]

\* Mutant: an incomplete list is good enough.
Condition_IgnoresPages(e) ==
  CASE ~Request(e).pinAbsent -> "execute"
    [] Request(e).pinAbsent /\ LastList(e) = {} -> "fail"
    [] OTHER -> IF LastListHas(e, "pinned") THEN "skip" ELSE "execute"

(* evaluateRequestCondition                                                *)
Condition(e) ==
  CASE ~Request(e).pinAbsent -> "execute"
    [] Request(e).pinAbsent /\ LastList(e) = {} -> "fail"
    [] OTHER -> IF LastListHas(e, "more") THEN "fail"
                ELSE IF LastListHas(e, "pinned") THEN "skip" ELSE "execute"

(* The path and the condition, which need no await.                        *)
Prepare(e) ==
  /\ pc[e] = "request"
  /\ \/ /\ ~PathResolved(e) \/ Condition(e) = "fail"
        /\ Mark(e, "failed") /\ Halt(e)
     \/ /\ PathResolved(e) /\ Condition(e) = "skip"
        /\ Mark(e, "already_pinned") /\ Advance(e)
     \/ /\ PathResolved(e) /\ Condition(e) = "execute"
        /\ Goto(e, IF Request(e).id = NoId THEN "send" ELSE "claim")
        /\ UNCHANGED <<steps, at, ok>>
  /\ UNCHANGED <<fallback, responses, claims, sent>>

ClaimedBy(id) == {claim.by : claim \in {c \in claims : c.id = id}}

\* Mutant: the claim is only looked up, and recorded by nobody.
Claim_Unrecorded(e) ==
  /\ pc[e] = "claim"
  /\ IF ClaimedBy(Request(e).id) # {}
     THEN Mark(e, "duplicate") /\ Advance(e)
     ELSE Goto(e, "send") /\ UNCHANGED <<steps, at, ok>>
  /\ UNCHANGED <<fallback, responses, sent, claims>>

(* A store that throws ends the execution, which has then no report; the   *)
(* claim may have been recorded.                                           *)
Claim(e) ==
  LET id == Request(e).id
      Record == claims' = claims \cup {[id |-> id, by |-> e, step |-> at[e]]}
  IN /\ pc[e] = "claim"
     /\ \/ /\ ClaimedBy(id) = {} /\ Record
           /\ Goto(e, "send") \/ Goto(e, "rejected")
           /\ UNCHANGED <<steps, at, ok>>
        \/ /\ ClaimedBy(id) # {}
           /\ Mark(e, "duplicate") /\ Advance(e) /\ UNCHANGED claims
        \/ Goto(e, "rejected") /\ UNCHANGED <<steps, at, ok, claims>>
     /\ UNCHANGED <<fallback, responses, sent>>

(* What Chat answers to the request of a step.                             *)
Answer(e) ==
  {r \in Response : /\ r.space => ~r.pins
                    /\ r.pinned \/ r.more => r.pins
                    /\ r.pins => Request(e).method = "GET"
                    /\ Request(e).method = "PATCH" => r.space
                    /\ Request(e).method = "DELETE" => r = NoResponse}

HandOver(e, isFallback) ==
  sent' = sent \cup {[by |-> e, step |-> at[e], fallback |-> isFallback]}

(* performRequest.  A PATCH that fails has a fallback, if the plan has.    *)
Send(e) ==
  /\ pc[e] = "send"
  /\ HandOver(e, FALSE)
  /\ \/ /\ \E r \in Answer(e) : responses' = [responses EXCEPT ![e][at[e]] = r]
        /\ Mark(e, "executed") /\ Advance(e)
     \/ /\ Mark(e, "failed") /\ UNCHANGED responses
        /\ IF Request(e).method = "PATCH" /\ PlanOf[e].fallbackId # NoId
           THEN Goto(e, "fallback") /\ UNCHANGED <<at, ok>>
           ELSE Halt(e)
  /\ UNCHANGED <<fallback, claims>>

\* Mutant: the plan goes on when the fallback fails as well.
Fallback_GoesOn(e) ==
  /\ pc[e] = "fallback"
  /\ HandOver(e, TRUE)
  /\ \E status \in {"executed", "failed"} : fallback' = [fallback EXCEPT ![e] = status]
  /\ Advance(e)
  /\ UNCHANGED <<steps, responses, claims>>

(* The fallback has a requestId, which nobody claims: it is sent whatever  *)
(* the store says of it.  The message it creates has a name, which later   *)
(* steps may use.  It goes to the space of the placeholder: its path has   *)
(* nothing to resolve.                                                     *)
Fallback(e) ==
  /\ pc[e] = "fallback"
  /\ HandOver(e, TRUE)
  /\ \/ /\ fallback' = [fallback EXCEPT ![e] = "executed"]
        /\ responses' = [responses EXCEPT ![e][at[e]].space = TRUE]
        /\ Advance(e)
     \/ /\ fallback' = [fallback EXCEPT ![e] = "failed"]
        /\ Halt(e) /\ UNCHANGED responses
  /\ UNCHANGED <<steps, claims>>

(* The process of an execution dies; another execution may repeat it.      *)
Crash(e) ==
  /\ pc[e] \notin {"new", "done", "rejected", "gone"}
  /\ Goto(e, "gone")
  /\ UNCHANGED <<at, steps, fallback, responses, ok, claims, sent>>

Step(e) == Start(e) \/ Prepare(e) \/ Claim(e) \/ Send(e) \/ Fallback(e)

Next == \E e \in Executions : Step(e) \/ Crash(e)

Spec == Init /\ [][Next]_vars

-----------------------------------------------------------------------------
(* The state's shape; what comes after the current step is not reached.    *)
TypeOK ==
  /\ pc \in [Executions -> {"new", "request", "claim", "send", "fallback", "done",
                            "rejected", "gone"}]
  /\ \A e \in Executions :
       /\ at[e] \in StepsOf(e)
       /\ steps[e] \in [StepsOf(e) -> Statuses]
       /\ \A i \in StepsOf(e) :
            i > at[e] => steps[e][i] \in {"not_reached", "planned", "skipped"}
       /\ fallback[e] \in {"none", "executed", "failed"}
       /\ responses[e] \in [StepsOf(e) -> Response]
       /\ ok[e] \in BOOLEAN
  /\ \A claim \in claims : claim.by \in Executions /\ claim.step \in StepsOf(claim.by)
  /\ \A s \in sent :
       s.by \in Executions /\ s.step \in StepsOf(s.by) /\ s.fallback \in BOOLEAN

IdOf(s) ==
  IF s.fallback THEN PlanOf[s.by].fallbackId ELSE PlanOf[s.by].requests[s.step].id

PatchOf(s) == [by |-> s.by, step |-> s.step, fallback |-> FALSE]

(* docs/guides/2026-07-06-plan-execution.md:147-156: the request of one    *)
(* requestId is never sent twice, by two executions or by two steps of     *)
(* one, as long as the store keeps the claim, whichever of them fails or   *)
(* dies.  Only a fallback, which is not claimed, may be sent by several,   *)
(* and only by those whose own PATCH went out first.                       *)
SentOnce ==
  \A s, t \in sent : IdOf(s) = IdOf(t) /\ IdOf(s) # NoId =>
    \/ s.by = t.by /\ s.step = t.step
    \/ \E f \in {s, t} : f.fallback /\ PatchOf(f) \in sent

MaySend(e) ==
  /\ OptionsOf[e].mode = "live" /\ PlanOf[e].authMode \in OptionsOf[e].auth
  /\ PlanOf[e].capable \/ OptionsOf[e].overrideCapability
  /\ PlanOf[e].directMessage => OptionsOf[e].allowDirectMessages

(* A dry run or a blocked plan sends nothing and claims nothing: a message *)
(* to a user takes both flags (guide, 97-99), and no plan is sent as a     *)
(* principal it does not name.                                             *)
GatesHold ==
  /\ \A s \in sent : MaySend(s.by)
  /\ \A claim \in claims : MaySend(claim.by)

(* A message is pinned only on the word of a complete list without it,     *)
(* read by the same execution.                                             *)
PinsOnlyWhatIsAbsent ==
  \A s \in sent :
    ~s.fallback /\ PlanOf[s.by].requests[s.step].pinAbsent =>
      \E i \in 1..(s.step - 1) :
        /\ steps[s.by][i] = "executed" /\ responses[s.by][i].pins
        /\ ~responses[s.by][i].more /\ ~responses[s.by][i].pinned

(* A report that says ok accounts for every step: carried out, done        *)
(* already, or made up for by the fallback.                                *)
OkAccountsForAll ==
  \A e \in Executions : pc[e] = "done" /\ ok[e] /\ OptionsOf[e].mode = "live" =>
    \A i \in StepsOf(e) :
      \/ steps[e][i] \in {"executed", "duplicate", "already_pinned"}
      \/ steps[e][i] = "failed" /\ fallback[e] = "executed"
=============================================================================
