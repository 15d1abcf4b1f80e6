-------------------------- MODULE MCPlansAndRouter --------------------------
(***************************************************************************)
(* Two parts that share no state, checked in one run: executions of plans  *)
(* and the router.  The initial state chooses one of them and the other    *)
(* stands still.                                                           *)
(***************************************************************************)
EXTENDS PlanExecutor, EventRouter, TLC, FiniteSetsExt

CONSTANTS r1, r2, first, second

VARIABLES
  part,
  group  \* the executions that run: the others have not started

-----------------------------------------------------------------------------
(* Executions of the plans CallPlans makes.                                *)
\* Two texts that differ have one slug.
Slug(seed) == [i \in DOMAIN seed |-> IF seed[i] = "Hello!" THEN "hello" ELSE seed[i]]

Plans == INSTANCE CallPlans

Live == [mode |-> "live", overrideCapability |-> FALSE, allowDirectMessages |-> FALSE,
         auth |-> {"app", "user"}]

BothFlags == [Live EXCEPT !.overrideCapability = TRUE, !.allowDirectMessages = TRUE]

App == [authMode |-> "app", requestId |-> NoId, space |-> "room"]

User == [App EXCEPT !.authMode = "user"]

ToUser == App @@ [email |-> "user", text |-> "hello"]

RoomReply == App @@ [text |-> "hello", isDm |-> FALSE]

DmReply == [RoomReply EXCEPT !.space = "dm", !.isDm = TRUE]

InThread == RoomReply @@ [thread |-> "thread", threadKey |-> "key"]

Buffered == App @@ [initialText |-> "thinking", chunks |-> <<1, 1, 1>>, decoration |-> 0,
                    minPatchChars |-> 2, maxPatches |-> 2]

Completion == App @@ [messageName |-> "placeholder", fallbackRequestId |-> NoId,
                      onPatchFailure |-> "createNewMessage"]

Execution(plan, options) == [plan |-> plan, options |-> options]

(* What competes has a request id in common: a request delivered twice,    *)
(* two texts of one slug, a reply and a message to the same space, a       *)
(* fallback and the reply whose id its caller gives it.                    *)
MCExecutionOf ==
  [sendToUser |-> Execution(Plans!PlanSendToUser(ToUser), BothFlags),
   sendToUserAgain |-> Execution(Plans!PlanSendToUser(ToUser), BothFlags),
   sendToUserNoDm |->
     Execution(Plans!PlanSendToUser(ToUser), [Live EXCEPT !.overrideCapability = TRUE]),
   setupDm |-> Execution(Plans!PlanFindOrSetupDm(ToUser), BothFlags),
   reply |-> Execution(Plans!PlanReplyToEvent(RoomReply), Live),
   replyInDm |-> Execution(Plans!PlanReplyToEvent(DmReply),
                           [Live EXCEPT !.allowDirectMessages = TRUE]),
   send |-> Execution(Plans!PlanSendToSpace([RoomReply EXCEPT !.text = "Hello!"]), Live),
   stream |-> Execution(Plans!PlanBufferedStreamMessage(Buffered), Live),
   streamAgain |-> Execution(Plans!PlanBufferedStreamMessage(Buffered), Live),
   placeholder |->
     Execution(Plans!PlanPlaceholderResponse(RoomReply @@ [placeholderText |-> "thinking"]), Live),
   complete |-> Execution(Plans!PlanCompletePlaceholderResponse(Completion), Live),
   completeAgain |-> Execution(Plans!PlanCompletePlaceholderResponse(Completion), Live),
   completeOrReply |->
     Execution(Plans!PlanCompletePlaceholderResponse(
                 [Completion EXCEPT !.fallbackRequestId = Slug(<<"room", "hello">>)]),
               Live),
   completeBuffered |-> Execution(Plans!PlanBufferedPlaceholderCompletion(Buffered), Live),
   ensurePinned |-> Execution(Plans!PlanEnsureMessagePinned(User), Live),
   ensurePinnedDry |-> Execution(Plans!PlanEnsureMessagePinned(User), [Live EXCEPT !.mode = "dryRun"]),
   ensurePinnedNoUser |-> Execution(Plans!PlanEnsureMessagePinned(User), [Live EXCEPT !.auth = {"app"}]),
   deleteOthers |-> Execution(Plans!PlanDeleteAppMessage(App @@ [appCreated |-> FALSE]), Live),
   streamTexts |-> Execution(Plans!PlanStreamMessage(Buffered @@ [patchTexts |-> <<1, 2>>]), Live),
   replyInThread |-> Execution(Plans!PlanReplyInThread(InThread), Live),
   startThread |-> Execution(Plans!PlanStartThread(InThread), Live),
   edit |-> Execution(Plans!PlanEditMessage(App), Live),
   replaceCards |-> Execution(Plans!PlanReplaceCards(App), Live),
   search |-> Execution(Plans!PlanSearchMessages(User), Live),
   searchAsApp |-> Execution(Plans!PlanSearchMessages(App), Live),
   pin |-> Execution(Plans!PlanPinMessage(User), Live),
   unpin |-> Execution(Plans!PlanUnpinMessage(User), Live),
   listPins |-> Execution(Plans!PlanListMessagePins(User), Live),
   feedback |-> Execution(Plans!PlanFeedbackReaction(User @@ [visibleReaction |-> TRUE]), Live),
   feedbackAsApp |->
     Execution(Plans!PlanFeedbackReaction(App @@ [visibleReaction |-> TRUE]), Live),
   listReactions |-> Execution(Plans!PlanListReactions(User), Live),
   deleteReaction |-> Execution(Plans!PlanDeleteReaction(User), Live)]

MCExecutions == DOMAIN MCExecutionOf

MCPlanOf == [e \in Executions |-> MCExecutionOf[e].plan]

MCOptionsOf == [e \in Executions |-> MCExecutionOf[e].options]

(* Any two, and any three of those that compete.                           *)
Competing == {"sendToUser", "sendToUserAgain", "reply", "send", "placeholder", "streamAgain"}

Groups == {{d, e} : d, e \in Executions} \cup kSubset(3, Competing)

GroupNext == UNCHANGED group /\ \E e \in group : Step(e) \/ Crash(e)

-----------------------------------------------------------------------------

(* Two messages, which only their keys tell apart; the second has none.    *)
MCKindOf == [e \in RoutedEvents |-> "message"]

\* A part that stands still has only one initial state.
PartsInit ==
  /\ part \in {"plans", "router"}
  /\ Init /\ RouterInit
  /\ group \in IF part = "plans" THEN Groups ELSE {CHOOSE g \in Groups : TRUE}
  /\ part = "router" \/ event = CHOOSE e \in [Requests -> RoutedEvents] : TRUE

PartsNext ==
  /\ UNCHANGED part
  /\ \/ part = "plans" /\ GroupNext /\ UNCHANGED routerVars
     \/ part = "router" /\ RouterNext /\ UNCHANGED <<vars, group>>

(* The fairness of RouterFairSpec.                                         *)
PartsSpec ==
  /\ PartsInit /\ [][PartsNext]_<<part, vars, group, routerVars>>
  /\ \A r \in Requests : WF_routerVars(part = "router" /\ RouterStep(r))
=============================================================================
