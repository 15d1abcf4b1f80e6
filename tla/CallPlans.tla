------------------------------ MODULE CallPlans ------------------------------
(***************************************************************************)
(* The call plans that the planners of packages/node/src build (messages,  *)
(* pins, reactions), as far as executeChatPlan looks at them: the methods, *)
(* request ids and conditions of the requests, the verdict on capability,  *)
(* the direct message flag, the request id of the fallback and the         *)
(* principal.  Where in a space a message goes, and what it says, is left  *)
(* out.                                                                    *)
(*                                                                         *)
(* An input has the fields of the planner's input; requestId is NoId when  *)
(* the caller gives none.  A planner that throws makes no plan: inputs are *)
(* those it accepts.                                                       *)
(***************************************************************************)
EXTENDS Naturals, Sequences, SequencesExt

CONSTANTS
  NoId,
  Slug(_)    \* slugify: lower case, anything else a hyphen; it is not injective

Request(method) ==
  [method |-> method, id |-> NoId, needsSpace |-> FALSE, pinAbsent |-> FALSE]

(* A plan without fallback has NoId for its fallbackId.                    *)
CallPlan(input, requests) ==
  [requests |-> requests, capable |-> TRUE, directMessage |-> FALSE,
   fallbackId |-> NoId, authMode |-> input.authMode]

RequestId(input, seed) == IF input.requestId = NoId THEN Slug(seed) ELSE input.requestId

CreateMessage(id) == [Request("POST") EXCEPT !.id = id]

Patches(texts) == [i \in DOMAIN texts |-> Request("PATCH")]

-----------------------------------------------------------------------------
(* messages                                                                *)

PlanSendToSpace(input) ==
  CallPlan(input, <<CreateMessage(RequestId(input, <<input.space, input.text>>))>>)

PlanSendToUser(input) ==
  [CallPlan(input,
     <<Request("GET"),
       [CreateMessage(RequestId(input, <<input.email, input.text>>)) EXCEPT !.needsSpace = TRUE]>>)
   EXCEPT !.capable = FALSE, !.directMessage = TRUE]

(* spaces.findDirectMessage, and spaces.setup whatever it has found; when  *)
(* it finds none and fails, the executor goes no further.                  *)
PlanFindOrSetupDm(input) ==
  [CallPlan(input, <<Request("GET"), Request("POST")>>)
   EXCEPT !.capable = FALSE, !.directMessage = TRUE]

PlanReplyInThread(input) ==
  CallPlan(input, <<CreateMessage(RequestId(input, <<input.thread, input.text>>))>>)

(* The thread of the reply is not part of the seed of its request id.      *)
PlanReplyToEvent(input) ==
  [CallPlan(input, <<CreateMessage(RequestId(input, <<input.space, input.text>>))>>)
   EXCEPT !.directMessage = input.isDm]

PlanStartThread(input) ==
  CallPlan(input,
    <<CreateMessage(RequestId(input, <<input.space, input.threadKey, input.text>>))>>)

PlanEditMessage(input) == CallPlan(input, <<Request("PATCH")>>)

PlanDeleteAppMessage(input) ==
  [CallPlan(input, <<Request("DELETE")>>) EXCEPT !.capable = input.appCreated]

PlanReplaceCards(input) == CallPlan(input, <<Request("POST")>>)

PlanSearchMessages(input) ==
  [CallPlan(input, <<Request("POST")>>) EXCEPT !.capable = input.authMode = "user"]

(* buildBufferedStreamPatches; a text is its length.  The final text a     *)
(* caller may give in place of the content is left out.                    *)
BufferedPatches(input) ==
  LET decorated(length) == length + input.decoration
      emitted(patches) == IF patches = << >> THEN 0 ELSE Last(patches)
      buffer(acc, chunk) ==
        LET candidate == decorated(acc.content + chunk)
        IN [content |-> acc.content + chunk,
            patches |-> IF /\ Len(acc.patches) < input.maxPatches - 1
                           /\ candidate >= emitted(acc.patches) + input.minPatchChars
                        THEN Append(acc.patches, candidate) ELSE acc.patches]
      end == FoldLeft(buffer, [content |-> 0, patches |-> << >>], input.chunks)
      final == decorated(end.content)
  IN IF end.patches # << >> /\ emitted(end.patches) = final THEN end.patches
     ELSE Append(end.patches, final)

PlanStreamMessage(input) ==
  CallPlan(input,
    <<CreateMessage(RequestId(input, <<input.space, input.initialText>>))>>
      \o Patches(input.patchTexts))

PlanBufferedStreamMessage(input) ==
  CallPlan(input,
    <<CreateMessage(RequestId(input, <<input.space, input.initialText>>))>>
      \o Patches(BufferedPatches(input)))

(* The placeholder of an answer, and what completes it.  The handle of the *)
(* placeholder does not say whether it stands in a direct message.         *)
PlanPlaceholderResponse(input) ==
  [CallPlan(input, <<CreateMessage(RequestId(input, <<input.space, input.placeholderText>>))>>)
   EXCEPT !.directMessage = input.isDm]

(* fallbackCreateRequest: a create in the space of the placeholder, with a *)
(* requestId of its own.                                                   *)
FallbackRequestId(input) ==
  IF input.fallbackRequestId = NoId THEN Slug(<<input.messageName, "fallback">>)
  ELSE input.fallbackRequestId

PlanCompletePlaceholderResponse(input) ==
  [CallPlan(input, <<Request("PATCH")>>)
   EXCEPT !.fallbackId = IF input.onPatchFailure = "createNewMessage"
                         THEN FallbackRequestId(input) ELSE NoId]

PlanBufferedPlaceholderCompletion(input) ==
  CallPlan(input, Patches(BufferedPatches(input)))

-----------------------------------------------------------------------------
(* pins and reactions, which belong to a user                              *)

UserPlan(input, requests) ==
  [CallPlan(input, requests) EXCEPT !.capable = input.authMode = "user"]

PlanPinMessage(input) == UserPlan(input, <<Request("POST")>>)

PlanUnpinMessage(input) == UserPlan(input, <<Request("DELETE")>>)

PlanListMessagePins(input) == UserPlan(input, <<Request("GET")>>)

PlanEnsureMessagePinned(input) ==
  UserPlan(input, <<Request("GET"), [Request("POST") EXCEPT !.pinAbsent = TRUE]>>)

PlanAddReaction(input) == UserPlan(input, <<Request("POST")>>)

(* Feedback that is not to be seen makes a plan without requests, which    *)
(* executeChatPlan refuses.                                                *)
PlanFeedbackReaction(input) ==
  IF input.visibleReaction THEN PlanAddReaction(input) ELSE CallPlan(input, << >>)

PlanListReactions(input) == UserPlan(input, <<Request("GET")>>)

PlanDeleteReaction(input) == UserPlan(input, <<Request("DELETE")>>)
=============================================================================
