-------------------------------- MODULE Ports --------------------------------
(***************************************************************************)
(* What the Node and the Python package make of the same: of a delivery,   *)
(* normalized before a router does anything else; of a card, built,        *)
(* checked and sent; and of a click on one of its buttons, which comes     *)
(* back as an event.  The conformance cases of the repository compare the  *)
(* two packages so.  The key of a delivery is what the router claims it by *)
(* (IdempotentClaim), so it has to be that of the event: the same for      *)
(* every delivery of it, another for another.                              *)
(***************************************************************************)
EXTENDS JsonValues

CONSTANTS
  Deliveries,            \* [kind, payload, of]: what is delivered, and of which event
  Repeats,               \* those that are delivered one after another
  CardRequests,          \* what cards an app asks for: see Built and Sent
  Forms,                 \* the form inputs a click may come with
  Handlers,              \* the handlers an app may have for clicks
  UserNames, SpaceNames, \* strings that begin with users/, with spaces/
  LocaleOrder, CodePointOrder,
  LastDate, LastDatetime,
  CardWidgets

VARIABLES
  delivery,     \* the delivery, request or click
  node, python, \* what each makes of it; Pending before
  earlier       \* the event and the key of the delivery before; << >> for the first

portVars == <<delivery, node, python, earlier>>

Node == INSTANCE EventEnvelope
Python == INSTANCE PyEventEnvelope
NodeCards == INSTANCE Cards
PythonCards == INSTANCE PyCards

Pending == [pending |-> TRUE]

PortsInitFrom(deliveries) ==
  /\ delivery \in deliveries
  /\ node = Pending /\ python = Pending /\ earlier = << >>

-----------------------------------------------------------------------------
(* Deliveries.                                                             *)
NodeNormalizes ==
  /\ delivery.kind = "event" /\ node = Pending
  /\ node' = Node!normalizeEvent(delivery.payload)
  /\ UNCHANGED <<delivery, python, earlier>>

PythonNormalizes ==
  /\ delivery.kind = "event" /\ python = Pending
  /\ python' = Python!normalize_event(delivery.payload)
  /\ UNCHANGED <<delivery, node, earlier>>

Both == node # Pending /\ python # Pending

NextDelivery ==
  /\ Both /\ earlier = << >> /\ delivery \in Repeats
  /\ earlier' = [of |-> delivery.of, key |-> node.idempotencyKey]
  /\ delivery' \in Repeats
  /\ node' = Pending /\ python' = Pending

-----------------------------------------------------------------------------
(* Cards: what an app asks for is built and put into the envelope of the   *)
(* surface it is for, checked, and what is in it summed up.                *)
ActionKeys == {"upAction", "downAction", "commentAction", "approveAction", "rejectAction",
               "retryAction", "cancelAction", "finalAction", "submitAction"}

\* Some state of the app, another for every action.
StateFor(action) == Rec([step |-> Num(1), of |-> Get(action, "parameters")])

HasState(request, key) ==
  request.stateful /\ key \in ActionKeys /\ IsRec(request.raw.f[key])

NodeBuilt(build, options) ==
  CASE build = "card" -> NodeCards!buildCardMessage(options)
    [] build = "approval" -> NodeCards!buildApprovalCard(options)
    [] build = "progress" -> NodeCards!buildProgressCard(options)
    [] build = "error" -> NodeCards!buildErrorCard(options)
    [] build = "feedback" -> NodeCards!buildFeedbackCard(options)
    [] build = "accessory" -> NodeCards!buildFeedbackAccessoryMessage(options)
    [] build = "sources" -> NodeCards!buildSourcesCard(options)
    [] build = "thinking" -> NodeCards!buildThinkingCard(options)
    [] build = "tools" -> NodeCards!buildToolStatusCard(options)
    [] build = "streaming" -> NodeCards!buildStreamingStatusCard(options)
    [] build = "dialog" -> NodeCards!buildDialog(options)
    [] build = "raw" -> options

NodeSent(send, built, options) ==
  CASE send = <<"message">> -> built
    [] send = <<"create">> -> NodeCards!buildCreateMessageResponse(built)
    [] send = <<"update">> -> NodeCards!buildUpdateCardResponse(built)
    [] send = <<"open">> -> NodeCards!buildOpenDialogResponse(options)
    [] send = <<"navigate">> ->
         NodeCards!buildCardNavigationResponse(
           <<[type |-> "push", card |-> options], [type |-> "update", card |-> options]>>)
    [] OTHER -> NodeCards!translateCardPayload(built, send[1], send[2], send[3]).payload

NodeChecked(sent, request) ==
  [sent |-> sent, lint |-> NodeCards!lintCardPayload(sent, request.options, request.bytes),
   errors |-> NodeCards!validateCardMessage(sent),
   cards |-> NodeCards!summarizeCards(Get(sent, "cardsV2"))]

NodeMakes(built, request) == NodeChecked(NodeSent(request.send, built, request.raw), request)

\* The options of an app, which gives its actions a state if it needs one.
NodeRequest(request) ==
  LET Of(key) == IF HasState(request, key)
                 THEN NodeCards!withCardActionState(request.raw.f[key], StateFor(request.raw.f[key]))
                 ELSE request.raw.f[key]
  IN [request EXCEPT !.raw = IF IsRec(request.raw)
                             THEN Rec([key \in DOMAIN request.raw.f |-> Of(key)]) ELSE request.raw]

NodeAsks(request) == NodeMakes(NodeBuilt(request.build, request.raw), request)

NodeBuilds ==
  /\ delivery.kind = "card" /\ node = Pending
  /\ node' = NodeAsks(NodeRequest(delivery))
  /\ UNCHANGED <<delivery, python, earlier>>

PythonBuilt(build, options) ==
  CASE build = "card" -> PythonCards!build_card_message(options)
    [] build = "approval" -> PythonCards!build_approval_card(options)
    [] build = "progress" -> PythonCards!build_progress_card(options)
    [] build = "error" -> PythonCards!build_error_card(options)
    [] build = "feedback" -> PythonCards!build_feedback_card(options)
    [] build = "accessory" -> PythonCards!build_feedback_accessory_message(options)
    [] build = "sources" -> PythonCards!build_sources_card(options)
    [] build = "thinking" -> PythonCards!build_thinking_card(options)
    [] build = "tools" -> PythonCards!build_tool_status_card(options)
    [] build = "streaming" -> PythonCards!build_streaming_status_card(options)
    [] build = "dialog" -> PythonCards!build_dialog(options)
    [] build = "raw" -> options

PythonSent(send, built, options) ==
  CASE send = <<"message">> -> built
    [] send = <<"create">> -> PythonCards!build_create_message_response(built)
    [] send = <<"update">> -> PythonCards!build_update_card_response(built)
    [] send = <<"open">> -> PythonCards!build_open_dialog_response(options)
    [] send = <<"navigate">> ->
         PythonCards!build_card_navigation_response(
           <<[type |-> "push", card |-> options], [type |-> "update", card |-> options]>>)
    [] OTHER -> PythonCards!translate_card_payload(built, send[1], send[2], send[3]).payload

PythonChecked(sent, request) ==
  [sent |-> sent, lint |-> PythonCards!lint_card_payload(sent, request.options, request.bytes),
   errors |-> PythonCards!validate_card_message(sent),
   cards |-> PythonCards!summarize_cards(Get(sent, "cardsV2"))]

PythonMakes(built, request) ==
  PythonChecked(PythonSent(request.send, built, request.raw), request)

PythonRequest(request) ==
  LET Of(key) == IF HasState(request, key)
                 THEN PythonCards!with_card_action_state(request.raw.f[key],
                                                         StateFor(request.raw.f[key]))
                 ELSE request.raw.f[key]
  IN [request EXCEPT !.raw = IF IsRec(request.raw)
                             THEN Rec([key \in DOMAIN request.raw.f |-> Of(key)]) ELSE request.raw]

PythonAsks(request) == PythonMakes(PythonBuilt(request.build, request.raw), request)

PythonBuilds ==
  /\ delivery.kind = "card" /\ python = Pending
  /\ python' = PythonAsks(PythonRequest(delivery))
  /\ UNCHANGED <<delivery, node, earlier>>

-----------------------------------------------------------------------------
(* Clicks.  Chat shows what the linter has nothing against; for a click on *)
(* one of its buttons, wherever that is, it delivers the function and the  *)
(* parameters of the button, in one of two places.                         *)
RECURSIVE ButtonsIn(_)

ButtonsIn(v) ==
  CASE IsRec(v) -> (IF "onClick" \in DOMAIN v.f THEN {v} ELSE {})
                     \cup UNION {ButtonsIn(v.f[key]) : key \in DOMAIN v.f}
    [] v.t = "arr" -> UNION {ButtonsIn(v.a[i]) : i \in DOMAIN v.a}
    [] OTHER -> {}

LabelOf(button) == (Get(button, "text") ?? Get(button, "altText")).s

ClickStyles == {"common", "action", "dialog", "widget"}

ClickEvent(action, style, form) ==
  LET pairs == asArray(Get(action, "parameters"))
      KeyOf(pair) == Get(pair, "key").s
      ValueOf(key) == Get(SelectSeq(pairs, LAMBDA pair : KeyOf(pair) = key)[1], "value")
      parameters == Rec([key \in {KeyOf(pairs[i]) : i \in DOMAIN pairs} |-> ValueOf(key)])
      common == Rec([invokedFunction |-> Get(action, "function"), parameters |-> parameters,
                     formInputs |-> form,
                     eventType |-> Str(IF style = "widget" THEN "WIDGET_UPDATE" ELSE "CLICK")])
      legacy == Rec([actionMethodName |-> Get(action, "function"), parameters |-> Arr(pairs)])
  IN Rec([type |-> Str("CARD_CLICKED"), eventTime |-> Str("now"),
          user |-> Rec([name |-> Str("users/ann"), type |-> Str("HUMAN")]),
          dialogEventType |-> IF style = "dialog" THEN Str("SUBMIT_DIALOG") ELSE Absent,
          common |-> IF style = "action" THEN Absent ELSE common,
          action |-> IF style = "action" THEN legacy ELSE Absent])

Asked(request, button) ==
  LET action == request.actions[LabelOf(button)]
  IN [action |-> action, state |-> IF request.stateful THEN StateFor(action) ELSE Null]

Click ==
  /\ delivery.kind = "card" /\ Both /\ node.lint.ok
  /\ \E button \in ButtonsIn(node.sent), style \in ClickStyles, form \in Forms, given \in Handlers :
       /\ Get(Get(button, "onClick"), "openLink") = Absent
       /\ delivery' = [kind |-> "click", asked |-> Asked(delivery, button), handlers |-> given,
                       event |-> ClickEvent(Get(Get(button, "onClick"), "action"), style, form)]
  /\ node' = Pending /\ python' = Pending
  /\ UNCHANGED earlier

NodeAnswer(summary, handlers) ==
  [summary |-> summary, choice |-> NodeCards!buttonChoice(summary),
   state |-> NodeCards!readCardActionState(summary),
   route |-> NodeCards!routeCardAction(summary, handlers)]

NodeAnswers ==
  /\ delivery.kind = "click" /\ node = Pending
  /\ node' = NodeAnswer(NodeCards!summarizeCardAction(delivery.event), delivery.handlers)
  /\ UNCHANGED <<delivery, python, earlier>>

PythonAnswer(summary, handlers) ==
  [summary |-> summary, choice |-> PythonCards!button_choice(summary),
   state |-> PythonCards!read_card_action_state(summary),
   route |-> PythonCards!route_card_action(summary, handlers)]

PythonAnswers ==
  /\ delivery.kind = "click" /\ python = Pending
  /\ python' = PythonAnswer(PythonCards!summarize_card_action(delivery.event), delivery.handlers)
  /\ UNCHANGED <<delivery, node, earlier>>

PortsNext ==
  \/ NodeNormalizes \/ PythonNormalizes \/ NextDelivery
  \/ NodeBuilds \/ PythonBuilds \/ Click \/ NodeAnswers \/ PythonAnswers

PortsSpec == PortsInitFrom(Deliveries \cup CardRequests) /\ [][PortsNext]_portVars

-----------------------------------------------------------------------------
(* Node and Python make the same of every delivery, card and click         *)
(* (conformance/README.md: cases "define behavior that every language      *)
(* package must share"), or both refuse it.                                *)
PortsAgree == Both => node = python

Segmented(envelope) ==
  /\ envelope # Pending /\ "message" \in DOMAIN envelope
  /\ "segments" \in DOMAIN envelope.message /\ envelope.message.segments # << >>

(* The segments of a message lie one behind the other, from the first      *)
(* character to the last: annotations that overlap, lie beyond the text or *)
(* come out of order neither repeat nor lose any of it.                    *)
SegmentsTile ==
  Segmented(node) =>
    LET segments == node.message.segments
        units == Node!UnitsOf(node.message.text)
        End(i) == segments[i].startIndex + segments[i].length
    IN /\ segments[1].startIndex = 0 /\ End(Len(segments)) = Len(units)
       /\ \A i \in 1..(Len(segments) - 1) : segments[i + 1].startIndex = End(i)
       /\ \A i \in DOMAIN segments :
            segments[i].kind = "text" =>
              Node!UnitsOf(segments[i].text) =
                SubSeq(units, segments[i].startIndex + 1, End(i))

(* Two deliveries have one key exactly if they are deliveries of one       *)
(* event: the router's claim drops no event and lets none through twice.   *)
KeyPerEvent ==
  node # Pending /\ earlier # << >> =>
    (node.idempotencyKey = earlier.key <=> delivery.of = earlier.of)

(* Every button of a card the linter has nothing against does what the app *)
(* asked for it: its click is routed to the method of its action, if there *)
(* is a handler for methods at all, with the parameters and the state the  *)
(* action was given, through building, envelope, translation and event.    *)
ButtonsWork ==
  delivery.kind = "click" =>
    LET asked == delivery.asked
        given == Get(asked.action, "parameters")
    IN \A answer \in {node, python} \ {Pending} :
         /\ answer.state = asked.state
         /\ IsRec(given) =>
              \A key \in DOMAIN given.f :
                Given(given.f[key]) =>
                  /\ key \in DOMAIN answer.summary.parameters
                  /\ answer.summary.parameters[key] = NodeCards!StringOf(given.f[key])
         /\ delivery.handlers.methods # {} =>
              answer.route = <<"method", Get(asked.action, "function")>>
=============================================================================
