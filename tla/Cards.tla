-------------------------------- MODULE Cards --------------------------------
(***************************************************************************)
(* packages/node/src/cards/index.ts: the builders of card messages, dialogs *)
(* and responses, the linter, the translation into the add-on's envelope,  *)
(* what is summed up of cards, and a click on its way back: its summary,   *)
(* the state it carries, and the handler it is routed to.                  *)
(*                                                                         *)
(* A text composed of others is a Line of them.  A finding is its          *)
(* severity, code and path; the plain text of a summary is left out.       *)
(***************************************************************************)
EXTENDS JsonValues, SequencesExt

CONSTANTS
  LocaleOrder,  \* the keys of parameters and forms, as localeCompare sorts them
  CardWidgets   \* how many widgets Chat shows of a card

Thrown == [thrown |-> TRUE]

requiredString(raw, key, fallback) ==
  IF Get(raw, key).t = "str" THEN Get(raw, key) ELSE Str(fallback)

cleanRecord(f) == Rec([key \in {key \in DOMAIN f : Given(f[key])} |-> f[key]])

records(v) == SelectSeq(asArray(v), IsRec)

\* String(v) of what a parameter or a form may hold.
StringOf(v) ==
  CASE v.t = "bool" -> Str(IF v.b THEN "true" ELSE "false")
    [] v.t = "num" -> Line(<<v>>)
    [] v.t = "null" -> Str("null")
    [] OTHER -> v

sortedParameters(parameters) ==
  LET keys == IF IsRec(parameters)
              THEN {key \in DOMAIN parameters.f : Given(parameters.f[key])} ELSE {}
      sorted == SelectSeq(LocaleOrder, LAMBDA key : key \in keys)
      Pair(key) == Rec([key |-> Str(key), value |-> StringOf(parameters.f[key])])
  IN Arr(Mapped(sorted, Pair))

\* A later pair with the same key counts.
parametersObjectFromArray(parameters) ==
  LET IsPair(v) == /\ Get(v, "key").t = "str" /\ ~EmptyString(Get(v, "key"))
                   /\ Get(v, "value").t = "str"
      pairs == SelectSeq(asArray(parameters), IsPair)
      Of(key) == {i \in DOMAIN pairs : Get(pairs[i], "key").s = key}
      Latest(key) == CHOOSE i \in Of(key) : \A j \in Of(key) : j <= i
  IN [key \in {Get(pairs[i], "key").s : i \in DOMAIN pairs} |-> Get(pairs[Latest(key)], "value")]

-----------------------------------------------------------------------------
(* The builders.                                                           *)
onClick(action) ==
  Rec([action |-> Rec([function |-> requiredString(action, "function", ""),
                       parameters |-> sortedParameters(Get(action, "parameters"))])])

actionButton(text, action) == Rec([text |-> text, onClick |-> onClick(action)])

iconActionButton(iconName, altText, action, buttonType, iconFill) ==
  Rec([icon |-> Rec([materialIcon |-> Rec([name |-> Str(iconName), fill |-> iconFill])]),
       altText |-> altText, type |-> buttonType, onClick |-> onClick(action)])

linkButton(text, url) ==
  Rec([text |-> text, onClick |-> Rec([openLink |-> Rec([url |-> url])])])

buttonFromOption(button) ==
  LET text == requiredString(button, "text", "")
      openLink == asString(Get(button, "openLink"))
  IN IF EmptyString(text) THEN Null
     ELSE IF Truthy(openLink) THEN linkButton(text, openLink)
     ELSE actionButton(text, Get(button, "action"))

buttonList(buttons) == Rec([buttonList |-> Rec([buttons |-> Arr(buttons)])])

textParagraph(text) == Rec([textParagraph |-> Rec([text |-> text])])

labelled(topLabel, text) == Rec([decoratedText |-> Rec([topLabel |-> topLabel, text |-> text])])

oneSection(widgets) == Arr(<<Rec([widgets |-> Arr(widgets)])>>)

messageWithSingleCard(fallbackText, cardId, card) ==
  Rec([fallbackText |-> fallbackText, text |-> fallbackText,
       cardsV2 |-> Arr(<<Rec([cardId |-> cardId, card |-> card])>>)])

titledCard(title, subtitle, widgets) ==
  Rec([header |-> cleanRecord([title |-> title, subtitle |-> subtitle]),
       sections |-> oneSection(widgets)])

sectionFromOption(section) ==
  LET text == Get(section, "text")
      items == IF text.t = "str" THEN <<text>>
               ELSE SelectSeq(asArray(text), LAMBDA v : v.t = "str")
      Field(field) ==
        Rec([decoratedText |-> cleanRecord([topLabel |-> asString(Get(field, "label")),
                                            text |-> asString(Get(field, "text"))])])
      buttons == SelectSeq(Mapped(asArray(Get(section, "buttons")), buttonFromOption), IsRec)
  IN cleanRecord(
       [header |-> asString(Get(section, "header")),
        collapsible |-> asBoolean(Get(section, "collapsible")),
        uncollapsibleWidgetsCount |-> asNumber(Get(section, "uncollapsibleWidgetsCount")),
        widgets |-> Arr(Mapped(items, textParagraph)
                        \o Mapped(asArray(Get(section, "fields")), Field)
                        \o asArray(Get(section, "widgets"))
                        \o Optional(buttons # << >>, buttonList(buttons)))])

buildCardMessage(raw) ==
  LET title == requiredString(raw, "title", "")
      cardId == requiredString(raw, "cardId", "card")
      given == requiredString(raw, "fallbackText", "")
      named == IF EmptyString(title) THEN cardId ELSE title
      sections == asArray(Get(raw, "sections"))
      card == Rec([header |-> cleanRecord([title |-> title,
                                           subtitle |-> asString(Get(raw, "subtitle"))]),
                   sections |->
                     Arr(IF sections # << >> THEN Mapped(sections, sectionFromOption)
                         ELSE <<sectionFromOption(
                                  Rec([widgets |-> Arr(asArray(Get(raw, "widgets")))]))>>)])
  IN messageWithSingleCard(IF EmptyString(given) THEN Line(<<named, Str("card.")>>) ELSE given,
                           cardId, asRecord(Get(raw, "card")) ?? card)

buildApprovalCard(raw) ==
  LET title == requiredString(raw, "title", "")
      body == requiredString(raw, "body", "")
      approve == requiredString(raw, "approveLabel", "Approve")
      reject == requiredString(raw, "rejectLabel", "Reject")
  IN messageWithSingleCard(
       Line(<<Str("Approval requested:"), title, body, approve, reject>>),
       requiredString(raw, "cardId", "approval"),
       titledCard(title, asString(Get(raw, "subtitle")),
                  <<textParagraph(body),
                    buttonList(<<actionButton(approve, Get(raw, "approveAction")),
                                 actionButton(reject, Get(raw, "rejectAction"))>>)>>))

stepStatusLabel(status) ==
  Str(IF status = Str("complete") THEN "Completed"
      ELSE IF status = Str("active") THEN "In progress" ELSE "Pending")

Upper(v) == Line(<<Str("upper case"), v>>)

cancelButton(action) ==
  Optional(IsRec(action), buttonList(<<actionButton(Str("Cancel"), action)>>))

buildProgressCard(raw) ==
  LET title == requiredString(raw, "title", "")
      detail == asString(Get(raw, "detail"))
      percent == asNumber(Get(raw, "percent"))
      steps == records(Get(raw, "steps"))
      complete == Line(<<StringOf(percent), Str("% complete")>>)
      Status(step) == requiredString(step, "status", "pending")
      Label(step) == requiredString(step, "label", "")
      Said(step) == Line(<<stepStatusLabel(Status(step)), Label(step)>>)
      Shown(step) == labelled(Upper(Status(step)), Label(step))
  IN messageWithSingleCard(
       Line(<<Str("Progress:"), title>> \o Optional(Given(percent), complete)
              \o Mapped(steps, Said)),
       requiredString(raw, "cardId", "progress"),
       titledCard(title, asString(Get(raw, "subtitle")),
                  Optional(Truthy(detail), textParagraph(detail))
                    \o Optional(Given(percent), labelled(Str("PROGRESS"), complete))
                    \o Mapped(steps, Shown)
                    \o cancelButton(Get(raw, "cancelAction"))))

buildErrorCard(raw) ==
  LET title == requiredString(raw, "title", "")
      message == requiredString(raw, "message", "")
      details == asString(Get(raw, "details"))
      retry == Get(raw, "retryAction")
  IN messageWithSingleCard(
       Line(<<Str("Error:"), title, message>> \o Optional(Truthy(details), details)
              \o Optional(IsRec(retry), Str("Action: Retry."))),
       requiredString(raw, "cardId", "error"),
       titledCard(title, Str("Error"),
                  <<textParagraph(message)>>
                    \o Optional(Truthy(details), labelled(Str("DETAILS"), details))
                    \o Optional(IsRec(retry), buttonList(<<actionButton(Str("Retry"), retry)>>))))

\* Which response a card is about, if it says.
subjectOf(raw) == LET responseId == asString(Get(raw, "responseId"))
                  IN Optional(Truthy(responseId), responseId)

buildFeedbackCard(raw) ==
  LET comment == Get(raw, "commentAction")
      labels == <<requiredString(raw, "helpfulLabel", "Helpful"),
                  requiredString(raw, "notHelpfulLabel", "Not helpful")>>
                  \o Optional(IsRec(comment), requiredString(raw, "commentLabel", "Add comment"))
      actions == <<Get(raw, "upAction"), Get(raw, "downAction"), comment>>
  IN messageWithSingleCard(
       Line(<<Str("Feedback requested for")>> \o subjectOf(raw) \o labels),
       requiredString(raw, "cardId", "feedback"),
       titledCard(requiredString(raw, "title", "Was this helpful?"),
                  asString(Get(raw, "subtitle")) ?? Str("Feedback"),
                  <<buttonList([i \in DOMAIN labels |-> actionButton(labels[i], actions[i])])>>))

buildFeedbackAccessoryWidgets(raw) ==
  LET comment == Get(raw, "commentAction")
      type == requiredString(raw, "buttonType", "BORDERLESS")
      fill == Bool(Get(raw, "iconFill") # Bool(FALSE))
      Icon(name, key, altText, action) ==
        iconActionButton(name, requiredString(raw, key, altText), action, type, fill)
  IN <<buttonList(
         <<Icon("thumb_up", "helpfulAltText", "Mark helpful", Get(raw, "upAction")),
           Icon("thumb_down", "notHelpfulAltText", "Mark not helpful", Get(raw, "downAction"))>>
           \o Optional(IsRec(comment),
                       Icon("rate_review", "commentAltText", "Add feedback comment", comment)))>>

buildFeedbackAccessoryMessage(raw) ==
  LET text == requiredString(raw, "text", "")
  IN Rec([fallbackText |-> asString(Get(raw, "fallbackText")) ?? text, text |-> text,
          accessoryWidgets |-> Arr(buildFeedbackAccessoryWidgets(raw))])

sourceWidget(source) ==
  LET url == asString(Get(source, "url"))
      label == asString(Get(source, "label"))
      confidence == asString(Get(source, "confidence"))
      said == Line(<<confidence, Str("confidence")>>)
      parts == Optional(Truthy(label), label) \o Optional(Truthy(confidence), said)
  IN Rec([decoratedText |->
            cleanRecord(
              [topLabel |-> IF parts # << >> THEN Line(parts) ELSE Null,
               text |-> requiredString(source, "title", "Untitled source"),
               bottomLabel |-> asString(Get(source, "snippet"))
                                 ?? asString(Get(source, "resourceName")),
               button |-> IF Truthy(url) THEN linkButton(Str("Open"), url) ELSE Null])])

Counted(n, what) == Line(<<Num(n), Str(what)>>)

buildSourcesCard(raw) ==
  LET sources == records(Get(raw, "sources"))
      TitleOf(source) == requiredString(source, "title", "Untitled source")
  IN messageWithSingleCard(
       Line(<<Str("Sources for")>> \o subjectOf(raw) \o Mapped(sources, TitleOf)),
       requiredString(raw, "cardId", "sources"),
       titledCard(requiredString(raw, "title", "Sources"), Counted(Len(sources), "source"),
                  Mapped(sources, sourceWidget)))

buildThinkingCard(raw) ==
  LET title == requiredString(raw, "title", "Thinking")
      detail == asString(Get(raw, "detail"))
      startedAt == asString(Get(raw, "startedAt"))
  IN messageWithSingleCard(
       Line(<<Str("Thinking:"), title>> \o Optional(Truthy(detail), detail)
              \o Optional(Truthy(startedAt), startedAt)),
       requiredString(raw, "cardId", "thinking"),
       titledCard(title, Str("Thinking"),
                  <<labelled(Str("STATUS"), requiredString(raw, "status", "thinking"))>>
                    \o Optional(Truthy(detail), textParagraph(detail))
                    \o Optional(Truthy(startedAt), labelled(Str("STARTED"), startedAt))))

buildToolStatusCard(raw) ==
  LET tools == records(Get(raw, "tools"))
      Said(tool) == Line(<<requiredString(tool, "name", ""), requiredString(tool, "status", "")>>)
      Shown(tool) ==
        Rec([decoratedText |->
               cleanRecord([topLabel |-> Upper(requiredString(tool, "status", "unknown")),
                            text |-> requiredString(tool, "name", "unknown_tool"),
                            bottomLabel |-> asString(Get(tool, "output"))
                                              ?? asString(Get(tool, "detail"))])])
  IN messageWithSingleCard(
       Line(<<Str("Tool status:")>> \o Mapped(tools, Said)),
       requiredString(raw, "cardId", "tool-status"),
       titledCard(requiredString(raw, "title", "Tool calls"), Counted(Len(tools), "tool call"),
                  Mapped(tools, Shown)))

buildStreamingStatusCard(raw) ==
  LET mode == requiredString(raw, "mode", "create_then_patch")
      status == requiredString(raw, "status", "streaming")
      patches == StringOf(asNumber(Get(raw, "patchCount")) ?? Num(0))
      throttle == asNumber(Get(raw, "throttleMs"))
      ms == Line(<<StringOf(throttle), Str("ms")>>)
  IN messageWithSingleCard(
       Line(<<Str("Streaming response:"), mode, status, patches>>
              \o Optional(Given(throttle), ms)),
       requiredString(raw, "cardId", "streaming-status"),
       titledCard(requiredString(raw, "title", "Streaming response"), Str("Streaming"),
                  <<labelled(Str("MODE"), mode), labelled(Str("STATUS"), status),
                    labelled(Str("PATCHES"), patches)>>
                    \o Optional(Given(throttle), labelled(Str("THROTTLE"), ms))
                    \o cancelButton(Get(raw, "finalAction"))))

-----------------------------------------------------------------------------
(* Dialogs and responses.                                                  *)
dialogFieldToWidget(field) ==
  LET type == requiredString(field, "type", "")
      name == requiredString(field, "name", "")
      label == requiredString(field, "label", "")
      Item(item) ==
        cleanRecord([text |-> requiredString(item, "text", ""),
                     value |-> requiredString(item, "value", ""),
                     selected |-> IF Get(item, "selected") = Bool(TRUE) THEN Bool(TRUE) ELSE Null])
      lines == IF Get(field, "multiline") = Bool(TRUE) THEN "MULTIPLE_LINE" ELSE "SINGLE_LINE"
  IN CASE type = Str("text") ->
            Rec([textInput |-> cleanRecord([name |-> name, label |-> label, type |-> Str(lines),
                                            value |-> asString(Get(field, "value"))])])
       [] type = Str("selection") ->
            Rec([selectionInput |->
                   Rec([name |-> name, label |-> label,
                        type |-> requiredString(field, "selectionType", "DROPDOWN"),
                        items |-> Arr(Mapped(asArray(Get(field, "items")), Item))])])
       [] type = Str("switch") ->
            Rec([decoratedText |->
                   Rec([text |-> label,
                        switchControl |->
                          Rec([name |-> name, controlType |-> Str("SWITCH"),
                               selected |-> Bool(Get(field, "selected") = Bool(TRUE))])])])
       [] OTHER -> cleanRecord([rawWidget |-> Get(field, "rawWidget")])

dialogWidgets(raw) ==
  Mapped(records(Get(raw, "fields")), dialogFieldToWidget)
    \o <<buttonList(<<actionButton(requiredString(raw, "submitLabel", "Submit"),
                                   Get(raw, "submitAction"))>>)>>

buildDialog(raw) ==
  LET LabelOf(field) == requiredString(field, "label", "")
      body == Rec([sections |-> oneSection(dialogWidgets(raw))])
  IN Rec([fallbackText |->
            Line(<<Str("Dialog requested:"), requiredString(raw, "title", "")>>
                   \o Mapped(records(Get(raw, "fields")), LabelOf)),
          actionResponse |->
            Rec([type |-> Str("DIALOG"),
                 dialogAction |-> Rec([dialog |-> Rec([body |-> body])])])])

dialogCardFromOptions(raw) ==
  IF ~IsRec(raw) THEN Rec([sections |-> Arr(<< >>)])
  ELSE IF IsRec(Get(raw, "header")) \/ Get(raw, "sections").t = "arr" THEN raw
  ELSE Rec([header |-> Rec([title |-> requiredString(raw, "title", "")]),
            sections |-> oneSection(dialogWidgets(raw))])

messageResponseBody(input) ==
  IF input.t = "str" THEN Rec([text |-> input])
  ELSE IF IsRec(input) THEN input ELSE Rec(<< >>)

\* createMessageAction and updateMessageAction.
messageAction(name, message) ==
  Rec([hostAppDataAction |->
         Rec([chatDataAction |-> Rec(name :> Rec([message |-> message]))])])

buildUpdateCardResponse(message) ==
  messageAction("updateMessageAction", messageResponseBody(message))

buildCreateMessageResponse(message) ==
  messageAction("createMessageAction", messageResponseBody(message))

navigate(navigations) == Rec([action |-> Rec([navigations |-> Arr(navigations)])])

\* A step is its type and its card, as pushCard and updateCard make them.
navigationFromStep(step) ==
  Rec((IF step.type = "update" THEN "updateCard" ELSE "pushCard")
        :> dialogCardFromOptions(step.card))

buildCardNavigationResponse(steps) == navigate(Mapped(steps, navigationFromStep))

buildOpenDialogResponse(dialog) ==
  buildCardNavigationResponse(<<[type |-> "push", card |-> dialog]>>)

-----------------------------------------------------------------------------
(* lintCardPayload.  How large the JSON of a payload is, is an input.      *)
When(condition, severity, code, path) == Optional(condition, <<severity, code, path>>)

At(path, key, i) == path \o <<key, ToString(i - 1)>>

\* asString(v)?.trim(): a string that is not blank.
Written(v) == v.t = "str" /\ ~EmptyString(v) /\ v # Str(" ")

functionOf(button) == asString(Get(Get(Get(button, "onClick"), "action"), "function"))

urlOf(button) == asString(Get(Get(Get(button, "onClick"), "openLink"), "url"))

\* Mutant: an action is enough, with a function or without.
buttonHasClick_AnyAction(button) ==
  IsRec(Get(Get(button, "onClick"), "action")) \/ Written(urlOf(button))

buttonHasClick(button) == Written(functionOf(button)) \/ Written(urlOf(button))

\* Http stands for every URL of that kind.
isUrlLike(v) == v = Str("https://app")

visitButtonForLint(button, path, options) ==
  When(~buttonHasClick(button), "error", "button_missing_onclick", path)
  \o When(IsRec(Get(button, "icon")) /\ ~Written(Get(button, "altText")),
          "warning", "button_missing_alt_text", path)
  \o When(/\ options.surface = "workspace-addon-action-response"
          /\ Truthy(functionOf(button)) /\ ~isUrlLike(functionOf(button))
          /\ ~options.allowNamedFunctions,
          "error", "addon_action_function_not_url", path)

buttonsOf(widget) == asArray(Get(Get(widget, "buttonList"), "buttons"))

visitWidgetForLint(widget, path, options) ==
  LET buttons == buttonsOf(widget)
      image == Get(widget, "image")
  IN FlattenSeq([i \in DOMAIN buttons |->
                   visitButtonForLint(buttons[i], At(path, "buttons", i), options)])
     \o When(IsRec(image) /\ ~Written(Get(image, "altText")),
             "warning", "image_missing_alt_text", path)

visitWidgetsForLint(widgets, path, options) ==
  FlattenSeq([i \in DOMAIN widgets |->
                visitWidgetForLint(widgets[i], At(path, "widgets", i), options)])

sectionsOf(card) == asArray(Get(card, "sections"))

widgetsOf(card) ==
  LET WidgetsOf(section) == asArray(Get(section, "widgets"))
  IN Mapped(sectionsOf(card), WidgetsOf)

visitCardForLint(card, path, options, requireTitle) ==
  LET header == Get(card, "header")
      sections == sectionsOf(card)
      widgets == widgetsOf(card)
      Before(i) == Len(FlattenSeq(SubSeq(widgets, 1, i - 1)))
      Section(i, at) ==
        IF Get(sections[i], "widgets").t # "arr"
        THEN When(TRUE, "error", "section_widgets_required", at)
        ELSE When(Before(i) <= CardWidgets /\ Before(i + 1) > CardWidgets,
                  "warning", "card_widget_limit_exceeded", at)
             \o visitWidgetsForLint(widgets[i], at, options)
  IN When(requireTitle /\ ~Written(Get(header, "title")),
          "error", "card_header_title_required", path)
     \o When(Written(Get(header, "imageUrl")) /\ ~Written(Get(header, "imageAltText")),
             "warning", "header_image_missing_alt_text", path)
     \o FlattenSeq([i \in DOMAIN sections |-> Section(i, At(path, "sections", i))])

cardsOf(message) ==
  LET CardOf(entry) == Get(entry, "card")
  IN Mapped(asArray(Get(message, "cardsV2")), CardOf)

visitMessageBodyForLint(message, path, options) ==
  LET cards == cardsOf(message)
      accessory == asArray(Get(message, "accessoryWidgets"))
      posted == options.surface = "chat-message"
      attached == Get(message, "attachment").t = "arr" \/ Get(message, "attachments").t = "arr"
  IN When(posted /\ accessory # << >> /\ attached, "error", "accessory_attachment_conflict", path)
     \o When(accessory # << >> /\ Get(Get(message, "actionResponse"), "type") = Str("DIALOG"),
             "error", "accessory_dialog_conflict", path)
     \o When(/\ posted /\ options.principal = "user" /\ ~options.allowDeveloperPreviewUserCards
             /\ cards # << >> \/ accessory # << >>,
             "warning", "user_auth_card_preview_required", path)
     \o When(cards # << >> /\ posted /\ ~Written(Get(message, "fallbackText")),
             "error", "fallback_text_required", path)
     \o When(cards # << >> /\ posted /\ ~Written(Get(message, "text")),
             "error", "text_fallback_required", path)
     \o FlattenSeq([i \in DOMAIN cards |->
                      visitCardForLint(cards[i], At(path, "cardsV2", i), options, TRUE)])
     \o visitWidgetsForLint(accessory, path \o <<"accessoryWidgets">>, options)

messageActions(raw) ==
  LET chatData == Get(Get(raw, "hostAppDataAction"), "chatDataAction")
  IN <<<<"createMessageAction", Get(Get(chatData, "createMessageAction"), "message")>>,
       <<"updateMessageAction", Get(Get(chatData, "updateMessageAction"), "message")>>,
       <<"updateInlinePreviewAction", Get(chatData, "updateInlinePreviewAction")>>>>

presentActions(raw) ==
  SelectSeq(messageActions(raw), LAMBDA named : IsRec(named[2]))

navigationsOf(raw) == asArray(Get(Get(raw, "action"), "navigations"))

\* The cards of the navigations with where they are.
navigatedCards(raw) ==
  LET navigations == navigationsOf(raw)
      Of(i, key) == Optional(IsRec(Get(navigations[i], key)),
                             <<Get(navigations[i], key), At(<<"$">>, "navigations", i) \o <<key>>>>)
  IN FlattenSeq([i \in DOMAIN navigations |-> Of(i, "pushCard") \o Of(i, "updateCard")])

lintWorkspaceAddonResponse(raw, options) ==
  LET present == presentActions(raw)
      count == Len(present) + Len(Optional(navigationsOf(raw) # << >>, 1))
      Message(named) == visitMessageBodyForLint(named[2], <<"$", named[1]>>, options)
      Navigated(found) == visitCardForLint(found[1], found[2], options, FALSE)
  IN When(count = 0, "error", "addon_action_missing", <<"$">>)
     \o When(count > 1, "warning", "addon_multiple_primary_actions", <<"$">>)
     \o FlattenSeq(Mapped(present, Message))
     \o FlattenSeq(Mapped(navigatedCards(raw), Navigated))

\* What the linter visits of a payload: the messages and the cards.
visited(raw, options) ==
  LET addon == options.surface = "workspace-addon-action-response"
      Second(named) == named[2]
      First(found) == found[1]
      messages == IF addon THEN Mapped(presentActions(raw), Second) ELSE <<raw>>
  IN [messages |-> messages,
      cards |-> FlattenSeq(Mapped(messages, cardsOf))
                \o (IF addon THEN Mapped(navigatedCards(raw), First) ELSE << >>)]

visitedWidgets(found) ==
  LET OfCard(card) == FlattenSeq(widgetsOf(card))
      Accessory(message) == asArray(Get(message, "accessoryWidgets"))
  IN FlattenSeq(Mapped(found.cards, OfCard)) \o FlattenSeq(Mapped(found.messages, Accessory))

statsOf(raw, options, bytes) ==
  LET found == visited(raw, options)
      widgets == visitedWidgets(found)
  IN [cards |-> Len(found.cards), sections |-> Len(FlattenSeq(Mapped(found.cards, sectionsOf))),
      widgets |-> Len(widgets), buttons |-> Len(FlattenSeq(Mapped(widgets, buttonsOf))),
      images |-> Len(SelectSeq(widgets, LAMBDA widget : IsRec(Get(widget, "image")))),
      bytes |-> bytes]

findingsOf(raw, options, bytes) ==
  LET addon == options.surface = "workspace-addon-action-response"
      posted == options.surface = "chat-message"
  IN When(bytes > 32000, "warning", "payload_size_exceeds_chat_limit", <<"$">>)
     \o When(bytes > 28000 /\ bytes <= 32000, "warning", "payload_size_near_chat_limit", <<"$">>)
     \o When(~addon /\ Get(raw, "cards_v2").t = "arr", "error", "wrong_cards_field", <<"$">>)
     \o When(~addon /\ Get(raw, "cards").t = "arr", "error", "deprecated_cards_field", <<"$">>)
     \o When(posted /\ IsRec(Get(raw, "hostAppDataAction")),
             "error", "addon_envelope_on_chat_message", <<"$", "hostAppDataAction">>)
     \o When(posted /\ navigationsOf(raw) # << >>,
             "error", "addon_envelope_on_chat_message", <<"$", "action">>)
     \o When(/\ addon
             /\ \/ Get(raw, "cardsV2").t = "arr" \/ Truthy(asString(Get(raw, "text")))
                \/ IsRec(Get(raw, "actionResponse")),
             "error", "addon_action_envelope_required", <<"$">>)
     \o (IF addon THEN lintWorkspaceAddonResponse(raw, options)
         ELSE visitMessageBodyForLint(raw, <<"$">>, options))

Erroneous(findings) == SelectSeq(findings, LAMBDA finding : finding[1] = "error")

LintResult(findings, stats) ==
  [ok |-> Erroneous(findings) = << >>, findings |-> findings, stats |-> stats]

NothingVisited(bytes) ==
  [cards |-> 0, sections |-> 0, widgets |-> 0, buttons |-> 0, images |-> 0, bytes |-> bytes]

lintCardPayload(payload, options, bytes) ==
  IF ~IsRec(payload)
  THEN LintResult(When(TRUE, "error", "payload_not_object", <<"$">>), NothingVisited(bytes))
  ELSE LintResult(findingsOf(payload, options, bytes), statsOf(payload, options, bytes))

MessageErrors == {"fallback_text_required", "text_fallback_required",
                  "card_header_title_required", "button_missing_onclick"}

validateCardMessage(input) ==
  LET options == [surface |-> "chat-message", principal |-> "none",
                  allowNamedFunctions |-> FALSE, allowDeveloperPreviewUserCards |-> FALSE]
      errors == SelectSeq(Erroneous(lintCardPayload(input, options, 0).findings),
                          LAMBDA finding : finding[2] \in MessageErrors)
      without == Optional(cardsOf(input) = << >>, <<"error", "no_card", <<"$">>>>)
  IN IF ~IsRec(input) THEN <<<<"error", "not_an_object", <<"$">>>>>> ELSE errors \o without

-----------------------------------------------------------------------------
(* translateCardPayload.                                                   *)
directChatMode(payload, requestedMode) ==
  LET type == Get(Get(payload, "actionResponse"), "type")
  IN IF requestedMode # "" THEN requestedMode
     ELSE IF type = Str("UPDATE_MESSAGE") THEN "update-message"
     ELSE IF type = Str("DIALOG") THEN "open-dialog" ELSE "create-message"

messageBodyWithoutActionResponse(payload) ==
  Rec([key \in DOMAIN payload.f \ {"actionResponse"} |-> payload.f[key]])

translateCardPayload(payload, from, to, requestedMode) ==
  LET mode == directChatMode(payload, requestedMode)
      toAddon == from = "direct-chat-response" /\ to = "workspace-addon-action-response"
      dialog == Get(Get(Get(payload, "actionResponse"), "dialogAction"), "dialog")
      Translated(result) == [ok |-> TRUE, mode |-> mode, payload |-> result]
  IN CASE IsRec(payload) /\ toAddon /\ mode = "update-message" ->
            Translated(messageAction("updateMessageAction",
                                     messageBodyWithoutActionResponse(payload)))
       [] IsRec(payload) /\ toAddon /\ mode = "create-message" ->
            Translated(messageAction("createMessageAction",
                                     messageBodyWithoutActionResponse(payload)))
       [] IsRec(payload) /\ toAddon /\ mode = "open-dialog" ->
            Translated(navigate(<<Rec([pushCard |-> asRecord(Get(dialog, "body"))
                                                      ?? Rec(<< >>)])>>))
       [] IsRec(payload) /\ from = "chat-message" /\ to = "direct-chat-response" ->
            Translated(payload)
       [] OTHER -> [ok |-> FALSE, mode |-> mode, payload |-> Null]

-----------------------------------------------------------------------------
(* summarizeCards.                                                         *)
actionOf(v) == asRecord(Get(Get(v, "onClick"), "action"))

\* The parameters of an action, if there is one.
parametersOf(action) ==
  IF IsRec(action) THEN Rec(parametersObjectFromArray(Get(action, "parameters"))) ELSE Null

clickOf(v) == [function |-> functionOf(v), openLink |-> urlOf(v),
               parameters |-> parametersOf(actionOf(v))]

summarizeButton(button) ==
  LET text == asString(Get(button, "text"))
      click == [clickOf(button) EXCEPT
                  !.parameters = Rec(parametersObjectFromArray(
                                       Get(actionOf(button), "parameters")))]
  IN IF ~Truthy(text) /\ ~Truthy(click.function) /\ ~Truthy(click.openLink) THEN Null
     ELSE cleanRecord(click @@ [text |-> text])

summarizeImageWidget(image) ==
  cleanRecord(clickOf(image) @@ [altText |-> asString(Get(image, "altText")),
                                 imageUrl |-> asString(Get(image, "imageUrl"))])

summarizeGrid(grid) ==
  LET Item(item) == cleanRecord([id |-> asString(Get(item, "id")),
                                 title |-> asString(Get(item, "title")),
                                 subtitle |-> asString(Get(item, "subtitle")),
                                 imageAltText |-> asString(Get(Get(item, "image"), "altText"))])
      items == SelectSeq(Mapped(asArray(Get(grid, "items")), Item),
                         LAMBDA item : DOMAIN item.f # {})
  IN cleanRecord([title |-> asString(Get(grid, "title")),
                  columnCount |-> asNumber(Get(grid, "columnCount")), items |-> Arr(items),
                  function |-> functionOf(grid), parameters |-> parametersOf(actionOf(grid))])

summarizeChip(chip) ==
  cleanRecord(clickOf(chip)
                @@ [text |-> asString(Get(chip, "text")) ?? asString(Get(chip, "label")),
                    disabled |-> IF Get(chip, "disabled") = Bool(TRUE) THEN Bool(TRUE) ELSE Null])

summarizeDateTimePicker(picker) ==
  LET value == Get(picker, "valueMsEpoch")
  IN cleanRecord([name |-> asString(Get(picker, "name")), label |-> asString(Get(picker, "label")),
                  type |-> asString(Get(picker, "type")),
                  valueMsEpoch |-> IF value.t \in {"str", "num"} THEN StringOf(value) ELSE Null])

selectedSelectionItems(input) ==
  LET LabelOf(item) == asString(Get(item, "text")) ?? asString(Get(item, "value"))
      selected == SelectSeq(records(Get(input, "items")),
                            LAMBDA item : Get(item, "selected") = Bool(TRUE))
  IN SelectSeq(Mapped(selected, LabelOf), Given)

\* A field for a decorated text, a text input, a selection.
fieldsOf(widget) ==
  LET decorated == Get(widget, "decoratedText")
      input == Get(widget, "textInput")
      selection == Get(widget, "selectionInput")
      selected == selectedSelectionItems(selection)
      Named(v) == [name |-> asString(Get(v, "name")), label |-> asString(Get(v, "label")),
                   type |-> asString(Get(v, "type"))]
  IN Optional(IsRec(decorated), cleanRecord([label |-> asString(Get(decorated, "topLabel")),
                                             text |-> asString(Get(decorated, "text"))]))
     \o Optional(IsRec(input), cleanRecord(Named(input)))
     \o Optional(IsRec(selection),
                 cleanRecord(Named(selection)
                               @@ [selected |-> IF selected # << >> THEN Arr(selected) ELSE Null]))

\* What Op makes of the widgets that are of a kind.
Kind(widgets, key, Op(_)) ==
  LET OfKind(widget) == Optional(IsRec(Get(widget, key)), Op(Get(widget, key)))
  IN FlattenSeq(Mapped(widgets, OfKind))

OrNone(s) == IF s # << >> THEN Arr(s) ELSE Null

RECURSIVE summarizeWidgets(_, _)

summarizeColumns(columns) ==
  LET items == records(Get(columns, "columnItems") ?? Get(columns, "columns"))
      Column(column) == summarizeWidgets(Null, asArray(Get(column, "widgets")))
  IN Rec([columnCount |-> Num(Len(items)), columns |-> Arr(Mapped(items, Column))])

summarizeCarousel(carousel) ==
  LET cards == records(Get(carousel, "carouselCards"))
      Card(card) == Rec([widgets |-> summarizeWidgets(Null, asArray(Get(card, "widgets"))),
                         footer |-> summarizeWidgets(Null, asArray(Get(card, "footerWidgets")))])
  IN Rec([cardCount |-> Num(Len(cards)), cards |-> Arr(Mapped(cards, Card))])

summarizeWidgets(header, widgets) ==
  LET TextOf(paragraph) == asString(Get(paragraph, "text"))
      Same(v) == v
      buttons == SelectSeq(Mapped(FlattenSeq(Mapped(widgets, buttonsOf)), summarizeButton), IsRec)
      ChipsOf(list) == Mapped(records(Get(list, "chips")), summarizeChip)
      dividers == Len(Kind(widgets, "divider", Same))
  IN cleanRecord(
       [header |-> header, widgetCount |-> Num(Len(widgets)),
        text |-> Arr(SelectSeq(Kind(widgets, "textParagraph", TextOf), Truthy)),
        fields |-> Arr(FlattenSeq(Mapped(widgets, fieldsOf))), buttons |-> Arr(buttons),
        images |-> OrNone(Kind(widgets, "image", summarizeImageWidget)),
        dividers |-> IF dividers > 0 THEN Num(dividers) ELSE Null,
        grids |-> OrNone(Kind(widgets, "grid", summarizeGrid)),
        columns |-> OrNone(Kind(widgets, "columns", summarizeColumns)),
        carousels |-> OrNone(Kind(widgets, "carousel", summarizeCarousel)),
        dateTimePickers |-> OrNone(Kind(widgets, "dateTimePicker", summarizeDateTimePicker)),
        chips |-> OrNone(FlattenSeq(Kind(widgets, "chipList", ChipsOf)))])

summarizeSection(section) ==
  summarizeWidgets(asString(Get(section, "header")), asArray(Get(section, "widgets")))

summarizeCards(cardsV2) ==
  LET Card(entry) ==
        LET header == Get(Get(entry, "card"), "header")
        IN [cardId |-> asString(Get(entry, "cardId")), title |-> asString(Get(header, "title")),
            subtitle |-> asString(Get(header, "subtitle")),
            sections |-> Mapped(sectionsOf(Get(entry, "card")), summarizeSection)]
  IN Mapped(asArray(cardsV2), Card)

-----------------------------------------------------------------------------
(* A click: what it says, the state it carries, where it goes.             *)
normalizeActor(user) ==
  LET name == asString(Get(user, "name"))
  IN IF ~Truthy(name) THEN Null
     ELSE Rec([name |-> name, displayName |-> asString(Get(user, "displayName")),
               type |-> asString(Get(user, "type"))])

parseActionType(raw, common) ==
  IF Get(raw, "dialogEventType") = Str("SUBMIT_DIALOG") THEN "dialog_submit"
  ELSE IF Get(common, "eventType") \in {Str("WIDGET_UPDATE"), Str("WIDGET_UPDATED")}
    THEN "widget_update"
  ELSE "card_click"

\* Those of common count where both have a key.
parseParameters(raw, common) ==
  LET given == Get(common, "parameters")
      keys == IF IsRec(given) THEN {key \in DOMAIN given.f : Given(given.f[key])} ELSE {}
  IN [key \in keys |-> StringOf(given.f[key])]
       @@ parametersObjectFromArray(Get(Get(raw, "action"), "parameters"))

FormInput(kind, values) ==
  [kind |-> kind, values |-> values, value |-> IF values # << >> THEN values[1] ELSE Null]

StringOrEmpty(v) == StringOf(IF Given(v) THEN v ELSE Str(""))

\* String(v ?? "").padStart(2, "0"); a number by its two digits.
Padded(v) == IF "n" \in DOMAIN v THEN Num(v.n)
             ELSE IF Given(v) THEN StringOf(v) ELSE Num(0)

epochInput(kind, input) ==
  LET value == StringOrEmpty(Get(input, "msSinceEpoch"))
  IN FormInput(kind, Optional(~EmptyString(value), value))

parseFormInput(raw) ==
  LET values == Mapped(asArray(Get(Get(raw, "stringInputs"), "value")), StringOf)
      time == Get(raw, "timeInput")
      clock == Line(<<Padded(Get(time, "hours")), Padded(Get(time, "minutes"))>>)
  IN IF values # << >> THEN FormInput("string", values)
     ELSE IF IsRec(Get(raw, "dateInput")) THEN epochInput("date", Get(raw, "dateInput"))
     ELSE IF IsRec(time) THEN FormInput("time", <<clock>>)
     ELSE IF IsRec(Get(raw, "dateTimeInput"))
       THEN epochInput("date_time", Get(raw, "dateTimeInput"))
     ELSE FormInput("unknown", << >>)

parseFormInputs(inputs) ==
  IF IsRec(inputs) THEN [key \in DOMAIN inputs.f |-> parseFormInput(inputs.f[key])] ELSE << >>

summarizeCardAction(raw) ==
  LET common == asRecord(Get(raw, "common"))
  IN IF ~IsRec(raw) THEN Thrown
     ELSE [actionType |-> parseActionType(raw, common),
           methodName |-> asString(Get(common, "invokedFunction"))
                            ?? (asString(Get(common, "triggeredFunction"))
                                  ?? asString(Get(Get(raw, "action"), "actionMethodName"))),
           parameters |-> parseParameters(raw, common),
           formInputs |-> parseFormInputs(Get(common, "formInputs")),
           actor |-> normalizeActor(Get(raw, "user")),
           eventTime |-> asString(Get(raw, "eventTime"))]

\* The key that says in a note which choice a click was.
buttonChoice(summary) ==
  LET chosen == SelectSeq(<<"decision", "choice", "button", "action">>,
                          LAMBDA key : /\ key \in DOMAIN summary.parameters
                                       /\ Truthy(summary.parameters[key]))
  IN IF summary.actionType = "card_click" /\ chosen # << >> THEN chosen[1] ELSE "none"

StateParameter == "__googleChatAiState"

encodeCardActionState(state) == Encoded(state)

\* What begins with v1. and decodes; anything else is refused.
decodeCardActionState(encoded) == IF "json" \in DOMAIN encoded THEN encoded.json ELSE Thrown

withCardActionState(action, state) ==
  LET given == Get(action, "parameters")
      parameters == StateParameter :> encodeCardActionState(state)
                      @@ (IF IsRec(given) THEN given.f ELSE << >>)
  IN Rec("parameters" :> Rec(parameters) @@ action.f)

readCardActionState(summary) ==
  IF StateParameter \in DOMAIN summary.parameters
  THEN decodeCardActionState(summary.parameters[StateParameter]) ELSE Null

RouteKey == [card_click |-> "cardClick", dialog_submit |-> "dialogSubmit",
             dialog_cancel |-> "dialogCancel", widget_update |-> "widgetUpdate"]

\* handlers: the methods and the types there is one for, and whether for unknown ones.
routeCardAction(summary, handlers) ==
  LET type == RouteKey[summary.actionType]
  IN IF Given(summary.methodName) /\ summary.methodName \in handlers.methods
     THEN <<"method", summary.methodName>>
     ELSE IF type \in handlers.types THEN <<type>>
     ELSE IF handlers.unknown THEN <<"unknown">> ELSE << >>
=============================================================================
