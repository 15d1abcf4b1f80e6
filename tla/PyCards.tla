------------------------------- MODULE PyCards -------------------------------
(***************************************************************************)
(* packages/python/src/googlechatai/cards/__init__.py: what Cards is of    *)
(* the Node package.  In Python nothing empty counts as given, str(True)   *)
(* is "True", a bool is an int, and keys are sorted by code point.         *)
(***************************************************************************)
EXTENDS JsonValues, SequencesExt

CONSTANTS
  CodePointOrder,  \* the keys of parameters and forms, sorted
  CardWidgets      \* how many widgets Chat shows of a card

Raised == [thrown |-> TRUE]

\* A mapping that counts as true.
Filled(v) == IsRec(v) /\ DOMAIN v.f # {}

required_string(raw, key, fallback) ==
  IF Get(raw, key).t = "str" THEN Get(raw, key) ELSE Str(fallback)

clean_record(f) == Rec([key \in {key \in DOMAIN f : Given(f[key])} |-> f[key]])

records(v) == SelectSeq(asArray(v), IsRec)

\* str(v) of what a parameter or a form may hold.
StringOf(v) ==
  CASE v.t = "bool" -> Str(IF v.b THEN "True" ELSE "False")
    [] v.t = "num" -> Line(<<v>>)
    [] v.t = "null" -> Str("None")
    [] OTHER -> v

sorted_parameters(parameters) ==
  LET keys == IF IsRec(parameters)
              THEN {key \in DOMAIN parameters.f : Given(parameters.f[key])} ELSE {}
      sorted == SelectSeq(CodePointOrder, LAMBDA key : key \in keys)
      Pair(key) == Rec([key |-> Str(key), value |-> StringOf(parameters.f[key])])
  IN Arr(Mapped(sorted, Pair))

\* A later pair with the same key counts.
parameters_object_from_array(parameters) ==
  LET IsPair(v) == /\ Get(v, "key").t = "str" /\ ~EmptyString(Get(v, "key"))
                   /\ Get(v, "value").t = "str"
      pairs == SelectSeq(asArray(parameters), IsPair)
      Of(key) == {i \in DOMAIN pairs : Get(pairs[i], "key").s = key}
      Latest(key) == CHOOSE i \in Of(key) : \A j \in Of(key) : j <= i
  IN [key \in {Get(pairs[i], "key").s : i \in DOMAIN pairs} |-> Get(pairs[Latest(key)], "value")]

-----------------------------------------------------------------------------
(* The builders.                                                           *)
on_click(action) ==
  Rec([action |-> Rec([function |-> required_string(action, "function", ""),
                       parameters |-> sorted_parameters(Get(action, "parameters"))])])

action_button(text, action) == Rec([text |-> text, onClick |-> on_click(action)])

icon_action_button(iconName, altText, action, buttonType, iconFill) ==
  Rec([icon |-> Rec([materialIcon |-> Rec([name |-> Str(iconName), fill |-> iconFill])]),
       altText |-> altText, type |-> buttonType, onClick |-> on_click(action)])

link_button(text, url) ==
  Rec([text |-> text, onClick |-> Rec([openLink |-> Rec([url |-> url])])])

button_from_option(button) ==
  LET text == required_string(button, "text", "")
      openLink == asString(Get(button, "openLink"))
  IN IF EmptyString(text) THEN Null
     ELSE IF Truthy(openLink) THEN link_button(text, openLink)
     ELSE action_button(text, Get(button, "action"))

button_list(buttons) == Rec([buttonList |-> Rec([buttons |-> Arr(buttons)])])

text_paragraph(text) == Rec([textParagraph |-> Rec([text |-> text])])

labelled(topLabel, text) == Rec([decoratedText |-> Rec([topLabel |-> topLabel, text |-> text])])

one_section(widgets) == Arr(<<Rec([widgets |-> Arr(widgets)])>>)

message_with_single_card(fallbackText, cardId, card) ==
  Rec([fallbackText |-> fallbackText, text |-> fallbackText,
       cardsV2 |-> Arr(<<Rec([cardId |-> cardId, card |-> card])>>)])

titled_card(title, subtitle, widgets) ==
  Rec([header |-> clean_record([title |-> title, subtitle |-> subtitle]),
       sections |-> one_section(widgets)])

\* isinstance(v, int) holds of a bool.
as_int(v) == IF v.t \in {"num", "bool"} THEN v ELSE Null

section_from_option(section) ==
  LET text == Get(section, "text")
      items == IF text.t = "str" THEN <<text>>
               ELSE SelectSeq(asArray(text), LAMBDA v : v.t = "str")
      Field(field) ==
        Rec([decoratedText |-> clean_record([topLabel |-> asString(Get(field, "label")),
                                            text |-> asString(Get(field, "text"))])])
      buttons == SelectSeq(Mapped(asArray(Get(section, "buttons")), button_from_option), IsRec)
  IN clean_record(
       [header |-> asString(Get(section, "header")),
        collapsible |-> asBoolean(Get(section, "collapsible")),
        uncollapsibleWidgetsCount |-> as_int(Get(section, "uncollapsibleWidgetsCount")),
        widgets |-> Arr(Mapped(items, text_paragraph)
                        \o Mapped(asArray(Get(section, "fields")), Field)
                        \o asArray(Get(section, "widgets"))
                        \o Optional(buttons # << >>, button_list(buttons)))])

build_card_message(raw) ==
  LET title == required_string(raw, "title", "")
      cardId == required_string(raw, "cardId", "card")
      given == required_string(raw, "fallbackText", "")
      named == IF EmptyString(title) THEN cardId ELSE title
      sections == asArray(Get(raw, "sections"))
      card == Rec([header |-> clean_record([title |-> title,
                                           subtitle |-> asString(Get(raw, "subtitle"))]),
                   sections |->
                     Arr(IF sections # << >> THEN Mapped(sections, section_from_option)
                         ELSE <<section_from_option(
                                  Rec([widgets |-> Arr(asArray(Get(raw, "widgets")))]))>>)])
  IN message_with_single_card(IF EmptyString(given) THEN Line(<<named, Str("card.")>>) ELSE given,
                           cardId, IF Filled(Get(raw, "card")) THEN Get(raw, "card") ELSE card)

build_approval_card(raw) ==
  LET title == required_string(raw, "title", "")
      body == required_string(raw, "body", "")
      approve == required_string(raw, "approveLabel", "Approve")
      reject == required_string(raw, "rejectLabel", "Reject")
  IN message_with_single_card(
       Line(<<Str("Approval requested:"), title, body, approve, reject>>),
       required_string(raw, "cardId", "approval"),
       titled_card(title, asString(Get(raw, "subtitle")),
                  <<text_paragraph(body),
                    button_list(<<action_button(approve, Get(raw, "approveAction")),
                                 action_button(reject, Get(raw, "rejectAction"))>>)>>))

step_status_label(status) ==
  Str(IF status = Str("complete") THEN "Completed"
      ELSE IF status = Str("active") THEN "In progress" ELSE "Pending")

Upper(v) == Line(<<Str("upper case"), v>>)

cancel_button(action) ==
  Optional(Filled(action), button_list(<<action_button(Str("Cancel"), action)>>))

build_progress_card(raw) ==
  LET title == required_string(raw, "title", "")
      detail == asString(Get(raw, "detail"))
      percent == as_int(Get(raw, "percent"))
      steps == records(Get(raw, "steps"))
      complete == Line(<<StringOf(percent), Str("% complete")>>)
      Status(step) == required_string(step, "status", "pending")
      Label(step) == required_string(step, "label", "")
      Said(step) == Line(<<step_status_label(Status(step)), Label(step)>>)
      Shown(step) == labelled(Upper(Status(step)), Label(step))
  IN message_with_single_card(
       Line(<<Str("Progress:"), title>> \o Optional(Given(percent), complete)
              \o Mapped(steps, Said)),
       required_string(raw, "cardId", "progress"),
       titled_card(title, asString(Get(raw, "subtitle")),
                  Optional(Truthy(detail), text_paragraph(detail))
                    \o Optional(Given(percent), labelled(Str("PROGRESS"), complete))
                    \o Mapped(steps, Shown)
                    \o cancel_button(Get(raw, "cancelAction"))))

build_error_card(raw) ==
  LET title == required_string(raw, "title", "")
      message == required_string(raw, "message", "")
      details == asString(Get(raw, "details"))
      retry == Get(raw, "retryAction")
  IN message_with_single_card(
       Line(<<Str("Error:"), title, message>> \o Optional(Truthy(details), details)
              \o Optional(Filled(retry), Str("Action: Retry."))),
       required_string(raw, "cardId", "error"),
       titled_card(title, Str("Error"),
                  <<text_paragraph(message)>>
                    \o Optional(Truthy(details), labelled(Str("DETAILS"), details))
                    \o Optional(Filled(retry), button_list(<<action_button(Str("Retry"), retry)>>))))

\* Which response a card is about, if it says.
subject_of(raw) == LET responseId == asString(Get(raw, "responseId"))
                  IN Optional(Truthy(responseId), responseId)

build_feedback_card(raw) ==
  LET comment == Get(raw, "commentAction")
      labels == <<required_string(raw, "helpfulLabel", "Helpful"),
                  required_string(raw, "notHelpfulLabel", "Not helpful")>>
                  \o Optional(Filled(comment), required_string(raw, "commentLabel", "Add comment"))
      actions == <<Get(raw, "upAction"), Get(raw, "downAction"), comment>>
  IN message_with_single_card(
       Line(<<Str("Feedback requested for")>> \o subject_of(raw) \o labels),
       required_string(raw, "cardId", "feedback"),
       titled_card(required_string(raw, "title", "Was this helpful?"),
                  asString(Get(raw, "subtitle")) || Str("Feedback"),
                  <<button_list([i \in DOMAIN labels |-> action_button(labels[i], actions[i])])>>))

build_feedback_accessory_widgets(raw) ==
  LET comment == Get(raw, "commentAction")
      type == required_string(raw, "buttonType", "BORDERLESS")
      fill == Bool(Get(raw, "iconFill") # Bool(FALSE))
      Icon(name, key, altText, action) ==
        icon_action_button(name, required_string(raw, key, altText), action, type, fill)
  IN <<button_list(
         <<Icon("thumb_up", "helpfulAltText", "Mark helpful", Get(raw, "upAction")),
           Icon("thumb_down", "notHelpfulAltText", "Mark not helpful", Get(raw, "downAction"))>>
           \o Optional(Filled(comment),
                       Icon("rate_review", "commentAltText", "Add feedback comment", comment)))>>

build_feedback_accessory_message(raw) ==
  LET text == required_string(raw, "text", "")
  IN Rec([fallbackText |-> asString(Get(raw, "fallbackText")) || text, text |-> text,
          accessoryWidgets |-> Arr(build_feedback_accessory_widgets(raw))])

source_widget(source) ==
  LET url == asString(Get(source, "url"))
      label == asString(Get(source, "label"))
      confidence == asString(Get(source, "confidence"))
      said == Line(<<confidence, Str("confidence")>>)
      parts == Optional(Truthy(label), label) \o Optional(Given(confidence), said)
  IN Rec([decoratedText |->
            clean_record(
              [topLabel |-> IF parts # << >> THEN Line(parts) ELSE Null,
               text |-> required_string(source, "title", "Untitled source"),
               bottomLabel |-> asString(Get(source, "snippet"))
                                 || asString(Get(source, "resourceName")),
               button |-> IF Truthy(url) THEN link_button(Str("Open"), url) ELSE Null])])

Counted(n, what) == Line(<<Num(n), Str(what)>>)

build_sources_card(raw) ==
  LET sources == records(Get(raw, "sources"))
      TitleOf(source) == required_string(source, "title", "Untitled source")
  IN message_with_single_card(
       Line(<<Str("Sources for")>> \o subject_of(raw) \o Mapped(sources, TitleOf)),
       required_string(raw, "cardId", "sources"),
       titled_card(required_string(raw, "title", "Sources"), Counted(Len(sources), "source"),
                  Mapped(sources, source_widget)))

build_thinking_card(raw) ==
  LET title == required_string(raw, "title", "Thinking")
      detail == asString(Get(raw, "detail"))
      startedAt == asString(Get(raw, "startedAt"))
  IN message_with_single_card(
       Line(<<Str("Thinking:"), title>> \o Optional(Truthy(detail), detail)
              \o Optional(Truthy(startedAt), startedAt)),
       required_string(raw, "cardId", "thinking"),
       titled_card(title, Str("Thinking"),
                  <<labelled(Str("STATUS"), required_string(raw, "status", "thinking"))>>
                    \o Optional(Truthy(detail), text_paragraph(detail))
                    \o Optional(Truthy(startedAt), labelled(Str("STARTED"), startedAt))))

build_tool_status_card(raw) ==
  LET tools == records(Get(raw, "tools"))
      Said(tool) == Line(<<required_string(tool, "name", ""), required_string(tool, "status", "")>>)
      Shown(tool) ==
        Rec([decoratedText |->
               clean_record([topLabel |-> Upper(required_string(tool, "status", "unknown")),
                            text |-> required_string(tool, "name", "unknown_tool"),
                            bottomLabel |-> asString(Get(tool, "output"))
                                              || asString(Get(tool, "detail"))])])
  IN message_with_single_card(
       Line(<<Str("Tool status:")>> \o Mapped(tools, Said)),
       required_string(raw, "cardId", "tool-status"),
       titled_card(required_string(raw, "title", "Tool calls"), Counted(Len(tools), "tool call"),
                  Mapped(tools, Shown)))

build_streaming_status_card(raw) ==
  LET mode == required_string(raw, "mode", "create_then_patch")
      status == required_string(raw, "status", "streaming")
      patches == StringOf(asNumber(Get(raw, "patchCount")) ?? Num(0))
      throttle == asNumber(Get(raw, "throttleMs"))
      ms == Line(<<StringOf(throttle), Str("ms")>>)
  IN message_with_single_card(
       Line(<<Str("Streaming response:"), mode, status, patches>>
              \o Optional(Given(throttle), ms)),
       required_string(raw, "cardId", "streaming-status"),
       titled_card(required_string(raw, "title", "Streaming response"), Str("Streaming"),
                  <<labelled(Str("MODE"), mode), labelled(Str("STATUS"), status),
                    labelled(Str("PATCHES"), patches)>>
                    \o Optional(Given(throttle), labelled(Str("THROTTLE"), ms))
                    \o cancel_button(Get(raw, "finalAction"))))

-----------------------------------------------------------------------------
(* Dialogs and responses.                                                  *)
dialog_field_to_widget(field) ==
  LET type == required_string(field, "type", "")
      name == required_string(field, "name", "")
      label == required_string(field, "label", "")
      Item(item) ==
        clean_record([text |-> required_string(item, "text", ""),
                     value |-> required_string(item, "value", ""),
                     selected |-> IF Get(item, "selected") = Bool(TRUE) THEN Bool(TRUE) ELSE Null])
      lines == IF Get(field, "multiline") = Bool(TRUE) THEN "MULTIPLE_LINE" ELSE "SINGLE_LINE"
  IN CASE type = Str("text") ->
            Rec([textInput |-> clean_record([name |-> name, label |-> label, type |-> Str(lines),
                                            value |-> asString(Get(field, "value"))])])
       [] type = Str("selection") ->
            Rec([selectionInput |->
                   Rec([name |-> name, label |-> label,
                        type |-> required_string(field, "selectionType", "DROPDOWN"),
                        items |-> Arr(Mapped(asArray(Get(field, "items")), Item))])])
       [] type = Str("switch") ->
            Rec([decoratedText |->
                   Rec([text |-> label,
                        switchControl |->
                          Rec([name |-> name, controlType |-> Str("SWITCH"),
                               selected |-> Bool(Get(field, "selected") = Bool(TRUE))])])])
       [] OTHER -> clean_record([rawWidget |-> Get(field, "rawWidget")])

dialog_widgets(raw) ==
  Mapped(records(Get(raw, "fields")), dialog_field_to_widget)
    \o <<button_list(<<action_button(required_string(raw, "submitLabel", "Submit"),
                                   Get(raw, "submitAction"))>>)>>

build_dialog(raw) ==
  LET LabelOf(field) == required_string(field, "label", "")
      body == Rec([sections |-> one_section(dialog_widgets(raw))])
  IN Rec([fallbackText |->
            Line(<<Str("Dialog requested:"), required_string(raw, "title", "")>>
                   \o Mapped(records(Get(raw, "fields")), LabelOf)),
          actionResponse |->
            Rec([type |-> Str("DIALOG"),
                 dialogAction |-> Rec([dialog |-> Rec([body |-> body])])])])

dialog_card_from_options(raw) ==
  IF ~Filled(raw) THEN Rec([sections |-> Arr(<< >>)])
  ELSE IF Filled(Get(raw, "header")) \/ Get(raw, "sections").t = "arr" THEN raw
  ELSE Rec([header |-> Rec([title |-> required_string(raw, "title", "")]),
            sections |-> one_section(dialog_widgets(raw))])

message_response_body(input) ==
  IF input.t = "str" THEN Rec([text |-> input])
  ELSE IF IsRec(input) THEN input ELSE Rec(<< >>)

\* createMessageAction and updateMessageAction.
message_action(name, message) ==
  Rec([hostAppDataAction |->
         Rec([chatDataAction |-> Rec(name :> Rec([message |-> message]))])])

build_update_card_response(message) ==
  message_action("updateMessageAction", message_response_body(message))

build_create_message_response(message) ==
  message_action("createMessageAction", message_response_body(message))

navigate(navigations) == Rec([action |-> Rec([navigations |-> Arr(navigations)])])

\* A step is its type and its card, as pushCard and updateCard make them.
navigation_from_step(step) ==
  Rec((IF step.type = "update" THEN "updateCard" ELSE "pushCard")
        :> dialog_card_from_options(step.card))

build_card_navigation_response(steps) == navigate(Mapped(steps, navigation_from_step))

build_open_dialog_response(dialog) ==
  build_card_navigation_response(<<[type |-> "push", card |-> dialog]>>)

-----------------------------------------------------------------------------
(* lint_card_payload.  How large the JSON of a payload is, is an input.      *)
When(condition, severity, code, path) == Optional(condition, <<severity, code, path>>)

At(path, key, i) == path \o <<key, ToString(i - 1)>>

\* (_as_string(v) or "").strip(): a string that is not blank.
Written(v) == v.t = "str" /\ ~EmptyString(v) /\ v # Str(" ")

function_of(button) == asString(Get(Get(Get(button, "onClick"), "action"), "function"))

url_of(button) == asString(Get(Get(Get(button, "onClick"), "openLink"), "url"))

button_has_click(button) == Written(function_of(button)) \/ Written(url_of(button))

\* Http stands for every URL of that kind.
is_url_like(v) == v = Str("https://app")

visit_button_for_lint(button, path, options) ==
  When(~button_has_click(button), "error", "button_missing_onclick", path)
  \o When(Filled(Get(button, "icon")) /\ ~Written(Get(button, "altText")),
          "warning", "button_missing_alt_text", path)
  \o When(/\ options.surface = "workspace-addon-action-response"
          /\ Truthy(function_of(button)) /\ ~is_url_like(function_of(button))
          /\ ~options.allowNamedFunctions,
          "error", "addon_action_function_not_url", path)

buttons_of(widget) == asArray(Get(Get(widget, "buttonList"), "buttons"))

visit_widget_for_lint(widget, path, options) ==
  LET buttons == buttons_of(widget)
      image == Get(widget, "image")
  IN FlattenSeq([i \in DOMAIN buttons |->
                   visit_button_for_lint(buttons[i], At(path, "buttons", i), options)])
     \o When(Filled(image) /\ ~Written(Get(image, "altText")),
             "warning", "image_missing_alt_text", path)

visit_widgets_for_lint(widgets, path, options) ==
  FlattenSeq([i \in DOMAIN widgets |->
                visit_widget_for_lint(widgets[i], At(path, "widgets", i), options)])

sections_of(card) == asArray(Get(card, "sections"))

widgets_of(card) ==
  LET WidgetsOf(section) == asArray(Get(section, "widgets"))
  IN Mapped(sections_of(card), WidgetsOf)

visit_card_for_lint(card, path, options, requireTitle) ==
  LET header == Get(card, "header")
      sections == sections_of(card)
      widgets == widgets_of(card)
      Before(i) == Len(FlattenSeq(SubSeq(widgets, 1, i - 1)))
      Section(i, at) ==
        IF Get(sections[i], "widgets").t # "arr"
        THEN When(TRUE, "error", "section_widgets_required", at)
        ELSE When(Before(i) <= CardWidgets /\ Before(i + 1) > CardWidgets,
                  "warning", "card_widget_limit_exceeded", at)
             \o visit_widgets_for_lint(widgets[i], at, options)
  IN When(requireTitle /\ ~Written(Get(header, "title")),
          "error", "card_header_title_required", path)
     \o When(Written(Get(header, "imageUrl")) /\ ~Written(Get(header, "imageAltText")),
             "warning", "header_image_missing_alt_text", path)
     \o FlattenSeq([i \in DOMAIN sections |-> Section(i, At(path, "sections", i))])

cards_of(message) ==
  LET CardOf(entry) == Get(entry, "card")
  IN Mapped(asArray(Get(message, "cardsV2")), CardOf)

visit_message_body_for_lint(message, path, options) ==
  LET cards == cards_of(message)
      accessory == asArray(Get(message, "accessoryWidgets"))
      posted == options.surface = "chat-message"
      attached == Get(message, "attachment").t = "arr" \/ Get(message, "attachments").t = "arr"
  IN When(posted /\ accessory # << >> /\ attached, "error", "accessory_attachment_conflict", path)
     \o When(accessory # << >> /\ Get(Get(message, "actionResponse"), "type") = Str("DIALOG"),
             "error", "accessory_dialog_conflict", path)
     \o When(/\ posted /\ options.principal = "user" /\ ~options.allowDeveloperPreviewUserCards
             /\ cards # << >> \/ accessory # << >>,
             "warning", "user_auth_card_preview_required", path)
     \o When(cards # << >> /\ posted /\ ~Written(Get(message, "fallbackText")),
             "error", "fallback_text_required", path)
     \o When(cards # << >> /\ posted /\ ~Written(Get(message, "text")),
             "error", "text_fallback_required", path)
     \o FlattenSeq([i \in DOMAIN cards |->
                      visit_card_for_lint(cards[i], At(path, "cardsV2", i), options, TRUE)])
     \o visit_widgets_for_lint(accessory, path \o <<"accessoryWidgets">>, options)

message_actions(raw) ==
  LET chatData == Get(Get(raw, "hostAppDataAction"), "chatDataAction")
  IN <<<<"createMessageAction", Get(Get(chatData, "createMessageAction"), "message")>>,
       <<"updateMessageAction", Get(Get(chatData, "updateMessageAction"), "message")>>,
       <<"updateInlinePreviewAction", Get(chatData, "updateInlinePreviewAction")>>>>

present_actions(raw) ==
  SelectSeq(message_actions(raw), LAMBDA named : Filled(named[2]))

navigations_of(raw) == asArray(Get(Get(raw, "action"), "navigations"))

\* The cards of the navigations with where they are.
navigated_cards(raw) ==
  LET navigations == navigations_of(raw)
      Of(i, key) == Optional(Filled(Get(navigations[i], key)),
                             <<Get(navigations[i], key), At(<<"$">>, "navigations", i) \o <<key>>>>)
  IN FlattenSeq([i \in DOMAIN navigations |-> Of(i, "pushCard") \o Of(i, "updateCard")])

lint_workspace_addon_response(raw, options) ==
  LET present == present_actions(raw)
      count == Len(present) + Len(Optional(navigations_of(raw) # << >>, 1))
      Message(named) == visit_message_body_for_lint(named[2], <<"$", named[1]>>, options)
      Navigated(found) == visit_card_for_lint(found[1], found[2], options, FALSE)
  IN When(count = 0, "error", "addon_action_missing", <<"$">>)
     \o When(count > 1, "warning", "addon_multiple_primary_actions", <<"$">>)
     \o FlattenSeq(Mapped(present, Message))
     \o FlattenSeq(Mapped(navigated_cards(raw), Navigated))

\* What the linter visits of a payload: the messages and the cards.
visited(raw, options) ==
  LET addon == options.surface = "workspace-addon-action-response"
      Second(named) == named[2]
      First(found) == found[1]
      messages == IF addon THEN Mapped(present_actions(raw), Second) ELSE <<raw>>
  IN [messages |-> messages,
      cards |-> FlattenSeq(Mapped(messages, cards_of))
                \o (IF addon THEN Mapped(navigated_cards(raw), First) ELSE << >>)]

visited_widgets(found) ==
  LET OfCard(card) == FlattenSeq(widgets_of(card))
      Accessory(message) == asArray(Get(message, "accessoryWidgets"))
  IN FlattenSeq(Mapped(found.cards, OfCard)) \o FlattenSeq(Mapped(found.messages, Accessory))

stats_of(raw, options, bytes) ==
  LET found == visited(raw, options)
      widgets == visited_widgets(found)
  IN [cards |-> Len(found.cards), sections |-> Len(FlattenSeq(Mapped(found.cards, sections_of))),
      widgets |-> Len(widgets), buttons |-> Len(FlattenSeq(Mapped(widgets, buttons_of))),
      images |-> Len(SelectSeq(widgets, LAMBDA widget : Filled(Get(widget, "image")))),
      bytes |-> bytes]

findings_of(raw, options, bytes) ==
  LET addon == options.surface = "workspace-addon-action-response"
      posted == options.surface = "chat-message"
  IN When(bytes > 32000, "warning", "payload_size_exceeds_chat_limit", <<"$">>)
     \o When(bytes > 28000 /\ bytes <= 32000, "warning", "payload_size_near_chat_limit", <<"$">>)
     \o When(~addon /\ Get(raw, "cards_v2").t = "arr", "error", "wrong_cards_field", <<"$">>)
     \o When(~addon /\ Get(raw, "cards").t = "arr", "error", "deprecated_cards_field", <<"$">>)
     \o When(posted /\ Filled(Get(raw, "hostAppDataAction")),
             "error", "addon_envelope_on_chat_message", <<"$", "hostAppDataAction">>)
     \o When(posted /\ navigations_of(raw) # << >>,
             "error", "addon_envelope_on_chat_message", <<"$", "action">>)
     \o When(/\ addon
             /\ \/ Get(raw, "cardsV2").t = "arr" \/ Truthy(asString(Get(raw, "text")))
                \/ Filled(Get(raw, "actionResponse")),
             "error", "addon_action_envelope_required", <<"$">>)
     \o (IF addon THEN lint_workspace_addon_response(raw, options)
         ELSE visit_message_body_for_lint(raw, <<"$">>, options))

Erroneous(findings) == SelectSeq(findings, LAMBDA finding : finding[1] = "error")

LintResult(findings, stats) ==
  [ok |-> Erroneous(findings) = << >>, findings |-> findings, stats |-> stats]

NothingVisited(bytes) ==
  [cards |-> 0, sections |-> 0, widgets |-> 0, buttons |-> 0, images |-> 0, bytes |-> bytes]

lint_card_payload(payload, options, bytes) ==
  IF ~Filled(payload)
  THEN LintResult(When(TRUE, "error", "payload_not_object", <<"$">>), NothingVisited(bytes))
  ELSE LintResult(findings_of(payload, options, bytes), stats_of(payload, options, bytes))

MessageErrors == {"fallback_text_required", "text_fallback_required",
                  "card_header_title_required", "button_missing_onclick"}

validate_card_message(input) ==
  LET options == [surface |-> "chat-message", principal |-> "none",
                  allowNamedFunctions |-> FALSE, allowDeveloperPreviewUserCards |-> FALSE]
      errors == SelectSeq(Erroneous(lint_card_payload(input, options, 0).findings),
                          LAMBDA finding : finding[2] \in MessageErrors)
      without == Optional(cards_of(input) = << >>, <<"error", "no_card", <<"$">>>>)
  IN IF ~Filled(input) THEN <<<<"error", "not_an_object", <<"$">>>>>> ELSE errors \o without

-----------------------------------------------------------------------------
(* translate_card_payload.                                                   *)
direct_chat_mode(payload, requestedMode) ==
  LET type == Get(Get(payload, "actionResponse"), "type")
  IN IF requestedMode # "" THEN requestedMode
     ELSE IF type = Str("UPDATE_MESSAGE") THEN "update-message"
     ELSE IF type = Str("DIALOG") THEN "open-dialog" ELSE "create-message"

message_body_without_action_response(payload) ==
  Rec([key \in DOMAIN payload.f \ {"actionResponse"} |-> payload.f[key]])

translate_card_payload(payload, from, to, requestedMode) ==
  LET mode == direct_chat_mode(payload, requestedMode)
      toAddon == from = "direct-chat-response" /\ to = "workspace-addon-action-response"
      dialog == Get(Get(Get(payload, "actionResponse"), "dialogAction"), "dialog")
      Translated(result) == [ok |-> TRUE, mode |-> mode, payload |-> result]
  IN CASE Filled(payload) /\ toAddon /\ mode = "update-message" ->
            Translated(message_action("updateMessageAction",
                                     message_body_without_action_response(payload)))
       [] Filled(payload) /\ toAddon /\ mode = "create-message" ->
            Translated(message_action("createMessageAction",
                                     message_body_without_action_response(payload)))
       [] Filled(payload) /\ toAddon /\ mode = "open-dialog" ->
            Translated(navigate(<<Rec([pushCard |-> asRecord(Get(dialog, "body"))
                                                      ?? Rec(<< >>)])>>))
       [] Filled(payload) /\ from = "chat-message" /\ to = "direct-chat-response" ->
            Translated(payload)
       [] OTHER -> [ok |-> FALSE, mode |-> mode, payload |-> Null]

-----------------------------------------------------------------------------
(* summarize_cards.                                                         *)
action_of(v) == asRecord(Get(Get(v, "onClick"), "action"))

\* The parameters of an action, if there is one.
parameters_of(action) ==
  IF Filled(action) THEN Rec(parameters_object_from_array(Get(action, "parameters"))) ELSE Null

click_of(v) == [function |-> function_of(v), openLink |-> url_of(v),
               parameters |-> parameters_of(action_of(v))]

summarize_button(button) ==
  LET text == asString(Get(button, "text"))
      click == [click_of(button) EXCEPT
                  !.parameters = Rec(parameters_object_from_array(
                                       Get(action_of(button), "parameters")))]
  IN IF ~Truthy(text) /\ ~Truthy(click.function) /\ ~Truthy(click.openLink) THEN Null
     ELSE clean_record(click @@ [text |-> text])

summarize_image_widget(image) ==
  clean_record(click_of(image) @@ [altText |-> asString(Get(image, "altText")),
                                 imageUrl |-> asString(Get(image, "imageUrl"))])

summarize_grid(grid) ==
  LET Item(item) == clean_record([id |-> asString(Get(item, "id")),
                                 title |-> asString(Get(item, "title")),
                                 subtitle |-> asString(Get(item, "subtitle")),
                                 imageAltText |-> asString(Get(Get(item, "image"), "altText"))])
      items == SelectSeq(Mapped(asArray(Get(grid, "items")), Item),
                         LAMBDA item : DOMAIN item.f # {})
  IN clean_record([title |-> asString(Get(grid, "title")),
                  columnCount |-> as_int(Get(grid, "columnCount")), items |-> Arr(items),
                  function |-> function_of(grid), parameters |-> parameters_of(action_of(grid))])

summarize_chip(chip) ==
  clean_record(click_of(chip)
                @@ [text |-> asString(Get(chip, "text")) || asString(Get(chip, "label")),
                    disabled |-> IF Get(chip, "disabled") = Bool(TRUE) THEN Bool(TRUE) ELSE Null])

summarize_date_time_picker(picker) ==
  LET value == Get(picker, "valueMsEpoch")
  IN clean_record([name |-> asString(Get(picker, "name")), label |-> asString(Get(picker, "label")),
                  type |-> asString(Get(picker, "type")),
                  valueMsEpoch |->
                    IF value.t \in {"str", "num", "bool"} THEN StringOf(value) ELSE Null])

selected_selection_items(input) ==
  LET LabelOf(item) == asString(Get(item, "text")) || asString(Get(item, "value"))
      selected == SelectSeq(records(Get(input, "items")),
                            LAMBDA item : Get(item, "selected") = Bool(TRUE))
  IN SelectSeq(Mapped(selected, LabelOf), Truthy)

\* A field for a decorated text, a text input, a selection.
fields_of(widget) ==
  LET decorated == Get(widget, "decoratedText")
      input == Get(widget, "textInput")
      selection == Get(widget, "selectionInput")
      selected == selected_selection_items(selection)
      Named(v) == [name |-> asString(Get(v, "name")), label |-> asString(Get(v, "label")),
                   type |-> asString(Get(v, "type"))]
  IN Optional(Filled(decorated), clean_record([label |-> asString(Get(decorated, "topLabel")),
                                             text |-> asString(Get(decorated, "text"))]))
     \o Optional(Filled(input), clean_record(Named(input)))
     \o Optional(Filled(selection),
                 clean_record(Named(selection)
                               @@ [selected |-> IF selected # << >> THEN Arr(selected) ELSE Null]))

\* What Op makes of the widgets that are of a kind and not empty.
Kind(widgets, key, Op(_)) ==
  LET OfKind(widget) == Optional(Filled(Get(widget, key)), Op(Get(widget, key)))
  IN FlattenSeq(Mapped(widgets, OfKind))

OrNone(s) == IF s # << >> THEN Arr(s) ELSE Null

RECURSIVE summarize_widgets(_, _)

summarize_columns(columns) ==
  LET items == records(Get(columns, "columnItems") || Get(columns, "columns"))
      Column(column) == summarize_widgets(Null, asArray(Get(column, "widgets")))
  IN Rec([columnCount |-> Num(Len(items)), columns |-> Arr(Mapped(items, Column))])

summarize_carousel(carousel) ==
  LET cards == SelectSeq(asArray(Get(carousel, "carouselCards")), Filled)
      Card(card) == Rec([widgets |-> summarize_widgets(Null, asArray(Get(card, "widgets"))),
                         footer |-> summarize_widgets(Null, asArray(Get(card, "footerWidgets")))])
  IN Rec([cardCount |-> Num(Len(cards)), cards |-> Arr(Mapped(cards, Card))])

summarize_widgets(header, widgets) ==
  LET TextOf(paragraph) == asString(Get(paragraph, "text"))
      buttons == SelectSeq(Mapped(FlattenSeq(Mapped(widgets, buttons_of)), summarize_button), IsRec)
      ChipsOf(list) == Mapped(SelectSeq(asArray(Get(list, "chips")), Filled), summarize_chip)
      dividers == Len(SelectSeq(widgets, LAMBDA widget : IsRec(Get(widget, "divider"))))
  IN clean_record(
       [header |-> header, widgetCount |-> Num(Len(widgets)),
        text |-> Arr(SelectSeq(Kind(widgets, "textParagraph", TextOf), Truthy)),
        fields |-> Arr(FlattenSeq(Mapped(widgets, fields_of))), buttons |-> Arr(buttons),
        images |-> OrNone(Kind(widgets, "image", summarize_image_widget)),
        dividers |-> IF dividers > 0 THEN Num(dividers) ELSE Null,
        grids |-> OrNone(Kind(widgets, "grid", summarize_grid)),
        columns |-> OrNone(Kind(widgets, "columns", summarize_columns)),
        carousels |-> OrNone(Kind(widgets, "carousel", summarize_carousel)),
        dateTimePickers |-> OrNone(Kind(widgets, "dateTimePicker", summarize_date_time_picker)),
        chips |-> OrNone(FlattenSeq(Kind(widgets, "chipList", ChipsOf)))])

summarize_section(section) ==
  summarize_widgets(asString(Get(section, "header")), asArray(Get(section, "widgets")))

summarize_cards(cardsV2) ==
  LET Card(entry) ==
        LET header == Get(Get(entry, "card"), "header")
        IN [cardId |-> asString(Get(entry, "cardId")), title |-> asString(Get(header, "title")),
            subtitle |-> asString(Get(header, "subtitle")),
            sections |-> Mapped(sections_of(Get(entry, "card")), summarize_section)]
  IN Mapped(asArray(cardsV2), Card)

-----------------------------------------------------------------------------
(* A click: what it says, the state it carries, where it goes.             *)
normalize_actor(user) ==
  LET name == asString(Get(user, "name"))
  IN IF ~Truthy(name) THEN Null
     ELSE Rec([name |-> name, displayName |-> asString(Get(user, "displayName")),
               type |-> asString(Get(user, "type"))])

parse_action_type(raw, common) ==
  IF Get(raw, "dialogEventType") = Str("SUBMIT_DIALOG") THEN "dialog_submit"
  ELSE IF Get(common, "eventType") \in {Str("WIDGET_UPDATE"), Str("WIDGET_UPDATED")}
    THEN "widget_update"
  ELSE "card_click"

\* Those of common count where both have a key.
parse_parameters(raw, common) ==
  LET given == Get(common, "parameters")
      keys == IF IsRec(given) THEN {key \in DOMAIN given.f : Given(given.f[key])} ELSE {}
  IN [key \in keys |-> StringOf(given.f[key])]
       @@ parameters_object_from_array(Get(Get(raw, "action"), "parameters"))

FormInput(kind, values) ==
  [kind |-> kind, values |-> values, value |-> IF values # << >> THEN values[1] ELSE Null]

\* str(input.get("msSinceEpoch", "")).
epoch_input(kind, input) ==
  LET at == Get(input, "msSinceEpoch")
  IN FormInput(kind, Optional(at # Absent /\ ~EmptyString(at), StringOf(at)))

\* int(v), where there is one; the default is 0.
as_whole(v) == CASE v = Absent -> 0
                 [] v.t = "bool" -> IF v.b THEN 1 ELSE 0
                 [] "n" \in DOMAIN v -> v.n
                 [] OTHER -> -1

parse_time_input(input) ==
  LET hours == as_whole(Get(input, "hours"))
      minutes == as_whole(Get(input, "minutes"))
  IN IF hours < 0 \/ minutes < 0 THEN Raised
     ELSE FormInput("time", <<Line(<<Num(hours), Num(minutes)>>)>>)

parse_form_input(raw) ==
  LET values == Mapped(asArray(Get(Get(raw, "stringInputs"), "value")), StringOf)
      Of(key) == Get(raw, key)
  IN IF values # << >> THEN FormInput("string", values)
     ELSE IF Filled(Of("dateInput")) THEN epoch_input("date", Of("dateInput"))
     ELSE IF Filled(Of("timeInput")) THEN parse_time_input(Of("timeInput"))
     ELSE IF Filled(Of("dateTimeInput")) THEN epoch_input("date_time", Of("dateTimeInput"))
     ELSE FormInput("unknown", << >>)

parse_form_inputs(inputs) ==
  IF IsRec(inputs) THEN [key \in DOMAIN inputs.f |-> parse_form_input(inputs.f[key])] ELSE << >>

summarize_card_action(raw) ==
  LET common == asRecord(Get(raw, "common"))
      formInputs == parse_form_inputs(Get(common, "formInputs"))
  IN IF ~Filled(raw) \/ AnyOf(formInputs, Raised) THEN Raised
     ELSE [actionType |-> parse_action_type(raw, common),
           methodName |-> asString(Get(common, "invokedFunction"))
                            || (asString(Get(common, "triggeredFunction"))
                                  || asString(Get(Get(raw, "action"), "actionMethodName"))),
           parameters |-> parse_parameters(raw, common),
           formInputs |-> formInputs,
           actor |-> normalize_actor(Get(raw, "user")),
           eventTime |-> asString(Get(raw, "eventTime"))]

\* The key that says in a note which choice a click was.
button_choice(summary) ==
  LET chosen == SelectSeq(<<"decision", "choice", "button", "action">>,
                          LAMBDA key : /\ key \in DOMAIN summary.parameters
                                       /\ Truthy(summary.parameters[key]))
  IN IF summary.actionType = "card_click" /\ chosen # << >> THEN chosen[1] ELSE "none"

StateParameter == "__googleChatAiState"

encode_card_action_state(state) == Encoded(state)

\* What begins with v1. and decodes; anything else is refused.
decode_card_action_state(encoded) == IF "json" \in DOMAIN encoded THEN encoded.json ELSE Raised

with_card_action_state(action, state) ==
  LET given == Get(action, "parameters")
      parameters == StateParameter :> encode_card_action_state(state)
                      @@ (IF IsRec(given) THEN given.f ELSE << >>)
  IN Rec("parameters" :> Rec(parameters) @@ action.f)

read_card_action_state(summary) ==
  IF StateParameter \in DOMAIN summary.parameters
  THEN decode_card_action_state(summary.parameters[StateParameter]) ELSE Null

RouteKey == [card_click |-> "cardClick", dialog_submit |-> "dialogSubmit",
             dialog_cancel |-> "dialogCancel", widget_update |-> "widgetUpdate"]

\* handlers: the methods and the types there is one for, and whether for unknown ones.
route_card_action(summary, handlers) ==
  LET type == RouteKey[summary.actionType]
  IN IF Truthy(summary.methodName) /\ summary.methodName \in handlers.methods
     THEN <<"method", summary.methodName>>
     ELSE IF type \in handlers.types THEN <<type>>
     ELSE IF handlers.unknown THEN <<"unknown">> ELSE << >>
=============================================================================
