---------------------------- MODULE PyEventEnvelope ----------------------------
(***************************************************************************)
(* normalize_event of packages/python/.../events.py with normalize_message *)
(* of message_ast/__init__.py and normalize_action of actions/__init__.py, *)
(* the twin of EventEnvelope, translated from the Python by itself: a text *)
(* is indexed by its characters, "or" passes over whatever is empty, and a *)
(* mapping without keys is as good as none.  What is abstracted is what    *)
(* EventEnvelope abstracts.                                                *)
(***************************************************************************)
EXTENDS JsonValues, SequencesExt

CONSTANTS
  UserNames, SpaceNames, \* strings that begin with users/, with spaces/
  CodePointOrder,        \* the keys of parameters and forms, as sorted() has them
  LastDatetime           \* the last time that datetime.fromtimestamp takes

-----------------------------------------------------------------------------
(* normalize_message.                                                      *)

\* get on a mapping, or on nothing.
At(v, key) == IF PyTruthy(asRecord(v)) THEN Get(v, key) ELSE Null

text_of(v) == IF v.t # "str" THEN << >> ELSE v.chars

label_of(v) == IF EmptyString(v) THEN << >> ELSE <<v.s>>

None(v) == ~Given(v)

normalize_identity(value) ==
  LET anonymous == At(value, "isAnonymous") = Bool(TRUE) \/ At(value, "type") = Str("ANONYMOUS")
      shown(key) == IF anonymous THEN Null ELSE asString(At(value, key))
      resource_name == asString(At(value, "name"))
      has_human_readable == ~None(shown("displayName")) \/ ~None(shown("email"))
  IN IF ~PyTruthy(asRecord(value)) THEN Null
     ELSE Rec([displayName |-> shown("displayName"), email |-> shown("email"),
               resourceName |-> resource_name, type |-> asString(At(value, "type")),
               accessState |->
                 Str(IF anonymous THEN "anonymous"
                     ELSE IF PyTruthy(resource_name) /\ has_human_readable THEN "available"
                     ELSE IF PyTruthy(resource_name) THEN "resource_only"
                     ELSE IF has_human_readable THEN "partial" ELSE "unknown"),
               ambiguityState |->
                 Str(IF PyTruthy(resource_name)
                     THEN IF has_human_readable THEN "unambiguous" ELSE "unresolved"
                     ELSE IF has_human_readable THEN "ambiguous" ELSE "unresolved")])

normalize_message_space(value) ==
  LET name == asString(At(value, "name"))
  IN IF PyTruthy(name) THEN Rec([name |-> name, type |-> asString(At(value, "type"))]) ELSE Null

normalize_message_thread(value) ==
  LET name == asString(At(value, "name"))
  IN IF PyTruthy(name) THEN Rec([name |-> name]) ELSE Null

-----------------------------------------------------------------------------
(* Annotations and segments.                                               *)
valid_range(text, start_index, length) ==
  /\ ~None(start_index) /\ ~None(length)
  /\ start_index.n >= 0 /\ length.n >= 0 /\ start_index.n + length.n <= Len(text)

normalize_slash_command(raw) ==
  IF ~PyTruthy(asRecord(raw)) THEN Null
  ELSE Rec([commandName |-> asString(At(raw, "commandName")),
            commandId |-> asString(At(raw, "commandId")),
            bot |-> normalize_identity(At(raw, "bot"))])

normalize_custom_emoji(raw) ==
  IF ~PyTruthy(asRecord(raw)) THEN Null
  ELSE Rec([name |-> asString(At(raw, "name")), emojiName |-> asString(At(raw, "emojiName"))])

normalize_chat_space_link_data(raw) ==
  LET keys == {k \in {"space", "thread", "message", "spaceDisplayName"} :
                 PyTruthy(asString(At(raw, k)))}
  IN IF keys = {} THEN Null ELSE Rec([k \in keys |-> At(raw, k)])

rich_link_title(metadata) ==
  asString(At(metadata, "title"))
    || asString(At(At(metadata, "driveLinkData"), "title"))
    || asString(At(At(metadata, "chatSpaceLinkData"), "spaceDisplayName"))

normalize_annotation(text, raw) ==
  LET raw_type == At(raw, "type").s
      start_index == asNumber(At(raw, "startIndex"))
      length == asNumber(At(raw, "length"))
      source_text == IF valid_range(text, start_index, length)
                     THEN SubSeq(text, start_index.n + 1, start_index.n + length.n) ELSE << >>
      user == normalize_identity(At(At(raw, "userMention"), "user"))
      user_label == At(user, "displayName") || At(user, "email") || At(user, "resourceName")
      command == normalize_slash_command(At(raw, "slashCommand"))
      command_label == At(command, "commandName") || At(command, "commandId")
      emoji == normalize_custom_emoji(At(At(raw, "customEmojiMetadata"), "customEmoji"))
      metadata == At(raw, "richLinkMetadata")
      or_source(label) == IF PyTruthy(label) THEN label_of(label) ELSE source_text
      is(kind, about, render_text) ==
        [kind |-> kind, startIndex |-> start_index, length |-> length, text |-> source_text,
         about |-> about, renderText |-> render_text]
  IN CASE raw_type = "USER_MENTION" -> is("userMention", user, <<"@">> \o or_source(user_label))
       [] raw_type = "SLASH_COMMAND" -> is("slashCommand", command, or_source(command_label))
       [] raw_type = "CUSTOM_EMOJI" -> is("customEmoji", emoji, or_source(At(emoji, "emojiName")))
       [] raw_type = "RICH_LINK" ->
            is("richLink",
               Rec([url |-> asString(At(metadata, "uri")), title |-> rich_link_title(metadata),
                    chatSpaceLinkData |->
                      normalize_chat_space_link_data(At(metadata, "chatSpaceLinkData"))]),
               source_text)
       [] OTHER -> is("unknown", Str(raw_type), source_text)

normalize_annotations(text, annotations) ==
  LET typed == SelectSeq(asArray(annotations),
                         LAMBDA item : PyTruthy(asString(At(item, "type"))))
  IN [i \in DOMAIN typed |-> normalize_annotation(text, typed[i])]

start_of(item) == IF None(item.startIndex) THEN 9999 ELSE item.startIndex.n

length_of(item) == IF None(item.length) THEN 0 ELSE item.length.n

sort_annotations(annotations) ==
  StableSort(annotations,
             LAMBDA left, right :
               \/ start_of(left) < start_of(right)
               \/ start_of(left) = start_of(right) /\ length_of(left) < length_of(right))

text_segment(text, start, end) ==
  IF end <= start THEN << >>
  ELSE <<[kind |-> "text", startIndex |-> start, length |-> end - start,
          text |-> SubSeq(text, start + 1, end), annotationIndex |-> -1]>>

build_segments(text, annotations) ==
  LET sorted == sort_annotations(annotations)
      add(found, i) ==
        LET annotation == sorted[i]
            start == annotation.startIndex.n
            shown == IF annotation.renderText # << >> THEN annotation.renderText
                     ELSE annotation.text
        IN IF /\ valid_range(text, annotation.startIndex, annotation.length)
              /\ start >= found.cursor
           THEN [segments |->
                   found.segments \o text_segment(text, found.cursor, start)
                     \o <<[kind |-> annotation.kind, startIndex |-> start,
                           length |-> annotation.length.n, text |-> shown,
                           annotationIndex |-> i - 1]>>,
                 cursor |-> start + annotation.length.n]
           ELSE found
      all == FoldLeft(add, [segments |-> << >>, cursor |-> 0], [i \in DOMAIN sorted |-> i])
  IN all.segments \o text_segment(text, all.cursor, Len(text))

render_segments(text, segments) ==
  IF segments = << >> THEN text
  ELSE FlattenSeq([i \in DOMAIN segments |-> segments[i].text])

-----------------------------------------------------------------------------
(* Links, attachments, cards, reactions.                                   *)
find(text, url) ==
  LET found == {i \in DOMAIN text : text[i] = url.s}
  IN IF found = {} THEN Null ELSE Num((CHOOSE i \in found : \A j \in found : i <= j) - 1)

normalize_links(raw, text, annotations) ==
  LET matched == asString(At(At(raw, "matchedUrl"), "url"))
      rich == SelectSeq(annotations, LAMBDA annotation : annotation.kind = "richLink")
      links ==
        (IF PyTruthy(matched)
         THEN <<[kind |-> "matchedUrl", startIndex |-> find(text, matched), about |-> matched]>>
         ELSE << >>)
        \o [i \in DOMAIN rich |->
              [kind |-> "richLink", startIndex |-> rich[i].startIndex, about |-> rich[i].about]]
  IN StableSort(links, LAMBDA left, right : start_of(left) < start_of(right))

names_of(items, key) ==
  LET named == SelectSeq(items, LAMBDA item : PyTruthy(asString(At(item, key))))
  IN [i \in DOMAIN named |-> At(named[i], key)]

normalize_attachments(raw) ==
  names_of(asArray(At(raw, "attachment")) \o asArray(At(raw, "attachments")), "name")

normalize_attached_gifs(raw) == names_of(asArray(At(raw, "attachedGifs")), "uri")

normalize_cards(raw) ==
  LET cards == SelectSeq(asArray(At(raw, "cardsV2")), LAMBDA item : PyTruthy(asRecord(item)))
  IN [i \in DOMAIN cards |-> <<asString(At(cards[i], "cardId")),
                               asString(At(At(At(cards[i], "card"), "header"), "title"))>>]

normalize_emoji(value) ==
  LET custom == normalize_custom_emoji(At(value, "customEmoji"))
      unicode == asString(At(value, "unicode"))
  IN [type |-> IF PyTruthy(unicode) THEN "unicode" ELSE IF PyTruthy(custom) THEN "custom" ELSE "none",
      label |-> unicode || At(custom, "emojiName") || At(custom, "name") || Str("unknown emoji")]

normalize_reactions(raw) ==
  LET reactions == SelectSeq(asArray(At(raw, "emojiReactionSummaries")),
                             LAMBDA item : PyTruthy(asRecord(item)))
  IN [i \in DOMAIN reactions |->
        <<normalize_emoji(At(reactions[i], "emoji")),
          asNumber(At(reactions[i], "reactionCount")) || Num(0)>>]

top_level_slash_command(raw, annotations) ==
  LET top_level == asRecord(At(raw, "slashCommand"))
      commands == SelectSeq(annotations, LAMBDA annotation : annotation.kind = "slashCommand")
      annotated == IF commands = << >> THEN Null ELSE commands[1].about
  IN IF ~PyTruthy(top_level) /\ ~PyTruthy(annotated) THEN Null
     ELSE Rec([commandName |-> asString(At(annotated, "commandName")),
               commandId |-> asString(At(top_level, "commandId"))
                               || asString(At(annotated, "commandId")),
               bot |-> At(annotated, "bot")])

-----------------------------------------------------------------------------
(* System notes.                                                           *)
identity_label(identity) ==
  IF None(identity) THEN <<"Unknown sender">>
  ELSE <<At(identity, "displayName") || At(identity, "email") || At(identity, "resourceName")
           || Str("Unknown sender"),
         At(identity, "email"), At(identity, "type"), At(identity, "resourceName")>>

when(condition, note) == IF condition THEN <<note>> ELSE << >>

base_message_system_notes(raw, relationship, message) ==
  when(TRUE, <<"message", relationship, At(raw, "name"), identity_label(message.sender),
               message.createdAt || Str("unknown time"),
               IF PyTruthy(message.updatedAt) /\ message.updatedAt # message.createdAt
               THEN message.updatedAt ELSE Null>>)
  \o when(message.deleted,
          <<"deleted", message.deletedAt || Str("an unknown time"),
            asString(At(At(raw, "deletionMetadata"), "deletionType"))>>)
  \o when(message.threadReply /\ PyTruthy(message.thread),
          <<"thread reply", At(message.thread, "name")>>)
  \o when(PyTruthy(message.viewer), <<"private", identity_label(message.viewer)>>)
  \o when(message.directMessage, <<"direct">>)

metadata_system_notes(slash_command, links, custom_emojis, reactions) ==
  LET label == At(slash_command, "commandName") || At(slash_command, "commandId")
                 || Str("unknown")
  IN when(PyTruthy(slash_command),
          <<"slash command", label, At(slash_command, "commandId"), At(slash_command, "bot")>>)
     \o [i \in DOMAIN links |-> <<links[i].kind, links[i].about>>]
     \o [i \in DOMAIN custom_emojis |->
           <<"custom emoji", custom_emojis[i].renderText,
             asString(At(custom_emojis[i].about, "name"))>>]
     \o [i \in DOMAIN reactions |-> <<"reactions", reactions[i][1].label, reactions[i][2]>>]

-----------------------------------------------------------------------------
(* The message and, below it, what it attaches and quotes.                 *)
leaf(kind, about) == [kind |-> kind, about |-> about, accessState |-> "metadata_only"]

inaccessible_quote_node(metadata) ==
  IF ~PyTruthy(asString(At(metadata, "name"))) THEN << >>
  ELSE <<[kind |-> "quoted_message", about |-> At(metadata, "name"),
          accessState |-> "inaccessible", updatedAt |-> asString(At(metadata, "lastUpdateTime"))]>>

quoted_snapshot_message(metadata) ==
  LET snapshot == At(metadata, "quotedMessageSnapshot")
      sender == asString(At(snapshot, "sender"))
  IN IF ~PyTruthy(asRecord(snapshot)) THEN Null
     ELSE Rec([name |-> asString(At(metadata, "name")),
               createTime |-> asString(At(metadata, "lastUpdateTime")),
               sender |-> IF PyTruthy(sender)
                          THEN Rec([name |-> sender, displayName |-> sender,
                                    type |-> Str("UNKNOWN")])
                          ELSE Null,
               text |-> asString(At(snapshot, "text")),
               annotations |-> Arr(asArray(At(snapshot, "annotations"))),
               attachment |-> Arr(asArray(At(snapshot, "attachments")))])

raised == [thrown |-> TRUE]

is_raised(message) == "thrown" \in DOMAIN message

RECURSIVE build_message_ast(_, _)

quote_node(raw) ==
  LET metadata == asRecord(At(raw, "quotedMessageMetadata"))
      quoted_message == asRecord(At(metadata, "message"))
                          || asRecord(At(metadata, "quotedMessage"))
                          || quoted_snapshot_message(metadata)
      quoted == build_message_ast(quoted_message, "quoted_message")
  IN IF ~PyTruthy(metadata) THEN << >>
     ELSE IF ~PyTruthy(quoted_message) THEN inaccessible_quote_node(metadata)
     ELSE IF is_raised(quoted) THEN <<raised>> ELSE <<quoted.contextNode>>

build_context_children(raw) ==
  LET attachments == normalize_attachments(raw)
      gifs == normalize_attached_gifs(raw)
      cards == normalize_cards(raw)
  IN [i \in DOMAIN attachments |-> leaf("attachment", attachments[i])]
     \o [i \in DOMAIN gifs |-> leaf("gif", gifs[i])]
     \o [i \in DOMAIN cards |-> leaf("card", cards[i])]
     \o quote_node(raw)

message_ast(raw, relationship, text, annotations, segments, links, children) ==
  LET slash_command == top_level_slash_command(raw, annotations)
      thread == normalize_message_thread(At(raw, "thread"))
      space == normalize_message_space(At(raw, "space"))
      deleted_at == asString(At(raw, "deleteTime"))
      thread_reply == asBoolean(At(raw, "threadReply"))
      parts ==
        [sender |-> normalize_identity(At(raw, "sender")),
         createdAt |-> asString(At(raw, "createTime")),
         updatedAt |-> asString(At(raw, "lastUpdateTime")), deletedAt |-> deleted_at,
         deleted |-> ~None(deleted_at) \/ "deletionMetadata" \in DOMAIN raw.f,
         thread |-> thread,
         threadReply |-> IF None(thread_reply) THEN ~None(thread) ELSE thread_reply.b,
         viewer |-> normalize_identity(At(raw, "privateMessageViewer")),
         directMessage |-> At(space, "type") = Str("DM")]
  IN IF ~PyTruthy(asString(At(raw, "name"))) \/ AnyOf(children, raised) THEN raised
     ELSE [name |-> At(raw, "name"), space |-> space, text |-> text,
           annotations |-> annotations, segments |-> segments, links |-> links,
           slashCommand |-> slash_command, reactions |-> normalize_reactions(raw),
           parts |-> parts,
           contextNode |->
             [kind |-> relationship, about |-> At(raw, "name"),
              accessState |-> IF parts.deleted THEN "deleted" ELSE "available",
              text |-> IF parts.deleted THEN << >> ELSE render_segments(text, segments),
              systemNotes |->
                base_message_system_notes(raw, relationship, parts)
                  \o metadata_system_notes(
                       slash_command, links,
                       SelectSeq(annotations, LAMBDA annotation : annotation.kind = "customEmoji"),
                       normalize_reactions(raw)),
              children |-> children]]

build_message_ast(raw, relationship) ==
  LET of(text, annotations) ==
        message_ast(raw, relationship, text, annotations, build_segments(text, annotations),
                    normalize_links(raw, text, annotations), build_context_children(raw))
      of_text(text) == of(text, normalize_annotations(text, At(raw, "annotations")))
  IN of_text(text_of(At(raw, "text")))

-----------------------------------------------------------------------------
workspace_kind ==
  "google.workspace.chat.message.v1.created" :> "message.created"
  @@ "google.workspace.chat.message.v1.updated" :> "message.updated"
  @@ "google.workspace.chat.message.v1.deleted" :> "message.deleted"
  @@ "google.workspace.chat.reaction.v1.created" :> "reaction.created"
  @@ "google.workspace.chat.reaction.v1.deleted" :> "reaction.deleted"
  @@ "google.workspace.chat.membership.v1.created" :> "membership.created"
  @@ "google.workspace.chat.membership.v1.updated" :> "membership.updated"
  @@ "google.workspace.chat.membership.v1.deleted" :> "membership.deleted"
  @@ "google.workspace.chat.space.v1.updated" :> "space.updated"
  @@ "google.workspace.chat.space.v1.deleted" :> "space.deleted"

interaction_kind ==
  [APP_COMMAND |-> "message.app_command", ADDED_TO_SPACE |-> "space.added",
   REMOVED_FROM_SPACE |-> "space.removed", CARD_CLICKED |-> "card.clicked",
   WIDGET_UPDATED |-> "widget.updated"]

\* What begins with google.workspace.chat.
is_workspace_event_type(v) ==
  v.t = "str" /\ v.s \in DOMAIN workspace_kind \cup {"google.workspace.chat.other"}

-----------------------------------------------------------------------------
(* normalize_action.                                                       *)
input_source(raw) == asRecord(At(raw, "common")) || asRecord(At(raw, "commonEventObject"))

dialog_event_type_of(raw, common) ==
  asString(At(raw, "dialogEventType")) || asString(At(common, "dialogEventType"))

action_type_for(raw, common, slash_command) ==
  LET raw_kind == asString(At(raw, "type"))
      dialog == dialog_event_type_of(raw, common)
      query == At(At(common, "parameters"), "autocomplete_widget_query")
      kind(s) == raw_kind = Str(s)
  IN IF dialog = Str("SUBMIT_DIALOG") \/ kind("SUBMIT_DIALOG") THEN "dialog_submit"
     ELSE IF dialog \in {Str("CANCEL_DIALOG"), Str("CANCELLED_DIALOG")} \/ kind("CANCEL_DIALOG")
       THEN "dialog_cancel"
     ELSE IF kind("APP_COMMAND") THEN "app_command"
     ELSE IF kind("MESSAGE") /\ PyTruthy(slash_command) THEN "slash_command"
     ELSE IF \/ kind("WIDGET_UPDATE") \/ kind("WIDGET_UPDATED")
             \/ kind("CARD_CLICKED") /\ query.t = "str"
       THEN "widget_update"
     ELSE IF kind("CARD_CLICKED") THEN "card_click" ELSE "none"

as_string_like(v) == IF v.t \in {"str", "num", "bool"} THEN v ELSE Null

method_name_for(action_type, action, common, slash_command, app_command_metadata) ==
  asString(At(common, "invokedFunction"))
    || asString(At(action, "actionMethodName"))
    || asString(At(action, "function"))
    || asString(At(slash_command, "commandName"))
    || asString(At(app_command_metadata, "appCommandName"))
    || (IF action_type = "app_command"
        THEN as_string_like(At(app_command_metadata, "appCommandId")) ELSE Null)

(* What has been parsed: values by name, and the errors met.               *)
parsed(values, errors) == [values |-> values, errors |-> errors]

parse_action_parameters(action) ==
  LET add(found, item) ==
        LET key == asString(At(item, "key"))
            value == asString(At(item, "value"))
        IN IF ~PyTruthy(key)
           THEN [found EXCEPT !.errors = @ \cup {<<"parameters", "invalid_parameter">>}]
           ELSE IF None(value)
           THEN [found EXCEPT !.errors = @ \cup {<<key.s, "invalid_parameter">>}]
           ELSE [found EXCEPT !.values = key.s :> value @@ @]
  IN FoldLeft(add, parsed(<< >>, {}), asArray(At(action, "parameters")))

parse_common_parameters(common) ==
  LET raw == asRecord(At(common, "parameters"))
      keys == IF PyTruthy(raw) THEN DOMAIN raw.f ELSE {}
      valid == {k \in keys : raw.f[k].t = "str"}
  IN parsed([k \in valid |-> raw.f[k]], {<<k, "invalid_parameter">> : k \in keys \ valid})

parse_slash_command_parameters(slash_command, message) ==
  LET all == [commandId |-> as_string_like(At(slash_command, "commandId")),
              commandName |-> asString(At(slash_command, "commandName")),
              argumentText |-> asString(At(message, "argumentText"))]
  IN IF ~PyTruthy(slash_command) THEN << >>
     ELSE [k \in {k \in DOMAIN all : ~None(all[k])} |-> all[k]]

parse_app_command_parameters(app_command_metadata) ==
  LET all == [appCommandId |-> as_string_like(At(app_command_metadata, "appCommandId")),
              appCommandType |-> asString(At(app_command_metadata, "appCommandType")),
              appCommandName |-> asString(At(app_command_metadata, "appCommandName"))]
  IN [k \in {k \in DOMAIN all : ~None(all[k])} |-> all[k]]

(* One field of a form: its kind, value and error ("" for none).           *)
field(kind, value, error) == [kind |-> kind, value |-> value, error |-> error]

parse_boolean(value) ==
  IF value.s \in {"true", "on", "checked", "1"} THEN Bool(TRUE)
  ELSE IF value.s \in {"false", "off", "unchecked", "0"} THEN Bool(FALSE) ELSE Null

parse_string_input(raw_input) ==
  LET raw_values == At(At(raw_input, "stringInputs"), "value")
      values == asArray(raw_values)
      all_in(names) == values # << >> /\ \A i \in DOMAIN values : values[i].s \in names
  IN IF raw_values.t # "arr" \/ \E i \in DOMAIN values : values[i].t # "str"
     THEN field("string", Null, "invalid_string_values")
     ELSE IF all_in(UserNames) THEN field("user_picker", raw_values, "")
     ELSE IF all_in(SpaceNames) THEN field("space_picker", raw_values, "")
     ELSE IF Len(values) # 1 THEN field("multi_select", raw_values, "")
     ELSE IF ~None(parse_boolean(values[1])) THEN field("boolean", parse_boolean(values[1]), "")
     ELSE field("string", values[1], "")

(* What float() takes: a number, what spells one - and "inf".              *)
is_valid_epoch(v) == v.t \in {"num", "str"} /\ ("n" \in DOMAIN v \/ v = Str("inf"))

(* fromtimestamp raises beyond the last year and for what is not finite.   *)
parse_date_input(kind, raw_input, error) ==
  LET at == At(raw_input, "msSinceEpoch")
  IN IF ~is_valid_epoch(at) THEN field(kind, Null, error)
     ELSE IF at = Str("inf") THEN raised
     ELSE IF at.n > LastDatetime THEN raised
     ELSE field(kind, Num(at.n), "")

(* A bool is an int.                                                       *)
int_of(v) == CASE v.t = "num" -> v.n [] v = Bool(TRUE) -> 1 [] v = Bool(FALSE) -> 0 [] OTHER -> -1

parse_time_input(raw_input) ==
  LET hours == int_of(At(raw_input, "hours"))
      minutes == int_of(At(raw_input, "minutes"))
  IN IF hours \in 0..23 /\ minutes \in 0..59
     THEN field("time", <<Num(hours), Num(minutes)>>, "")
     ELSE field("time", Null, "invalid_time")

parse_form_input(raw_input) ==
  LET has(key) == PyTruthy(asRecord(At(raw_input, key)))
  IN IF has("stringInputs") THEN parse_string_input(raw_input)
     ELSE IF has("dateInput")
       THEN parse_date_input("date", At(raw_input, "dateInput"), "invalid_date")
     ELSE IF has("timeInput") THEN parse_time_input(At(raw_input, "timeInput"))
     ELSE IF has("dateTimeInput")
       THEN parse_date_input("date_time", At(raw_input, "dateTimeInput"), "invalid_date_time")
     ELSE field("unknown", Null, "unsupported_form_input")

parse_form_inputs(common) ==
  LET raw == asRecord(At(common, "formInputs"))
  IN IF PyTruthy(raw) THEN [f \in DOMAIN raw.f |-> parse_form_input(raw.f[f])] ELSE << >>

normalize_action_user(value) ==
  LET anonymous == At(value, "isAnonymous") = Bool(TRUE) \/ At(value, "type") = Str("ANONYMOUS")
  IN IF ~PyTruthy(asString(At(value, "name"))) THEN Null
     ELSE Rec([name |-> At(value, "name"),
               displayName |-> IF anonymous THEN Null ELSE asString(At(value, "displayName"))])

selected_from(form_inputs, kind) ==
  UNION {Range(form_inputs[f].value.a) :
           f \in {f \in DOMAIN form_inputs : form_inputs[f].kind = kind}}

render_action_system_notes(action_type, method_name, parameters, form_inputs) ==
  <<action_type, method_name || Str("unknown"),
    SelectSeq(CodePointOrder, LAMBDA key : key \in DOMAIN parameters),
    SelectSeq(CodePointOrder, LAMBDA key : key \in DOMAIN form_inputs)>>

no_action == [actionType |-> "none"]

action_of(raw, source, action, common, message, from_action, from_common, form_inputs) ==
  LET slash_command == asRecord(At(message, "slashCommand"))
      app_command_metadata == asRecord(At(raw, "appCommandMetadata"))
      action_type == action_type_for(raw, common, slash_command)
      method_name ==
        method_name_for(action_type, action, common, slash_command, app_command_metadata)
      parameters == parse_app_command_parameters(app_command_metadata)
                      @@ parse_slash_command_parameters(slash_command, message)
                      @@ from_common.values @@ from_action.values
      event_time == asString(At(raw, "eventTime"))
  IN IF action_type = "none" THEN no_action
     ELSE IF AnyOf(form_inputs, raised) THEN raised
     ELSE [actionId |-> <<source, action_type, method_name || Str("unknown"),
                          asString(At(message, "name")) || Str("no-message"),
                          event_time || Str("no-time")>>,
           actionType |-> action_type, methodName |-> method_name,
           actor |-> normalize_action_user(At(raw, "user") || At(message, "sender")),
           parameters |-> parameters, formInputs |-> form_inputs,
           selectedUsers |-> selected_from(form_inputs, "user_picker"),
           selectedSpaces |-> selected_from(form_inputs, "space_picker"),
           validationErrors |->
             from_action.errors \cup from_common.errors
               \cup {<<f, form_inputs[f].error>> :
                       f \in {f \in DOMAIN form_inputs : form_inputs[f].error # ""}},
           dialogEventType |-> dialog_event_type_of(raw, common),
           systemNotes |->
             render_action_system_notes(action_type, method_name, parameters, form_inputs)]

normalize_action(raw, source) ==
  LET of(action, common) ==
        action_of(raw, source, action, common, asRecord(At(raw, "message")),
                  parse_action_parameters(action), parse_common_parameters(common),
                  parse_form_inputs(common))
  IN of(asRecord(At(raw, "action")), input_source(raw))

-----------------------------------------------------------------------------
(* normalize_event.                                                        *)
workspace_event(type, time, data) ==
  Rec([k \in {"message", "reaction", "membership", "space", "user"} |-> At(data, k)]
      @@ "type" :> type @@ "eventTime" :> time)

default_transport(kind) ==
  [kind |-> kind, messageId |-> Null, publishTime |-> Null, eventId |-> Null,
   eventType |-> Null]

unwrap_event(raw) ==
  LET pubsub_message == asRecord(At(raw, "message"))
      data == asString(At(pubsub_message, "data"))
      attributes == At(pubsub_message, "attributes")
      type == asString(At(attributes, "ce-type"))
      decoded == IF "json" \in DOMAIN data THEN asRecord(data.json) || Rec(<< >>) ELSE Rec(<< >>)
      publish_time == asString(At(pubsub_message, "publishTime"))
      pushed(kind) == [default_transport(kind) EXCEPT
                         !.publishTime = publish_time,
                         !.messageId = asString(At(pubsub_message, "messageId"))]
  IN IF PyTruthy(data) /\ is_workspace_event_type(type)
     THEN [event |-> workspace_event(type, asString(At(attributes, "ce-time")) || publish_time,
                                     decoded),
           source |-> "workspace_events",
           transport |-> [pushed("workspace_events") EXCEPT
                            !.eventType = type, !.eventId = asString(At(attributes, "ce-id"))]]
     ELSE IF PyTruthy(data) THEN [event |-> decoded, source |-> "pubsub", transport |-> pushed("pubsub")]
     ELSE IF /\ is_workspace_event_type(asString(At(raw, "type")))
             /\ PyTruthy(asRecord(At(raw, "data")))
     THEN [event |-> workspace_event(At(raw, "type"), At(raw, "time"), At(raw, "data")),
           source |-> "workspace_events",
           transport |-> [default_transport("workspace_events") EXCEPT
                            !.eventId = asString(At(raw, "id")), !.eventType = At(raw, "type")]]
     ELSE [event |-> raw, source |-> "chat_http", transport |-> default_transport("direct")]

normalize_user(raw) ==
  LET name == asString(At(raw, "name")) || asString(At(raw, "resourceName"))
      anonymous == At(raw, "isAnonymous") = Bool(TRUE) \/ At(raw, "type") = Str("ANONYMOUS")
      shown(v) == IF anonymous THEN Null ELSE v
      display_name == shown(asString(At(raw, "displayName")))
      email == shown(asString(At(raw, "email")) || asString(At(raw, "emailAddress")))
      user_type == asString(At(raw, "type"))
      state == asString(At(raw, "accessState"))
      access == IF anonymous \/ state = Str("anonymous") THEN "anonymous_user"
                ELSE IF state \in {Str("resource_only"), Str("unknown")}
                  THEN "display_name_or_email_unavailable"
                ELSE IF PyTruthy(display_name) \/ PyTruthy(email) THEN "available"
                ELSE "display_name_or_email_unavailable"
  IN IF ~PyTruthy(name) THEN Null
     ELSE Rec([name |-> name, displayName |-> display_name, email |-> email, type |-> user_type,
               isApp |-> Bool(\/ user_type \in {Str("BOT"), Str("APP")}
                              \/ At(raw, "isBot") = Bool(TRUE)),
               access |-> Str(access)])

normalize_space(raw) ==
  IF ~PyTruthy(asString(At(raw, "name"))) THEN Null
  ELSE Rec([k \in {"name", "displayName", "type", "spaceType"} |-> asString(At(raw, k))])

normalize_thread(raw) ==
  IF ~PyTruthy(asString(At(raw, "name"))) THEN Null ELSE Rec([name |-> At(raw, "name")])

normalize_reaction(raw) ==
  IF ~PyTruthy(asString(At(raw, "name"))) THEN Null
  ELSE Rec([name |-> At(raw, "name"), user |-> normalize_user(At(raw, "user")),
            unicode |-> asString(At(At(raw, "emoji"), "unicode"))])

normalize_membership(raw) ==
  IF ~PyTruthy(asString(At(raw, "name"))) THEN Null
  ELSE Rec([name |-> At(raw, "name"), member |-> normalize_user(At(raw, "member"))])

normalize_dialog(event) ==
  LET event_type == asString(At(event, "dialogEventType"))
  IN IF PyTruthy(event_type) THEN event_type ELSE Null

no_message == [none |-> TRUE]

normalize_message(raw) ==
  IF PyTruthy(asString(At(raw, "name"))) THEN build_message_ast(raw, "root") ELSE no_message

has_message(message) == message # no_message

space_is_direct(space) ==
  At(space, "type") = Str("DM") \/ At(space, "spaceType") = Str("DIRECT_MESSAGE")

message_mentions_app(message) ==
  has_message(message) /\ \E i \in DOMAIN message.annotations :
    /\ message.annotations[i].kind = "userMention"
    /\ At(message.annotations[i].about, "type") \in {Str("BOT"), Str("APP")}

classify_event(raw_kind, raw_message, message, space) ==
  IF raw_kind = Str("MESSAGE")
  THEN IF PyTruthy(asRecord(At(raw_message, "slashCommand"))) THEN "message.slash_command"
       ELSE IF \/ has_message(message) /\ message.parts.directMessage
               \/ space_is_direct(space)
         THEN "message.direct"
       ELSE IF message_mentions_app(message) THEN "message.mentioned_app"
       ELSE IF has_message(message) /\ message.parts.threadReply THEN "message.thread_reply"
       ELSE "message.created"
  ELSE IF None(raw_kind) THEN "event.unknown"
  ELSE IF raw_kind.s \in DOMAIN interaction_kind THEN interaction_kind[raw_kind.s]
  ELSE IF raw_kind.s \in DOMAIN workspace_kind THEN workspace_kind[raw_kind.s]
  ELSE "event.unknown"

refine_card_kind(kind, event) ==
  LET dialog == asString(At(event, "dialogEventType"))
  IN IF kind # "card.clicked" THEN kind
     ELSE CASE dialog = Str("REQUEST_DIALOG") -> "dialog.opened"
            [] dialog = Str("SUBMIT_DIALOG") -> "dialog.submitted"
            [] dialog = Str("CANCEL_DIALOG") -> "dialog.cancelled"
            [] OTHER -> kind

resource_name_for(message, reaction, membership, space, action) ==
  IF has_message(message) THEN message.name
  ELSE IF ~None(reaction) THEN At(reaction, "name")
  ELSE IF ~None(membership) THEN At(membership, "name")
  ELSE IF ~None(space) THEN At(space, "name")
  ELSE IF action # no_action THEN Str(action.actionId) ELSE Null

event_id_for(source, raw_kind, resource_name, received_at, transport) ==
  IF source = "pubsub" /\ PyTruthy(transport.messageId) THEN <<source, transport.messageId>>
  ELSE IF source = "workspace_events" /\ PyTruthy(transport.eventId)
    THEN <<source, transport.eventId>>
  ELSE <<source, raw_kind || Str("UNKNOWN"), resource_name || Str("no-resource"), received_at>>

normalize_locale(event) ==
  asString(At(At(event, "common"), "userLocale")) || asString(At(At(event, "common"), "locale"))

normalize_time_zone(event) ==
  LET time_zone == At(At(event, "common"), "timeZone")
  IN IF PyTruthy(asRecord(time_zone)) THEN asString(At(time_zone, "id")) ELSE asString(time_zone)

auth_context_for(source) ==
  IF source = "chat_http" THEN "sync" ELSE IF source = "pubsub" THEN "async" ELSE "none"

card_kinds ==
  {"card.clicked", "dialog.opened", "dialog.submitted", "dialog.cancelled", "widget.updated"}

capabilities_for(source, kind, thread) ==
  LET is_sync == source = "chat_http"
  IN [canRespondSynchronously |-> is_sync,
      canRespondAsynchronously |-> source = "pubsub" \/ is_sync,
      canReplyInThread |-> ~None(thread),
      canOpenDialog |-> is_sync /\ kind = "card.clicked",
      canUpdateCard |-> is_sync /\ kind \in card_kinds]

membership_kinds == {"membership.created", "membership.updated", "membership.deleted"}
reaction_kinds == {"reaction.created", "reaction.deleted"}
space_kinds == {"space.added", "space.removed", "space.updated", "space.deleted"}
message_kinds ==
  {"message.created", "message.updated", "message.deleted", "message.direct",
   "message.mentioned_app", "message.thread_reply", "message.slash_command",
   "message.app_command"}

system_notes_for(kind, actor, space, action, reaction) ==
  LET who == At(actor, "displayName") || At(actor, "email") || At(actor, "name")
               || Str("Unknown actor")
      where == At(space, "displayName") || At(space, "name") || Str("an unknown space")
      method == IF action = no_action THEN Str("unknown") ELSE action.methodName || Str("unknown")
  IN CASE kind \in {"message.slash_command", "message.app_command"} -> <<who, method>>
       [] kind = "message.direct" -> <<who>>
       [] kind \in {"message.thread_reply", "message.created", "space.added", "space.removed"} ->
            <<who, where>>
       [] kind \in {"message.updated", "message.deleted"} \cup membership_kinds -> <<where>>
       [] kind \in {"card.clicked", "dialog.submitted", "widget.updated"} -> <<who, method, where>>
       [] kind \in reaction_kinds -> <<who, At(reaction, "unicode") || Str("a reaction")>>
       [] OTHER -> << >>

relationship_for(kind, message, action) ==
  LET quotes == IF has_message(message)
                THEN SelectSeq(message.contextNode.children,
                               LAMBDA child : child.kind = "quoted_message")
                ELSE << >>
  IN [isQuote |-> quotes # << >>,
      isDirectReply |-> quotes # << >> /\ PyTruthy(quotes[1].about),
      isThreadReply |-> has_message(message) /\ message.parts.threadReply,
      isCardAction |-> kind \in card_kinds, isReaction |-> kind \in reaction_kinds,
      isEdit |-> kind = "message.updated",
      isDeletion |-> kind = "message.deleted" \/ (has_message(message) /\ message.parts.deleted),
      isMembershipEvent |-> kind \in membership_kinds, isSpaceEvent |-> kind \in space_kinds,
      isUserAction |-> (action # no_action) \/ kind \in message_kinds \cup reaction_kinds]

actor_candidate_for(source, event, message, reaction, membership) ==
  LET sender == IF has_message(message) THEN message.parts.sender ELSE Null
  IN IF source = "workspace_events"
     THEN At(reaction, "user") || At(membership, "member") || sender || At(event, "user")
     ELSE At(event, "user") || sender

\* datetime.fromtimestamp(0, timezone.utc)
epoch_0 == Str("1970")

\* The event that was unwrapped, with the parts of it that are read more than once.
normalize_unwrapped(unwrapped, raw_message, message, action, reaction, membership, space) ==
  LET event == unwrapped.event
      source == unwrapped.source
      raw_kind == asString(At(event, "type"))
      thread == IF has_message(message) THEN message.parts.thread
                ELSE normalize_thread(At(event, "thread"))
      kind == IF action.actionType = "widget_update" THEN "widget.updated"
              ELSE refine_card_kind(classify_event(raw_kind, raw_message, message, space), event)
      actor == normalize_user(actor_candidate_for(source, event, message, reaction, membership))
      received_at == asString(At(event, "eventTime")) || asString(At(event, "time"))
                       || unwrapped.transport.publishTime || epoch_0
  IN IF is_raised(message) \/ is_raised(action) THEN raised
     ELSE [source |-> source, kind |-> kind, rawKind |-> raw_kind, actor |-> actor,
           actorState |-> IF ~None(actor) THEN At(actor, "access")
                          ELSE IF source = "workspace_events"
                            THEN Str("workspace_event_missing_actor")
                          ELSE Str("event_payload_missing_user"),
           receivedAt |-> received_at, dialog |-> normalize_dialog(event),
           space |-> space, thread |-> thread, message |-> message, action |-> action,
           membership |-> membership, reaction |-> reaction,
           locale |-> normalize_locale(event), timeZone |-> normalize_time_zone(event),
           responseMode |-> auth_context_for(source),
           capabilities |-> capabilities_for(source, kind, thread),
           relationship |-> relationship_for(kind, message, action),
           systemNotes |-> system_notes_for(kind, actor, space, action, reaction),
           transport |-> unwrapped.transport,
           idempotencyKey |->
             event_id_for(source, raw_kind,
                          resource_name_for(message, reaction, membership, space, action),
                          received_at, unwrapped.transport)]

normalize_parts(unwrapped, event, raw_message) ==
  normalize_unwrapped(unwrapped, raw_message, normalize_message(raw_message),
                      normalize_action(event, unwrapped.source),
                      normalize_reaction(At(event, "reaction")),
                      normalize_membership(At(event, "membership")),
                      normalize_space(At(event, "space") || At(raw_message, "space")))

normalize_event(raw) ==
  LET of_unwrapped(unwrapped) ==
        normalize_parts(unwrapped, unwrapped.event, asRecord(At(unwrapped.event, "message")))
  IN of_unwrapped(unwrap_event(raw))
=============================================================================
