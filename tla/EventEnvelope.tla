----------------------------- MODULE EventEnvelope -----------------------------
(***************************************************************************)
(* normalizeEvent of packages/node/src/events.ts with normalizeMessage of  *)
(* message-ast/index.ts and normalizeAction of actions/index.ts: from a    *)
(* payload, however it came, to the envelope the router works with -       *)
(* source, kind, idempotency key, actor, action, message and what the      *)
(* event may be answered with.                                             *)
(*                                                                         *)
(* A text is a sequence of characters, of which "astral" ones take two     *)
(* UTF-16 units.  A rendered text is a sequence of units and labels, a     *)
(* system note the tuple of what it tells; their wording is left out, and  *)
(* so are fields that are copied as they are and decide nothing (avatars,  *)
(* MIME types, URIs of images).  A time of a date picker is a number of    *)
(* some unit, of which the language can show those up to a limit.          *)
(***************************************************************************)
EXTENDS JsonValues, SequencesExt

CONSTANTS
  UserNames, SpaceNames, \* strings that begin with users/, with spaces/
  LocaleOrder,           \* the keys of parameters and forms, as localeCompare sorts them
  LastDate               \* the last time that new Date(..).toISOString() takes

-----------------------------------------------------------------------------
(* normalizeMessage: what becomes of a Chat message - its segments, links, *)
(* state, notes and the tree of what it quotes and attaches.               *)

(* What text.length counts and text.slice cuts.                            *)
UnitsOf(text) ==
  FlattenSeq([i \in DOMAIN text |->
                IF text[i] = "astral" THEN <<"high", "low">> ELSE <<text[i]>>])

(* The string of some units: a pair of them is one character again.        *)
Joined(units) ==
  FoldLeft(LAMBDA joined, unit :
             IF unit = "low" /\ joined # << >> /\ Last(joined) = "high"
             THEN Append(Front(joined), "astral") ELSE Append(joined, unit),
           << >>, units)

Slice(text, start, end) == Joined(SubSeq(text, start + 1, end))

TextOf(v) == IF v.t # "str" THEN << >> ELSE UnitsOf(v.chars)

Label(v) == IF EmptyString(v) THEN << >> ELSE <<v.s>>

normalizeIdentity(value) ==
  LET anonymous == Get(value, "isAnonymous") = Bool(TRUE) \/ Get(value, "type") = Str("ANONYMOUS")
      Shown(key) == IF anonymous THEN Null ELSE asString(Get(value, key))
      resourceName == asString(Get(value, "name"))
      hasHumanReadable == Given(Shown("displayName")) \/ Given(Shown("email"))
  IN IF ~IsRec(value) THEN Null
     ELSE Rec([displayName |-> Shown("displayName"), email |-> Shown("email"),
               resourceName |-> resourceName, type |-> asString(Get(value, "type")),
               accessState |->
                 Str(IF anonymous THEN "anonymous"
                     ELSE IF Truthy(resourceName)
                       THEN IF hasHumanReadable THEN "available" ELSE "resource_only"
                       ELSE IF hasHumanReadable THEN "partial" ELSE "unknown"),
               ambiguityState |->
                 Str(IF ~hasHumanReadable THEN "unresolved"
                     ELSE IF Truthy(resourceName) THEN "unambiguous" ELSE "ambiguous")])

normalizeMessageSpace(value) ==
  IF Truthy(asString(Get(value, "name")))
  THEN Rec([name |-> Get(value, "name"), type |-> asString(Get(value, "type"))])
  ELSE Null

normalizeMessageThread(value) ==
  IF Truthy(asString(Get(value, "name"))) THEN Rec([name |-> Get(value, "name")]) ELSE Null

-----------------------------------------------------------------------------
(* Annotations and the segments they cut the text into.                    *)
validRange(text, startIndex, length) ==
  /\ Given(startIndex) /\ Given(length)
  /\ startIndex.n >= 0 /\ length.n >= 0 /\ startIndex.n + length.n <= Len(text)

normalizeSlashCommand(raw) ==
  IF ~IsRec(raw) THEN Null
  ELSE Rec([commandName |-> asString(Get(raw, "commandName")),
            commandId |-> asString(Get(raw, "commandId")),
            bot |-> normalizeIdentity(Get(raw, "bot"))])

normalizeCustomEmoji(raw) ==
  IF ~IsRec(raw) THEN Null
  ELSE Rec([name |-> asString(Get(raw, "name")), emojiName |-> asString(Get(raw, "emojiName"))])

ChatSpaceKeys == {"space", "thread", "message", "spaceDisplayName"}

normalizeChatSpaceLinkData(raw) ==
  LET keys == {k \in ChatSpaceKeys : Truthy(asString(Get(raw, k)))}
  IN IF keys = {} THEN Null ELSE Rec([k \in keys |-> Get(raw, k)])

richLinkTitle(metadata) ==
  asString(Get(metadata, "title"))
    ?? asString(Get(Get(metadata, "driveLinkData"), "title"))
    ?? asString(Get(Get(metadata, "chatSpaceLinkData"), "spaceDisplayName"))

AnnotationKind ==
  [USER_MENTION |-> "userMention", SLASH_COMMAND |-> "slashCommand",
   CUSTOM_EMOJI |-> "customEmoji", RICH_LINK |-> "richLink"]

normalizeAnnotation(text, raw) ==
  LET rawType == Get(raw, "type").s
      startIndex == asNumber(Get(raw, "startIndex"))
      length == asNumber(Get(raw, "length"))
      sourceText == IF validRange(text, startIndex, length)
                    THEN Slice(text, startIndex.n, startIndex.n + length.n) ELSE << >>
      user == normalizeIdentity(Get(Get(raw, "userMention"), "user"))
      userLabel == Get(user, "displayName") ?? Get(user, "email") ?? Get(user, "resourceName")
      command == normalizeSlashCommand(Get(raw, "slashCommand"))
      commandLabel == Get(command, "commandName") ?? Get(command, "commandId")
      emoji == normalizeCustomEmoji(Get(Get(raw, "customEmojiMetadata"), "customEmoji"))
      metadata == Get(raw, "richLinkMetadata")
      Shown(label) == IF Given(label) THEN Label(label) ELSE sourceText
      Is(kind, about, renderText) ==
        [kind |-> kind, startIndex |-> startIndex, length |-> length, text |-> sourceText,
         about |-> about, renderText |-> renderText]
  IN CASE rawType = "USER_MENTION" -> Is("userMention", user, <<"@">> \o Shown(userLabel))
       [] rawType = "SLASH_COMMAND" -> Is("slashCommand", command, Shown(commandLabel))
       [] rawType = "CUSTOM_EMOJI" -> Is("customEmoji", emoji, Shown(Get(emoji, "emojiName")))
       [] rawType = "RICH_LINK" ->
            Is("richLink",
               Rec([url |-> asString(Get(metadata, "uri")), title |-> richLinkTitle(metadata),
                    chatSpaceLinkData |->
                      normalizeChatSpaceLinkData(Get(metadata, "chatSpaceLinkData"))]),
               sourceText)
       [] OTHER -> Is("unknown", Str(rawType), sourceText)

normalizeAnnotations(text, annotations) ==
  LET typed == SelectSeq(asArray(annotations), LAMBDA item : Truthy(asString(Get(item, "type"))))
  IN [i \in DOMAIN typed |-> normalizeAnnotation(text, typed[i])]

\* Number.MAX_SAFE_INTEGER: after every index.
LastIndex == 9999

StartOf(item) == IF Given(item.startIndex) THEN item.startIndex.n ELSE LastIndex

LengthOf(item) == IF Given(item.length) THEN item.length.n ELSE 0

sortAnnotations(annotations) ==
  StableSort(annotations,
             LAMBDA left, right :
               \/ StartOf(left) < StartOf(right)
               \/ StartOf(left) = StartOf(right) /\ LengthOf(left) < LengthOf(right))

TextSegment(text, start, end) ==
  IF start < end
  THEN <<[kind |-> "text", startIndex |-> start, length |-> end - start,
          text |-> Slice(text, start, end), annotationIndex |-> -1]>>
  ELSE << >>

\* Mutant: an annotation that begins within the one before is not passed over.
buildSegments_Overlapping(text, annotations) ==
  LET sorted == sortAnnotations(annotations)
      Add(found, i) ==
        LET annotation == sorted[i]
            start == annotation.startIndex.n
        IN IF ~validRange(text, annotation.startIndex, annotation.length) THEN found
           ELSE [segments |->
                   found.segments \o TextSegment(text, found.cursor, start)
                     \o <<[kind |-> annotation.kind, startIndex |-> start,
                           length |-> annotation.length.n, text |-> annotation.renderText,
                           annotationIndex |-> i - 1]>>,
                 cursor |-> start + annotation.length.n]
      all == FoldLeft(Add, [segments |-> << >>, cursor |-> 0], [i \in DOMAIN sorted |-> i])
  IN all.segments \o TextSegment(text, all.cursor, Len(text))

buildSegments(text, annotations) ==
  LET sorted == sortAnnotations(annotations)
      Add(found, i) ==
        LET annotation == sorted[i]
            start == annotation.startIndex.n
        IN IF \/ ~validRange(text, annotation.startIndex, annotation.length)
              \/ start < found.cursor
           THEN found
           ELSE [segments |->
                   found.segments \o TextSegment(text, found.cursor, start)
                     \o <<[kind |-> annotation.kind, startIndex |-> start,
                           length |-> annotation.length.n, text |-> annotation.renderText,
                           annotationIndex |-> i - 1]>>,
                 cursor |-> start + annotation.length.n]
      all == FoldLeft(Add, [segments |-> << >>, cursor |-> 0], [i \in DOMAIN sorted |-> i])
  IN all.segments \o TextSegment(text, all.cursor, Len(text))

renderSegments(text, segments) ==
  IF segments = << >> THEN Joined(text)
  ELSE Joined(FlattenSeq([i \in DOMAIN segments |-> segments[i].text]))

-----------------------------------------------------------------------------
(* Links, attachments, cards, reactions.                                   *)

\* text.indexOf(url), for a url that is one character here.
IndexOf(text, url) ==
  LET found == {i \in DOMAIN text : text[i] = url.s}
  IN IF found = {} THEN Null ELSE Num((CHOOSE i \in found : \A j \in found : i <= j) - 1)

normalizeLinks(raw, text, annotations) ==
  LET matched == asString(Get(Get(raw, "matchedUrl"), "url"))
      rich == SelectSeq(annotations, LAMBDA annotation : annotation.kind = "richLink")
      links ==
        (IF Truthy(matched)
         THEN <<[kind |-> "matchedUrl", startIndex |-> IndexOf(text, matched), about |-> matched]>>
         ELSE << >>)
        \o [i \in DOMAIN rich |->
              [kind |-> "richLink", startIndex |-> rich[i].startIndex, about |-> rich[i].about]]
  IN StableSort(links, LAMBDA left, right : StartOf(left) < StartOf(right))

NamesOf(items, key) ==
  LET named == SelectSeq(items, LAMBDA item : Truthy(asString(Get(item, key))))
  IN [i \in DOMAIN named |-> Get(named[i], key)]

normalizeAttachments(raw) ==
  NamesOf(asArray(Get(raw, "attachment")) \o asArray(Get(raw, "attachments")), "name")

normalizeAttachedGifs(raw) == NamesOf(asArray(Get(raw, "attachedGifs")), "uri")

normalizeCards(raw) ==
  LET cards == SelectSeq(asArray(Get(raw, "cardsV2")), IsRec)
  IN [i \in DOMAIN cards |-> <<asString(Get(cards[i], "cardId")),
                               asString(Get(Get(Get(cards[i], "card"), "header"), "title"))>>]

normalizeEmoji(value) ==
  LET custom == normalizeCustomEmoji(Get(value, "customEmoji"))
      unicode == asString(Get(value, "unicode"))
  IN [type |-> IF Truthy(unicode) THEN "unicode" ELSE IF Given(custom) THEN "custom" ELSE "none",
      label |-> unicode ?? Get(custom, "emojiName") ?? Get(custom, "name")
                  ?? Str("unknown emoji")]

normalizeReactions(raw) ==
  LET reactions == SelectSeq(asArray(Get(raw, "emojiReactionSummaries")), IsRec)
  IN [i \in DOMAIN reactions |->
        <<normalizeEmoji(Get(reactions[i], "emoji")),
          asNumber(Get(reactions[i], "reactionCount")) ?? Num(0)>>]

FirstOf(s) == IF s = << >> THEN Null ELSE s[1].about

topLevelSlashCommand(raw, annotations) ==
  LET topLevel == asRecord(Get(raw, "slashCommand"))
      annotated ==
        FirstOf(SelectSeq(annotations, LAMBDA annotation : annotation.kind = "slashCommand"))
  IN IF ~Given(topLevel) /\ ~Given(annotated) THEN Null
     ELSE Rec([commandName |-> asString(Get(annotated, "commandName")),
               commandId |-> asString(Get(topLevel, "commandId"))
                               ?? asString(Get(annotated, "commandId")),
               bot |-> asRecord(Get(annotated, "bot"))])

-----------------------------------------------------------------------------
(* System notes.                                                           *)
identityLabel(identity) ==
  IF ~Given(identity) THEN <<"Unknown sender">>
  ELSE <<Get(identity, "displayName") ?? Get(identity, "email") ?? Get(identity, "resourceName")
           ?? Str("Unknown sender"),
         Get(identity, "email"), Get(identity, "type"), Get(identity, "resourceName")>>

If(condition, note) == IF condition THEN <<note>> ELSE << >>

baseMessageSystemNotes(raw, relationship, message) ==
  If(TRUE, <<"message", relationship, Get(raw, "name"), identityLabel(message.sender),
             message.createdAt ?? Str("unknown time"),
             IF Truthy(message.updatedAt) /\ message.updatedAt # message.createdAt
             THEN message.updatedAt ELSE Null>>)
  \o If(message.deleted,
        <<"deleted", message.deletedAt ?? Str("an unknown time"),
          asString(Get(Get(raw, "deletionMetadata"), "deletionType"))>>)
  \o If(message.threadReply /\ Given(message.thread), <<"thread reply", Get(message.thread, "name")>>)
  \o If(Given(message.viewer), <<"private", identityLabel(message.viewer)>>)
  \o If(message.directMessage, <<"direct">>)

metadataSystemNotes(slashCommand, links, customEmojis, reactions) ==
  LET label == Get(slashCommand, "commandName") ?? Get(slashCommand, "commandId") ?? Str("unknown")
  IN If(Given(slashCommand),
        <<"slash command", label, Get(slashCommand, "commandId"), Get(slashCommand, "bot")>>)
     \o [i \in DOMAIN links |-> <<links[i].kind, links[i].about>>]
     \o [i \in DOMAIN customEmojis |->
           <<"custom emoji", customEmojis[i].renderText,
             asString(Get(customEmojis[i].about, "name"))>>]
     \o [i \in DOMAIN reactions |-> <<"reactions", reactions[i][1].label, reactions[i][2]>>]

-----------------------------------------------------------------------------
(* The message and, below it, what it attaches and quotes.                 *)
Leaf(kind, about) == [kind |-> kind, about |-> about, accessState |-> "metadata_only"]

inaccessibleQuoteNode(metadata) ==
  IF ~Truthy(asString(Get(metadata, "name"))) THEN << >>
  ELSE <<[kind |-> "quoted_message", about |-> Get(metadata, "name"),
          accessState |-> "inaccessible", updatedAt |-> asString(Get(metadata, "lastUpdateTime"))]>>

quotedSnapshotMessage(metadata) ==
  LET snapshot == Get(metadata, "quotedMessageSnapshot")
      sender == asString(Get(snapshot, "sender"))
  IN IF ~IsRec(snapshot) THEN Null
     ELSE Rec([name |-> asString(Get(metadata, "name")),
               createTime |-> asString(Get(metadata, "lastUpdateTime")),
               sender |-> IF Truthy(sender)
                          THEN Rec([name |-> sender, displayName |-> sender,
                                    type |-> Str("UNKNOWN")])
                          ELSE Absent,
               text |-> asString(Get(snapshot, "text")),
               annotations |-> Arr(asArray(Get(snapshot, "annotations"))),
               attachment |-> Arr(asArray(Get(snapshot, "attachments")))])

\* What throws: a message without a name, quoted or not.
Thrown == [thrown |-> TRUE]

IsThrown(message) == "thrown" \in DOMAIN message

RECURSIVE buildMessageAst(_, _)

(* The quoted message, if it can be read, with its own quotes.             *)
quoteNode(raw) ==
  LET metadata == Get(raw, "quotedMessageMetadata")
      quotedMessage == asRecord(Get(metadata, "message"))
                         ?? asRecord(Get(metadata, "quotedMessage"))
                         ?? quotedSnapshotMessage(metadata)
      quoted == buildMessageAst(quotedMessage, "quoted_message")
  IN IF ~IsRec(metadata) THEN << >>
     ELSE IF ~Given(quotedMessage) THEN inaccessibleQuoteNode(metadata)
     ELSE IF IsThrown(quoted) THEN <<Thrown>> ELSE <<quoted.contextNode>>

buildContextChildren(raw) ==
  LET attachments == normalizeAttachments(raw)
      gifs == normalizeAttachedGifs(raw)
      cards == normalizeCards(raw)
  IN [i \in DOMAIN attachments |-> Leaf("attachment", attachments[i])]
     \o [i \in DOMAIN gifs |-> Leaf("gif", gifs[i])]
     \o [i \in DOMAIN cards |-> Leaf("card", cards[i])]
     \o quoteNode(raw)

messageAst(raw, relationship, text, annotations, segments, links, children) ==
  LET slashCommand == topLevelSlashCommand(raw, annotations)
      thread == normalizeMessageThread(Get(raw, "thread"))
      space == normalizeMessageSpace(Get(raw, "space"))
      deletedAt == asString(Get(raw, "deleteTime"))
      isReply == asBoolean(Get(raw, "threadReply"))
      parts ==
        [sender |-> normalizeIdentity(Get(raw, "sender")),
         createdAt |-> asString(Get(raw, "createTime")),
         updatedAt |-> asString(Get(raw, "lastUpdateTime")), deletedAt |-> deletedAt,
         deleted |-> Given(deletedAt) \/ Get(raw, "deletionMetadata") # Absent,
         thread |-> thread,
         threadReply |-> IF Given(isReply) THEN isReply.b ELSE Given(thread),
         viewer |-> normalizeIdentity(Get(raw, "privateMessageViewer")),
         directMessage |-> Get(space, "type") = Str("DM")]
  IN IF ~Truthy(asString(Get(raw, "name"))) \/ AnyOf(children, Thrown) THEN Thrown
     ELSE [name |-> Get(raw, "name"), space |-> space, text |-> Joined(text),
           annotations |-> annotations, segments |-> segments, links |-> links,
           slashCommand |-> slashCommand, reactions |-> normalizeReactions(raw),
           parts |-> parts,
           contextNode |->
             [kind |-> relationship, about |-> Get(raw, "name"),
              accessState |-> IF parts.deleted THEN "deleted" ELSE "available",
              text |-> IF parts.deleted THEN << >> ELSE renderSegments(text, segments),
              systemNotes |->
                baseMessageSystemNotes(raw, relationship, parts)
                  \o metadataSystemNotes(
                       slashCommand, links,
                       SelectSeq(annotations, LAMBDA annotation : annotation.kind = "customEmoji"),
                       normalizeReactions(raw)),
              children |-> children]]

buildMessageAst(raw, relationship) ==
  LET Of(text, annotations) ==
        messageAst(raw, relationship, text, annotations, buildSegments(text, annotations),
                   normalizeLinks(raw, text, annotations), buildContextChildren(raw))
      OfText(text) == Of(text, normalizeAnnotations(text, Get(raw, "annotations")))
  IN OfText(TextOf(Get(raw, "text")))

-----------------------------------------------------------------------------
WorkspaceKind ==
  "google.workspace.chat.message.v1.created" :> "message.created"
  @@ "google.workspace.chat.message.v1.updated" :> "message.updated"
  @@ "google.workspace.chat.message.v1.deleted" :> "message.deleted"
  @@ "google.workspace.chat.reaction.v1.created" :> "reaction.created"
  @@ "google.workspace.chat.reaction.v1.deleted" :> "reaction.deleted"
  @@ "google.workspace.chat.membership.v1.created" :> "membership.created"
  @@ "google.workspace.chat.membership.v1.updated" :> "membership.updated"
  @@ "google.workspace.chat.membership.v1.deleted" :> "membership.deleted"
  @@ "google.workspace.chat.space.v1.updated" :> "space.updated"
  @@ "google.workspace.chat.space.v1.deleted" :> "space.deleted"

InteractionKind ==
  [APP_COMMAND |-> "message.app_command", ADDED_TO_SPACE |-> "space.added",
   REMOVED_FROM_SPACE |-> "space.removed", CARD_CLICKED |-> "card.clicked",
   WIDGET_UPDATED |-> "widget.updated"]

\* What begins with google.workspace.chat.
isWorkspaceEventType(v) ==
  v.t = "str" /\ v.s \in DOMAIN WorkspaceKind \cup {"google.workspace.chat.other"}

-----------------------------------------------------------------------------
(* normalizeAction.                                                        *)
inputSource(raw) == asRecord(Get(raw, "common")) ?? asRecord(Get(raw, "commonEventObject"))

dialogEventTypeOf(raw, common) ==
  asString(Get(raw, "dialogEventType")) ?? asString(Get(common, "dialogEventType"))

actionTypeFor(raw, common, slashCommand) ==
  LET rawKind == asString(Get(raw, "type"))
      dialog == dialogEventTypeOf(raw, common)
      query == Get(Get(common, "parameters"), "autocomplete_widget_query")
      Kind(s) == rawKind = Str(s)
  IN IF dialog = Str("SUBMIT_DIALOG") \/ Kind("SUBMIT_DIALOG") THEN "dialog_submit"
     ELSE IF dialog \in {Str("CANCEL_DIALOG"), Str("CANCELLED_DIALOG")} \/ Kind("CANCEL_DIALOG")
       THEN "dialog_cancel"
     ELSE IF Kind("APP_COMMAND") THEN "app_command"
     ELSE IF Kind("MESSAGE") /\ Given(slashCommand) THEN "slash_command"
     ELSE IF \/ Kind("WIDGET_UPDATE") \/ Kind("WIDGET_UPDATED")
             \/ Kind("CARD_CLICKED") /\ query.t = "str"
       THEN "widget_update"
     ELSE IF Kind("CARD_CLICKED") THEN "card_click" ELSE "none"

asStringLike(v) == IF v.t \in {"str", "num", "bool"} THEN v ELSE Null

methodNameFor(actionType, action, common, slashCommand, appCommandMetadata) ==
  asString(Get(common, "invokedFunction"))
    ?? asString(Get(action, "actionMethodName"))
    ?? asString(Get(action, "function"))
    ?? asString(Get(slashCommand, "commandName"))
    ?? asString(Get(appCommandMetadata, "appCommandName"))
    ?? (IF actionType = "app_command" THEN asStringLike(Get(appCommandMetadata, "appCommandId"))
        ELSE Null)

(* What has been parsed: values by name, and the errors met.               *)
Parsed(values, errors) == [values |-> values, errors |-> errors]

parseActionParameters(action) ==
  LET Add(parsed, item) ==
        LET key == asString(Get(item, "key"))
            value == asString(Get(item, "value"))
        IN IF ~Truthy(key)
           THEN [parsed EXCEPT !.errors = @ \cup {<<"parameters", "invalid_parameter">>}]
           ELSE IF ~Given(value)
           THEN [parsed EXCEPT !.errors = @ \cup {<<key.s, "invalid_parameter">>}]
           ELSE [parsed EXCEPT !.values = key.s :> value @@ @]
  IN FoldLeft(Add, Parsed(<< >>, {}), asArray(Get(action, "parameters")))

parseCommonParameters(common) ==
  LET raw == Get(common, "parameters")
      keys == IF IsRec(raw) THEN DOMAIN raw.f ELSE {}
      valid == {k \in keys : raw.f[k].t = "str"}
  IN Parsed([k \in valid |-> raw.f[k]], {<<k, "invalid_parameter">> : k \in keys \ valid})

parseSlashCommandParameters(slashCommand, message) ==
  LET all == [commandId |-> asStringLike(Get(slashCommand, "commandId")),
              commandName |-> asString(Get(slashCommand, "commandName")),
              argumentText |-> asString(Get(message, "argumentText"))]
  IN IF ~Given(slashCommand) THEN << >>
     ELSE [k \in {k \in DOMAIN all : Given(all[k])} |-> all[k]]

parseAppCommandParameters(appCommandMetadata) ==
  LET all == [appCommandId |-> asStringLike(Get(appCommandMetadata, "appCommandId")),
              appCommandType |-> asString(Get(appCommandMetadata, "appCommandType")),
              appCommandName |-> asString(Get(appCommandMetadata, "appCommandName"))]
  IN [k \in {k \in DOMAIN all : Given(all[k])} |-> all[k]]

TrueWords == {"true", "on", "checked", "1"}
FalseWords == {"false", "off", "unchecked", "0"}

(* One field of a form: its kind, value and error ("" for none).           *)
Field(kind, value, error) == [kind |-> kind, value |-> value, error |-> error]

parseStringInput(rawInput) ==
  LET raw == Get(Get(rawInput, "stringInputs"), "value")
      values == asArray(raw)
      AllIn(names) == values # << >> /\ \A i \in DOMAIN values : values[i].s \in names
  IN IF raw.t # "arr" \/ \E i \in DOMAIN values : values[i].t # "str"
     THEN Field("string", Null, "invalid_string_values")
     ELSE IF AllIn(UserNames) THEN Field("user_picker", raw, "")
     ELSE IF AllIn(SpaceNames) THEN Field("space_picker", raw, "")
     ELSE IF Len(values) # 1 THEN Field("multi_select", raw, "")
     ELSE IF values[1].s \in TrueWords THEN Field("boolean", Bool(TRUE), "")
     ELSE IF values[1].s \in FalseWords THEN Field("boolean", Bool(FALSE), "")
     ELSE Field("string", values[1], "")

(* A number, or a string that spells one; "inf" is no number to Number().  *)
Epoch(v) == IF v.t \in {"num", "str"} /\ "n" \in DOMAIN v THEN Num(v.n) ELSE Null

(* toISOString throws for a time it cannot show.                           *)
parseDateInput(kind, rawInput, error) ==
  LET at == Epoch(Get(rawInput, "msSinceEpoch"))
  IN IF ~Given(at) THEN Field(kind, Null, error)
     ELSE IF at.n > LastDate THEN Thrown
     ELSE Field(kind, at, "")

IsHour(v) == v.t = "num" /\ v.n \in 0..23
IsMinute(v) == v.t = "num" /\ v.n \in 0..59

parseTimeInput(rawInput) ==
  LET hours == Get(rawInput, "hours")
      minutes == Get(rawInput, "minutes")
  IN IF IsHour(hours) /\ IsMinute(minutes) THEN Field("time", <<hours, minutes>>, "")
     ELSE Field("time", Null, "invalid_time")

parseFormInput(rawInput) ==
  LET Has(key) == IsRec(Get(rawInput, key))
  IN IF Has("stringInputs") THEN parseStringInput(rawInput)
     ELSE IF Has("dateInput")
       THEN parseDateInput("date", Get(rawInput, "dateInput"), "invalid_date")
     ELSE IF Has("timeInput") THEN parseTimeInput(Get(rawInput, "timeInput"))
     ELSE IF Has("dateTimeInput")
       THEN parseDateInput("date_time", Get(rawInput, "dateTimeInput"), "invalid_date_time")
     ELSE Field("unknown", Null, "unsupported_form_input")

parseFormInputs(common) ==
  LET raw == Get(common, "formInputs")
  IN IF IsRec(raw) THEN [field \in DOMAIN raw.f |-> parseFormInput(raw.f[field])] ELSE << >>

normalizeActionUser(value) ==
  IF ~Truthy(asString(Get(value, "name"))) THEN Null
  ELSE Rec([name |-> Get(value, "name"),
            displayName |-> IF Get(value, "isAnonymous") = Bool(TRUE)
                               \/ Get(value, "type") = Str("ANONYMOUS")
                            THEN Null ELSE asString(Get(value, "displayName"))])

Selected(formInputs, kind) ==
  UNION {Range(formInputs[f].value.a) :
           f \in {f \in DOMAIN formInputs : formInputs[f].kind = kind}}

(* The notes list parameters and fields by name.                           *)
renderActionSystemNotes(actionType, methodName, parameters, formInputs) ==
  <<actionType, methodName ?? Str("unknown"),
    SelectSeq(LocaleOrder, LAMBDA key : key \in DOMAIN parameters),
    SelectSeq(LocaleOrder, LAMBDA key : key \in DOMAIN formInputs)>>

NoAction == [actionType |-> "none"]

actionOf(raw, source, action, common, message, fromAction, fromCommon, formInputs) ==
  LET slashCommand == asRecord(Get(message, "slashCommand"))
      appCommandMetadata == asRecord(Get(raw, "appCommandMetadata"))
      actionType == actionTypeFor(raw, common, slashCommand)
      methodName ==
        methodNameFor(actionType, action, common, slashCommand, appCommandMetadata)
      parameters == parseAppCommandParameters(appCommandMetadata)
                      @@ parseSlashCommandParameters(slashCommand, message)
                      @@ fromCommon.values @@ fromAction.values
      eventTime == asString(Get(raw, "eventTime"))
  IN IF actionType = "none" THEN NoAction
     ELSE IF AnyOf(formInputs, Thrown) THEN Thrown
     ELSE [actionId |-> <<source, actionType, methodName ?? Str("unknown"),
                          asString(Get(message, "name")) ?? Str("no-message"),
                          eventTime ?? Str("no-time")>>,
           actionType |-> actionType, methodName |-> methodName,
           actor |-> normalizeActionUser(Get(raw, "user") ?? Get(message, "sender")),
           parameters |-> parameters, formInputs |-> formInputs,
           selectedUsers |-> Selected(formInputs, "user_picker"),
           selectedSpaces |-> Selected(formInputs, "space_picker"),
           validationErrors |->
             fromAction.errors \cup fromCommon.errors
               \cup {<<f, formInputs[f].error>> :
                       f \in {f \in DOMAIN formInputs : formInputs[f].error # ""}},
           dialogEventType |-> dialogEventTypeOf(raw, common),
           systemNotes |->
             renderActionSystemNotes(actionType, methodName, parameters, formInputs)]

normalizeAction(raw, source) ==
  LET Of(action, common) ==
        actionOf(raw, source, action, common, asRecord(Get(raw, "message")),
                 parseActionParameters(action), parseCommonParameters(common),
                 parseFormInputs(common))
  IN Of(asRecord(Get(raw, "action")), inputSource(raw))

-----------------------------------------------------------------------------
(* normalizeEvent.                                                         *)
DataKeys == {"message", "reaction", "membership", "space", "user"}

WorkspaceEvent(type, time, data) ==
  Rec([k \in DataKeys |-> Get(data, k)] @@ "type" :> type @@ "eventTime" :> time)

Direct == [kind |-> "direct", messageId |-> Null, publishTime |-> Null, eventId |-> Null,
           eventType |-> Null]

unwrapEvent(raw) ==
  LET wrapper == asRecord(Get(raw, "message"))
      data == asString(Get(wrapper, "data"))
      attributes == Get(wrapper, "attributes")
      type == asString(Get(attributes, "ce-type"))
      decoded == IF "json" \in DOMAIN data THEN asRecord(data.json) ?? Rec(<< >>) ELSE Rec(<< >>)
      publishTime == asString(Get(wrapper, "publishTime"))
      pushed == [Direct EXCEPT !.kind = "pubsub", !.publishTime = publishTime,
                               !.messageId = asString(Get(wrapper, "messageId"))]
  IN IF Truthy(data) /\ isWorkspaceEventType(type)
     THEN [event |-> WorkspaceEvent(type, asString(Get(attributes, "ce-time")) ?? publishTime,
                                    decoded),
           source |-> "workspace_events",
           transport |-> [pushed EXCEPT !.kind = "workspace_events", !.eventType = type,
                                        !.eventId = asString(Get(attributes, "ce-id"))]]
     ELSE IF Truthy(data) THEN [event |-> decoded, source |-> "pubsub", transport |-> pushed]
     ELSE IF isWorkspaceEventType(asString(Get(raw, "type"))) /\ IsRec(Get(raw, "data"))
     THEN [event |-> WorkspaceEvent(Get(raw, "type"), Get(raw, "time"), Get(raw, "data")),
           source |-> "workspace_events",
           transport |-> [Direct EXCEPT !.kind = "workspace_events",
                                        !.eventId = asString(Get(raw, "id")),
                                        !.eventType = Get(raw, "type")]]
     ELSE [event |-> raw, source |-> "chat_http", transport |-> Direct]

normalizeUser(raw) ==
  LET name == asString(Get(raw, "name")) ?? asString(Get(raw, "resourceName"))
      anonymous == Get(raw, "isAnonymous") = Bool(TRUE) \/ Get(raw, "type") = Str("ANONYMOUS")
      Shown(v) == IF anonymous THEN Null ELSE v
      displayName == Shown(asString(Get(raw, "displayName")))
      email == Shown(asString(Get(raw, "email")) ?? asString(Get(raw, "emailAddress")))
      type == asString(Get(raw, "type"))
      state == asString(Get(raw, "accessState"))
      access == IF anonymous \/ state = Str("anonymous") THEN "anonymous_user"
                ELSE IF /\ state \notin {Str("resource_only"), Str("unknown")}
                        /\ (Truthy(displayName) \/ Truthy(email))
                THEN "available" ELSE "display_name_or_email_unavailable"
  IN IF ~Truthy(name) THEN Null
     ELSE Rec([name |-> name, displayName |-> displayName, email |-> email, type |-> type,
               isApp |-> Bool(\/ type \in {Str("BOT"), Str("APP")}
                              \/ Get(raw, "isBot") = Bool(TRUE)),
               access |-> Str(access)])

normalizeSpace(raw) ==
  IF ~Truthy(asString(Get(raw, "name"))) THEN Null
  ELSE Rec([k \in {"name", "displayName", "type", "spaceType"} |-> asString(Get(raw, k))])

normalizeThread(raw) ==
  IF ~Truthy(asString(Get(raw, "name"))) THEN Null ELSE Rec([name |-> Get(raw, "name")])

normalizeReaction(raw) ==
  IF ~Truthy(asString(Get(raw, "name"))) THEN Null
  ELSE Rec([name |-> Get(raw, "name"), user |-> normalizeUser(Get(raw, "user")),
            unicode |-> asString(Get(Get(raw, "emoji"), "unicode"))])

normalizeMembership(raw) ==
  IF ~Truthy(asString(Get(raw, "name"))) THEN Null
  ELSE Rec([name |-> Get(raw, "name"), member |-> normalizeUser(Get(raw, "member"))])

normalizeDialog(event) ==
  IF Truthy(asString(Get(event, "dialogEventType"))) THEN Get(event, "dialogEventType") ELSE Null

NoMessage == [none |-> TRUE]

normalizeMessage(raw) ==
  IF Truthy(asString(Get(raw, "name"))) THEN buildMessageAst(raw, "root") ELSE NoMessage

HasMessage(message) == message # NoMessage

spaceIsDirect(space) ==
  Get(space, "type") = Str("DM") \/ Get(space, "spaceType") = Str("DIRECT_MESSAGE")

messageMentionsApp(message) ==
  HasMessage(message) /\ \E i \in DOMAIN message.annotations :
    /\ message.annotations[i].kind = "userMention"
    /\ Get(message.annotations[i].about, "type") \in {Str("BOT"), Str("APP")}

\* Mutant: a mention is looked for before the direct message.
classifyEvent_MentionFirst(rawKind, rawMessage, message, space) ==
  IF rawKind = Str("MESSAGE")
  THEN IF IsRec(Get(rawMessage, "slashCommand")) THEN "message.slash_command"
       ELSE IF messageMentionsApp(message) THEN "message.mentioned_app"
       ELSE IF \/ HasMessage(message) /\ message.parts.directMessage
               \/ spaceIsDirect(space)
         THEN "message.direct"
       ELSE IF HasMessage(message) /\ message.parts.threadReply THEN "message.thread_reply"
       ELSE "message.created"
  ELSE IF Given(rawKind) /\ rawKind.s \in DOMAIN InteractionKind THEN InteractionKind[rawKind.s]
  ELSE IF Given(rawKind) /\ rawKind.s \in DOMAIN WorkspaceKind THEN WorkspaceKind[rawKind.s]
  ELSE "event.unknown"

classifyEvent(rawKind, rawMessage, message, space) ==
  IF rawKind = Str("MESSAGE")
  THEN IF IsRec(Get(rawMessage, "slashCommand")) THEN "message.slash_command"
       ELSE IF \/ HasMessage(message) /\ message.parts.directMessage
               \/ spaceIsDirect(space)
         THEN "message.direct"
       ELSE IF messageMentionsApp(message) THEN "message.mentioned_app"
       ELSE IF HasMessage(message) /\ message.parts.threadReply THEN "message.thread_reply"
       ELSE "message.created"
  ELSE IF Given(rawKind) /\ rawKind.s \in DOMAIN InteractionKind THEN InteractionKind[rawKind.s]
  ELSE IF Given(rawKind) /\ rawKind.s \in DOMAIN WorkspaceKind THEN WorkspaceKind[rawKind.s]
  ELSE "event.unknown"

DialogKind ==
  [REQUEST_DIALOG |-> "dialog.opened", SUBMIT_DIALOG |-> "dialog.submitted",
   CANCEL_DIALOG |-> "dialog.cancelled"]

refineCardKind(kind, event) ==
  LET dialog == asString(Get(event, "dialogEventType"))
  IN IF kind = "card.clicked" /\ Given(dialog) /\ dialog.s \in DOMAIN DialogKind
     THEN DialogKind[dialog.s] ELSE kind

resourceNameFor(message, reaction, membership, space, action) ==
  IF HasMessage(message) THEN message.name
  ELSE Get(reaction, "name") ?? Get(membership, "name") ?? Get(space, "name")
         ?? (IF action # NoAction THEN Str(action.actionId) ELSE Null)

\* Mutant: a workspace event has the key of the Pub/Sub message it came in.
eventIdFor_ByMessageId(source, rawKind, resourceName, receivedAt, transport) ==
  IF source \in {"pubsub", "workspace_events"} /\ Truthy(transport.messageId)
  THEN <<source, transport.messageId>>
  ELSE IF source = "workspace_events" /\ Truthy(transport.eventId)
    THEN <<source, transport.eventId>>
  ELSE <<source, rawKind ?? Str("UNKNOWN"), resourceName ?? Str("no-resource"), receivedAt>>

eventIdFor(source, rawKind, resourceName, receivedAt, transport) ==
  IF source = "pubsub" /\ Truthy(transport.messageId) THEN <<source, transport.messageId>>
  ELSE IF source = "workspace_events" /\ Truthy(transport.eventId)
    THEN <<source, transport.eventId>>
  ELSE <<source, rawKind ?? Str("UNKNOWN"), resourceName ?? Str("no-resource"), receivedAt>>

normalizeLocale(event) ==
  asString(Get(Get(event, "common"), "userLocale")) ?? asString(Get(Get(event, "common"), "locale"))

normalizeTimeZone(event) ==
  LET timeZone == Get(Get(event, "common"), "timeZone")
  IN asString(Get(timeZone, "id")) ?? asString(timeZone)

CardKinds == {"card.clicked", "dialog.opened", "dialog.submitted", "dialog.cancelled",
              "widget.updated"}

capabilitiesFor(source, kind, thread) ==
  LET isSync == source = "chat_http"
  IN [canRespondSynchronously |-> isSync,
      canRespondAsynchronously |-> source = "pubsub" \/ isSync,
      canReplyInThread |-> Given(thread),
      canOpenDialog |-> isSync /\ kind = "card.clicked",
      canUpdateCard |-> isSync /\ kind \in CardKinds]

authContextFor(source) ==
  IF source = "chat_http" THEN "sync" ELSE IF source = "pubsub" THEN "async" ELSE "none"

MembershipKinds == {"membership.created", "membership.updated", "membership.deleted"}
ReactionKinds == {"reaction.created", "reaction.deleted"}
SpaceKinds == {"space.added", "space.removed", "space.updated", "space.deleted"}
MessageKinds ==
  {"message.created", "message.updated", "message.deleted", "message.direct",
   "message.mentioned_app", "message.thread_reply", "message.slash_command",
   "message.app_command"}

(* Who did what, where: the labels a note is made of.                      *)
systemNotesFor(kind, actor, space, action, reaction) ==
  LET who == Get(actor, "displayName") ?? Get(actor, "email") ?? Get(actor, "name")
               ?? Str("Unknown actor")
      where == Get(space, "displayName") ?? Get(space, "name") ?? Str("an unknown space")
      method == IF action = NoAction THEN Str("unknown")
                ELSE action.methodName ?? Str("unknown")
  IN CASE kind \in {"message.slash_command", "message.app_command"} -> <<who, method>>
       [] kind \in {"card.clicked", "dialog.submitted", "widget.updated"} -> <<who, method, where>>
       [] kind = "message.direct" -> <<who>>
       [] kind \in {"message.thread_reply", "message.created", "space.added", "space.removed"} ->
            <<who, where>>
       [] kind \in {"message.updated", "message.deleted"} \cup MembershipKinds -> <<where>>
       [] kind \in ReactionKinds -> <<who, Get(reaction, "unicode") ?? Str("a reaction")>>
       [] OTHER -> << >>

QuotesOf(message) ==
  IF ~HasMessage(message) THEN << >>
  ELSE SelectSeq(message.contextNode.children, LAMBDA child : child.kind = "quoted_message")

relationshipFor(kind, message, action) ==
  [isQuote |-> QuotesOf(message) # << >>,
   isDirectReply |-> QuotesOf(message) # << >> /\ Truthy(QuotesOf(message)[1].about),
   isThreadReply |-> HasMessage(message) /\ message.parts.threadReply,
   isCardAction |-> kind \in CardKinds, isReaction |-> kind \in ReactionKinds,
   isEdit |-> kind = "message.updated",
   isDeletion |-> kind = "message.deleted" \/ (HasMessage(message) /\ message.parts.deleted),
   isMembershipEvent |-> kind \in MembershipKinds, isSpaceEvent |-> kind \in SpaceKinds,
   isUserAction |-> (action # NoAction) \/ kind \in MessageKinds \cup ReactionKinds]

actorCandidateFor(source, event, message, reaction, membership) ==
  LET sender == IF HasMessage(message) THEN message.parts.sender ELSE Null
  IN IF source = "workspace_events"
     THEN Get(reaction, "user") ?? Get(membership, "member") ?? sender ?? Get(event, "user")
     ELSE Get(event, "user") ?? sender

\* new Date(0)
Epoch0 == Str("1970")

\* The event that was unwrapped, with the parts of it that are read more than once.
normalizeUnwrapped(unwrapped, rawMessage, message, action, reaction, membership, space) ==
  LET event == unwrapped.event
      source == unwrapped.source
      rawKind == asString(Get(event, "type"))
      thread == (IF HasMessage(message) THEN message.parts.thread ELSE Null)
                  ?? normalizeThread(Get(event, "thread"))
      kind == IF action.actionType = "widget_update" THEN "widget.updated"
              ELSE refineCardKind(classifyEvent(rawKind, rawMessage, message, space), event)
      actor == normalizeUser(actorCandidateFor(source, event, message, reaction, membership))
      receivedAt == asString(Get(event, "eventTime")) ?? asString(Get(event, "time"))
                      ?? unwrapped.transport.publishTime ?? Epoch0
  IN IF IsThrown(message) \/ IsThrown(action) THEN Thrown
     ELSE [source |-> source, kind |-> kind, rawKind |-> rawKind, actor |-> actor,
           actorState |-> IF Given(actor) THEN Get(actor, "access")
                          ELSE IF source = "workspace_events"
                            THEN Str("workspace_event_missing_actor")
                          ELSE Str("event_payload_missing_user"),
           receivedAt |-> receivedAt, dialog |-> normalizeDialog(event),
           space |-> space, thread |-> thread, message |-> message, action |-> action,
           membership |-> membership, reaction |-> reaction,
           locale |-> normalizeLocale(event), timeZone |-> normalizeTimeZone(event),
           responseMode |-> authContextFor(source),
           capabilities |-> capabilitiesFor(source, kind, thread),
           relationship |-> relationshipFor(kind, message, action),
           systemNotes |-> systemNotesFor(kind, actor, space, action, reaction),
           transport |-> unwrapped.transport,
           idempotencyKey |->
             eventIdFor(source, rawKind,
                        resourceNameFor(message, reaction, membership, space, action),
                        receivedAt, unwrapped.transport)]

normalizeParts(unwrapped, event, rawMessage) ==
  normalizeUnwrapped(unwrapped, rawMessage, normalizeMessage(rawMessage),
                     normalizeAction(event, unwrapped.source),
                     normalizeReaction(Get(event, "reaction")),
                     normalizeMembership(Get(event, "membership")),
                     normalizeSpace(Get(event, "space") ?? Get(rawMessage, "space")))

normalizeEvent(raw) ==
  LET Unwrapped(unwrapped) ==
        normalizeParts(unwrapped, unwrapped.event, asRecord(Get(unwrapped.event, "message")))
  IN Unwrapped(unwrapEvent(raw))
=============================================================================
