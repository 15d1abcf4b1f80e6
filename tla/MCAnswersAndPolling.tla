------------------------ MODULE MCAnswersAndPolling ------------------------
(***************************************************************************)
(* Three parts that share no state, checked in one run: answers by way of  *)
(* a queue (AsyncResponse, whose names have no prefix) and polling, which  *)
(* have something to reach, and what both packages make of events and      *)
(* cards.  The initial state chooses one and the others stand still.       *)
(***************************************************************************)
EXTENDS AsyncResponse, PollingIngestion, Ports

VARIABLE part

CONSTANT room

(* Two events of one space; an answer that says what the placeholder says  *)
(* has its slug, and another one has not.                                  *)
MCSpaceOf == [e \in Events |-> room]
MCSlugOf == ("Thinking..." :> "thinking") @@ ("thinking" :> "thinking") @@ ("done" :> "done")

(* The ids of both events are derived, or those of one are given: given    *)
(* ids are shared with nobody.                                             *)
MCOwnIds == {{}, {CHOOSE e \in Events : TRUE}}

MCModes == {[order |-> "ASC", since |-> "fixed"],
            [order |-> "DESC", since |-> "fixed"],
            [order |-> "ASC", since |-> "watermark"]}

-----------------------------------------------------------------------------
(***************************************************************************)
(* The deliveries EventPorts is checked with: messages, clicks, forms and  *)
(* workspace events as Google sends them, directly and by Pub/Sub.         *)
(***************************************************************************)
MCUserNames == {"users/ann", "users/bob"}
MCSpaceNames == {"spaces/A"}
MCLocaleOrder ==
  <<"__googleChatAiState", "alpha", "Beta", "decision", "gamma", "commandName", "appCommandId",
    "appCommandName">>
MCCodePointOrder ==
  <<"Beta", "__googleChatAiState", "alpha", "decision", "gamma", "commandName", "appCommandId",
    "appCommandName">>

-----------------------------------------------------------------------------
(* Who and where.                                                          *)
MCAnn == Rec([name |-> Str("users/ann"), displayName |-> Str("Ann"), type |-> Str("HUMAN"),
              email |-> Str("ann@"), isAnonymous |-> Bool(FALSE)])
MCApp == Rec([name |-> Str("users/app"), displayName |-> Str("App"), type |-> Str("BOT")])
MCUnnamed == Rec([name |-> Str("users/bob"), type |-> Str("HUMAN")])
MCAnonymous == Rec([name |-> Str("users/x"), displayName |-> Str("X"), type |-> Str("ANONYMOUS")])
MCNameless == Rec([displayName |-> Str("Someone")])

MCSpace(type) == Rec([name |-> Str("spaces/A"), displayName |-> Str("A"), type |-> Str(type)])
MCThread == Rec([name |-> Str("threads/T")])

With(v, key, value) == Rec(key :> value @@ v.f)

-----------------------------------------------------------------------------
(* Messages.                                                               *)
MCText == Text(<<"a", "b", "url", "c", "d">>)
MCEmojiText == Text(<<"a", "astral", "b", "c">>)

MCAnnotation(type, start, length) ==
  Rec([type |-> Str(type), startIndex |-> Num(start), length |-> Num(length)])

MCMention(user, start, length) ==
  With(MCAnnotation("USER_MENTION", start, length), "userMention", Rec([user |-> user]))

MCSlash(start, length) ==
  With(MCAnnotation("SLASH_COMMAND", start, length), "slashCommand",
       Rec([commandName |-> Str("/ask"), commandId |-> Str("7"), bot |-> MCApp]))

MCLink(start, length) ==
  With(MCAnnotation("RICH_LINK", start, length), "richLinkMetadata",
       Rec([uri |-> Str("url"),
            chatSpaceLinkData |-> Rec([space |-> Str("spaces/B"),
                                       spaceDisplayName |-> Str("B")])]))

MCEmoji(start, length) ==
  With(MCAnnotation("CUSTOM_EMOJI", start, length), "customEmojiMetadata",
       Rec([customEmoji |-> Rec([name |-> Str("customEmojis/1"), emojiName |-> Str(":x:")])]))

MCAnnotationLists ==
  {<< >>,
   <<MCMention(MCApp, 0, 2)>>,
   <<MCLink(2, 2), MCMention(MCAnn, 0, 3)>>,
   <<MCMention(MCUnnamed, 1, 3), MCLink(1, 1), MCEmoji(4, 1)>>,
   <<MCMention(MCAnonymous, 0, 1), MCSlash(0, 0), MCAnnotation("NEW", 3, 9)>>,
   <<Rec([type |-> Str("RICH_LINK")]), MCEmoji(3, 2), MCMention(MCNameless, 1, 1)>>}

MCMessage(id) ==
  Rec([name |-> Str(id), text |-> MCText, sender |-> MCAnn, createTime |-> Str("t1"),
       space |-> MCSpace("ROOM")])

MCInner(name) ==
  With(With(With(MCMessage("inner"), "name", name), "annotations", Arr(<<MCMention(MCAnn, 0, 1)>>)),
       "attachment", Arr(<<Rec([name |-> Str("file")])>>))

MCSnapshot ==
  Rec([sender |-> Str("users/bob"), text |-> MCText,
       annotations |-> Arr(<<MCLink(2, 1)>>)])

(* What a quote is given as: the message, a snapshot, a name - or nothing. *)
MCQuotes ==
  {Absent,
   Rec([name |-> Str("q"), message |-> MCInner(Str("q"))]),
   Rec([name |-> Str("q"),
        quotedMessage |-> With(MCInner(Str("q")), "quotedMessageMetadata", Rec([name |-> Str("r")]))]),
   Rec([name |-> Str("q"), quotedMessageSnapshot |-> MCSnapshot]),
   Rec([lastUpdateTime |-> Str("t0"), quotedMessageSnapshot |-> MCSnapshot]),
   Rec([name |-> Str("q"), message |-> MCInner(Absent)]),
   Rec([lastUpdateTime |-> Str("t0")])}

MCAnnotated ==
  {With(With(MCMessage("m"), "annotations", Arr(annotations)), "quotedMessageMetadata", quote) :
     annotations \in MCAnnotationLists, quote \in MCQuotes}

MCPlaced ==
  {With(With(With(With(MCMessage("m"), "thread", thread), "space", MCSpace(type)),
             "threadReply", reply),
        "annotations", Arr(<<MCMention(MCApp, 0, 2)>>)) :
     thread \in {Absent, MCThread}, type \in {"DM", "ROOM"},
     reply \in {Absent, Bool(TRUE), Bool(FALSE)}}

MCAdorned ==
  {With(MCMessage("m"), "deletionMetadata", Rec([deletionType |-> Str("CREATOR")])),
   With(MCMessage("m"), "deleteTime", Str("t3")),
   With(MCMessage("m"), "lastUpdateTime", Str("t2")),
   With(MCMessage("m"), "privateMessageViewer", MCUnnamed),
   With(MCMessage("m"), "sender", MCAnonymous),
   With(MCMessage("m"), "matchedUrl", Rec([url |-> Str("url")])),
   With(MCMessage("m"), "attachment", Arr(<<Rec([name |-> Str("file")]), Rec([x |-> Str("y")])>>)),
   With(MCMessage("m"), "attachedGifs", Arr(<<Rec([uri |-> Str("gif")])>>)),
   With(MCMessage("m"), "cardsV2",
        Arr(<<Rec([cardId |-> Str("c"),
                   card |-> Rec([header |-> Rec([title |-> Str("T")])])]), Str("junk")>>)),
   With(MCMessage("m"), "emojiReactionSummaries",
        Arr(<<Rec([emoji |-> Rec([unicode |-> Str("+1")]), reactionCount |-> Num(2)]),
              Rec([emoji |-> Rec([customEmoji |-> Rec([emojiName |-> Str(":x:")])])])>>)),
   With(With(MCMessage("m"), "slashCommand", Rec([commandId |-> Str("7")])),
        "annotations", Arr(<<MCSlash(0, 2)>>)),
   With(MCMessage("m"), "slashCommand", Rec([commandId |-> Num(7)])),
   With(MCMessage("m"), "name", Absent)}

-----------------------------------------------------------------------------
(* Events.                                                                 *)
MCEvent(type, user) ==
  Rec([type |-> Str(type), eventTime |-> Str("now"), user |-> user, space |-> MCSpace("ROOM")])

MCMessageEvents ==
  {With(MCEvent("MESSAGE", MCAnn), "message", m) : m \in MCAnnotated \cup MCPlaced \cup MCAdorned}
    \cup {With(MCEvent(type, user), "message", MCMessage("m")) :
            type \in {"MESSAGE", "ADDED_TO_SPACE"}, user \in {Absent, MCNameless, MCApp}}

MCForm(raw) == Rec([formInputs |-> Rec([gamma |-> raw])])

MCStrings(value) == Rec([stringInputs |-> Rec([value |-> value])])

MCStringLists ==
  {<< >>, <<Str("users/ann"), Str("users/bob")>>, <<Str("spaces/A")>>, <<Str("checked")>>, <<Str("0")>>,
   <<Str("x")>>, <<Str("users/ann"), Str("x")>>, <<Num(1)>>}

MCInputs ==
  {MCStrings(Arr(values)) : values \in MCStringLists} \cup {MCStrings(Str("x"))}
    \cup {Rec(kind :> Rec([msSinceEpoch |-> at])) :
            kind \in {"dateInput", "dateTimeInput"}, at \in {Num(1), Spelled(1), Str("x"), Absent}}
    \cup {Rec([timeInput |-> Rec([hours |-> h, minutes |-> m])]) :
            h \in {Num(0), Num(24), Absent}, m \in {Num(59), Str("5")}}
    \cup {Rec([otherInput |-> Rec([x |-> Num(1)])]), Str("junk")}

MCParameters == Arr(<<Rec([key |-> Str("alpha"), value |-> Str("1")]), Rec([key |-> Str("gamma")]),
                      Rec([value |-> Str("2")])>>)

MCCommons ==
  {Absent,
   Rec([invokedFunction |-> Str("run"), userLocale |-> Str("de"), timeZone |-> Str("CET")]),
   Rec([parameters |-> Rec([alpha |-> Str("2"), gamma |-> Num(3)]), locale |-> Str("en"),
        timeZone |-> Rec([id |-> Str("CET")])]),
   Rec([parameters |-> Rec([autocomplete_widget_query |-> Str("q")])]),
   Rec([dialogEventType |-> Str("CANCELLED_DIALOG")])}
    \cup {MCForm(raw) : raw \in MCInputs}

MCClicks ==
  {With(With(MCEvent("CARD_CLICKED", MCAnn), "common", common), "action",
        Rec([actionMethodName |-> Str("old"), parameters |-> MCParameters])) : common \in MCCommons}
    \cup {With(With(MCEvent(type, MCAnn), "dialogEventType", dialog), "message", MCMessage("m")) :
            type \in {"CARD_CLICKED", "WIDGET_UPDATED", "SUBMIT_DIALOG"},
            dialog \in {Absent, Str("REQUEST_DIALOG"), Str("SUBMIT_DIALOG"), Str("CANCEL_DIALOG")}}
    \cup {With(With(MCEvent("APP_COMMAND", MCUnnamed), "appCommandMetadata",
                    Rec([appCommandId |-> Num(5), appCommandType |-> Str("QUICK")])),
               "commonEventObject", MCForm(MCStrings(Arr(<<Str("x")>>))))}

MCWorkspaceData ==
  [created |-> Rec([message |-> MCMessage("m")]),
   reaction |-> Rec([reaction |-> Rec([name |-> Str("r"), user |-> MCAnn,
                                       emoji |-> Rec([unicode |-> Str("+1")])])]),
   membership |-> Rec([membership |-> Rec([name |-> Str("mb"), member |-> MCUnnamed])]),
   space |-> Rec([space |-> MCSpace("ROOM")]),
   none |-> Rec([other |-> Num(1)])]

MCWorkspaceTypes ==
  [created |-> "google.workspace.chat.message.v1.created",
   reaction |-> "google.workspace.chat.reaction.v1.deleted",
   membership |-> "google.workspace.chat.membership.v1.created",
   space |-> "google.workspace.chat.space.v1.updated",
   none |-> "google.workspace.chat.other"]

MCCloudEvents ==
  {Rec([type |-> Str(MCWorkspaceTypes[k]), data |-> MCWorkspaceData[k], time |-> Str("now"),
        id |-> id]) : k \in DOMAIN MCWorkspaceData, id \in {Absent, Str("ce1")}}

MCPush(json, messageId, attributes) ==
  Rec([message |-> Rec([data |-> Encoded(json), messageId |-> Str(messageId),
                        publishTime |-> Str("published"), attributes |-> attributes])])

MCPushed(k, messageId, eventId) ==
  MCPush(MCWorkspaceData[k], messageId,
         Rec("ce-type" :> Str(MCWorkspaceTypes[k]) @@ "ce-id" :> Str(eventId)
             @@ "ce-time" :> Str("now")))

MCMessagePush(id, time) ==
  MCPush(With(With(MCEvent("MESSAGE", MCAnn), "message", MCMessage(id)), "eventTime", time),
         "p1", Absent)

MCPushes ==
  {MCPushed(k, "p1", "ce1") : k \in DOMAIN MCWorkspaceData}
    \cup {MCMessagePush("m", time) : time \in {Absent, Str("now")}}
    \cup {MCPush(Str("no record"), "p1", Absent), MCPush(Rec([x |-> Num(1)]), "p1", Absent)}

MCPayloads ==
  MCMessageEvents \cup MCClicks \cup MCCloudEvents \cup MCPushes
    \cup {MCEvent("REMOVED_FROM_SPACE", MCAnn), MCEvent("UNHEARD_OF", MCAnn), Rec([x |-> Num(1)])}

-----------------------------------------------------------------------------
(* The deliveries of a few events, some of which come twice: pushed again  *)
(* by Pub/Sub, or published again with the same CloudEvent id.             *)
MCAt(event, time) == With(event, "eventTime", Str(time))

MCEventOf(payload, of) == [kind |-> "event", payload |-> payload, of |-> of]

MCRepeats ==
  {MCEventOf(MCAt(MCEvent("CARD_CLICKED", MCAnn), "t1"), "click 1"),
   MCEventOf(MCAt(MCEvent("CARD_CLICKED", MCAnn), "t2"), "click 2"),
   MCEventOf(MCAt(With(MCEvent("MESSAGE", MCAnn), "message", MCMessage("m")), "t1"), "message m"),
   MCEventOf(MCAt(With(MCEvent("MESSAGE", MCAnn), "message", MCMessage("n")), "t1"), "message n"),
   MCEventOf(MCPushed("created", "p1", "ce1"), "created"),
   MCEventOf(MCPushed("created", "p2", "ce1"), "created"),
   MCEventOf(MCPushed("reaction", "p3", "ce2"), "reaction"),
   MCEventOf(MCMessagePush("m", Absent), "pushed m")}

MCDeliveries == {MCEventOf(payload, "it") : payload \in MCPayloads} \cup MCRepeats

(* A message with a character that takes two UTF-16 units, and a mention   *)
(* behind it.                                                              *)
MCEmojiDeliveries ==
  {MCEventOf(With(MCEvent("MESSAGE", MCAnn), "message",
                  With(With(MCMessage("m"), "text", MCEmojiText), "annotations",
                       Arr(<<MCMention(MCAnn, 3, 1)>>))), "it")}

-----------------------------------------------------------------------------
(***************************************************************************)
(* The cards Ports is checked with: every builder with what it may be      *)
(* given, raw messages of the app, and every envelope they are sent in.    *)
(* An action calls a function by its name or by the URL of an add-on.      *)
(***************************************************************************)
MCAct(f, parameters) == Rec([function |-> Str(f), parameters |-> parameters])

MCDecide(f, decision) ==
  MCAct(f, Rec([decision |-> Str(decision), gamma |-> Num(3), alpha |-> Null]))
MCStop(f) == MCAct(f, Absent)

MCTrue == Bool(TRUE)
MCWidget(kind, fields) == Rec(kind :> Rec(fields))

\* A button, chip or image that has been built already.
MCOpens(fields) == Rec([onClick |-> Rec([openLink |-> Rec([url |-> Str("url")])])] @@ fields)
MCCalls(f, fields) ==
  Rec([onClick |->
         Rec([action |->
                Rec([function |-> Str(f),
                     parameters |-> Arr(<<Rec([key |-> Str("alpha"), value |-> Str("1")])>>)])])]
      @@ fields)
MCButtons(buttons) == MCWidget("buttonList", [buttons |-> Arr(buttons)])

MCRichWidgets(f) ==
  <<MCWidget("image", [imageUrl |-> Str("url"), altText |-> Str("alt")]),
    Rec([image |-> MCOpens([altText |-> Str(" ")])]),
    MCWidget("divider", << >>),
    MCWidget("decoratedText", [topLabel |-> Str("L"), text |-> Str("T")]),
    MCWidget("textInput", [name |-> Str("n"), type |-> Str("SINGLE_LINE")]),
    MCWidget("selectionInput",
             [name |-> Str("n"),
              items |-> Arr(<<Rec([text |-> Str("a"), selected |-> MCTrue]), Rec([text |-> Str("c")]),
                              Rec([value |-> Str("b"), selected |-> MCTrue])>>)]),
    MCWidget("dateTimePicker", [name |-> Str("n"), valueMsEpoch |-> Num(1)]),
    MCWidget("grid",
             [title |-> Str("g"), columnCount |-> Num(2),
              items |-> Arr(<<Rec([id |-> Str("1"), image |-> Rec([altText |-> Str("alt")])]),
                              Rec(<< >>)>>)]),
    MCWidget("columns",
             [columnItems |->
                Arr(<<Rec([widgets |-> Arr(<<MCWidget("textParagraph", [text |-> Str("in")])>>)])>>)]),
    MCWidget("carousel",
             [carouselCards |->
                Arr(<<Rec([footerWidgets |-> Arr(<<MCWidget("divider", << >>)>>)])>>)]),
    MCWidget("chipList", [chips |-> Arr(<<MCOpens([label |-> Str("chip")]),
                                          MCOpens([text |-> Str("chip"), disabled |-> MCTrue])>>)]),
    MCButtons(<<MCOpens([text |-> Str("Link")]), MCCalls(f, [icon |-> Str("i"), text |-> Str("Call")]),
                MCCalls(f, [icon |-> Rec([name |-> Str("i")]), text |-> Str("Call")])>>),
    Str("junk")>>

\* What an app asks for: options and, by their labels, the actions of the buttons.
MCAsks(raw, actions) == [raw |-> raw, actions |-> actions]

MCCalled(f) == "Call" :> MCAct(f, Rec([alpha |-> Str("1")])) @@ "Up" :> MCDecide(f, "up")

MCSections(f) ==
  Arr(<<Rec([header |-> Str("S"), collapsible |-> MCTrue, uncollapsibleWidgetsCount |-> Num(1),
             text |-> Arr(<<Str("one"), Num(2), Str("two")>>),
             fields |-> Arr(<<Rec([label |-> Str("L"), text |-> Str("T")])>>),
             buttons |-> Arr(<<Rec([text |-> Str("Up"), action |-> MCDecide(f, "up")]),
                               Rec([text |-> Str("Link"), openLink |-> Str("url")]),
                               Rec([text |-> Str("")])>>)]),
        Rec([text |-> Str("text"), widgets |-> Arr(MCRichWidgets(f))])>>)

MCCards(f) ==
  {MCAsks(Rec([title |-> Str("T"), subtitle |-> Str("U"), sections |-> MCSections(f)]), MCCalled(f)),
   MCAsks(Rec([cardId |-> Str("c"), fallbackText |-> Str("F"), widgets |-> Arr(MCRichWidgets(f))]),
          MCCalled(f)),
   MCAsks(Rec([title |-> Str("T"), widgets |-> Arr(<<MCWidget("divider", << >>)>>)]), << >>),
   MCAsks(Rec([title |-> Str("T"),
               card |-> Rec([header |-> Rec([title |-> Str("raw"), imageUrl |-> Str("url")]),
                             sections |-> Arr(<<Rec([header |-> Str("no widgets")])>>)])]), << >>)}

MCSource == Rec([title |-> Str("A"), url |-> Str("url"), confidence |-> Str("high"),
                 label |-> Str("L"), snippet |-> Str("S")])

MCFields ==
  Arr(<<Rec([type |-> Str("text"), name |-> Str("n"), label |-> Str("L"), multiline |-> MCTrue,
             value |-> Str("v")]),
        Rec([type |-> Str("selection"), name |-> Str("n"),
             items |-> Arr(<<Rec([text |-> Str("a"), value |-> Str("a"), selected |-> MCTrue])>>)]),
        Rec([type |-> Str("switch"), name |-> Str("n"), selected |-> MCTrue]),
        Rec([rawWidget |-> Rec([x |-> Num(1)])])>>)

\* What a builder may be given besides the title and its actions.
MCDetails ==
  [approval |-> {[body |-> Str("B"), subtitle |-> Str("U")]},
   progress |-> {[detail |-> Str("D"), percent |-> Num(0),
                  steps |-> Arr(<<Rec([label |-> Str("step"), status |-> Str("complete")]),
                                  Rec([label |-> Str("step"), status |-> Str("active")]),
                                  Rec([label |-> Str("step")]), Num(1)>>)], << >>},
   error |-> {[message |-> Str("M"), details |-> Str("D")], << >>},
   feedback |-> {[responseId |-> Str("r1"), subtitle |-> Str("U")], << >>},
   accessory |-> {[text |-> Str("text")], [fallbackText |-> Str("F"), iconFill |-> Bool(FALSE)]},
   sources |-> {[responseId |-> Str("r1"),
                 sources |-> Arr(<<MCSource, Rec([resourceName |-> Str("R")]), Str("junk")>>)]},
   thinking |-> {[detail |-> Str("D"), startedAt |-> Str("t1")], [status |-> Str("done")]},
   tools |-> {[tools |-> Arr(<<Rec([name |-> Str("N"), status |-> Str("done"),
                                    output |-> Str("O")]),
                               Rec([detail |-> Str("D")])>>)]},
   streaming |-> {[patchCount |-> Num(2), throttleMs |-> Num(5)], << >>},
   dialog |-> {[fields |-> MCFields]}]

\* The actions of a builder: by option, and by the label of their button.
MCActions(f) ==
  LET up == MCDecide(f, "up")
      down == MCDecide(f, "down")
      stop == MCStop(f)
      without == [keys |-> << >>, labels |-> << >>]
      three == [upAction |-> up, downAction |-> down, commentAction |-> stop]
  IN [approval |-> [keys |-> [approveAction |-> up, rejectAction |-> down],
                    labels |-> [Approve |-> up, Reject |-> down]],
      progress |-> [keys |-> [cancelAction |-> stop], labels |-> [Cancel |-> stop]],
      error |-> [keys |-> [retryAction |-> up], labels |-> [Retry |-> up]],
      feedback |-> [keys |-> three, labels |-> "Helpful" :> up @@ "Not helpful" :> down
                                                  @@ "Add comment" :> stop],
      accessory |-> [keys |-> three, labels |-> "Mark helpful" :> up @@ "Mark not helpful" :> down
                                                   @@ "Add feedback comment" :> stop],
      sources |-> without, thinking |-> without, tools |-> without,
      streaming |-> [keys |-> [finalAction |-> stop], labels |-> [Cancel |-> stop]],
      dialog |-> [keys |-> [submitAction |-> up], labels |-> [Submit |-> up]]]

MCAskedOf(build, f) ==
  LET actions == MCActions(f)[build]
  IN {MCAsks(Rec(title @@ details @@ actions.keys), actions.labels) :
        title \in {[title |-> Str("T")], [cardId |-> Str("c")]}, details \in MCDetails[build]}

\* Without one of the actions, and with one that has no function.
MCLacking(build, f) ==
  LET actions == MCActions(f)[build]
      Without(key) == [k \in DOMAIN actions.keys \ {key} |-> actions.keys[k]]
      Title == [title |-> Str("T")]
  IN {MCAsks(Rec(Title @@ Without(key)), actions.labels) : key \in DOMAIN actions.keys}
       \cup {MCAsks(Rec(Title @@ key :> Rec([parameters |-> Rec(<< >>)]) @@ actions.keys),
                    actions.labels) : key \in DOMAIN actions.keys}

MCPlain == [surface |-> "chat-message", principal |-> "app", allowNamedFunctions |-> FALSE,
            allowDeveloperPreviewUserCards |-> FALSE]
MCAddon == [MCPlain EXCEPT !.surface = "workspace-addon-action-response"]
MCDirect == [MCPlain EXCEPT !.surface = "direct-chat-response"]
MCUser == [MCPlain EXCEPT !.principal = "user"]

MCRequest(build, asks, send, options, stateful) ==
  [kind |-> "card", build |-> build, raw |-> asks.raw, actions |-> asks.actions,
   send |-> send, options |-> options, stateful |-> stateful, bytes |-> 0]

MCPosted ==
  UNION {{MCRequest(build, asks, <<"message">>, MCPlain, stateful) :
            asks \in MCAskedOf(build, "run"), stateful \in BOOLEAN} : build \in DOMAIN MCDetails}
    \cup UNION {{MCRequest(build, asks, <<"message">>, MCPlain, TRUE) :
                   asks \in MCLacking(build, "run")} : build \in DOMAIN MCDetails \ {"dialog"}}
    \cup {MCRequest("card", asks, <<"message">>, options, FALSE) :
            asks \in MCCards("run"), options \in {MCPlain, MCUser}}

MCAnswered ==
  UNION {{MCRequest(build, asks, send, options, TRUE) :
            asks \in MCAskedOf(build, f), send \in {<<"create">>, <<"update">>},
            options \in {MCAddon, [MCAddon EXCEPT !.allowNamedFunctions = TRUE]}} :
           build \in {"approval", "accessory", "sources"}, f \in {"run", "https://app"}}
    \cup {MCRequest("dialog", asks, send, MCAddon, TRUE) :
            asks \in MCAskedOf("dialog", "https://app"), send \in {<<"open">>, <<"navigate">>}}
    \cup {MCRequest("raw", MCAsks(raw, << >>), send, MCAddon, FALSE) :
            raw \in {Rec([sections |-> Arr(<< >>)]), Rec([header |-> Rec([title |-> Str("T")])]),
                     Str("text")},
            send \in {<<"open">>, <<"create">>}}

-----------------------------------------------------------------------------
(* Messages an app makes itself, and what it has translated for an add-on. *)
MCMade(f, fields) ==
  Rec(fields
      @@ [text |-> Str("text"), fallbackText |-> Str("F"),
          cardsV2 |-> Arr(<<Rec([cardId |-> Str("c"),
                                 card |-> Rec([header |-> Rec([title |-> Str("T")]),
                                               sections |->
                                                 Arr(<<Rec([widgets |-> Arr(MCRichWidgets(f))])>>)])])>>)])

MCNavigations ==
  Rec([navigations |-> Arr(<<Rec([pushCard |-> Rec([sections |-> Arr(<< >>)])]), Str("junk")>>)])

MCFaults ==
  {[cardsV2 |-> Arr(<<Str("junk")>>)], [cardsV2 |-> Arr(<< >>)], [text |-> Str(" ")],
   [fallbackText |-> Null], [cards |-> Arr(<< >>)], [cards_v2 |-> Arr(<< >>)],
   [hostAppDataAction |-> Rec([x |-> Num(1)])], [action |-> MCNavigations],
   [accessoryWidgets |-> Arr(<<MCButtons(<<MCOpens([text |-> Str("Link")])>>)>>),
    attachment |-> Arr(<< >>)],
   [accessoryWidgets |-> Arr(<<Str("junk")>>), actionResponse |-> Rec([type |-> Str("DIALOG")])]}

MCEnvelopes ==
  {Rec([hostAppDataAction |->
          Rec([chatDataAction |->
                 Rec([createMessageAction |-> Rec([message |-> MCMade("https://app", << >>)]),
                      updateInlinePreviewAction |-> MCMade("run", << >>)])]),
        action |-> MCNavigations]),
   Rec([x |-> Num(1)]), Str("junk")}

MCOwn ==
  {MCRequest("raw", MCAsks(MCMade("run", fields), MCCalled("run")), <<"message">>, options, FALSE) :
     fields \in MCFaults \cup {<< >>}, options \in {MCPlain, MCDirect, MCUser}}
    \cup {MCRequest("raw", MCAsks(raw, MCCalled("https://app")), <<"message">>, MCAddon, FALSE) :
            raw \in MCEnvelopes \cup {MCMade("https://app", << >>)}}
    \cup {[MCRequest("raw", MCAsks(MCMade("run", << >>), MCCalled("run")), <<"message">>, MCPlain, FALSE)
             EXCEPT !.bytes = bytes] : bytes \in {28001, 32000, 32001}}

MCTranslations ==
  {<<"direct-chat-response", "workspace-addon-action-response", mode>> :
     mode \in {"", "create-message", "update-message", "open-dialog", "close-dialog"}}
    \cup {<<"chat-message", "direct-chat-response", "">>, <<"chat-message", "dialogflow", "">>}

MCResponse(type, f) ==
  LET body == Rec([sections |-> Arr(<<Rec([widgets |-> Arr(MCRichWidgets(f))])>>)])
  IN Rec([type |-> Str(type), dialogAction |-> Rec([dialog |-> Rec([body |-> body])])])

MCTranslated ==
  {MCRequest("raw", MCAsks(MCMade(f, [actionResponse |-> MCResponse(type, f)]), MCCalled(f)),
             send, MCAddon, FALSE) :
     type \in {"UPDATE_MESSAGE", "NEW_MESSAGE", "DIALOG"}, f \in {"run", "https://app"},
     send \in MCTranslations}
    \cup {MCRequest("dialog", asks, send, MCAddon, TRUE) :
            asks \in MCAskedOf("dialog", "https://app"), send \in MCTranslations}

MCCardRequests == MCPosted \cup MCAnswered \cup MCOwn \cup MCTranslated

MCClickForms ==
  {Absent,
   Rec([n |-> MCStrings(Arr(<<Str("x"), Num(1)>>)), m |-> MCStrings(Arr(<< >>))]),
   Rec([n |-> Rec([dateInput |-> Rec([msSinceEpoch |-> Num(1)])]),
        m |-> Rec([dateTimeInput |-> Rec([msSinceEpoch |-> Str("5")])])]),
   Rec([n |-> Rec([timeInput |-> Rec([hours |-> Num(0), minutes |-> Spelled(5)])]),
        m |-> Rec([dateInput |-> Rec([timeZone |-> Str("CET")])])])}

MCHandlers ==
  {[methods |-> {Str("run"), Str("https://app")}, types |-> {"cardClick"}, unknown |-> FALSE],
   [methods |-> {}, types |-> {"dialogSubmit", "widgetUpdate"}, unknown |-> TRUE],
   [methods |-> {}, types |-> {}, unknown |-> FALSE]}

-----------------------------------------------------------------------------
\* A part that stands still has only one initial state.
Chosen(p, value, values) == part = p \/ value = CHOOSE v \in values : TRUE

PartsInit ==
  /\ part \in {"answers", "polling", "ports"}
  /\ Init /\ PollingInit
  /\ Chosen("answers", queueKind, QueueKinds)
  /\ Chosen("answers", ownIds, MCOwnIds)
  /\ Chosen("polling", pollingMode, Modes)
  /\ PortsInitFrom(IF part = "ports" THEN Deliveries \cup CardRequests ELSE {CHOOSE d \in Deliveries : TRUE})

PartsNext ==
  /\ UNCHANGED part
  /\ \/ part = "answers" /\ Next /\ UNCHANGED <<pollingVars, portVars>>
     \/ part = "polling" /\ PollingNext /\ UNCHANGED <<vars, portVars>>
     \/ part = "ports" /\ PortsNext /\ UNCHANGED <<vars, pollingVars>>

(* The fairness of FairSpec and of PollingFairSpec.                        *)
PartsSpec ==
  /\ PartsInit /\ [][PartsNext]_<<part, vars, pollingVars, portVars>>
  /\ Fairness /\ WF_pollingVars(part = "polling" /\ Poll)
=============================================================================
