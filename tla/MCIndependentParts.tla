------------------------- MODULE MCIndependentParts -------------------------
(***************************************************************************)
(* Ten parts that share no state, checked in one run: the initial state    *)
(* chooses one of them and the others stand still.  The states are the     *)
(* union of the parts' own, not their product.  Names without a prefix are *)
(* those of FirestoreStore.                                                *)
(***************************************************************************)
EXTENDS StreamReplay, FirestoreStore, RequestVerifier, ArtifactCache, IdentityCache,
        ChatLinks, DriveLinks, ThreadFileLock, ConversationContext, SmokeRuns

CONSTANTS
  Parts,      \* those a run checks, of PartNames
  c1, c2, c3, k1, b1, b2, u1, u2

VARIABLE part

\* ArtifactCache: two puts may bring the same bytes.
MCKeyAt == [c \in CacheCalls |-> k1]

MCBytesOf == [c \in CacheCalls |-> IF c = c2 THEN b2 ELSE b1]

MCAddressOf == [u \in Users |-> IF u = u1 THEN "address1" ELSE "address2"]

MCAliasesOf == [u \in Users |-> IF u = u1 THEN {"alias1"} ELSE {"alias2"}]

-----------------------------------------------------------------------------
(* ChatLinks: links by structured data and by URL, to the space A, to a    *)
(* thread and a message of it, to B, to nothing known, and across spaces.  *)

MCValidSegments == {"spaces", "messages", "threads", "A", "B", "m", "t"}

MCNoData == [message |-> <<>>, thread |-> <<>>, space |-> <<>>]

MCUrl(protocol, host, path, hash) ==
  [protocol |-> protocol, host |-> host, path |-> path, hash |-> hash, size |-> Len(path)]

MCRoom(path) == MCUrl("https", "chat.google.com", path, <<>>)

MCByUrl(source, url) == [source |-> source, url |-> url, data |-> MCNoData]

MCByData(data) ==
  [source |-> "chat_space_link_data", url |-> MCRoom(<<>>), data |-> data]

MessageM == MCByData([MCNoData EXCEPT !.message = <<"spaces", "A", "messages", "m">>,
                                      !.space = <<"spaces", "A">>])
AcrossSpaces == MCByData([MCNoData EXCEPT !.message = <<"spaces", "A", "messages", "m">>,
                                          !.space = <<"spaces", "B">>])
ThreadT == MCByUrl("rich_link_url", MCRoom(<<"room", "A", "t">>))
SpaceA  == MCByUrl("plain_url",
             MCUrl("https", "mail.google.com", <<"mail", "u", "0">>, <<"chat", "space", "A">>))
SpaceB  == MCByUrl("plain_url", MCRoom(<<"u", "0", "app", "chat", "B">>))
MatchB  == MCByUrl("matched_url", MCRoom(<<"room", "B">>))
Direct  == MCByUrl("plain_url",
             MCUrl("https", "mail.google.com", <<"mail", "u", "0">>, <<"chat", "dm", "A">>))
Foreign == MCByUrl("plain_url", MCUrl("https", "elsewhere", <<"room", "A">>, <<>>))

MCMessage == [name |-> "", links |-> <<>>, annotations |-> <<>>, matched |-> <<>>,
              text |-> <<>>, message |-> <<>>, messages |-> <<>>, contextNode |-> <<>>,
              children |-> <<>>, ast |-> FALSE]

MCChild(node) == [node |-> node, relationship |-> "child", index |-> 0]

(* Two listed messages share a third, which leads back to the first.       *)
MCChatShared ==
  [input  |-> [MCMessage EXCEPT !.messages = <<"first", "second">>, !.text = <<Foreign>>],
   first  |-> [MCMessage EXCEPT !.name = "first", !.links = <<MessageM, ThreadT>>,
                                !.children = <<MCChild("shared")>>],
   second |-> [MCMessage EXCEPT !.name = "second", !.annotations = <<MessageM>>,
                                !.text = <<SpaceB, SpaceA>>, !.matched = <<MatchB>>,
                                !.children = <<MCChild("shared"), MCChild("first")>>],
   shared |-> [MCMessage EXCEPT !.name = "shared", !.links = <<SpaceB>>,
                                !.contextNode = <<"first">>]]

(* A normalized message whose quoted message is in its context node.       *)
MCChatNormalized ==
  [input   |-> [MCMessage EXCEPT !.message = <<"root">>],
   root    |-> [MCMessage EXCEPT !.name = "root", !.ast = TRUE, !.contextNode = <<"context">>,
                                 !.text = <<SpaceA>>],
   context |-> [MCMessage EXCEPT !.children = <<MCChild("quoted"), MCChild("card")>>],
   quoted  |-> [MCMessage EXCEPT !.name = "quoted", !.text = <<SpaceB, SpaceA>>],
   card    |-> [MCMessage EXCEPT !.links = <<ThreadT>>]]

\* What makes a plan partial although nothing is left out.
MCChatDoubtful == [MCChatNormalized EXCEPT !.quoted.links = <<AcrossSpaces>>, !.root.text = <<Direct>>]

MCChatLimits == [candidates |-> 9, urls |-> 9, chars |-> 99, urlLength |-> 9,
                 occurrences |-> 9, nodes |-> 9, scans |-> 9, depth |-> 9]

MCLower(limits, names, values) ==
  {limits} \cup UNION {{[limits EXCEPT ![n] = v] : v \in values} : n \in names}

\* Each limit by itself, and the depth together with each other.
MCChatLowered ==
  UNION {MCLower([MCChatLimits EXCEPT !.depth = d], DOMAIN MCChatLimits, 1..4) : d \in {2, 3, 9}}

MCChatOptions == [enabled |-> TRUE, authMode |-> "user", spaceLevel |-> FALSE, cached |-> {},
                  sources |-> {"chat_space_link_data", "rich_link_url", "matched_url", "plain_url"}]

MCChatChoices ==
  {MCChatOptions, [MCChatOptions EXCEPT !.enabled = FALSE],
   [MCChatOptions EXCEPT !.authMode = "service"],
   [MCChatOptions EXCEPT !.spaceLevel = TRUE, !.cached = {<<"spaces", "A">>}],
   [MCChatOptions EXCEPT !.sources = {"matched_url", "plain_url"}]}

MCChatTrees == {MCChatShared, MCChatNormalized, MCChatDoubtful}

MCChatInputs ==
  [tree : MCChatTrees, root : {"input"}, limits : MCChatLowered, options : {MCChatOptions}]
  \cup [tree : MCChatTrees, root : {"input"}, limits : {MCChatLimits}, options : MCChatChoices]

-----------------------------------------------------------------------------
(* DriveLinks: files that can be read and links that lead to none.         *)

MCDriveLink(source, kind, host, path, id) ==
  [source |-> source, kind |-> kind, url |-> [host |-> host, path |-> path, id |-> id]]

Doc       == MCDriveLink("rich_link", "", "docs.google.com", <<"document", "d", "doc">>, "")
Blob      == MCDriveLink("plain_url", "", "drive.google.com", <<"file", "d", "blob">>, "")
Opened    == MCDriveLink("matched_url", "", "drive.google.com", <<"open">>, "sheet")
Sheet     == MCDriveLink("plain_url", "", "docs.google.com", <<"spreadsheets", "d", "sheet">>, "")
Published == MCDriveLink("plain_url", "", "docs.google.com", <<"document", "d", "e">>, "")
Folder    == MCDriveLink("plain_url", "", "drive.google.com", <<"drive", "folders", "f">>, "")
Site      == MCDriveLink("plain_url", "", "elsewhere", <<"file", "d", "doc">>, "")

MCRecord == [name |-> "", relationship |-> "message", links |-> <<>>, annotations |-> <<>>,
             matched |-> <<>>, text |-> <<>>, message |-> <<>>, context |-> <<>>,
             children |-> <<>>, quotedMessages |-> <<>>, threadHistory |-> <<>>,
             quotedMessage |-> <<>>, contextNode |-> <<>>, wrapper |-> FALSE, listed |-> FALSE]

(* The documented call: a normalized message, with a context tree in which *)
(* one message is quoted twice.                                            *)
MCDriveCall ==
  [input   |-> [MCRecord EXCEPT !.message = <<"root">>, !.context = <<"thread">>,
                               !.wrapper = TRUE],
   root    |-> [MCRecord EXCEPT !.name = "root", !.links = <<Doc>>, !.listed = TRUE,
                                !.text = <<Blob, Site>>, !.contextNode = <<"quoted">>],
   thread  |-> [MCRecord EXCEPT !.relationship = "thread", !.message = <<"root">>,
                                !.threadHistory = <<"quoted", "reply">>],
   reply   |-> [MCRecord EXCEPT !.annotations = <<Doc>>, !.quotedMessage = <<"quoted">>],
   quoted  |-> [MCRecord EXCEPT !.name = "quoted", !.text = <<Blob, Blob>>,
                                !.matched = <<Opened>>]]

(* Messages that quote each other, directly and through a fresh object.    *)
MCDriveCycle(quotes) ==
  [input |-> [MCRecord EXCEPT !.name = "input", !.text = <<Blob>>, !.children = <<"other">>],
   other |-> [MCRecord EXCEPT !.name = "other", !.annotations = <<Doc>>,
                              !.children = IF quotes THEN <<>> ELSE <<"input">>,
                              !.quotedMessages = IF quotes THEN <<"input">> ELSE <<>>]]

MCDriveBlocked(links) ==
  [input |-> [MCRecord EXCEPT !.message = <<"root">>],
   root  |-> [MCRecord EXCEPT !.name = "root", !.text = links]]

(* Two links with one URL, of which one says that it is a folder.          *)
MCDriveRetyped ==
  [input |-> [MCRecord EXCEPT !.name = "input", !.listed = TRUE,
                              !.links = <<Doc, [Doc EXCEPT !.kind = "folder"]>>]]

MCDriveLimits == [links |-> 12, nodes |-> 12, scans |-> 12, urls |-> 12, depth |-> 5]

MCDriveLowered == MCLower(MCDriveLimits, DOMAIN MCDriveLimits, 0..6)

MCDriveOptions ==
  {[sources |-> sources, negative |-> negative, blockedKinds |-> {}] :
     sources \in {{"rich_link", "matched_url", "plain_url"}, {"rich_link", "plain_url"}},
     negative \in {{}, {"doc"}}}

MCDriveTrees ==
  {MCDriveCall, MCDriveCycle(TRUE), MCDriveCycle(FALSE), MCDriveRetyped,
   MCDriveBlocked(<<Published, Folder>>), MCDriveBlocked(<<Published, Blob>>)}

(* What the guide calls a normalized message, as the input itself.         *)
MCNormalizedInput ==
  [input  |-> [MCRecord EXCEPT !.name = "input", !.text = <<Blob>>, !.listed = TRUE,
                               !.contextNode = <<"quoted">>],
   quoted |-> [MCRecord EXCEPT !.name = "quoted", !.text = <<Sheet>>]]

MCDriveInputs ==
  [tree : MCDriveTrees, root : {"input"}, limits : MCDriveLowered,
   options : MCDriveOptions, planned : BOOLEAN]
  \cup [tree : {MCNormalizedInput}, root : {"input"}, limits : MCDriveLowered,
        options : MCDriveOptions, planned : {FALSE}]

MCDirectInputs ==
  [tree : {MCNormalizedInput}, root : {"input"}, limits : MCDriveLowered,
   options : MCDriveOptions, planned : {TRUE}]

-----------------------------------------------------------------------------
(* ConversationContext: the pages it is given.                             *)
MCPlain(name, created, chars) ==
  [name |-> name, created |-> created, updated |-> created, chars |-> chars, notes |-> 1,
   attachments |-> 0, quotes |-> <<>>, metadata |-> <<>>]

MCQuote(name, updated) == [name |-> name, updated |-> updated, message |-> <<>>, snapshot |-> <<>>]

Root == [MCPlain("root", 1, 3) EXCEPT !.attachments = 1]

(* Each quotes the other, as a message may that was edited.                *)
RootQuotingReply == [Root EXCEPT !.metadata = <<MCQuote("reply", 2)>>]

Reply == [MCPlain("reply", 2, 2) EXCEPT !.metadata = <<MCQuote("root", 1)>>]

(* Quotes of what the pages do not hold, or no longer as it was.           *)
OfSnapshot == [MCPlain("ofSnapshot", 3, 1) EXCEPT
                 !.metadata = <<[MCQuote("gone", 1) EXCEPT !.snapshot = <<4>>]>>]

OfEdited == [MCPlain("ofEdited", 3, 5) EXCEPT !.metadata = <<MCQuote("root", 0)>>]

(* A quote in a quote, and one that is named twice.                        *)
Inner == MCPlain("inner", 0, 2)

Other == MCPlain("other", 0, 1)

Outer == [MCPlain("outer", 0, 3) EXCEPT !.quotes = <<Inner>>]

Nested == [MCPlain("nested", 2, 1) EXCEPT
             !.quotes = <<Outer, Other>>,
             !.metadata = <<[MCQuote("outer", 0) EXCEPT !.message = <<Outer>>]>>]

MCRawMessages ==
  {Root, RootQuotingReply, Reply, OfSnapshot, SnapshotMessage(OfSnapshot.metadata[1], 4), OfEdited,
   Inner, Other, Outer, Nested}

MCPage(messages) == [messages |-> messages, error |-> FALSE, more |-> FALSE]

MCPages ==
  {<<MCPage(<<Root, Reply>>)>>,
   <<MCPage(<<Reply>>), MCPage(<<RootQuotingReply>>)>>,
   <<MCPage(<<OfSnapshot, Nested>>)>>,
   <<MCPage(<<Root>>), [MCPage(<<OfEdited>>) EXCEPT !.more = TRUE]>>,
   <<MCPage(<<Nested, OfEdited, Reply>>)>>,
   <<MCPage(<<Root>>), [MCPage(<<>>) EXCEPT !.error = TRUE]>>}

MCOptions ==
  {[maxTextChars |-> text, maxTotalTextChars |-> total, maxFragments |-> many,
    maxQuoteDepth |-> deep] :
     text \in {2, 9}, total \in {5, 60}, many \in {4, 40}, deep \in {0, 1, 3}}

MCContextOf(budgets, options) ==
  [pages : MCPages, thread : BOOLEAN, limit : {2, 9}, desc : BOOLEAN, maxQuoteDepth : {0, 1, 2},
   tokens : budgets, options : options]

(* A thread is read from its first message on and a space from its latest  *)
(* one back.  A budget of tokens drops messages before anything is handed  *)
(* on.                                                                     *)
MCContextInputs ==
  LET wide == {options \in MCOptions : options.maxTextChars = 9 /\ options.maxTotalTextChars = 60}
  IN {input \in MCContextOf({-1}, MCOptions) \cup MCContextOf({6}, wide) : input.thread # input.desc}

-----------------------------------------------------------------------------
(* SmokeRuns: the command lines.                                           *)
Plain(script, flags) == Command(script, {"run"} \cup flags, 1, <<>>)

MCSmokeCommands ==
  {Command("chat", {"run", "messages", "threadReplies"}, 2, <<>>),
   Plain("chat", {"messages", "existingThread", "spaceLifecycle"}),
   Plain("reactions", {"reactionWrites"}),
   Command("reactions", {"run", "listOnly"}, 1, <<"bystander">>),
   Plain("cardAction", {}),
   Plain("visual", {"richCard", "carouselCard", "aiCards", "placeholder"}),
   Plain("visual", {}),
   Plain("uploadedMedia", {"mediaReady", "media", "mediaUpload"}),
   Plain("driveExport", {"drive", "synthetic", "driveWrites", "cleanupFile"}),
   Plain("driveExport", {"drive", "synthetic", "driveWrites"}),
   Command("driveExport", {"run", "drive"}, 1, <<"bystander">>),
   Plain("subscription", {"allowBlocked"}),
   Plain("subscription", {"validateOnly"}),
   Plain("sections", {"mutations", "sectionWrites"}),
   Plain("sections", {"mutations", "sectionWrites", "allowBlocked"}),
   Plain("userState", {"notification", "settingsWrites", "readState", "readStateWrites"}),
   Plain("userState", {"notification", "settingsWrites", "allowBlocked"})}

\* A message of someone else's is named, and reactions are to be written.
MCForeignCommands ==
  {Command("reactions", {"run", "reactionWrites"}, 1, <<"bystander">>)}

\* The leftovers a run of chat-smoke.mjs may be told to clean up.
MCSmokeFollowUps ==
  {Plain("sweep", {"liveCleanup"}),
   Plain("visual", {"cleanupFromEvidence"}),
   Plain("cardAction", {"cleanupFromEvidence"}),
   Plain("cardAction", {"cleanupConfirmations"}),
   Command("chat", {"run"}, 1, <<"threadRoot", "lifecycleSpace">>)}

-----------------------------------------------------------------------------
PartNames ==
  {"replay", "firestore", "verifier", "cache", "identity", "chat", "drive", "threads",
   "context", "smoke"}

ASSUME Parts \subseteq PartNames

\* A part that stands still has only one initial state.
Choice(p, values) == IF part = p THEN values ELSE {CHOOSE v \in values : TRUE}

PartsInit ==
  /\ part \in Parts
  /\ ReplayInit /\ Init /\ VerifierInit /\ CacheInit /\ IdentityInit /\ ThreadLockInit
  /\ state.overflow \in Choice("replay", {"truncate", "split"})
  /\ cacheKind \in Choice("cache", CacheKinds)
  /\ identityKind \in Choice("identity", IdentityKinds)
  /\ ChatInitFrom(Choice("chat", ChatInputs))
  /\ DriveInitFrom(Choice("drive", DriveInputs))
  /\ ContextInitFrom(Choice("context", ContextInputs))
  /\ SmokeInitFrom(Choice("smoke", SmokeCommands))

Only(p) == part = p /\ UNCHANGED part

PartsNext ==
  \/ /\ Only("replay") /\ ReplayNext
     /\ UNCHANGED <<vars, verifierVars, cacheVars, identityVars,
                    chatVars, driveVars, threadLockVars, contextVars, smokeVars>>
  \/ /\ Only("firestore") /\ Next
     /\ UNCHANGED <<schedulerVars, verifierVars, cacheVars, identityVars,
                    chatVars, driveVars, threadLockVars, contextVars, smokeVars>>
  \/ /\ Only("verifier") /\ VerifierNext
     /\ UNCHANGED <<schedulerVars, vars, cacheVars, identityVars,
                    chatVars, driveVars, threadLockVars, contextVars, smokeVars>>
  \/ /\ Only("cache") /\ CacheNext
     /\ UNCHANGED <<schedulerVars, vars, verifierVars, identityVars,
                    chatVars, driveVars, threadLockVars, contextVars, smokeVars>>
  \/ /\ Only("identity") /\ IdentityNext
     /\ UNCHANGED <<schedulerVars, vars, verifierVars, cacheVars,
                    chatVars, driveVars, threadLockVars, contextVars, smokeVars>>
  \/ /\ Only("chat") /\ ChatNext
     /\ UNCHANGED <<schedulerVars, vars, verifierVars, cacheVars,
                    identityVars, driveVars, threadLockVars, contextVars, smokeVars>>
  \/ /\ Only("drive") /\ DriveNext
     /\ UNCHANGED <<schedulerVars, vars, verifierVars, cacheVars,
                    identityVars, chatVars, threadLockVars, contextVars, smokeVars>>
  \/ /\ Only("threads") /\ ThreadLockNext
     /\ UNCHANGED <<schedulerVars, vars, verifierVars, cacheVars,
                    identityVars, chatVars, driveVars, contextVars, smokeVars>>
  \/ /\ Only("context") /\ ContextNext
     /\ UNCHANGED <<schedulerVars, vars, verifierVars, cacheVars,
                    identityVars, chatVars, driveVars, threadLockVars, smokeVars>>
  \/ /\ Only("smoke") /\ SmokeNext
     /\ UNCHANGED <<schedulerVars, vars, verifierVars, cacheVars, identityVars,
                    chatVars, driveVars, threadLockVars, contextVars>>

partsVars ==
  <<part, schedulerVars, vars, verifierVars, cacheVars, identityVars,
    chatVars, driveVars, threadLockVars, contextVars, smokeVars>>

PartsSpec == PartsInit /\ [][PartsNext]_partsVars
=============================================================================
