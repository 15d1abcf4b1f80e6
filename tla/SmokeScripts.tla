---------------------------- MODULE SmokeScripts ----------------------------
(***************************************************************************)
(* What the live smoke scripts (tools/live-smoke) ask of Google: each      *)
(* command line is a program, a sequence of acts.  An act has the steps of *)
(* its body, which the first failure ends, and of its cleanup, which runs  *)
(* in any case.  A resource is named by its slot, the role it has in the   *)
(* script.  The texts, the summaries kept as evidence and the checks of    *)
(* the space's metadata are left out; a check that can fail at run time is *)
(* a step that can fail.                                                   *)
(*                                                                         *)
(* A setting of the user that a script changes and puts back is a resource *)
(* as well: the change creates it and the restoration deletes it.          *)
(***************************************************************************)
EXTENDS Integers, Sequences, FiniteSets, SequencesExt

(* A command line: its flags and gates, --thread-reply-count and the names *)
(* of resources it is given.                                               *)
Command(script, flags, count, names) ==
  [script |-> script, flags |-> flags, count |-> count, names |-> names]

Request(does, slot, op, needs) ==
  [does |-> does, on |-> slot, op |-> op, needs |-> needs, learns |-> {}, missingOk |-> FALSE]

Gets(slot) == Request("read", slot, <<>>, {})
Patches(slot) == Request("change", slot, <<>>, {})
Creates(slot, op) == [Request("create", slot, op, {}) EXCEPT !.learns = {slot}]
Deletes(slot) == Request("delete", slot, <<>>, {slot})     \* of what the run knows
DeletesNamed(name) == Request("delete", name, <<>>, {})    \* of what it is given

Check == Gets("none")

If(condition, steps) == IF condition THEN steps ELSE <<>>
Also(condition, calls) == IF condition THEN calls ELSE {}

Act(body, cleanup) == [body |-> body, cleanup |-> cleanup]

(* traits: "remembers", the evidence lists what was created by name;       *)
(* "hides", it has only hashes of names; "swallows", a failed cleanup does *)
(* not fail the run; "goesOn", the next act follows a failed one;          *)
(* "lenient", with --allow-blocked a blocked run is reported as ok.  kept: *)
(* what the script leaves in place.                                        *)
Program(acts, plan, traits, kept) ==
  [acts |-> acts, plan |-> plan, traits |-> traits, kept |-> kept]

Writes(does, slots) == {[does |-> does, on |-> s] : s \in slots}

-----------------------------------------------------------------------------
(* chat-smoke.mjs                                                          *)

Replies == <<"reply1", "reply2">>

(* At least one reply; an existing thread is in the space.                 *)
ChatConfig(c) == "run" \in c.flags /\ c.count \in 1..Len(Replies)

ChatCreated(c) ==
  If("messages" \in c.flags, <<"message">>)
  \o If("threadReplies" \in c.flags, <<"threadRoot">> \o SubSeq(Replies, 1, c.count))
  \o If("existingThread" \in c.flags, <<"existingThreadReply">>)

(* A plan has one entry for all replies.                                   *)
Planned(slot) == IF slot \in Range(Replies) THEN "reply" ELSE slot

\* Mutant: the edit of the last reply is not announced.
ChatPlan_NoEdit(c) ==
  Also("messages" \in c.flags,
       UNION {Writes(d, {"message"}) : d \in {"create", "change", "delete"}})
  \cup Also("threadReplies" \in c.flags,
            Writes("create", {"threadRoot", "reply"})
              \cup Writes("delete", {"reply", "threadRoot"}))

ChatPlan(c) ==
  Also("spaceLifecycle" \in c.flags,
       Writes("create", {"lifecycleSpace"}) \cup Writes("delete", {"lifecycleSpace"}))
  \cup Also("messages" \in c.flags,
            UNION {Writes(d, {"message"}) : d \in {"create", "change", "delete"}})
  \cup Also("threadReplies" \in c.flags,
            Writes("create", {"threadRoot", "reply"}) \cup Writes("change", {"reply"})
              \cup Writes("delete", {"reply", "threadRoot"}))
  \cup Also("existingThread" \in c.flags,
            UNION {Writes(d, {"existingThreadReply"}) : d \in {"create", "change", "delete"}})

ChatBody(c) ==
  <<Gets("none"), Gets("space")>>
  \o If("spaceLifecycle" \in c.flags,
        <<Creates("lifecycleSpace", <<"spaces", "create">>), Gets("lifecycleSpace")>>)
  \o If("messages" \in c.flags,
        <<Creates("message", <<"spaces", "messages", "create">>), Patches("message")>>)
  \o If("threadReplies" \in c.flags,
        <<Creates("threadRoot", <<"spaces", "messages", "create", "threadRoot">>)>>
        \o [i \in 1..c.count |->
              Creates(Replies[i], <<"spaces", "messages", "create", "threadReply">>)]
        \o <<Patches(Replies[c.count])>>)
  \o If("existingThread" \in c.flags,
        <<Creates("existingThreadReply",
                 <<"spaces", "messages", "create", "existingThreadReply">>),
          Patches("existingThreadReply")>>)

ChatCleanup(c) ==
  [i \in 1..Len(ChatCreated(c)) |-> Deletes(Reverse(ChatCreated(c))[i])]
  \o <<Deletes("lifecycleSpace")>>

(* --cleanup-resource: a message of the space, a lifecycle space after a   *)
(* look at it, anything else is refused.                                   *)
ChatCleanupResources(c) ==
  <<Gets("space")>>
  \o FlattenSeq([i \in 1..Len(c.names) |->
       IF c.names[i] = "lifecycleSpace"
       THEN <<Gets(c.names[i]), DeletesNamed(c.names[i])>>
       ELSE <<DeletesNamed(c.names[i])>>])

ChatProgram(c) ==
  IF c.names # <<>>
  THEN Program(<<Act(ChatCleanupResources(c), <<>>)>>, ChatPlan(c), {}, {})
  ELSE Program(<<Act(ChatBody(c), ChatCleanup(c))>>, ChatPlan(c), {}, {})

-----------------------------------------------------------------------------
(* chat-reactions-smoke.mjs                                                *)

(* --list-only needs a message; a run that writes has its gate.            *)
ReactionsConfig(c) ==
  /\ "run" \in c.flags
  /\ "listOnly" \in c.flags => c.names # <<>>
  /\ "listOnly" \notin c.flags => "reactionWrites" \in c.flags

ReactionsPlan(c) ==
  Also("listOnly" \notin c.flags,
       Writes("create", {"message", "reaction"}) \cup Writes("delete", {"message", "reaction"}))

\* Mutant: the target message is deleted although the run only lists.
ReactionsProgram_AlwaysCleans(c) ==
  Program(<<Act(<<Gets("message"), Gets("message")>>, <<Deletes("message"), Check>>)>>,
          ReactionsPlan(c), {"hides"}, {})

(* The assertions come last and compare the lists with what was created.   *)
ReactionsProgram(c) ==
  LET lifecycle == "listOnly" \notin c.flags IN
  Program(
    <<Act(If(lifecycle,
             <<Gets("space"), Creates("message", <<"spaces", "messages", "create">>),
               Creates("reaction", <<"spaces", "messages", "reactions", "create">>)>>)
          \o <<Gets("message"), Gets("message")>>,
          If(lifecycle,
             <<Deletes("reaction"), Request("read", "none", <<>>, {"reaction", "message"}),
               Deletes("message")>>)
          \o <<Check>>)>>,
    ReactionsPlan(c), {"hides"}, {})

-----------------------------------------------------------------------------
(* chat-card-action-smoke.mjs and chat-visual-smoke.mjs: what they post is *)
(* left in the space to be looked at, and removed by a later run that is   *)
(* given the evidence.                                                     *)

(* Not both ways of cleaning up at once.                                   *)
CardActionConfig(c) ==
  "run" \in c.flags /\ ~({"cleanupFromEvidence", "cleanupConfirmations"} \subseteq c.flags)

CardActionPlan(c) ==
  IF "cleanupConfirmations" \in c.flags THEN Writes("delete", {"confirmation"})
  ELSE IF "cleanupFromEvidence" \in c.flags THEN Writes("delete", {"card"})
  ELSE Writes("create", {"card"})

(* The named messages, the last one first.                                 *)
CleanupFromEvidence(listed) ==
  LET names == Reverse(listed) IN [i \in 1..Len(names) |-> DeletesNamed(names[i])]

(* The confirmations the space has when they are searched for, in the      *)
(* order of the search; none is an error.                                  *)
CleanupConfirmations(found) ==
  <<Gets("space"), Gets(IF found = {} THEN "confirmation" ELSE "space")>>
  \o [i \in 1..Cardinality(found) |-> DeletesNamed(SetToSeq(found)[i])]

CardActionProgram(c, listed, found) ==
  IF "cleanupConfirmations" \in c.flags
  THEN Program(<<Act(CleanupConfirmations(found), <<>>)>>, CardActionPlan(c), {}, {})
  ELSE IF "cleanupFromEvidence" \in c.flags
  THEN Program(<<Act(<<Gets("space")>> \o CleanupFromEvidence(listed), <<>>)>>,
               CardActionPlan(c), {}, {})
  ELSE Program(<<Act(<<Gets("space"), Creates("card", <<"card-action", "create">>)>>, <<>>)>>,
               CardActionPlan(c), {"remembers"}, {"card"})

AiCards == <<"aiFeedback", "aiSources", "aiThinking", "aiToolStatus", "aiStreamingStatus">>

VisualCard(c, card) == If(card \in c.flags, <<Creates(card, <<"visual", card, "create">>)>>)

VisualConfig(c) == "run" \in c.flags /\ c.count >= 1     \* --stream-patch-count

VisualPlan(c) ==
  IF "cleanupFromEvidence" \in c.flags THEN Writes("delete", {"text"})
  ELSE Writes("create", {"text", "card", "threadParent", "threadReply", "stream"}
                      \cup ({"richCard", "carouselCard", "placeholder"} \cap c.flags)
                      \cup Also("aiCards" \in c.flags, Range(AiCards)))
       \cup Writes("change", {"stream"} \cup ({"placeholder"} \cap c.flags))

VisualPlaceholder(c) ==
  If("placeholder" \in c.flags,
     <<Creates("placeholder", <<"visual", "placeholder", "create">>), Patches("placeholder")>>)

AiCardCreates(c) ==
  If("aiCards" \in c.flags,
     [i \in 1..Len(AiCards) |-> Creates(AiCards[i], <<"visual", "ai", AiCards[i], "create">>)])

VisualCreates(c) ==
  <<Creates("text", <<"visual", "text", "create">>),
    Creates("card", <<"visual", "card", "create">>)>>
  \o VisualCard(c, "richCard") \o VisualCard(c, "carouselCard") \o AiCardCreates(c)
  \o <<Creates("threadParent", <<"visual", "thread", "parent", "create">>),
       Creates("threadReply", <<"visual", "thread", "reply", "create">>)>>
  \o VisualPlaceholder(c)
  \o <<Creates("stream", <<"visual", "stream", "create">>)>>
  \o [i \in 1..c.count |-> Patches("stream")]

VisualCleanup(listed) == CleanupFromEvidence(listed)

VisualProgram(c, listed) ==
  IF "cleanupFromEvidence" \in c.flags
  THEN Program(<<Act(<<Gets("space")>> \o VisualCleanup(listed), <<>>)>>,
               VisualPlan(c), {}, {})
  ELSE Program(<<Act(<<Gets("space")>> \o VisualCreates(c), <<>>)>>, VisualPlan(c),
               {"remembers"},
               {"text", "card", "richCard", "carouselCard", "threadParent",
                "threadReply", "placeholder", "stream"} \cup Range(AiCards))

-----------------------------------------------------------------------------
(* chat-uploaded-media-smoke.mjs: the message with the attachment stays.   *)

UploadedMediaConfig(c) == {"run", "mediaReady", "media", "mediaUpload"} \subseteq c.flags

UploadedMediaPlan == Writes("create", {"attachment", "message"})

UploadedMediaProgram ==
  Program(<<Act(<<Creates("attachment", <<"media", "upload">>),
                  Creates("message", <<"spaces", "messages", "create">>),
                  Gets("message"), Check, Gets("attachment"), Check>>, <<>>)>>,
          UploadedMediaPlan, {"hides"}, {"attachment", "message"})

-----------------------------------------------------------------------------
(* chat-drive-export-smoke.mjs                                             *)

(* A file is given, or one is created behind the gate for writes.          *)
DriveConfig(c) ==
  /\ {"run", "drive"} \subseteq c.flags
  /\ IF "synthetic" \in c.flags THEN "driveWrites" \in c.flags ELSE c.names # <<>>

DrivePlan(c) ==
  Also("synthetic" \in c.flags, Writes("create", {"file"}))
  \cup Also({"synthetic", "cleanupFile"} \subseteq c.flags, Writes("delete", {"file"}))

DriveProgram(c) ==
  LET synthetic == "synthetic" \in c.flags
      cleanup == synthetic /\ "cleanupFile" \in c.flags IN
  Program(<<Act(If(synthetic, <<Creates("file", <<"drive", "files", "create", "synthetic">>)>>)
                \o <<Gets("file"), Check, Gets("file"), Check>>,
                If(cleanup, <<Deletes("file")>>))>>,
          DrivePlan(c), {"hides"}, IF cleanup THEN {} ELSE {"file"})

-----------------------------------------------------------------------------
(* chat-workspace-events-subscription-smoke.mjs                            *)

SubscriptionConfig(c) == "run" \in c.flags /\ c.count >= 1     \* pull attempts

(* What --dry-run prints: without the calls of a run that is not dry.      *)
SubscriptionPlan ==
  Writes("create", {"topic", "pullSubscription"}) \cup Writes("change", {"topic"})
  \cup Writes("delete", {"topic", "pullSubscription"})

(* The subscription is created by a long-running operation whose result    *)
(* has its name.                                                           *)
WaitForSubscription == [Gets("subscription") EXCEPT !.learns = {"subscription"}]

SubscriptionBody(c) ==
  <<Creates("topic", <<"pubsub", "topics", "create">>),
    Creates("pullSubscription", <<"pubsub", "subscriptions", "create">>),
    Patches("topic"), Check>>
  \o If("validateOnly" \notin c.flags,
        <<[Creates("subscription", <<"workspaceEvents", "subscriptions", "create">>)
             EXCEPT !.learns = {}],
          WaitForSubscription,
          Creates("message", <<"chat", "messages", "create">>)>>
        \o [i \in 1..c.count |-> Gets("pullSubscription")] \o <<Check>>)

SubscriptionCleanup ==
  <<Deletes("message"), Deletes("subscription"), Deletes("pullSubscription"), Deletes("topic")>>

SubscriptionProgram(c) ==
  Program(<<Act(SubscriptionBody(c), SubscriptionCleanup)>>, SubscriptionPlan,
          {"hides", "swallows"} \cup Also("allowBlocked" \in c.flags, {"lenient"}), {})

-----------------------------------------------------------------------------
(* chat-sections-smoke.mjs and chat-user-state-smoke.mjs: a setting of the *)
(* user is changed and put back.                                           *)

Displace(slot) == [Request("displace", slot, <<>>, {}) EXCEPT !.learns = {slot}]
Restore(slot, restored) ==
  [Request("restore", slot, <<>>, {slot}) EXCEPT !.learns = {restored}]
Verify(restored) == Request("read", "none", <<>>, {restored})

SectionsConfig(c) ==
  "run" \in c.flags /\ ("mutations" \in c.flags => "sectionWrites" \in c.flags)

SectionsPlan(c) ==
  Also("mutations" \in c.flags,
       Writes("create", {"section"}) \cup Writes("change", {"section"})
         \cup Writes("displace", {"placement"}) \cup Writes("restore", {"placement"})
         \cup Writes("delete", {"section"}))

(* What precedes a step that was refused is not undone step by step: the   *)
(* space goes back if it was moved, and the section is deleted.            *)
SectionMutations ==
  Act(<<Gets("space"), Creates("section", <<"sections", "create", "temporary">>),
        Patches("section"), Patches("section"), Displace("placement")>>,
      <<Restore("placement", "placementRestored"), Verify("placementRestored"),
        Deletes("section")>>)

(* Each list goes to its last page or to the first that is refused.        *)
SectionsProgram(c) ==
  Program(<<Act(<<Gets("none")>>, <<>>), Act(<<Gets("none")>>, <<>>)>>
            \o If("mutations" \in c.flags, <<SectionMutations>>),
          SectionsPlan(c),
          {"hides", "goesOn"} \cup Also("allowBlocked" \in c.flags, {"lenient"}), {})

(* At least one surface is read.                                           *)
UserStateConfig(c) ==
  /\ "run" \in c.flags /\ c.count >= 1
  /\ "notification" \in c.flags => "settingsWrites" \in c.flags
  /\ "readState" \in c.flags => "readStateWrites" \in c.flags

(* The plan has one entry for the change and for what puts it back.        *)
UserStatePlan(c) ==
  Also("notification" \in c.flags,
       Writes("displace", {"notification"}) \cup Writes("restore", {"notification"}))
  \cup Also("readState" \in c.flags, Writes("change", {"space"}))

NotificationPatch ==
  Act(<<Gets("none"), Displace("notification")>>,
      <<Restore("notification", "notificationRestored"), Verify("notificationRestored")>>)

(* The time read is written back as it is.                                 *)
ReadStateUpdate == Act(<<Gets("none"), Patches("space"), Gets("none")>>, <<>>)

UserStateProgram(c) ==
  Program([i \in 1..c.count |-> Act(<<Gets("none")>>, <<>>)]
            \o If("notification" \in c.flags, <<NotificationPatch>>)
            \o If("readState" \in c.flags, <<ReadStateUpdate>>),
          UserStatePlan(c),
          {"hides", "goesOn"} \cup Also("allowBlocked" \in c.flags, {"lenient"}), {})
=============================================================================
