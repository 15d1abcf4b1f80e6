-------------------------- MODULE PollingIngestion --------------------------
(***************************************************************************)
(* planChatIngestion in mode "polling" and processPollingIngestionPage     *)
(* (packages/node/src/ingestion/index.ts), driven by the poller the guide  *)
(* describes: ask for a page, process the response with the checkpoint,    *)
(* hand on what is not skipped as a duplicate, save the checkpoint, follow *)
(* nextRequest, and start a new round after the last page.                 *)
(*                                                                         *)
(* External: the space, whose messages are created, edited and deleted all *)
(* the while, spaces.messages.list, and the poller, which may die between  *)
(* any two steps and then starts from the checkpoint it saved last.        *)
(***************************************************************************)
EXTENDS Integers, FiniteSets, FiniteSetsExt, Sequences, Bags

CONSTANTS
  Modes,        \* how callers poll: a set of [order, since]
  PageSize,
  ClockBound,   \* model bound: changes in the space
  CrashBound    \* model bound: deaths of the poller

ASSUME PollingAssumption ==
  /\ Modes \subseteq [order : {"ASC", "DESC"}, since : {"fixed", "watermark"}]
  /\ Modes # {}
  /\ PageSize \in Nat \ {0}
  /\ ClockBound \in Nat /\ CrashBound \in Nat

VARIABLES
  pollingMode, \* the caller's order, and where its rounds start
  clock,       \* external: the time of the last change in the space
  messages,    \* external: the space's messages, by time of creation
  pollerAt,    \* "request", "process", "save" or "down"
  checkpoint,  \* the poller's
  response,    \* the page being processed
  saved,       \* the checkpoint in its store
  handed,      \* history: a bag of the snapshots handed on
  crashes

pollingVars == <<pollingMode, clock, messages, pollerAt, checkpoint, response, saved,
          handed, crashes>>

None == 0      \* no such time, no page token

\* startTime is the caller's, who keeps it for a round.
FirstCheckpoint ==
  [pageToken |-> None, highWatermarkTime |-> None, seenKeys |-> {}, startTime |-> 0]

NoResponse == [messages |-> {}, nextPageToken |-> None]

PollingInit ==
  /\ pollingMode \in Modes
  /\ clock = 0 /\ messages = <<>>
  /\ pollerAt = "request"
  /\ checkpoint = FirstCheckpoint /\ saved = FirstCheckpoint
  /\ response = NoResponse
  /\ handed = EmptyBag /\ crashes = 0

-----------------------------------------------------------------------------
(* The space *)

Change(newMessages) ==
  /\ clock < ClockBound /\ clock' = clock + 1
  /\ messages' = newMessages
  /\ UNCHANGED <<pollingMode, pollerAt, checkpoint, response, saved, handed, crashes>>

CreateMessage ==
  Change(Append(messages, [name |-> Len(messages) + 1, createTime |-> clock + 1,
                           lastUpdateTime |-> None, deleteTime |-> None]))

EditMessage ==
  \E i \in DOMAIN messages :
    /\ messages[i].deleteTime = None
    /\ Change([messages EXCEPT ![i].lastUpdateTime = clock + 1])

DeleteMessage ==
  \E i \in DOMAIN messages :
    /\ messages[i].deleteTime = None
    /\ Change([messages EXCEPT ![i].deleteTime = clock + 1])

-----------------------------------------------------------------------------
(* spaces.messages.list *)

Before(i, j) == IF pollingMode.order = "ASC" THEN i < j ELSE i > j

\* A page token stands for the last message of the page it came with.
Remaining(pageToken, startTime) ==
  {i \in DOMAIN messages :
     /\ messages[i].createTime > startTime
     /\ pageToken # None => Before(pageToken, i)}

ListMessages(pageToken, startTime) ==
  LET remaining == Remaining(pageToken, startTime)
      page == {i \in remaining :
                 Cardinality({j \in remaining : Before(j, i)}) < PageSize}
  IN [messages |-> {messages[i] : i \in page},
      nextPageToken |-> IF page = remaining THEN None
                        ELSE CHOOSE i \in page : \A j \in page \ {i} : Before(j, i)]

(* The query of planChatIngestion: the token of the checkpoint and the     *)
(* filter on the creation time.                                            *)
RequestPage ==
  /\ pollerAt = "request" /\ pollerAt' = "process"
  /\ response' = ListMessages(checkpoint.pageToken, checkpoint.startTime)
  /\ UNCHANGED <<pollingMode, clock, messages, checkpoint, saved, handed, crashes>>

-----------------------------------------------------------------------------
EffectiveSnapshotTime(message) ==
  IF message.lastUpdateTime # None THEN message.lastUpdateTime
  ELSE IF message.deleteTime # None THEN message.deleteTime
  ELSE message.createTime

DuplicateKey(message) == <<message.name, EffectiveSnapshotTime(message)>>

(* The watermark is that of this page, not of the round.                   *)
HighWatermark(page) ==
  IF page = {} THEN checkpoint.highWatermarkTime
  ELSE Max({EffectiveSnapshotTime(message) : message \in page})

\* Mutant: only the keys of this page are kept.
SeenKeys_ThisPage(page) == {DuplicateKey(message) : message \in page}

SeenKeys(page) ==
  checkpoint.seenKeys \cup {DuplicateKey(message) : message \in page}

\* Mutant: without a next token the former one is kept.
NextPageToken_Sticks(page) ==
  IF page.nextPageToken # None THEN page.nextPageToken ELSE checkpoint.pageToken

NextPageToken(page) == page.nextPageToken

(* After the last page the caller starts a round, from the same startTime  *)
(* as ever or from the watermark.                                          *)
NextStart(pageToken, watermark) ==
  IF pageToken = None /\ pollingMode.since = "watermark" THEN watermark ELSE checkpoint.startTime

(* processPollingIngestionPage, and the application takes the events that  *)
(* are not skippedAsDuplicate.                                             *)
ProcessPage ==
  LET page == response.messages
      known == {message \in page : DuplicateKey(message) \in checkpoint.seenKeys}
      pageToken == NextPageToken(response)
      watermark == HighWatermark(page)
  IN /\ pollerAt = "process" /\ pollerAt' = "save"
     /\ handed' = handed (+) SetToBag(page \ known)
     /\ checkpoint' = [pageToken |-> pageToken,
                       highWatermarkTime |-> watermark,
                       seenKeys |-> SeenKeys(page),
                       startTime |-> NextStart(pageToken, watermark)]
     /\ response' = NoResponse
     /\ UNCHANGED <<pollingMode, clock, messages, saved, crashes>>

-----------------------------------------------------------------------------
(* The checkpoint store writes under its lock and replaces the file.       *)
SaveCheckpoint ==
  /\ pollerAt = "save" /\ pollerAt' = "request"
  /\ saved' = checkpoint
  /\ UNCHANGED <<pollingMode, clock, messages, checkpoint, response, handed, crashes>>

PollerCrash ==
  /\ pollerAt # "down" /\ crashes < CrashBound
  /\ pollerAt' = "down" /\ crashes' = crashes + 1
  /\ checkpoint' = FirstCheckpoint /\ response' = NoResponse
  /\ UNCHANGED <<pollingMode, clock, messages, saved, handed>>

LoadCheckpoint ==
  /\ pollerAt = "down" /\ pollerAt' = "request"
  /\ checkpoint' = saved
  /\ UNCHANGED <<pollingMode, clock, messages, response, saved, handed, crashes>>

Poll == RequestPage \/ ProcessPage \/ SaveCheckpoint \/ LoadCheckpoint

PollingNext ==
  \/ CreateMessage \/ EditMessage \/ DeleteMessage
  \/ Poll \/ PollerCrash

PollingSpec == PollingInit /\ [][PollingNext]_pollingVars

(* The poller goes on polling, and is started again after a crash.         *)
PollingFairSpec == PollingSpec /\ WF_pollingVars(Poll)

-----------------------------------------------------------------------------
(* The shape of the state; a token is that of a message.                   *)
PollingTypeOK ==
  /\ pollerAt \in {"request", "process", "save", "down"}
  /\ \A c \in {checkpoint, saved} :
       /\ c.pageToken \in 0..Len(messages)
       /\ c.highWatermarkTime \in 0..clock /\ c.startTime \in 0..clock
  /\ IsABag(handed)

(* The deletion of an edited message still has the key of the edit, and   *)
(* is skipped as its duplicate.                                            *)
EditedThenDeleted(message) ==
  message.lastUpdateTime # None /\ message.deleteTime # None

(* No snapshot is handed on twice, in whatever round or page it comes back *)
(* and however the space changes meanwhile, unless the poller died before  *)
(* it had saved what it handed on: once more for every crash.              *)
HandedOnOncePerLife ==
  \A message \in BagToSet(handed) : handed[message] <= 1 + crashes

(* Once the space is quiet the poller has handed on every message, also    *)
(* those created while it was reading pages, and, if its rounds start at a *)
(* fixed time, the last state of each.                                     *)
CaughtUp ==
  <>[](\A i \in DOMAIN messages :
         /\ \E message \in BagToSet(handed) : message.name = i
         /\ pollingMode.since = "fixed" =>
              messages[i] \in BagToSet(handed) \/ EditedThenDeleted(messages[i]))
=============================================================================
