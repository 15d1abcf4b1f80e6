---------------------------- MODULE StreamReply -----------------------------
(***************************************************************************)
(* streamChatReply (packages/node/src/streaming/index.ts:766-971): the     *)
(* driver that pulls chunks from a model's stream, folds them through the  *)
(* scheduler and applies each action to Google Chat, with cancellation     *)
(* from outside, a stream that throws, requests that fail or throw, and a  *)
(* process that dies and is resumed from its last onState snapshot.        *)
(*                                                                         *)
(* Google Chat is external: a request may be applied and answered,         *)
(* refused, or applied with its answer lost.  options.apply is the one of  *)
(* createChatRequestApplier: it returns these failures as results, and     *)
(* throws only where the access token cannot be had, before it sends       *)
(* (transport/index.ts:573).                                               *)
(***************************************************************************)
EXTENDS StreamScheduler

CONSTANTS
  Spaces,        \* may the target name a space: a subset of BOOLEAN
  Overflow,      \* the overflow options callers ask for
  Resumed,       \* the overflow policies of the streams that are resumed
  FailureBound,  \* model bound: requests that fail, calls that throw
  RestartBound   \* model bound: crashes, and resumptions after a failure

ASSUME DriverAssumption ==
  /\ Spaces \subseteq BOOLEAN /\ Spaces # {}
  /\ Overflow \subseteq {"truncate", "split"} /\ Overflow # {}
  /\ Resumed \subseteq Overflow
  /\ FailureBound \in Nat
  /\ RestartBound \in Nat

VARIABLES
  pc,            \* where the driver is: see PCs
  event,         \* the event whose actions it applies
  hasSpace,      \* normalizedTarget.space is set
  failure,       \* failure # null
  sawFinalize,
  aborted,
  current,       \* index in messages of currentMessageName
  messages,      \* external: the Chat messages of this answer, the target first
  cancelRequested, \* signal.aborted, or the registry names this stream
  saved,         \* the states the caller keeps of those onState was given:
                 \* the last one and the last unfinished one
  failures,      \* history: requests that failed, calls that threw
  restarts,      \* history: crashes and resumptions
  thrown,        \* history: what threw in the loop of this run, or "none"
  mixed          \* history: an answer of several messages was resumed

driverVars == <<pc, event, hasSpace, failure, sawFinalize, aborted, current, thrown>>
environmentVars == <<messages, cancelRequested, saved, failures, restarts, mixed>>
vars == <<schedulerVars, driverVars, environmentVars>>

PCs == {"pull",     \* for await: waiting for the next chunk
        "apply",    \* applying the actions of one event
        "closing",  \* after the loop
        "done",     \* the report is returned
        "rejected", \* the promise is rejected, and nothing reported
        "down"}     \* the process died

NoText(from) == [segmentIndex |-> 0, from |-> from, upto |-> from,
                 length |-> 0, final |-> FALSE]

(* A message of Chat: its last text, and the PATCHes this run sent to it.  *)
Text(a) == [segmentIndex |-> a.segmentIndex, from |-> a.from, upto |-> a.upto,
            length |-> a.length, final |-> a.final]

Message(text) == [text |-> text, writes |-> 0]

(* Without a space there is nowhere to continue: split becomes truncate.   *)
ResolvedOverflow(asked, space) == IF space THEN asked ELSE "truncate"

Init ==
  /\ \E space \in Spaces, asked \in Overflow :
       /\ hasSpace = space
       /\ state = CreateState(ResolvedOverflow(asked, space))
  /\ actions = <<>> /\ running = "none"
  /\ pc = "pull" /\ event = "chunk"
  /\ failure = FALSE /\ sawFinalize = FALSE /\ aborted = FALSE
  /\ current = 1
  /\ messages = <<Message(NoText(0))>>
  /\ cancelRequested = FALSE /\ saved = {}
  /\ failures = 0 /\ restarts = 0
  /\ thrown = "none" /\ mixed = FALSE

Received == state.start + state.content

-----------------------------------------------------------------------------
(* The loop: isCancelled is asked after a chunk arrives and before it is   *)
(* looked at.  A chunk without text is skipped.                            *)
PullChunk ==
  /\ pc = "pull"
  /\ \E n \in 0..MaxChunk :
       /\ Received + n <= MaxInput
       /\ IF cancelRequested
          THEN /\ aborted' = TRUE /\ pc' = "closing"
               /\ UNCHANGED <<schedulerVars, event>>
          ELSE /\ OnChunk(n)
               /\ IF n = 0 THEN UNCHANGED <<pc, event>>
                  ELSE pc' = "apply" /\ event' = "chunk"
               /\ UNCHANGED aborted
  /\ UNCHANGED <<hasSpace, failure, sawFinalize, current, thrown, environmentVars>>

StreamEnds ==
  /\ pc = "pull"
  /\ pc' = "closing"
  /\ UNCHANGED <<schedulerVars, event, hasSpace, failure, sawFinalize, aborted,
                 current, thrown, environmentVars>>

(* The catch around the loop: the failure is recorded, and the state as it *)
(* is by now is finalized with errorNote.                                  *)
Caught ==
  /\ failure' = TRUE
  /\ OnError
  /\ pc' = "apply" /\ event' = "error"

(* Nothing catches what is thrown after the loop, or in the catch.         *)
Reject ==
  /\ pc' = "rejected"
  /\ actions' = <<>>
  /\ UNCHANGED <<state, running, event, failure>>

Failed == failures < FailureBound /\ failures' = failures + 1

(* A call made while an event is applied throws.                           *)
Throws(what) ==
  /\ Failed
  /\ IF event = "chunk"
     THEN Caught /\ thrown' = what
     ELSE Reject /\ UNCHANGED thrown

(* The stream throws, or shouldCancel does.                                *)
StreamThrows ==
  /\ pc = "pull"
  /\ Caught
  /\ UNCHANGED <<hasSpace, sawFinalize, aborted, current, thrown, environmentVars>>

\* Mutant: only what was seen inside the loop cancels the answer.
Close_LoopOnly ==
  /\ pc = "closing"
  /\ IF aborted
     THEN OnCancel /\ pc' = "apply" /\ event' = "cancel"
     ELSE IF state.finished
     THEN pc' = "done" /\ UNCHANGED <<schedulerVars, event>>
     ELSE OnFinish /\ pc' = "apply" /\ event' = "finish"
  /\ UNCHANGED <<hasSpace, failure, sawFinalize, aborted, current, thrown, environmentVars>>

(* After the loop: cancel, finish, or nothing for an answer that was       *)
(* already finished when it was resumed.  shouldCancel is asked again,     *)
(* unless the loop was left for it, and may throw.                         *)
Close ==
  /\ pc = "closing"
  /\ \/ /\ IF aborted \/ cancelRequested
           THEN OnCancel /\ pc' = "apply" /\ event' = "cancel"
           ELSE IF state.finished
           THEN pc' = "done" /\ UNCHANGED <<schedulerVars, event>>
           ELSE OnFinish /\ pc' = "apply" /\ event' = "finish"
        /\ UNCHANGED <<failure, failures>>
     \/ ~aborted /\ Failed /\ Reject
  /\ UNCHANGED <<hasSpace, sawFinalize, aborted, current, thrown,
                 messages, cancelRequested, saved, restarts, mixed>>

-----------------------------------------------------------------------------
(* applyAction *)

KeepSplitting ==
  /\ pc = "apply"
  /\ SplitOnce
  /\ UNCHANGED <<driverVars, environmentVars>>

(* A failed action ends the run: the remaining actions are dropped and     *)
(* nothing more is written, not even the end of the text.                  *)
GiveUp ==
  /\ failure' = TRUE
  /\ actions' = <<>>
  /\ pc' = "done"

Answered == UNCHANGED failures

StartContinuation(a) ==
  /\ a.action = "start_continuation"
  /\ \/ /\ ~hasSpace
        /\ GiveUp /\ UNCHANGED <<messages, current, failures>>
     \/ /\ hasSpace /\ Answered
        /\ messages' = Append(messages, Message(Text(a)))
        /\ current' = Len(messages')
        /\ actions' = Tail(actions)
        /\ UNCHANGED <<failure, pc>>
     \/ /\ hasSpace /\ Failed
        /\ GiveUp /\ UNCHANGED current
        /\ \/ UNCHANGED messages
           \/ messages' = Append(messages, Message(Text(a)))  \* answer lost
  /\ UNCHANGED <<state, sawFinalize>>

Patched(a) ==
  messages' = [messages EXCEPT ![current] = [text |-> Text(a), writes |-> @.writes + 1]]

PatchRefused ==
  messages' = [messages EXCEPT ![current].writes = @ + 1]

PatchMessage(a) ==
  /\ a.action \in {"patch", "finalize"}
  /\ \/ /\ Answered /\ Patched(a)
        /\ state' = PatchResult(state, TRUE)
        /\ sawFinalize' = (sawFinalize \/ a.final)
        /\ actions' = Tail(actions)
        /\ UNCHANGED <<failure, pc>>
     \/ /\ Failed
        /\ Patched(a) \/ PatchRefused
        /\ state' = PatchResult(state, FALSE)
        /\ IF a.final THEN GiveUp
           ELSE actions' = Tail(actions) /\ UNCHANGED <<failure, pc>>
        /\ UNCHANGED sawFinalize
  /\ UNCHANGED current

(* The request is not sent, and no patch_result counts it.                 *)
RequestThrows(a) ==
  /\ Throws(a.action)
  /\ UNCHANGED <<messages, current, sawFinalize>>

ApplyAction ==
  /\ pc = "apply" /\ running = "none" /\ actions # <<>>
  /\ \/ /\ StartContinuation(Head(actions)) \/ PatchMessage(Head(actions))
        /\ UNCHANGED <<running, event, thrown>>
     \/ RequestThrows(Head(actions))
  /\ UNCHANGED <<hasSpace, aborted, cancelRequested, saved, restarts, mixed>>

(* What the caller keeps of the states it is given.                        *)
Kept == {state} \cup (IF state.finished THEN {s \in saved : ~s.finished} ELSE {})

\* Mutant: the loop goes on after the closing event.
EmitState_LoopsBack ==
  /\ pc = "apply" /\ running = "none" /\ actions = <<>>
  /\ saved' = Kept
  /\ pc' = "pull"
  /\ UNCHANGED <<schedulerVars, event, hasSpace, failure, sawFinalize, aborted, current,
                 thrown, messages, cancelRequested, failures, restarts, mixed>>

(* emitState, once every action of the event has been applied; onState may *)
(* throw, having kept the state or not.                                    *)
EmitState ==
  /\ pc = "apply" /\ running = "none" /\ actions = <<>>
  /\ \/ /\ saved' = Kept
        /\ pc' = IF event = "chunk" THEN "pull" ELSE "done"
        /\ UNCHANGED <<schedulerVars, event, failure, thrown, failures>>
     \/ /\ saved' \in {saved, Kept}
        /\ Throws("none")
  /\ UNCHANGED <<hasSpace, sawFinalize, aborted, current,
                 messages, cancelRequested, restarts, mixed>>

Ok == ~failure /\ sawFinalize       \* the ok field of the report

-----------------------------------------------------------------------------
(* The environment *)

RequestCancel ==
  /\ ~cancelRequested /\ pc \in {"pull", "apply", "closing"}
  /\ cancelRequested' = TRUE
  /\ UNCHANGED <<schedulerVars, driverVars, messages, saved, failures, restarts, mixed>>

Crash ==
  /\ pc \in {"pull", "apply", "closing"} /\ restarts < RestartBound
  /\ restarts' = restarts + 1
  /\ pc' = "down"
  /\ UNCHANGED <<schedulerVars, event, hasSpace, failure, sawFinalize, aborted, current,
                 thrown, messages, cancelRequested, saved, failures, mixed>>

(* The answer is no longer one message that shows it from the beginning.   *)
SeveralPages == Len(messages) > 1 \/ messages[1].text.from # 0

(* A new call with the same target, from a state the caller kept if there  *)
(* is one; the caller's stream goes on after the text that state holds.    *)
Resume ==
  /\ \/ pc = "down"
     \/ (pc = "done" /\ failure) /\ restarts < RestartBound
     \/ pc = "rejected" /\ restarts < RestartBound
  /\ state.overflow \in Resumed
  /\ restarts' = IF pc = "down" THEN restarts ELSE restarts + 1
  /\ \E space \in Spaces :
       /\ hasSpace' = space
       /\ IF saved = {}
          THEN state' = CreateState(ResolvedOverflow(state.overflow, space))
          ELSE state' \in saved
  /\ actions' = <<>> /\ running' = "none"
  /\ pc' = "pull" /\ event' = "chunk"
  /\ failure' = FALSE /\ sawFinalize' = FALSE /\ aborted' = FALSE
  /\ current' = 1
  /\ thrown' = "none" /\ mixed' = (mixed \/ SeveralPages)
  /\ messages' = [i \in DOMAIN messages |-> Message(messages[i].text)]
  /\ UNCHANGED <<cancelRequested, saved, failures>>

Driver ==
  \/ PullChunk \/ StreamEnds \/ StreamThrows \/ Close
  \/ KeepSplitting \/ ApplyAction \/ EmitState

Next == Driver \/ RequestCancel \/ Crash \/ Resume

Spec == Init /\ [][Next]_vars

(* The stream goes on yielding (it need not end), requests are answered or *)
(* fail (fetch gives up in the end) and the event loop runs the rest.      *)
Fairness ==
  /\ WF_vars(PullChunk)
  /\ WF_vars(Close \/ KeepSplitting \/ ApplyAction \/ EmitState)

FairSpec == Spec /\ Fairness

-----------------------------------------------------------------------------
TypeOK ==
  /\ state \in State
  /\ actions \in Seq(Action)
  /\ running \in {"none", "chunk", "finish"}
  /\ pc \in PCs
  /\ event \in {"chunk", "error", "cancel", "finish"}
  /\ hasSpace \in BOOLEAN /\ failure \in BOOLEAN
  /\ sawFinalize \in BOOLEAN /\ aborted \in BOOLEAN
  /\ messages \in Seq([text : [segmentIndex : Nat, from : Nat, upto : Nat,
                               length : Nat, final : BOOLEAN],
                       writes : Nat])
  /\ current \in DOMAIN messages
  /\ cancelRequested \in BOOLEAN
  /\ \A s \in saved : s \in State
  /\ failures \in Nat /\ restarts \in Nat
  /\ thrown \in {"none", "patch", "finalize", "start_continuation"}
  /\ mixed \in BOOLEAN

(* In one run the writes to one message, the failed ones and the final one *)
(* included, never exceed maxPatches, with one exception: when creating    *)
(* the next message throws, the catch finalizes the state of a later       *)
(* segment on the message just sealed, once more than its budget.          *)
Budget(i) ==
  MaxPatches + (IF thrown = "start_continuation" /\ i = current THEN 1 ELSE 0)

WritesWithinBudget == \A i \in DOMAIN messages : messages[i].writes <= Budget(i)

Settled == pc \in {"done", "rejected", "down"}

InLoop == pc \in {"pull", "closing"} \/ (pc = "apply" /\ event = "chunk")

(* A run that was cancelled, even over a stream that never ends, or whose  *)
(* stream is over, settles.  One that was cancelled before its end reports *)
(* the answer as cancelled, or as failed: never as finished.               *)
Terminates ==
  /\ (cancelRequested \/ pc = "closing") ~> Settled
  /\ (cancelRequested /\ InLoop) ~>
       \/ pc \in {"rejected", "down"}
       \/ pc = "done" /\ (Ok => state.cancelled)

(* The message a resumed run rewrites is no longer sealed.                 *)
Sealed(i) ==
  messages[i].text.final /\ (i = current /\ restarts > 0 => sawFinalize)

Pages ==
  [i \in DOMAIN messages |->
     [from |-> messages[i].text.from, upto |-> messages[i].text.upto, sealed |-> Sealed(i)]]

(* A request threw between the end of one message and the start of the     *)
(* next: the state belongs to a later message than the one at hand.        *)
Astray == thrown \in {"finalize", "start_continuation"}

Outcome ==
  IF mixed THEN "muddled"
  ELSE IF pc \in {"done", "rejected"}
  THEN (IF pc = "done" /\ Ok THEN "delivered" ELSE "failed")
  ELSE IF Astray
  THEN (IF actions # <<>> THEN "astray" ELSE "failed")
  ELSE "open"

(* The driver implements what a streamed answer promises its readers, see  *)
(* StreamedAnswer: pages are messages, and the outcome is the report's.  A *)
(* report that says ok means that no message is left with a typing         *)
(* indicator, and that the messages in order show the whole answer, with   *)
(* no hole (but for the one blank a split drops) and no repetition, up to  *)
(* the end of what was received, or short of it if it says truncated.      *)
Answer ==
  INSTANCE StreamedAnswer WITH
    received <- Received, cut <- state.truncated, pages <- Pages, outcome <- Outcome

ImplementsAnswer == Answer!Spec

(* docs/guides/2026-07-06-live-streaming.md:309-313: a resumed run         *)
(* "continues the same logical stream" and "picks up exactly where it left *)
(* off": the text already delivered to a message is not replaced by text   *)
(* that belongs further on in the answer.                                  *)
ResumePicksUpWhereItLeftOff ==
  [][\A i \in DOMAIN messages : messages'[i].text.from = messages[i].text.from]_vars
=============================================================================
