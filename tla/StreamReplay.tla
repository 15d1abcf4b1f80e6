---------------------------- MODULE StreamReplay ----------------------------
(***************************************************************************)
(* The scheduler under every sequence of events, as replayStreamScheduler  *)
(* folds them and as a caller with its own driver may: chunks, flushes and *)
(* patch results after the end, a finish after a cancel, results of        *)
(* patches never asked for.                                                *)
(***************************************************************************)
EXTENDS StreamScheduler

ReplayInit ==
  /\ \E overflow \in {"truncate", "split"} : state = CreateState(overflow)
  /\ actions = <<>>
  /\ running = "none"

Total == state.start + state.content

ChunkEvent ==
  \E n \in 1..MaxChunk : Total + n <= MaxInput /\ OnChunk(n)

FinishEvent ==
  \/ OnFinish
  \/ \E n \in 0..MaxChunk : state.start + n <= MaxInput /\ OnFinishWith(n)

PatchResultEvent ==
  \E ok \in BOOLEAN :
    /\ ok \/ state.patchFailures < MaxPatchFailures
    /\ OnPatchResult(ok)

ReplayNext ==
  \/ SplitOnce
  \/ /\ running = "none"
     /\ \/ ChunkEvent
        \/ OnFlush
        \/ FinishEvent
        \/ OnCancel
        \/ OnError
        \/ PatchResultEvent

ReplaySpec == ReplayInit /\ [][ReplayNext]_schedulerVars

-----------------------------------------------------------------------------
ReplayTypeOK ==
  /\ state \in State
  /\ actions \in Seq(Action)
  /\ running \in {"none", "chunk", "finish"}

(* What an action may ask of one message beyond maxMessageChars: the       *)
(* typing indicator of a patch, the note of a cancel or of an error.       *)
Allowance(a) ==
  CASE a.action = "patch" -> TypingIndicator
    [] a.action = "finalize" -> (IF state.cancelled THEN CancelNote ELSE 0)
                                  + (IF state.errored THEN ErrorNote ELSE 0)
    [] OTHER -> 0

(* The size guard: no write is longer than maxMessageChars, but for the    *)
(* typing indicator and for the note of a cancelled or failed stream.      *)
ActionsFit ==
  \A i \in DOMAIN actions :
    actions[i].length <= MaxMessageChars + Allowance(actions[i])
=============================================================================
