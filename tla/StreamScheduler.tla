-------------------------- MODULE StreamScheduler --------------------------
(***************************************************************************)
(* The cadence scheduler of streamed replies                               *)
(* (packages/node/src/streaming/index.ts): a fold of events (chunk, flush, *)
(* finish, cancel, error, patch_result) over a state, each fold returning  *)
(* the list of Chat writes it asks for.                                    *)
(*                                                                         *)
(* Text is abstracted to lengths and positions.  The text received so far  *)
(* is the interval 0 .. start + content of the model's stream, of which    *)
(* the current message (segment) holds the last "content" characters;      *)
(* "start" is a history field, every other field of the state is one of    *)
(* the code's.  Whitespace is a choice: a split may find a blank anywhere. *)
(* Clock readings are a choice too: whether minIntervalMs has elapsed.     *)
(* Warnings and totalChunks, which nothing reads back, are left out.       *)
(***************************************************************************)
EXTENDS Integers, Sequences

CONSTANTS
  MaxMessageChars,   \* maxMessageChars: what one Chat message may hold
  MinPatchChars,     \* minPatchChars: pending characters that justify a patch
  MaxPatches,        \* maxPatches: writes per message, the final one included
  MaxPatchFailures,  \* maxConsecutivePatchFailures
  Prefix, ContinuationPrefix, Suffix,        \* lengths of the decorations
  TypingIndicator, TruncationNote, CancelNote, ErrorNote, EmptyFinalText,
  MaxInput,          \* model bound: characters a stream delivers
  MaxChunk           \* model bound: characters of one chunk

Max2(a, b) == IF a >= b THEN a ELSE b
Min2(a, b) == IF a <= b THEN a ELSE b

Lengths == {Prefix, ContinuationPrefix, Suffix, TypingIndicator,
            TruncationNote, CancelNote, ErrorNote, EmptyFinalText}

(* resolvedConfig clamps the numbers it is given; lengths are lengths.     *)
ASSUME ConfigAssumption ==
  /\ MaxMessageChars \in Nat \ {0}
  /\ MinPatchChars \in Nat \ {0}
  /\ MaxPatches \in Nat \ {0}
  /\ MaxPatchFailures \in Nat \ {0}
  /\ Lengths \subseteq Nat
  /\ MaxInput \in Nat
  /\ MaxChunk \in Nat

(* The decorations leave room for text, and so do they with a truncation   *)
(* note.  The code does not check this: with room for nothing the loop of  *)
(* handleOverflow never ends and a truncated text exceeds the limit.       *)
ASSUME RoomAssumption ==
  /\ Prefix + Suffix + TruncationNote < MaxMessageChars
  /\ ContinuationPrefix + Suffix + TruncationNote < MaxMessageChars
  /\ EmptyFinalText <= MaxMessageChars

VARIABLES
  state,    \* the chat.stream_scheduler_state
  actions,  \* the actions the call of advanceStreamScheduler returns
  running   \* the event whose handleOverflow loop is still splitting, or "none"

schedulerVars == <<state, actions, running>>

State == [overflow : {"truncate", "split"},
          start : Nat, content : Nat, pendingChars : Nat,
          patchedBefore : BOOLEAN,          \* lastPatchAtMs # null
          patchesUsed : Nat, segmentIndex : Nat,
          truncated : BOOLEAN, finished : BOOLEAN, cancelled : BOOLEAN,
          errored : BOOLEAN,
          patchFailures : Nat,              \* consecutivePatchFailures
          degraded : BOOLEAN]               \* degradedToFinalOnly

(* A write shows the characters from .. upto of the stream in a text of    *)
(* the given length.                                                       *)
Action == [action : {"patch", "finalize", "start_continuation"},
           segmentIndex : Nat, from : Nat, upto : Nat, length : Nat,
           final : BOOLEAN]

CreateState(overflow) ==
  [overflow |-> overflow, start |-> 0, content |-> 0, pendingChars |-> 0,
   patchedBefore |-> FALSE, patchesUsed |-> 0, segmentIndex |-> 0,
   truncated |-> FALSE, finished |-> FALSE, cancelled |-> FALSE,
   errored |-> FALSE, patchFailures |-> 0, degraded |-> FALSE]

-----------------------------------------------------------------------------
(* Rendering *)

SegmentPrefix(segment) == IF segment = 0 THEN Prefix ELSE ContinuationPrefix

RenderedLength(segment, content, note, indicator) ==
  SegmentPrefix(segment) + content + note + Suffix + indicator

SegmentCapacity(segment, note) ==
  Max2(1, MaxMessageChars - (SegmentPrefix(segment) + Suffix + note))

Write(s, kind, upto, length) ==
  [action |-> kind, segmentIndex |-> s.segmentIndex,
   from |-> s.start, upto |-> upto, length |-> length,
   final |-> kind = "finalize"]

-----------------------------------------------------------------------------
(* handleOverflow, one iteration of its loop *)

Overflows(s) ==
  /\ ~s.truncated
  /\ RenderedLength(s.segmentIndex, s.content, 0, 0) > MaxMessageChars

\* Mutant: every leading blank of the rest is dropped.
SplitPoints_TrimsAll(s) ==
  LET capacity == SegmentCapacity(s.segmentIndex, 0)
  IN {[cut |-> c, blank |-> b] : c \in 1..(capacity - 1), b \in {1, 2}}

(* splitPoint: the last blank that is not the first character of what      *)
(* fits, else everything that fits; the blank found, or one that happens   *)
(* to follow a full window, is dropped.                                    *)
SplitPoints(s) ==
  LET capacity == SegmentCapacity(s.segmentIndex, 0)
  IN {[cut |-> c, blank |-> b] : c \in 1..capacity, b \in {0, 1}}
       \ {[cut |-> c, blank |-> 0] : c \in 1..(capacity - 1)}

SplitState(s, p) ==
  LET rest == s.content - (p.cut + p.blank)
  IN [s EXCEPT !.start = @ + p.cut + p.blank, !.content = rest,
               !.pendingChars = rest, !.segmentIndex = @ + 1,
               !.patchesUsed = 0, !.patchedBefore = FALSE]

SplitActions(s, p) ==
  <<Write(s, "finalize", s.start + p.cut,
          RenderedLength(s.segmentIndex, p.cut, 0, 0)),
    Write(SplitState(s, p), "start_continuation", s.start + p.cut + p.blank,
          ContinuationPrefix + 1)>>             \* a one-character placeholder

-----------------------------------------------------------------------------
(* maybePatch *)

\* Mutant: no slot of the budget is kept for the final text.
PatchDue_WholeBudget(s, force, intervalElapsed) ==
  /\ ~s.truncated /\ ~s.degraded /\ ~s.finished /\ ~s.cancelled
  /\ s.pendingChars > 0
  /\ s.patchesUsed < MaxPatches
  /\ force \/ s.pendingChars >= MinPatchChars
  /\ s.patchedBefore => intervalElapsed

PatchDue(s, force, intervalElapsed) ==
  /\ ~s.truncated /\ ~s.degraded /\ ~s.finished /\ ~s.cancelled
  /\ s.pendingChars > 0
  /\ s.patchesUsed < MaxPatches - 1
  /\ force \/ s.pendingChars >= MinPatchChars
  /\ s.patchedBefore => intervalElapsed

PatchAction(s) ==
  Write(s, "patch", s.start + s.content,
        RenderedLength(s.segmentIndex, s.content, 0, TypingIndicator))

PatchedState(s) ==
  [s EXCEPT !.patchesUsed = @ + 1, !.patchedBefore = TRUE, !.pendingChars = 0]

MaybePatch(s, acts, force) ==
  \E intervalElapsed \in BOOLEAN :
    IF PatchDue(s, force, intervalElapsed)
    THEN /\ state' = PatchedState(s)
         /\ actions' = Append(acts, PatchAction(s))
    ELSE /\ state' = s
         /\ actions' = acts

-----------------------------------------------------------------------------
(* finalize *)

(* The text ends up cut, and bears the truncation note.                    *)
FinalTruncated(s, note) ==
  \/ s.truncated
  \/ /\ s.overflow = "truncate"
     /\ s.content > SegmentCapacity(s.segmentIndex, note)

\* Mutant: the final text is not cut.
FinalContent_Uncut(s, note) == s.content

FinalContent(s, note) ==
  LET noted == IF s.truncated THEN TruncationNote ELSE note
  IN IF FinalTruncated(s, note) /\ s.content > SegmentCapacity(s.segmentIndex, noted)
     THEN Min2(s.content, SegmentCapacity(s.segmentIndex, TruncationNote))
     ELSE s.content

FinalAction(s, note) ==
  LET truncation == IF FinalTruncated(s, note) THEN TruncationNote ELSE 0
      shown == FinalContent(s, note)
      length == RenderedLength(s.segmentIndex, shown, truncation + note, 0)
  IN Write(s, "finalize", s.start + shown,
           IF length = 0 THEN EmptyFinalText ELSE length)

FinalState(s, note, cancel, error) ==
  [s EXCEPT !.truncated = FinalTruncated(s, note), !.finished = TRUE,
            !.cancelled = @ \/ cancel, !.errored = @ \/ error]

Finalize(s, acts, note, cancel, error) ==
  /\ state' = FinalState(s, note, cancel, error)
  /\ actions' = Append(acts, FinalAction(s, note))

-----------------------------------------------------------------------------
(* advanceStreamScheduler: one operator per event type.  "chunk" and       *)
(* "finish" run the overflow loop first; while it splits, "running" names  *)
(* the event and SplitOnce is the only step the scheduler can take.        *)

AfterOverflow(s, acts, event) ==
  IF Overflows(s) /\ s.overflow = "split"
  THEN running' = event /\ state' = s /\ actions' = acts
  ELSE LET t == IF Overflows(s) THEN [s EXCEPT !.truncated = TRUE] ELSE s
       IN /\ running' = "none"
          /\ \/ event = "chunk" /\ MaybePatch(t, acts, FALSE)
             \/ event = "finish" /\ Finalize(t, acts, 0, FALSE, FALSE)

SplitOnce ==
  /\ running # "none"
  /\ \E p \in SplitPoints(state) :
       AfterOverflow(SplitState(state, p), actions \o SplitActions(state, p), running)

Ignored == state' = state /\ actions' = <<>> /\ running' = "none"

OnChunk(n) ==
  IF state.finished \/ state.cancelled \/ n = 0
  THEN Ignored
  ELSE AfterOverflow([state EXCEPT !.content = @ + n, !.pendingChars = @ + n],
                     <<>>, "chunk")

OnFlush ==
  IF state.finished \/ state.cancelled
  THEN Ignored
  ELSE running' = "none" /\ MaybePatch(state, <<>>, TRUE)

(* finish without finalText, what the driver sends.                        *)
OnFinish ==
  IF state.finished THEN Ignored ELSE AfterOverflow(state, <<>>, "finish")

(* finish with a finalText of n characters, which replaces the content.    *)
OnFinishWith(n) ==
  IF state.finished
  THEN Ignored
  ELSE AfterOverflow([state EXCEPT !.content = n, !.pendingChars = n,
                                   !.truncated = FALSE], <<>>, "finish")

OnCancel ==
  IF state.finished
  THEN Ignored
  ELSE running' = "none" /\ Finalize(state, <<>>, CancelNote, TRUE, FALSE)

OnError ==
  IF state.finished
  THEN Ignored
  ELSE running' = "none" /\ Finalize(state, <<>>, ErrorNote, FALSE, TRUE)

PatchResult(s, ok) ==
  IF ok
  THEN [s EXCEPT !.patchFailures = 0]
  ELSE [s EXCEPT !.patchFailures = @ + 1,
                 !.degraded = @ \/ s.patchFailures + 1 >= MaxPatchFailures]

OnPatchResult(ok) ==
  state' = PatchResult(state, ok) /\ actions' = <<>> /\ running' = "none"
=============================================================================
