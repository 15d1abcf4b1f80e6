----------------------- MODULE StreamSchedulerProofs ------------------------
(***************************************************************************)
(* Proofs about the scheduler under every sequence of events, for every    *)
(* configuration that leaves room for text (RoomAssumption); then about    *)
(* the driver around it, whatever fails, is cancelled or dies: its writes  *)
(* stay within maxPatches, and it implements StreamedAnswer.               *)
(***************************************************************************)
EXTENDS StreamReplay, StreamReply, TLAPS

(* An open, uncut text fits into its message: handleOverflow has seen to   *)
(* it before any patch, flush or cancel looks at the state.                *)
OpenFits ==
  running = "none" /\ ~state.finished /\ ~state.truncated => ~Overflows(state)

(* The loop of handleOverflow runs only over an open text that is to be    *)
(* split.                                                                  *)
LoopInv ==
  running # "none" => Overflows(state) /\ state.overflow = "split" /\ ~state.finished

IInv == ReplayTypeOK /\ OpenFits /\ LoopInv

-----------------------------------------------------------------------------
(* The constants are numbers, and every capacity is what the decorations   *)
(* leave.                                                                  *)
LEMMA Constants ==
  /\ MaxMessageChars \in Nat /\ MinPatchChars \in Nat /\ MaxPatches \in Nat
  /\ MaxPatchFailures \in Nat /\ MaxInput \in Nat /\ MaxChunk \in Nat
  /\ Prefix \in Nat /\ ContinuationPrefix \in Nat /\ Suffix \in Nat
  /\ TypingIndicator \in Nat /\ TruncationNote \in Nat /\ CancelNote \in Nat
  /\ ErrorNote \in Nat /\ EmptyFinalText \in Nat
  BY ConfigAssumption DEF Lengths

LEMMA Capacity ==
  ASSUME NEW segment \in Nat, NEW note \in Nat
  PROVE  /\ SegmentPrefix(segment) \in Nat
         /\ SegmentPrefix(segment) + Suffix + TruncationNote < MaxMessageChars
         /\ SegmentCapacity(segment, note) \in Nat \ {0}
         /\ SegmentPrefix(segment) + SegmentCapacity(segment, note) + note + Suffix
              <= MaxMessageChars + note
  BY Constants, RoomAssumption DEF SegmentPrefix, SegmentCapacity, Max2

LEMMA TextCapacity ==
  ASSUME NEW segment \in Nat
  PROVE  /\ SegmentCapacity(segment, 0) = MaxMessageChars - (SegmentPrefix(segment) + Suffix)
         /\ SegmentCapacity(segment, TruncationNote)
              = MaxMessageChars - (SegmentPrefix(segment) + Suffix + TruncationNote)
  BY Constants, RoomAssumption DEF SegmentPrefix, SegmentCapacity, Max2

LEMMA StateTypes ==
  ASSUME NEW s \in State
  PROVE  /\ s.start \in Nat /\ s.content \in Nat /\ s.pendingChars \in Nat
         /\ s.patchesUsed \in Nat /\ s.segmentIndex \in Nat /\ s.patchFailures \in Nat
         /\ s.truncated \in BOOLEAN /\ s.finished \in BOOLEAN
         /\ s.cancelled \in BOOLEAN /\ s.errored \in BOOLEAN
         /\ s.degraded \in BOOLEAN /\ s.patchedBefore \in BOOLEAN
         /\ s.overflow \in {"truncate", "split"}
  BY DEF State

(* One turn of the splitting loop consumes text it has, at least one       *)
(* character of it.                                                        *)
LEMMA Split ==
  ASSUME NEW s \in State, Overflows(s), NEW p \in SplitPoints(s)
  PROVE  /\ p.cut \in 1..SegmentCapacity(s.segmentIndex, 0)
         /\ p.blank \in {0, 1}
         /\ p.cut + p.blank <= s.content
         /\ SplitState(s, p) \in State
         /\ SplitState(s, p).finished = s.finished
         /\ SplitState(s, p).truncated = s.truncated
         /\ SplitState(s, p).overflow = s.overflow
         /\ SplitActions(s, p) \in Seq(Action)
<1> DEFINE capacity == SegmentCapacity(s.segmentIndex, 0)
<1>1. s.segmentIndex \in Nat /\ s.content \in Nat /\ s.start \in Nat
  BY DEF State
<1>2. p.cut \in 1..capacity /\ p.blank \in {0, 1}
  BY DEF SplitPoints
<1>3. /\ capacity \in Nat
      /\ capacity = MaxMessageChars - (SegmentPrefix(s.segmentIndex) + Suffix)
      /\ SegmentPrefix(s.segmentIndex) \in Nat
  <2>1. SegmentPrefix(s.segmentIndex) \in Nat /\ capacity \in Nat
    BY <1>1, Capacity
  <2>2. QED
    BY <1>1, <2>1, TextCapacity
<1>4. s.content > capacity
  BY <1>1, <1>3, Constants DEF Overflows, RenderedLength
<1>5. p.cut + p.blank <= s.content
  BY <1>1, <1>2, <1>3, <1>4
<1>6. /\ s.content - (p.cut + p.blank) \in Nat
      /\ s.start + p.cut \in Nat
      /\ s.start + p.cut + p.blank \in Nat
  BY <1>1, <1>2, <1>3, <1>5
<1>7. SplitState(s, p) \in State
  <2> DEFINE rest == s.content - (p.cut + p.blank)
             next == s.start + p.cut + p.blank
             segment == s.segmentIndex + 1
  <2>1. rest \in Nat /\ next \in Nat /\ segment \in Nat
    BY <1>1, <1>6
  <2>2. SplitState(s, p) = [s EXCEPT !.start = next, !.content = rest, !.pendingChars = rest,
                                     !.segmentIndex = segment, !.patchesUsed = 0,
                                     !.patchedBefore = FALSE]
    BY DEF SplitState
  <2> HIDE DEF rest, next, segment
  <2>3. [s EXCEPT !.start = next, !.content = rest, !.pendingChars = rest,
                  !.segmentIndex = segment, !.patchesUsed = 0, !.patchedBefore = FALSE] \in State
    BY <2>1 DEF State
  <2>4. QED
    BY <2>2, <2>3
<1>8. /\ SplitState(s, p).finished = s.finished
      /\ SplitState(s, p).truncated = s.truncated
      /\ SplitState(s, p).overflow = s.overflow
      /\ SplitState(s, p).segmentIndex = s.segmentIndex + 1
      /\ SplitState(s, p).start = s.start + p.cut + p.blank
  BY DEF SplitState, State
<1>9. SplitActions(s, p) \in Seq(Action)
  BY <1>1, <1>2, <1>3, <1>6, <1>8, Constants DEF SplitActions, Write, Action, RenderedLength
<1> QED
  BY <1>2, <1>5, <1>7, <1>8, <1>9

-----------------------------------------------------------------------------
(* What maybePatch and finalize return is well formed.                     *)
LEMMA PatchTyped ==
  ASSUME NEW s \in State, NEW acts \in Seq(Action), NEW force \in BOOLEAN,
         MaybePatch(s, acts, force)
  PROVE  /\ state' \in State /\ actions' \in Seq(Action)
         /\ state'.finished = s.finished /\ state'.truncated = s.truncated
         /\ state'.content = s.content /\ state'.segmentIndex = s.segmentIndex
         /\ state'.overflow = s.overflow
<1>1. s.segmentIndex \in Nat /\ s.content \in Nat /\ s.start \in Nat
  BY DEF State
<1>2. PatchedState(s) \in State
  <2> DEFINE used == s.patchesUsed + 1
  <2>1. used \in Nat
    BY StateTypes
  <2>2. PatchedState(s) = [s EXCEPT !.patchesUsed = used, !.patchedBefore = TRUE,
                                    !.pendingChars = 0]
    BY DEF PatchedState
  <2> HIDE DEF used
  <2>3. [s EXCEPT !.patchesUsed = used, !.patchedBefore = TRUE, !.pendingChars = 0] \in State
    BY <2>1 DEF State
  <2>4. QED
    BY <2>2, <2>3
<1>3. PatchAction(s) \in Action
  <2>1. SegmentPrefix(s.segmentIndex) \in Nat
    BY <1>1, Capacity
  <2>2. RenderedLength(s.segmentIndex, s.content, 0, TypingIndicator) \in Nat
    BY <1>1, <2>1, Constants DEF RenderedLength
  <2>3. QED
    BY <1>1, <2>2 DEF PatchAction, Write, Action
<1>4. state' \in {s, PatchedState(s)} /\ actions' \in {acts, Append(acts, PatchAction(s))}
  BY DEF MaybePatch
<1>5. /\ PatchedState(s).finished = s.finished /\ PatchedState(s).truncated = s.truncated
      /\ PatchedState(s).content = s.content
      /\ PatchedState(s).segmentIndex = s.segmentIndex
      /\ PatchedState(s).overflow = s.overflow
  BY DEF PatchedState, State
<1> QED
  BY <1>2, <1>3, <1>4, <1>5

LEMMA FinalContentBound ==
  ASSUME NEW s \in State, NEW note \in Nat
  PROVE  FinalContent(s, note) \in Nat /\ FinalContent(s, note) <= s.content
<1>1. s.segmentIndex \in Nat /\ s.content \in Nat
  BY DEF State
<1>2. SegmentCapacity(s.segmentIndex, TruncationNote) \in Nat
  BY <1>1, Capacity, Constants
<1> QED
  BY <1>1, <1>2 DEF FinalContent, Min2

LEMMA FinalTyped ==
  ASSUME NEW s \in State, NEW acts \in Seq(Action), NEW note \in Nat,
         NEW cancel \in BOOLEAN, NEW error \in BOOLEAN,
         Finalize(s, acts, note, cancel, error)
  PROVE  state' \in State /\ actions' \in Seq(Action) /\ state'.finished
<1>1. s.segmentIndex \in Nat /\ s.content \in Nat /\ s.start \in Nat
  BY DEF State
<1>2. FinalTruncated(s, note) \in BOOLEAN
  BY DEF FinalTruncated, State
<1>3. FinalState(s, note, cancel, error) \in State
  BY <1>2 DEF FinalState, State
<1>4. FinalState(s, note, cancel, error).finished
  BY DEF FinalState, State
<1>5. FinalAction(s, note) \in Action
  <2> DEFINE truncation == IF FinalTruncated(s, note) THEN TruncationNote ELSE 0
             shown == FinalContent(s, note)
             length == RenderedLength(s.segmentIndex, shown, truncation + note, 0)
  <2>1. shown \in Nat
    BY FinalContentBound
  <2>2. SegmentPrefix(s.segmentIndex) \in Nat
    BY <1>1, Capacity
  <2>3. truncation \in Nat
    BY Constants
  <2>4. length \in Nat
    <3> HIDE DEF truncation, shown
    <3> QED BY <2>1, <2>2, <2>3, Constants DEF RenderedLength
  <2>5. (IF length = 0 THEN EmptyFinalText ELSE length) \in Nat
    BY <2>4, Constants
  <2>6. FinalAction(s, note) =
          Write(s, "finalize", s.start + shown, IF length = 0 THEN EmptyFinalText ELSE length)
    BY DEF FinalAction
  <2> HIDE DEF truncation, shown, length
  <2>7. QED
    BY <1>1, <2>1, <2>5, <2>6 DEF Write, Action
<1> QED
  BY <1>3, <1>4, <1>5 DEF Finalize

(* Whatever follows the overflow check of a chunk or a finish keeps the    *)
(* invariant.                                                              *)
LEMMA AfterOverflowKeeps ==
  ASSUME NEW s \in State, NEW acts \in Seq(Action), NEW ev \in {"chunk", "finish"},
         ~s.finished, AfterOverflow(s, acts, ev)
  PROVE  IInv'
<1>1. CASE Overflows(s) /\ s.overflow = "split"
  <2>1. running' = ev /\ state' = s /\ actions' = acts
    BY <1>1 DEF AfterOverflow
  <2>2. Overflows(state') /\ state'.overflow = "split" /\ ~state'.finished
    BY <1>1, <2>1
  <2>3. Overflows(state)'
    BY <2>2 DEF Overflows, RenderedLength, SegmentPrefix
  <2>4. QED
    BY <2>1, <2>2, <2>3 DEF IInv, ReplayTypeOK, OpenFits, LoopInv
<1>2. CASE ~(Overflows(s) /\ s.overflow = "split")
  <2> DEFINE t == IF Overflows(s) THEN [s EXCEPT !.truncated = TRUE] ELSE s
  <2>1. running' = "none"
    BY <1>2 DEF AfterOverflow
  <2>2. /\ \/ ev = "chunk" /\ MaybePatch(t, acts, FALSE)
           \/ ev = "finish" /\ Finalize(t, acts, 0, FALSE, FALSE)
    BY <1>2 DEF AfterOverflow
  <2>3. t \in State
    BY DEF State
  <2>4. t.truncated \/ ~Overflows(t)
    BY DEF State
  <2> HIDE DEF t
  <2>5. CASE ev = "chunk"
    <3>1. MaybePatch(t, acts, FALSE)
      BY <2>2, <2>5
    <3>2. /\ state' \in State /\ actions' \in Seq(Action)
          /\ state'.truncated = t.truncated /\ state'.content = t.content
          /\ state'.segmentIndex = t.segmentIndex
      BY <2>3, <3>1, PatchTyped
    <3>3. state'.truncated \/ ~Overflows(state)'
      BY <2>4, <3>2 DEF Overflows, RenderedLength, SegmentPrefix
    <3>4. QED
      BY <2>1, <3>2, <3>3 DEF IInv, ReplayTypeOK, OpenFits, LoopInv
  <2>6. CASE ev = "finish"
    <3>1. Finalize(t, acts, 0, FALSE, FALSE)
      BY <2>2, <2>6
    <3>2. state' \in State /\ actions' \in Seq(Action) /\ state'.finished
      BY <2>3, <3>1, FinalTyped
    <3>3. QED
      BY <2>1, <3>2 DEF IInv, ReplayTypeOK, OpenFits, LoopInv
  <2>7. QED
    BY <2>5, <2>6
<1> QED
  BY <1>1, <1>2

LEMMA EmptyActions == <<>> \in Seq(Action)
  OBVIOUS

(* The invariant survives every event and every turn of the loop.          *)
LEMMA IgnoredKeeps ==
  ASSUME IInv, running = "none", Ignored
  PROVE  IInv'
  BY EmptyActions DEF IInv, ReplayTypeOK, OpenFits, LoopInv, Ignored, Overflows, RenderedLength, SegmentPrefix

LEMMA ChunkKeeps ==
  ASSUME IInv, running = "none", NEW n \in Nat, OnChunk(n)
  PROVE  IInv'
<1>1. CASE state.finished \/ state.cancelled \/ n = 0
  BY <1>1, IgnoredKeeps DEF OnChunk
<1>2. CASE ~(state.finished \/ state.cancelled \/ n = 0)
  <2> DEFINE s == [state EXCEPT !.content = @ + n, !.pendingChars = @ + n]
  <2>1. state \in State
    BY DEF IInv, ReplayTypeOK
  <2>2. s \in State /\ ~s.finished
    <3> DEFINE c == state.content + n
               d == state.pendingChars + n
    <3>1. c \in Nat /\ d \in Nat
      BY <2>1, StateTypes
    <3>2. s = [state EXCEPT !.content = c, !.pendingChars = d]
      OBVIOUS
    <3> HIDE DEF c, d, s
    <3>3. QED
      BY <1>2, <2>1, <3>1, <3>2 DEF State
  <2>3. AfterOverflow(s, <<>>, "chunk")
    BY <1>2 DEF OnChunk
  <2> HIDE DEF s
  <2>4. QED
    BY <2>2, <2>3, EmptyActions, AfterOverflowKeeps
<1> QED
  BY <1>1, <1>2

LEMMA FlushKeeps ==
  ASSUME IInv, running = "none", OnFlush
  PROVE  IInv'
<1>1. CASE state.finished \/ state.cancelled
  BY <1>1, IgnoredKeeps DEF OnFlush
<1>2. CASE ~(state.finished \/ state.cancelled)
  <2>1. state \in State /\ MaybePatch(state, <<>>, TRUE) /\ running' = "none"
    BY <1>2 DEF IInv, ReplayTypeOK, OnFlush
  <2>2. /\ state' \in State /\ actions' \in Seq(Action)
        /\ state'.truncated = state.truncated /\ state'.content = state.content
        /\ state'.segmentIndex = state.segmentIndex /\ state'.finished = state.finished
    BY <2>1, EmptyActions, PatchTyped
  <2>3. QED
    BY <2>1, <2>2 DEF IInv, ReplayTypeOK, OpenFits, LoopInv, Overflows, RenderedLength, SegmentPrefix
<1> QED
  BY <1>1, <1>2

LEMMA FinishKeeps ==
  ASSUME IInv, running = "none", OnFinish \/ \E n \in Nat : OnFinishWith(n)
  PROVE  IInv'
<1>1. CASE state.finished
  BY <1>1, IgnoredKeeps DEF OnFinish, OnFinishWith
<1>2. CASE ~state.finished /\ OnFinish
  BY <1>2, EmptyActions, AfterOverflowKeeps DEF OnFinish, IInv, ReplayTypeOK
<1>3. CASE ~state.finished /\ \E n \in Nat : OnFinishWith(n)
  <2>1. PICK n \in Nat : OnFinishWith(n)
    BY <1>3
  <2> DEFINE s == [state EXCEPT !.content = n, !.pendingChars = n, !.truncated = FALSE]
  <2>2. state \in State
    BY DEF IInv, ReplayTypeOK
  <2>3. s \in State /\ ~s.finished
    BY <1>3, <2>2 DEF State
  <2>4. AfterOverflow(s, <<>>, "finish")
    BY <1>3, <2>1 DEF OnFinishWith
  <2> HIDE DEF s
  <2>5. QED
    BY <2>3, <2>4, EmptyActions, AfterOverflowKeeps
<1> QED
  BY <1>1, <1>2, <1>3

LEMMA EndKeeps ==
  ASSUME IInv, running = "none", OnCancel \/ OnError
  PROVE  IInv'
<1>1. CASE state.finished
  BY <1>1, IgnoredKeeps DEF OnCancel, OnError
<1>2. CASE ~state.finished
  <2>1. state \in State /\ running' = "none"
    BY <1>2 DEF IInv, ReplayTypeOK, OnCancel, OnError
  <2>2. \/ Finalize(state, <<>>, CancelNote, TRUE, FALSE)
        \/ Finalize(state, <<>>, ErrorNote, FALSE, TRUE)
    BY <1>2 DEF OnCancel, OnError
  <2>3. state' \in State /\ actions' \in Seq(Action) /\ state'.finished
    BY <2>1, <2>2, EmptyActions, Constants, FinalTyped
  <2>4. QED
    BY <2>1, <2>3 DEF IInv, ReplayTypeOK, OpenFits, LoopInv
<1> QED
  BY <1>1, <1>2

LEMMA ResultKeeps ==
  ASSUME IInv, running = "none", NEW ok \in BOOLEAN, OnPatchResult(ok)
  PROVE  IInv'
<1>1. state \in State
  BY DEF IInv, ReplayTypeOK
<1>2. /\ PatchResult(state, ok) \in State
      /\ PatchResult(state, ok).truncated = state.truncated
      /\ PatchResult(state, ok).finished = state.finished
      /\ PatchResult(state, ok).content = state.content
      /\ PatchResult(state, ok).segmentIndex = state.segmentIndex
  <2> DEFINE count == state.patchFailures + 1
             degraded == state.degraded \/ count >= MaxPatchFailures
  <2>1. count \in Nat /\ degraded \in BOOLEAN
    BY <1>1, StateTypes
  <2>2. PatchResult(state, ok) \in {[state EXCEPT !.patchFailures = 0],
                                    [state EXCEPT !.patchFailures = count, !.degraded = degraded]}
    BY DEF PatchResult
  <2> HIDE DEF count, degraded
  <2>3. /\ [state EXCEPT !.patchFailures = 0] \in State
        /\ [state EXCEPT !.patchFailures = count, !.degraded = degraded] \in State
    BY <1>1, <2>1 DEF State
  <2>4. /\ PatchResult(state, ok).truncated = state.truncated
        /\ PatchResult(state, ok).finished = state.finished
        /\ PatchResult(state, ok).content = state.content
        /\ PatchResult(state, ok).segmentIndex = state.segmentIndex
    BY <1>1, <2>2 DEF State
  <2>5. QED
    BY <2>2, <2>3, <2>4
<1>3. state' = PatchResult(state, ok) /\ actions' = <<>> /\ running' = "none"
  BY DEF OnPatchResult
<1> QED
  BY <1>2, <1>3, EmptyActions
    DEF IInv, ReplayTypeOK, OpenFits, LoopInv, Overflows, RenderedLength, SegmentPrefix

LEMMA SplitKeeps ==
  ASSUME IInv, SplitOnce
  PROVE  IInv'
<1>1. state \in State /\ actions \in Seq(Action) /\ running \in {"chunk", "finish"}
  BY DEF IInv, ReplayTypeOK, SplitOnce
<1>2. Overflows(state) /\ ~state.finished
  BY <1>1 DEF IInv, LoopInv
<1>3. PICK p \in SplitPoints(state) :
        AfterOverflow(SplitState(state, p), actions \o SplitActions(state, p), running)
  BY DEF SplitOnce
<1>4. /\ SplitState(state, p) \in State /\ ~SplitState(state, p).finished
      /\ SplitActions(state, p) \in Seq(Action)
  BY <1>1, <1>2, Split
<1>5. actions \o SplitActions(state, p) \in Seq(Action)
  BY <1>1, <1>4
<1> QED
  BY <1>1, <1>3, <1>4, <1>5, AfterOverflowKeeps

LEMMA InitInvariant == ReplayInit => IInv
<1> SUFFICES ASSUME ReplayInit PROVE IInv
  OBVIOUS
<1>1. PICK overflow \in {"truncate", "split"} : state = CreateState(overflow)
  BY DEF ReplayInit
<1>2. state \in State
  BY <1>1 DEF CreateState, State
<1>3. ~Overflows(state)
  <2>1. state.segmentIndex = 0 /\ state.content = 0
    BY <1>1 DEF CreateState
  <2>2. QED
    BY <2>1, Constants, RoomAssumption DEF Overflows, RenderedLength, SegmentPrefix
<1> QED
  BY <1>2, <1>3, EmptyActions DEF ReplayInit, IInv, ReplayTypeOK, OpenFits, LoopInv

LEMMA NextInvariant == IInv /\ [ReplayNext]_schedulerVars => IInv'
<1> SUFFICES ASSUME IInv, [ReplayNext]_schedulerVars PROVE IInv'
  OBVIOUS
<1>1. CASE SplitOnce
  BY <1>1, SplitKeeps
<1>2. CASE running = "none" /\ ChunkEvent
  <2>1. PICK n \in 1..MaxChunk : OnChunk(n)
    BY <1>2 DEF ChunkEvent
  <2>2. QED
    BY <1>2, <2>1, Constants, ChunkKeeps
<1>3. CASE running = "none" /\ OnFlush
  BY <1>3, FlushKeeps
<1>4. CASE running = "none" /\ FinishEvent
  <2>1. OnFinish \/ \E n \in Nat : OnFinishWith(n)
    BY <1>4, Constants DEF FinishEvent
  <2>2. QED
    BY <1>4, <2>1, FinishKeeps
<1>5. CASE running = "none" /\ (OnCancel \/ OnError)
  BY <1>5, EndKeeps
<1>6. CASE running = "none" /\ PatchResultEvent
  BY <1>6, ResultKeeps DEF PatchResultEvent
<1>7. CASE UNCHANGED schedulerVars
  BY <1>7 DEF schedulerVars, IInv, ReplayTypeOK, OpenFits, LoopInv, Overflows, RenderedLength, SegmentPrefix
<1> QED
  BY <1>1, <1>2, <1>3, <1>4, <1>5, <1>6, <1>7 DEF ReplayNext

LEMMA Invariant == ReplaySpec => []IInv
  BY InitInvariant, NextInvariant, PTL DEF ReplaySpec

(* Type correctness, for every configuration with room for text.           *)
THEOREM TypeCorrect == ReplaySpec => []ReplayTypeOK
<1>1. IInv => ReplayTypeOK
  BY DEF IInv
<1> QED
  BY <1>1, Invariant, PTL

-----------------------------------------------------------------------------
(* The size guard *)

Within(acts) == \A i \in DOMAIN acts : acts[i].length <= MaxMessageChars

(* While the loop runs, the batch holds final texts and placeholders only. *)
LoopWithin == running # "none" => Within(actions)

(* An uncut text that is open fits.                                        *)
Fits(s) == s.truncated \/ ~Overflows(s)

LEMMA WithinAppend ==
  ASSUME NEW acts \in Seq(Action), NEW a \in Action, Within(acts),
         NEW i \in DOMAIN Append(acts, a)
  PROVE  Append(acts, a)[i].length <= MaxMessageChars \/ Append(acts, a)[i] = a
  BY DEF Within

LEMMA SplitWithin ==
  ASSUME NEW s \in State, Overflows(s), NEW p \in SplitPoints(s)
  PROVE  Within(SplitActions(s, p))
<1>1. /\ s.segmentIndex \in Nat
      /\ p.cut \in Nat /\ p.cut <= SegmentCapacity(s.segmentIndex, 0)
  <2>1. s.segmentIndex \in Nat
    BY StateTypes
  <2>2. SegmentCapacity(s.segmentIndex, 0) \in Nat
    BY <2>1, Capacity
  <2>3. QED
    BY <2>1, <2>2, Split
<1>2. /\ SegmentPrefix(s.segmentIndex) \in Nat
      /\ SegmentPrefix(s.segmentIndex) + SegmentCapacity(s.segmentIndex, 0) + 0 + Suffix
           <= MaxMessageChars + 0
      /\ SegmentCapacity(s.segmentIndex, 0) \in Nat
  BY <1>1, Capacity
<1>3. RenderedLength(s.segmentIndex, p.cut, 0, 0) <= MaxMessageChars
  BY <1>1, <1>2, Constants DEF RenderedLength
<1>4. ContinuationPrefix + 1 <= MaxMessageChars
  BY Constants, RoomAssumption
<1> QED
  BY <1>3, <1>4 DEF Within, SplitActions, Write

LEMMA PatchFits ==
  ASSUME NEW s \in State, Fits(s), NEW acts \in Seq(Action), Within(acts),
         NEW force \in BOOLEAN, MaybePatch(s, acts, force)
  PROVE  \A i \in DOMAIN actions' :
           \/ actions'[i].length <= MaxMessageChars
           \/ /\ actions'[i].action = "patch"
              /\ actions'[i].length <= MaxMessageChars + TypingIndicator
<1>1. CASE actions' = acts
  BY <1>1 DEF Within
<1>2. CASE actions' # acts
  <2>1. /\ actions' = Append(acts, PatchAction(s)) /\ ~s.truncated
    BY <1>2 DEF MaybePatch, PatchDue
  <2>2. RenderedLength(s.segmentIndex, s.content, 0, 0) <= MaxMessageChars
    <3>1. s.segmentIndex \in Nat /\ s.content \in Nat
      BY StateTypes
    <3>2. SegmentPrefix(s.segmentIndex) \in Nat
      BY <3>1, Capacity
    <3>3. QED
      BY <2>1, <3>1, <3>2, Constants DEF Fits, Overflows, RenderedLength
  <2>3. PatchAction(s).length <= MaxMessageChars + TypingIndicator
    <3>1. s.segmentIndex \in Nat /\ s.content \in Nat
      BY StateTypes
    <3>2. SegmentPrefix(s.segmentIndex) \in Nat
      BY <3>1, Capacity
    <3>3. QED
      BY <2>2, <3>1, <3>2, Constants DEF PatchAction, Write, RenderedLength
  <2>4. PatchAction(s).action = "patch"
    BY DEF PatchAction, Write
  <2>5. PatchAction(s) \in Action
    <3>1. s.segmentIndex \in Nat /\ s.content \in Nat /\ s.start \in Nat
      BY StateTypes
    <3>2. SegmentPrefix(s.segmentIndex) \in Nat
      BY <3>1, Capacity
    <3>3. QED
      BY <3>1, <3>2, Constants, SMTT(30) DEF PatchAction, Write, Action, RenderedLength
  <2>6. QED
    BY <2>1, <2>3, <2>4, <2>5, WithinAppend
<1> QED
  BY <1>1, <1>2

(* The text finalize renders: whatever it cuts, and whichever notes it     *)
(* adds, only the note of a cancel or of an error can exceed the limit.    *)
LEMMA FinalFits ==
  ASSUME NEW s \in State, Fits(s), NEW note \in Nat
  PROVE  FinalAction(s, note).length <= MaxMessageChars + note
<1> DEFINE segment == s.segmentIndex
           truncation == IF FinalTruncated(s, note) THEN TruncationNote ELSE 0
           shown == FinalContent(s, note)
           length == RenderedLength(segment, shown, truncation + note, 0)
<1>1. segment \in Nat /\ s.content \in Nat /\ s.truncated \in BOOLEAN
      /\ s.overflow \in {"truncate", "split"}
  BY StateTypes
<1>2. SegmentPrefix(segment) \in Nat
  BY <1>1, Capacity
<1>3. shown \in Nat
  BY FinalContentBound
<1>4. SegmentPrefix(segment) + shown + truncation + Suffix <= MaxMessageChars
  <2>1. /\ SegmentCapacity(segment, TruncationNote) \in Nat
        /\ SegmentCapacity(segment, TruncationNote)
             = MaxMessageChars - (SegmentPrefix(segment) + Suffix + TruncationNote)
    BY <1>1, Constants, Capacity, TextCapacity
  <2>2. /\ SegmentCapacity(segment, note) \in Nat
        /\ SegmentPrefix(segment) + SegmentCapacity(segment, note) + note + Suffix
             <= MaxMessageChars + note
    BY <1>1, Capacity
  <2>3. CASE FinalTruncated(s, note)
    <3>1. shown <= SegmentCapacity(segment, TruncationNote)
      BY <1>1, <2>1, <2>2, <2>3 DEF FinalContent, FinalTruncated, Min2
    <3>2. truncation = TruncationNote
      BY <2>3
    <3> HIDE DEF shown, truncation, segment
    <3>3. QED
      BY <1>2, <1>3, <2>1, <3>1, <3>2, Constants
  <2>4. CASE ~FinalTruncated(s, note)
    <3>1. shown = s.content /\ truncation = 0
      BY <2>4 DEF FinalContent
    <3>2. ~s.truncated
      BY <2>4 DEF FinalTruncated
    <3>3. ~Overflows(s)
      BY <3>2 DEF Fits
    <3>4. SegmentPrefix(segment) + s.content + Suffix <= MaxMessageChars
      BY <1>1, <1>2, <3>2, <3>3, Constants DEF Overflows, RenderedLength
    <3> HIDE DEF shown, truncation, segment
    <3>5. QED
      BY <1>1, <1>2, <3>1, <3>4, Constants
  <2>5. QED
    BY <2>3, <2>4
<1>5. truncation \in Nat
  BY Constants
<1>6. FinalAction(s, note).length = IF length = 0 THEN EmptyFinalText ELSE length
  BY DEF FinalAction, Write
<1> HIDE DEF shown, truncation, segment
<1>7. length <= MaxMessageChars + note
  BY <1>2, <1>3, <1>4, <1>5, Constants DEF RenderedLength
<1> QED
  BY <1>6, <1>7, Constants, RoomAssumption

LEMMA FinalActionTyped ==
  ASSUME NEW s \in State, NEW note \in Nat
  PROVE  FinalAction(s, note) \in Action /\ FinalAction(s, note).action = "finalize"
<1> DEFINE acts == Append(<<>>, FinalAction(s, note))
<1>1. s.segmentIndex \in Nat /\ s.content \in Nat /\ s.start \in Nat
  BY StateTypes
<1>2. SegmentPrefix(s.segmentIndex) \in Nat
  BY <1>1, Capacity
<1>3. FinalContent(s, note) \in Nat
  BY FinalContentBound
<1>4. /\ s.start + FinalContent(s, note) \in Nat
      /\ RenderedLength(s.segmentIndex, FinalContent(s, note), TruncationNote + note, 0) \in Nat
      /\ RenderedLength(s.segmentIndex, FinalContent(s, note), 0 + note, 0) \in Nat
  BY <1>1, <1>2, <1>3, Constants DEF RenderedLength
<1> QED
  BY <1>1, <1>4, Constants DEF FinalAction, Write, Action

FitInv == ActionsFit /\ LoopWithin

(* Every action of the next state fits once it is within the limit or one  *)
(* of the exceptions Allowance lists.                                      *)
LEMMA FitsNext ==
  ASSUME actions' \in Seq(Action), state' \in State,
         \A i \in DOMAIN actions' :
           \/ actions'[i].length <= MaxMessageChars
           \/ /\ actions'[i].action = "patch"
              /\ actions'[i].length <= MaxMessageChars + TypingIndicator
           \/ /\ actions'[i].action = "finalize" /\ state'.cancelled
              /\ actions'[i].length <= MaxMessageChars + CancelNote
           \/ /\ actions'[i].action = "finalize" /\ state'.errored
              /\ actions'[i].length <= MaxMessageChars + ErrorNote
  PROVE  ActionsFit'
<1> SUFFICES ASSUME NEW i \in DOMAIN actions'
             PROVE  actions'[i].length <= MaxMessageChars + Allowance(actions[i])'
  BY DEF ActionsFit
<1>1. actions'[i].length \in Nat
  <2>1. actions'[i] \in Action
    OBVIOUS
  <2>2. QED
    BY <2>1 DEF Action
<1>2. Allowance(actions[i])' \in Nat
  BY Constants, SMTT(30) DEF Allowance
<1>3. CASE actions'[i].length <= MaxMessageChars
  BY <1>1, <1>2, <1>3, Constants
<1>4. CASE actions'[i].action = "patch" /\ actions'[i].length <= MaxMessageChars + TypingIndicator
  BY <1>4 DEF Allowance
<1>5. CASE /\ actions'[i].action = "finalize" /\ state'.cancelled
           /\ actions'[i].length <= MaxMessageChars + CancelNote
  <2>1. CancelNote <= Allowance(actions[i])'
    BY <1>5, Constants, SMTT(30) DEF Allowance
  <2>2. QED
    BY <1>1, <1>2, <1>5, <2>1, Constants
<1>6. CASE /\ actions'[i].action = "finalize" /\ state'.errored
           /\ actions'[i].length <= MaxMessageChars + ErrorNote
  <2>1. ErrorNote <= Allowance(actions[i])'
    BY <1>6, Constants, SMTT(30) DEF Allowance
  <2>2. QED
    BY <1>1, <1>2, <1>6, <2>1, Constants
<1> QED
  BY <1>3, <1>4, <1>5, <1>6

LEMMA AfterOverflowFits ==
  ASSUME NEW s \in State, ~s.finished, NEW acts \in Seq(Action), Within(acts),
         NEW ev \in {"chunk", "finish"}, AfterOverflow(s, acts, ev)
  PROVE  FitInv'
<1>0. state' \in State /\ actions' \in Seq(Action)
  BY AfterOverflowKeeps DEF IInv, ReplayTypeOK
<1>1. CASE Overflows(s) /\ s.overflow = "split"
  <2>1. actions' = acts
    BY <1>1 DEF AfterOverflow
  <2>2. Within(actions)'
    BY <2>1 DEF Within
  <2>3. QED
    BY <1>0, <2>2, FitsNext DEF Within, FitInv, LoopWithin
<1>2. CASE ~(Overflows(s) /\ s.overflow = "split")
  <2> DEFINE t == IF Overflows(s) THEN [s EXCEPT !.truncated = TRUE] ELSE s
  <2>1. running' = "none"
    BY <1>2 DEF AfterOverflow
  <2>2. /\ \/ ev = "chunk" /\ MaybePatch(t, acts, FALSE)
           \/ ev = "finish" /\ Finalize(t, acts, 0, FALSE, FALSE)
    BY <1>2 DEF AfterOverflow
  <2>3. t \in State
    BY DEF State
  <2>4. Fits(t)
    BY DEF State, Fits
  <2> HIDE DEF t
  <2>5. CASE ev = "chunk"
    <3>1. MaybePatch(t, acts, FALSE)
      BY <2>2, <2>5
    <3>2. \A i \in DOMAIN actions' :
            \/ actions'[i].length <= MaxMessageChars
            \/ /\ actions'[i].action = "patch"
               /\ actions'[i].length <= MaxMessageChars + TypingIndicator
      BY <2>3, <2>4, <3>1, PatchFits
    <3>3. QED
      BY <1>0, <2>1, <3>2, FitsNext DEF FitInv, LoopWithin
  <2>6. CASE ev = "finish"
    <3>1. actions' = Append(acts, FinalAction(t, 0))
      BY <2>2, <2>6 DEF Finalize
    <3>2. FinalAction(t, 0).length <= MaxMessageChars + 0
      BY <2>3, <2>4, FinalFits
    <3>3. FinalAction(t, 0) \in Action
      BY <2>3, FinalActionTyped
    <3>4. \A i \in DOMAIN actions' : actions'[i].length <= MaxMessageChars
      BY <3>1, <3>2, <3>3, WithinAppend, Constants
    <3>5. QED
      BY <1>0, <2>1, <3>4, FitsNext DEF FitInv, LoopWithin
  <2>7. QED
    BY <2>5, <2>6
<1> QED
  BY <1>1, <1>2

(* A batch without actions fits.                                           *)
LEMMA EmptyFits ==
  ASSUME state' \in State, actions' = <<>>, running' = "none"
  PROVE  FitInv'
  BY EmptyActions, FitsNext DEF FitInv, LoopWithin

LEMMA EmptyWithin == Within(<<>>)
  BY DEF Within

LEMMA NextFits == IInv /\ FitInv /\ [ReplayNext]_schedulerVars => FitInv'
<1> SUFFICES ASSUME IInv, FitInv, [ReplayNext]_schedulerVars PROVE FitInv'
  OBVIOUS
<1>0. /\ state \in State /\ actions \in Seq(Action)
      /\ state' \in State /\ actions' \in Seq(Action)
  BY NextInvariant DEF IInv, ReplayTypeOK
<1>1. CASE SplitOnce
  <2>1. running \in {"chunk", "finish"}
    BY <1>1 DEF IInv, ReplayTypeOK, SplitOnce
  <2>2. Overflows(state) /\ ~state.finished /\ Within(actions)
    BY <2>1 DEF IInv, LoopInv, FitInv, LoopWithin
  <2>3. PICK p \in SplitPoints(state) :
          AfterOverflow(SplitState(state, p), actions \o SplitActions(state, p), running)
    BY <1>1 DEF SplitOnce
  <2>4. /\ SplitState(state, p) \in State /\ ~SplitState(state, p).finished
        /\ SplitActions(state, p) \in Seq(Action)
    BY <1>0, <2>2, Split
  <2>5. Within(SplitActions(state, p))
    BY <1>0, <2>2, SplitWithin
  <2> DEFINE acts == actions \o SplitActions(state, p)
  <2>6. acts \in Seq(Action) /\ Within(acts)
    BY <1>0, <2>2, <2>4, <2>5 DEF Within
  <2> HIDE DEF acts
  <2>7. QED
    BY <2>1, <2>3, <2>4, <2>6, AfterOverflowFits DEF acts
<1>2. CASE running = "none" /\ ChunkEvent
  <2>1. PICK n \in 1..MaxChunk : OnChunk(n)
    BY <1>2 DEF ChunkEvent
  <2>2. CASE state.finished \/ state.cancelled
    BY <1>0, <2>1, <2>2, EmptyFits DEF OnChunk, Ignored
  <2>3. CASE ~(state.finished \/ state.cancelled)
    <3> DEFINE s == [state EXCEPT !.content = @ + n, !.pendingChars = @ + n]
               c == state.content + n
               d == state.pendingChars + n
    <3>1. c \in Nat /\ d \in Nat
      BY <1>0, <2>1, StateTypes, Constants
    <3>2. s = [state EXCEPT !.content = c, !.pendingChars = d]
      OBVIOUS
    <3>3. n # 0
      BY <2>1, Constants
    <3>4. AfterOverflow(s, <<>>, "chunk")
      BY <2>1, <2>3, <3>3 DEF OnChunk
    <3> HIDE DEF c, d, s
    <3>5. s \in State /\ ~s.finished
      BY <1>0, <2>3, <3>1, <3>2 DEF State
    <3>6. QED
      BY <3>4, <3>5, EmptyActions, EmptyWithin, AfterOverflowFits
  <2>4. QED
    BY <2>2, <2>3
<1>3. CASE running = "none" /\ OnFlush
  <2>1. CASE state.finished \/ state.cancelled
    BY <1>0, <1>3, <2>1, EmptyFits DEF OnFlush, Ignored
  <2>2. CASE ~(state.finished \/ state.cancelled)
    <3>1. MaybePatch(state, <<>>, TRUE) /\ running' = "none"
      BY <1>3, <2>2 DEF OnFlush
    <3>2. Fits(state)
      BY <1>3, <2>2 DEF IInv, OpenFits, Fits
    <3>3. \A i \in DOMAIN actions' :
            \/ actions'[i].length <= MaxMessageChars
            \/ /\ actions'[i].action = "patch"
               /\ actions'[i].length <= MaxMessageChars + TypingIndicator
      BY <1>0, <3>1, <3>2, EmptyActions, EmptyWithin, PatchFits
    <3>4. QED
      BY <1>0, <3>1, <3>3, FitsNext DEF FitInv, LoopWithin
  <2>3. QED
    BY <2>1, <2>2
<1>4. CASE running = "none" /\ FinishEvent
  <2>1. CASE state.finished
    BY <1>0, <1>4, <2>1, EmptyFits DEF FinishEvent, OnFinish, OnFinishWith, Ignored
  <2>2. CASE ~state.finished /\ OnFinish
    BY <1>0, <2>2, EmptyActions, EmptyWithin, AfterOverflowFits DEF OnFinish
  <2>3. CASE ~state.finished /\ ~OnFinish
    <3>1. PICK n \in 0..MaxChunk : OnFinishWith(n)
      BY <1>4, <2>3 DEF FinishEvent
    <3> DEFINE s == [state EXCEPT !.content = n, !.pendingChars = n, !.truncated = FALSE]
    <3>2. s \in State /\ ~s.finished
      <4>1. n \in Nat
        BY <3>1, Constants
      <4>2. QED
        BY <1>0, <2>3, <4>1 DEF State
    <3>3. AfterOverflow(s, <<>>, "finish")
      BY <2>3, <3>1 DEF OnFinishWith
    <3> HIDE DEF s
    <3>4. QED
      BY <3>2, <3>3, EmptyActions, EmptyWithin, AfterOverflowFits
  <2>4. QED
    BY <2>1, <2>2, <2>3
<1>5. CASE running = "none" /\ (OnCancel \/ OnError)
  <2>1. CASE state.finished
    BY <1>0, <1>5, <2>1, EmptyFits DEF OnCancel, OnError, Ignored
  <2>2. CASE ~state.finished
    <3>1. Fits(state) /\ running' = "none"
      BY <1>5, <2>2 DEF IInv, OpenFits, Fits, OnCancel, OnError
    <3>2. CASE OnCancel
      <4>1. /\ actions' = Append(<<>>, FinalAction(state, CancelNote))
            /\ state' = FinalState(state, CancelNote, TRUE, FALSE)
        BY <2>2, <3>2 DEF OnCancel, Finalize
      <4>2. state'.cancelled
        BY <1>0, <4>1 DEF FinalState, State
      <4>3. /\ FinalAction(state, CancelNote).length <= MaxMessageChars + CancelNote
            /\ FinalAction(state, CancelNote).action = "finalize"
        BY <1>0, <3>1, Constants, FinalFits, FinalActionTyped
      <4>4. \A i \in DOMAIN actions' : actions'[i] = FinalAction(state, CancelNote)
        BY <4>1
      <4>5. ActionsFit'
        BY <1>0, <4>2, <4>3, <4>4, FitsNext
      <4>6. QED
        BY <3>1, <4>5 DEF FitInv, LoopWithin
    <3>3. CASE OnError
      <4>1. /\ actions' = Append(<<>>, FinalAction(state, ErrorNote))
            /\ state' = FinalState(state, ErrorNote, FALSE, TRUE)
        BY <2>2, <3>3 DEF OnError, Finalize
      <4>2. state'.errored
        BY <1>0, <4>1 DEF FinalState, State
      <4>3. /\ FinalAction(state, ErrorNote).length <= MaxMessageChars + ErrorNote
            /\ FinalAction(state, ErrorNote).action = "finalize"
        BY <1>0, <3>1, Constants, FinalFits, FinalActionTyped
      <4>4. \A i \in DOMAIN actions' : actions'[i] = FinalAction(state, ErrorNote)
        BY <4>1
      <4>5. ActionsFit'
        BY <1>0, <4>2, <4>3, <4>4, FitsNext
      <4>6. QED
        BY <3>1, <4>5 DEF FitInv, LoopWithin
    <3>4. QED
      BY <1>5, <3>2, <3>3
  <2>3. QED
    BY <2>1, <2>2
<1>6. CASE running = "none" /\ PatchResultEvent
  BY <1>0, <1>6, EmptyFits DEF PatchResultEvent, OnPatchResult
<1>7. CASE UNCHANGED schedulerVars
  BY <1>7 DEF schedulerVars, FitInv, ActionsFit, LoopWithin, Within, Allowance
<1> QED
  BY <1>1, <1>2, <1>3, <1>4, <1>5, <1>6, <1>7 DEF ReplayNext

(* The size guard: under every sequence of events no write exceeds         *)
(* maxMessageChars by more than its typing indicator or closing note.      *)
THEOREM WritesFit == ReplaySpec => []ActionsFit
<1>1. ReplayInit => FitInv
  BY DEF ReplayInit, FitInv, ActionsFit, LoopWithin
<1>2. FitInv => ActionsFit
  BY DEF FitInv
<1> QED
  BY <1>1, <1>2, NextFits, Invariant, PTL DEF ReplaySpec

-----------------------------------------------------------------------------
(* The driver.  What may come after an action in the list an event leaves. *)
Follows(a, b) ==
  \/ /\ a.action = "finalize" /\ b.action = "start_continuation"
     /\ b.from - a.upto \in {0, 1}
  \/ /\ a.action = "start_continuation" /\ b.action \in {"patch", "finalize"}
     /\ b.from = a.from

Shows(a, received) ==
  /\ a.from <= a.upto /\ a.upto <= received
  /\ a.final <=> a.action = "finalize"
  /\ a.action = "start_continuation" => a.upto = a.from

Chain(acts, received) ==
  /\ \A i \in 1..(Len(acts) - 1) : Follows(acts[i], acts[i + 1])
  /\ \A i \in 1..Len(acts) : Shows(acts[i], received)

(* The last action is about the segment the state is in.                   *)
Ends(a, s) ==
  /\ a.from = s.start
  /\ a.action = "patch" => ~s.finished /\ s.patchesUsed > 0
  /\ a.action = "start_continuation" => ~s.finished
  /\ a.action = "finalize" =>
       s.finished /\ (s.truncated \/ a.upto = s.start + s.content)

Batch(acts, s) ==
  /\ Chain(acts, s.start + s.content)
  /\ acts # <<>> => Ends(acts[Len(acts)], s)
  /\ \A i \in 1..Len(acts) : acts[i].from <= s.start

(* The loop of handleOverflow leaves a message that has just been started. *)
Started(acts) == acts # <<>> => acts[Len(acts)].action = "start_continuation"

LEMMA AppendChain ==
  ASSUME NEW acts \in Seq(Action), NEW received \in Nat, Chain(acts, received),
         NEW a \in Action, Shows(a, received),
         acts # <<>> => Follows(acts[Len(acts)], a)
  PROVE  /\ Chain(Append(acts, a), received)
         /\ Append(acts, a) \in Seq(Action) /\ Append(acts, a) # <<>>
         /\ Append(acts, a)[Len(Append(acts, a))] = a
         /\ Head(Append(acts, a)) = IF acts = <<>> THEN a ELSE Head(acts)
         /\ \A i \in 1..Len(Append(acts, a)) :
              Append(acts, a)[i] = a \/ \E j \in 1..Len(acts) : Append(acts, a)[i] = acts[j]
<1> DEFINE longer == Append(acts, a)
<1>1. /\ longer \in Seq(Action) /\ Len(longer) = Len(acts) + 1 /\ Len(acts) \in Nat
      /\ longer[Len(acts) + 1] = a /\ longer # <<>>
      /\ \A i \in 1..Len(acts) : longer[i] = acts[i]
  OBVIOUS
<1> HIDE DEF longer
<1>2. Head(longer) = longer[1] /\ (acts # <<>> => Head(acts) = acts[1] /\ 1 \in 1..Len(acts))
  BY <1>1
<1>3. acts = <<>> <=> Len(acts) = 0 OBVIOUS
<1>4. \A i \in 1..(Len(longer) - 1) : Follows(longer[i], longer[i + 1])
  <2> SUFFICES ASSUME NEW i \in 1..(Len(longer) - 1) PROVE Follows(longer[i], longer[i + 1])
    OBVIOUS
  <2>1. CASE i = Len(acts) BY <1>1, <1>3, <2>1
  <2>2. CASE i # Len(acts) BY <1>1, <2>2 DEF Chain
  <2>3. QED BY <2>1, <2>2
<1>5. \A i \in 1..Len(longer) : Shows(longer[i], received) BY <1>1 DEF Chain
<1>6. Chain(longer, received) BY <1>4, <1>5 DEF Chain
<1>7. Head(longer) = IF acts = <<>> THEN a ELSE Head(acts) BY <1>1, <1>2, <1>3
<1>8. \A i \in 1..Len(longer) : longer[i] = a \/ \E j \in 1..Len(acts) : longer[i] = acts[j]
  BY <1>1
<1>9. QED BY <1>1, <1>6, <1>7, <1>8 DEF longer

(* What is left of a list once its first action has been applied.          *)
LEMMA TailBatch ==
  ASSUME NEW acts \in Seq(Action), acts # <<>>, NEW s \in State, Batch(acts, s)
  PROVE  /\ Head(acts) \in Action /\ Shows(Head(acts), s.start + s.content)
         /\ Tail(acts) \in Seq(Action) /\ Batch(Tail(acts), s)
         /\ Tail(acts) = <<>> => Ends(Head(acts), s)
         /\ Tail(acts) # <<>> => Follows(Head(acts), Head(Tail(acts)))
         /\ Head(acts).from <= s.start
<1> DEFINE rest == Tail(acts)
<1>1. /\ rest \in Seq(Action) /\ Len(rest) = Len(acts) - 1 /\ Len(acts) \in Nat \ {0}
      /\ \A i \in 1..Len(rest) : rest[i] = acts[i + 1]
      /\ Head(acts) = acts[1] /\ acts[1] \in Action
      /\ (rest = <<>> <=> Len(rest) = 0) /\ (rest # <<>> => Head(rest) = rest[1])
      /\ DOMAIN rest = 1..Len(rest) /\ DOMAIN acts = 1..Len(acts)
  <2>1. /\ rest \in Seq(Action) /\ Len(rest) = Len(acts) - 1 /\ Len(acts) \in Nat \ {0}
        /\ Head(acts) = acts[1] /\ acts[1] \in Action
    OBVIOUS
  <2>2. \A i \in 1..Len(rest) : rest[i] = acts[i + 1] OBVIOUS
  <2> HIDE DEF rest
  <2>3. /\ (rest = <<>> <=> Len(rest) = 0) /\ (rest # <<>> => Head(rest) = rest[1])
        /\ DOMAIN rest = 1..Len(rest) /\ DOMAIN acts = 1..Len(acts)
    BY <2>1
  <2>4. QED BY <2>1, <2>2, <2>3
<1> HIDE DEF rest
<1>2. Shows(Head(acts), s.start + s.content) BY <1>1 DEF Batch, Chain
<1>3. Chain(rest, s.start + s.content) BY <1>1, SMTT(30) DEF Batch, Chain
<1>4. rest # <<>> => rest[Len(rest)] = acts[Len(acts)] BY <1>1
<1>5. \A i \in 1..Len(rest) : rest[i].from <= s.start BY <1>1 DEF Batch
<1>10. Batch(rest, s) BY <1>1, <1>3, <1>4, <1>5 DEF Batch
<1>6. rest = <<>> => Ends(Head(acts), s) BY <1>1, SMTT(30) DEF Batch
<1>7. rest # <<>> => Follows(Head(acts), Head(rest)) BY <1>1 DEF Batch, Chain
<1>8. Head(acts).from <= s.start BY <1>1 DEF Batch
<1>9. QED BY <1>1, <1>2, <1>6, <1>7, <1>8, <1>10 DEF rest

(* A patch is the last action of its list.                                 *)
LEMMA OpenHead ==
  ASSUME NEW acts \in Seq(Action), acts # <<>>, NEW s \in State, Batch(acts, s), Started(acts)
  PROVE  Head(acts).action # "patch"
<1>1. Head(acts) = acts[1] /\ Len(acts) \in Nat \ {0} OBVIOUS
<1>2. CASE Len(acts) = 1 BY <1>1, <1>2 DEF Started
<1>3. CASE Len(acts) # 1
  <2>1. \A n \in Nat \ {0} : n # 1 => 1 \in 1..(n - 1) OBVIOUS
  <2>2. 1 \in 1..(Len(acts) - 1) BY <1>1, <1>3, <2>1
  <2>3. Follows(acts[1], acts[1 + 1]) BY <2>2 DEF Batch, Chain
  <2>4. QED BY <1>1, <2>3 DEF Follows
<1>4. QED BY <1>2, <1>3

LEMMA OnlyPatch ==
  ASSUME NEW acts \in Seq(Action), acts # <<>>, NEW s \in State, Batch(acts, s),
         Head(acts).action = "patch"
  PROVE  Tail(acts) = <<>> /\ Ends(Head(acts), s)
BY TailBatch DEF Follows

(* What an event, or the end of its loop, makes of a list: nothing, or one *)
(* more write to the message it ends with.                                 *)
Advanced(s, acts) ==
  /\ state'.start = s.start /\ state'.content = s.content /\ state'.overflow = s.overflow
  /\ state'.patchesUsed < MaxPatches
  /\ Batch(actions', state')
  /\ running' # "none" => actions' = acts
  /\ \/ actions' = acts /\ state'.patchesUsed = s.patchesUsed /\ ~state'.finished
     \/ \E a \in Action :
          /\ actions' = Append(acts, a) /\ a.from = s.start
          /\ \/ a.action = "patch" /\ s.patchesUsed < state'.patchesUsed /\ ~state'.finished
             \/ a.action = "finalize" /\ state'.finished

LEMMA OneMore ==
  ASSUME NEW s \in State, NEW acts \in Seq(Action), Batch(acts, s), Started(acts),
         NEW a \in Action, state' \in State, actions' = Append(acts, a), running' = "none",
         state'.start = s.start, state'.content = s.content, state'.overflow = s.overflow,
         state'.patchesUsed < MaxPatches, Shows(a, s.start + s.content), Ends(a, state'),
         \/ a.action = "patch" /\ s.patchesUsed < state'.patchesUsed /\ ~state'.finished
         \/ a.action = "finalize" /\ state'.finished
  PROVE  Advanced(s, acts)
<1>1. s.start + s.content \in Nat BY StateTypes
<1>2. a.from = s.start BY DEF Ends
<1>3. acts # <<>> => Follows(acts[Len(acts)], a)
  BY <1>2 DEF Batch, Started, Ends, Follows
<1>4. Batch(actions', state')
  <2>1. /\ Chain(actions', s.start + s.content) /\ actions' # <<>>
        /\ actions'[Len(actions')] = a
        /\ \A i \in 1..Len(actions') :
             actions'[i] = a \/ \E j \in 1..Len(acts) : actions'[i] = acts[j]
    BY <1>1, <1>3, AppendChain DEF Batch
  <2>2. a.from <= s.start BY <1>2, StateTypes
  <2>3. \A i \in 1..Len(actions') : actions'[i].from <= s.start BY <2>1, <2>2 DEF Batch
  <2>4. QED BY <2>1, <2>3 DEF Batch
<1>5. QED BY <1>2, <1>4 DEF Advanced

LEMMA PatchAdvances ==
  ASSUME NEW s \in State, NEW acts \in Seq(Action), Batch(acts, s), Started(acts),
         ~s.finished, s.patchesUsed < MaxPatches, NEW force \in BOOLEAN,
         MaybePatch(s, acts, force), running' = "none"
  PROVE  Advanced(s, acts)
<1>1. /\ s.segmentIndex \in Nat /\ s.content \in Nat /\ s.start \in Nat
      /\ s.patchesUsed \in Nat /\ MaxPatches \in Nat
  BY StateTypes, Constants
<1>2. CASE state' = s /\ actions' = acts BY <1>2 DEF Advanced
<1>3. CASE /\ s.patchesUsed < MaxPatches - 1
           /\ state' = PatchedState(s) /\ actions' = Append(acts, PatchAction(s))
  <2>1. state' \in State BY PatchTyped
  <2>2. /\ state'.start = s.start /\ state'.content = s.content /\ state'.overflow = s.overflow
        /\ state'.patchesUsed = s.patchesUsed + 1 /\ state'.finished = s.finished
    BY <1>3 DEF PatchedState, State
  <2>3. PatchAction(s) \in Action
    <3>1. SegmentPrefix(s.segmentIndex) \in Nat BY <1>1, Capacity
    <3>2. RenderedLength(s.segmentIndex, s.content, 0, TypingIndicator) \in Nat
      BY <1>1, <3>1, Constants DEF RenderedLength
    <3>3. QED BY <1>1, <3>2 DEF PatchAction, Write, Action
  <2> DEFINE a == PatchAction(s)
  <2>4. a.action = "patch" /\ a.from = s.start /\ a.upto = s.start + s.content /\ ~a.final
    BY DEF PatchAction, Write
  <2>5. actions' = Append(acts, a) BY <1>3
  <2> HIDE DEF a
  <2>6. Shows(a, s.start + s.content) BY <1>1, <2>4 DEF Shows
  <2>7. Ends(a, state') BY <1>1, <2>2, <2>4 DEF Ends
  <2>8. state'.patchesUsed < MaxPatches /\ s.patchesUsed < state'.patchesUsed
    BY <1>1, <1>3, <2>2
  <2>9. a \in Action BY <2>3 DEF a
  <2>10. QED BY <2>1, <2>2, <2>4, <2>5, <2>6, <2>7, <2>8, <2>9, OneMore
<1>4. QED BY <1>2, <1>3 DEF MaybePatch, PatchDue

LEMMA FinalAdvances ==
  ASSUME NEW s \in State, NEW acts \in Seq(Action), Batch(acts, s), Started(acts),
         s.patchesUsed < MaxPatches, NEW note \in Nat, NEW cancel \in BOOLEAN,
         NEW error \in BOOLEAN, Finalize(s, acts, note, cancel, error), running' = "none"
  PROVE  Advanced(s, acts) /\ state'.finished
<1>1. s.content \in Nat /\ s.start \in Nat BY StateTypes
<1>2. state' \in State /\ state'.finished BY FinalTyped
<1>3. /\ state'.start = s.start /\ state'.content = s.content /\ state'.overflow = s.overflow
      /\ state'.patchesUsed = s.patchesUsed /\ state'.truncated = FinalTruncated(s, note)
  BY DEF Finalize, FinalState, State
<1> DEFINE a == FinalAction(s, note)
<1>4. /\ a.action = "finalize" /\ a.from = s.start /\ a.final
      /\ a.upto = s.start + FinalContent(s, note)
  BY DEF FinalAction, Write
<1>5. a \in Action /\ FinalContent(s, note) \in Nat /\ FinalContent(s, note) <= s.content
  BY FinalActionTyped, FinalContentBound
<1>6. ~FinalTruncated(s, note) => FinalContent(s, note) = s.content BY DEF FinalContent
<1>7. actions' = Append(acts, a) BY DEF Finalize
<1> HIDE DEF a
<1>8. Shows(a, s.start + s.content) BY <1>1, <1>4, <1>5 DEF Shows
<1>9. Ends(a, state') BY <1>1, <1>2, <1>3, <1>4, <1>6 DEF Ends
<1>10. QED BY <1>2, <1>3, <1>4, <1>5, <1>7, <1>8, <1>9, OneMore

LEMMA AfterOverflowAdvances ==
  ASSUME NEW s \in State, NEW acts \in Seq(Action), Batch(acts, s), Started(acts),
         ~s.finished, s.patchesUsed < MaxPatches, NEW ev \in {"chunk", "finish"},
         AfterOverflow(s, acts, ev)
  PROVE  /\ Advanced(s, acts) /\ running' \in {"none", ev}
         /\ running' = "none" => (state'.finished <=> ev = "finish")
         /\ ev = "chunk" => ~state'.finished
<1>1. CASE Overflows(s) /\ s.overflow = "split"
  <2>1. running' = ev /\ state' = s /\ actions' = acts BY <1>1 DEF AfterOverflow
  <2>2. QED BY <2>1 DEF Advanced
<1>2. CASE ~(Overflows(s) /\ s.overflow = "split")
  <2> DEFINE t == IF Overflows(s) THEN [s EXCEPT !.truncated = TRUE] ELSE s
  <2>1. running' = "none" BY <1>2 DEF AfterOverflow
  <2>2. /\ \/ ev = "chunk" /\ MaybePatch(t, acts, FALSE)
           \/ ev = "finish" /\ Finalize(t, acts, 0, FALSE, FALSE)
    BY <1>2 DEF AfterOverflow
  <2>3. /\ t \in State /\ t.start = s.start /\ t.content = s.content /\ t.overflow = s.overflow
        /\ t.patchesUsed = s.patchesUsed /\ t.finished = s.finished
    BY DEF State
  <2> HIDE DEF t
  <2>4. Batch(acts, t) BY <2>3 DEF Batch, Started, Ends
  <2>5. CASE ev = "chunk"
    <3>1. MaybePatch(t, acts, FALSE) BY <2>2, <2>5
    <3>2. Advanced(t, acts) BY <2>1, <2>3, <2>4, <3>1, PatchAdvances
    <3>3. ~state'.finished BY <2>3, <3>1, PatchTyped
    <3>4. QED BY <2>1, <2>3, <2>5, <3>2, <3>3 DEF Advanced
  <2>6. CASE ev = "finish"
    <3>1. Finalize(t, acts, 0, FALSE, FALSE) BY <2>2, <2>6
    <3>2. Advanced(t, acts) /\ state'.finished BY <2>1, <2>3, <2>4, <3>1, FinalAdvances
    <3>3. QED BY <2>1, <2>3, <2>6, <3>2 DEF Advanced
  <2>7. QED BY <2>5, <2>6
<1>3. QED BY <1>1, <1>2

(* A turn of the loop seals the message and begins the next one where the  *)
(* text goes on, but for one blank.                                        *)
LEMMA SplitBatch ==
  ASSUME NEW s \in State, Overflows(s), ~s.finished, NEW p \in SplitPoints(s),
         NEW acts \in Seq(Action), Batch(acts, s), Started(acts)
  PROVE  LET longer == acts \o SplitActions(s, p)
         IN /\ longer \in Seq(Action) /\ longer # <<>> /\ Started(longer)
            /\ Batch(longer, SplitState(s, p))
            /\ IF acts # <<>> THEN Head(longer) = Head(acts)
               ELSE Head(longer).action = "finalize" /\ Head(longer).from = s.start
            /\ SplitState(s, p).start + SplitState(s, p).content = s.start + s.content
            /\ SplitState(s, p).patchesUsed = 0
<1> DEFINE first == Write(s, "finalize", s.start + p.cut,
                          RenderedLength(s.segmentIndex, p.cut, 0, 0))
           second == Write(SplitState(s, p), "start_continuation", s.start + p.cut + p.blank,
                           ContinuationPrefix + 1)
           received == s.start + s.content
<1>1. s.start \in Nat /\ s.content \in Nat /\ s.segmentIndex \in Nat BY StateTypes
<1>2. /\ p.cut \in Nat /\ p.blank \in {0, 1} /\ p.cut + p.blank <= s.content
      /\ SplitState(s, p) \in State /\ SplitState(s, p).finished = s.finished
      /\ SplitActions(s, p) \in Seq(Action)
  <2>1. SegmentCapacity(s.segmentIndex, 0) \in Nat BY <1>1, Capacity
  <2>2. /\ p.cut \in 1..SegmentCapacity(s.segmentIndex, 0)
        /\ p.blank \in {0, 1} /\ p.cut + p.blank <= s.content
        /\ SplitState(s, p) \in State /\ SplitState(s, p).finished = s.finished
        /\ SplitActions(s, p) \in Seq(Action)
    BY Split
  <2>3. QED BY <2>1, <2>2
<1>3. /\ SplitState(s, p).start = s.start + p.cut + p.blank
      /\ SplitState(s, p).content = s.content - (p.cut + p.blank)
      /\ SplitState(s, p).patchesUsed = 0
  BY DEF SplitState, State
<1>4. /\ first.action = "finalize" /\ first.from = s.start /\ first.upto = s.start + p.cut
      /\ first.final
      /\ second.action = "start_continuation" /\ ~second.final
      /\ second.from = s.start + p.cut + p.blank /\ second.upto = s.start + p.cut + p.blank
  BY <1>3 DEF Write
<1>5. SplitActions(s, p) = <<first, second>> BY DEF SplitActions
<1> HIDE DEF first, second
<1>6. first \in Action /\ second \in Action
  <2>1. SplitActions(s, p)[1] = first /\ SplitActions(s, p)[2] = second
        /\ DOMAIN SplitActions(s, p) = 1..2
    BY <1>5
  <2>2. \A i \in DOMAIN SplitActions(s, p) : SplitActions(s, p)[i] \in Action BY <1>2
  <2>3. QED BY <2>1, <2>2
<1>7. acts \o SplitActions(s, p) = Append(Append(acts, first), second) BY <1>5, <1>6
<1>8. Shows(first, received) /\ Shows(second, received) /\ received \in Nat
  BY <1>1, <1>2, <1>4 DEF Shows
<1>9. Follows(first, second) BY <1>1, <1>2, <1>4 DEF Follows
<1>10. acts # <<>> => Follows(acts[Len(acts)], first)
  BY <1>4 DEF Batch, Started, Ends, Follows
<1> DEFINE sealed == Append(acts, first)
<1>11. /\ Chain(sealed, received) /\ sealed \in Seq(Action) /\ sealed # <<>>
       /\ sealed[Len(sealed)] = first
       /\ Head(sealed) = IF acts = <<>> THEN first ELSE Head(acts)
       /\ \A i \in 1..Len(sealed) :
            sealed[i] = first \/ \E j \in 1..Len(acts) : sealed[i] = acts[j]
  BY <1>6, <1>8, <1>10, AppendChain DEF Batch
<1> HIDE DEF sealed
<1> DEFINE longer == Append(sealed, second)
<1>12. /\ Chain(longer, received) /\ longer \in Seq(Action) /\ longer # <<>>
       /\ longer[Len(longer)] = second /\ Head(longer) = Head(sealed)
       /\ \A i \in 1..Len(longer) :
            longer[i] = second \/ \E j \in 1..Len(sealed) : longer[i] = sealed[j]
  BY <1>6, <1>8, <1>9, <1>11, AppendChain
<1> HIDE DEF longer
<1>13. SplitState(s, p).start + SplitState(s, p).content = received BY <1>1, <1>2, <1>3
<1>14. Ends(second, SplitState(s, p)) BY <1>2, <1>3, <1>4 DEF Ends
<1>18. \A i \in 1..Len(longer) : longer[i].from <= SplitState(s, p).start
  <2>1. /\ first.from <= SplitState(s, p).start /\ second.from <= SplitState(s, p).start
        /\ s.start <= SplitState(s, p).start
    BY <1>1, <1>2, <1>3, <1>4
  <2>2. \A j \in 1..Len(acts) : acts[j].from <= SplitState(s, p).start
    <3> SUFFICES ASSUME NEW j \in 1..Len(acts)
                 PROVE  acts[j].from <= SplitState(s, p).start
      OBVIOUS
    <3>4. acts[j] \in Action OBVIOUS
    <3>1. acts[j].from <= s.start /\ acts[j].from \in Nat BY <3>4 DEF Batch, Action
    <3>2. SplitState(s, p).start \in Nat BY <1>1, <1>2, <1>3
    <3>3. QED BY <1>1, <2>1, <3>1, <3>2
  <2>3. \A j \in 1..Len(sealed) : sealed[j].from <= SplitState(s, p).start
    BY <1>11, <2>1, <2>2
  <2>4. QED BY <1>12, <2>1, <2>3
<1>15. Batch(longer, SplitState(s, p)) /\ Started(longer)
  BY <1>4, <1>12, <1>13, <1>14, <1>18 DEF Batch, Started
<1>16. IF acts # <<>> THEN Head(longer) = Head(acts)
       ELSE Head(longer).action = "finalize" /\ Head(longer).from = s.start
  BY <1>4, <1>11, <1>12
<1>17. QED BY <1>3, <1>7, <1>12, <1>13, <1>15, <1>16 DEF longer, sealed

(* What an event does to a driver that has applied everything so far.      *)
Reacts(n) ==
  /\ ~state.finished
  /\ \E s \in State :
       /\ s.start = state.start /\ s.overflow = state.overflow
       /\ s.patchesUsed = state.patchesUsed /\ s.content = state.content + n
       /\ Advanced(s, <<>>)

LEMMA EmptyBatch == \A s \in State : Batch(<<>>, s) /\ Started(<<>>)
BY DEF Batch, Chain, Started

LEMMA ChunkReacts ==
  ASSUME state \in State, state.patchesUsed < MaxPatches, NEW n \in Nat, OnChunk(n)
  PROVE  \/ Ignored
         \/ Reacts(n) /\ running' \in {"none", "chunk"} /\ ~state'.finished
<1>1. CASE state.finished \/ state.cancelled \/ n = 0 BY <1>1 DEF OnChunk
<1>2. CASE ~(state.finished \/ state.cancelled \/ n = 0)
  <2> DEFINE c == state.content + n
             d == state.pendingChars + n
             s == [state EXCEPT !.content = c, !.pendingChars = d]
  <2>1. c \in Nat /\ d \in Nat BY StateTypes
  <2>2. AfterOverflow(s, <<>>, "chunk") BY <1>2 DEF OnChunk
  <2>3. s.content = state.content + n BY DEF State
  <2> HIDE DEF c, d
  <2>4. /\ s \in State /\ s.start = state.start /\ s.overflow = state.overflow
        /\ s.patchesUsed = state.patchesUsed /\ s.finished = state.finished
    BY <2>1 DEF State
  <2> HIDE DEF s
  <2>5. Advanced(s, <<>>) /\ running' \in {"none", "chunk"} /\ ~state'.finished
    BY <1>2, <2>2, <2>4, EmptyActions, EmptyBatch, AfterOverflowAdvances
  <2>6. QED BY <1>2, <2>3, <2>4, <2>5 DEF Reacts
<1>3. QED BY <1>1, <1>2

LEMMA EndReacts ==
  ASSUME state \in State, state.patchesUsed < MaxPatches, OnFinish \/ OnCancel \/ OnError
  PROVE  \/ Ignored /\ state.finished
         \/ /\ Reacts(0)
            /\ running' = "finish" \/ (running' = "none" /\ state'.finished)
<1>1. CASE state.finished BY <1>1 DEF OnFinish, OnCancel, OnError
<1>2. CASE ~state.finished
  <2>1. CASE OnFinish
    <3>1. AfterOverflow(state, <<>>, "finish") BY <1>2, <2>1 DEF OnFinish
    <3>2. /\ Advanced(state, <<>>) /\ running' \in {"none", "finish"}
          /\ running' = "none" => state'.finished
      BY <1>2, <3>1, EmptyActions, EmptyBatch, AfterOverflowAdvances
    <3>3. state.content = state.content + 0 BY StateTypes
    <3>4. QED BY <1>2, <3>2, <3>3 DEF Reacts
  <2>2. CASE OnCancel \/ OnError
    <3>1. PICK note \in Nat, cancel \in BOOLEAN, error \in BOOLEAN :
            running' = "none" /\ Finalize(state, <<>>, note, cancel, error)
      BY <1>2, <2>2, Constants DEF OnCancel, OnError
    <3>2. Advanced(state, <<>>) /\ state'.finished
      BY <3>1, EmptyActions, EmptyBatch, FinalAdvances
    <3>3. state.content = state.content + 0 BY StateTypes
    <3>4. QED BY <1>2, <3>1, <3>2, <3>3 DEF Reacts
  <2>3. QED BY <2>1, <2>2
<1>3. QED BY <1>1, <1>2

(* An error ends an open text with one last write.                         *)
LEMMA ErrorReacts ==
  ASSUME state \in State, state.patchesUsed < MaxPatches, OnError
  PROVE  /\ running' = "none"
         /\ \/ Ignored /\ state.finished
            \/ /\ Reacts(0) /\ state'.finished
               /\ \E a \in Action :
                    actions' = <<a>> /\ a.action = "finalize" /\ a.from = state.start
<1>1. CASE state.finished
  <2>1. Ignored BY <1>1 DEF OnError
  <2>2. QED BY <1>1, <2>1 DEF Ignored
<1>2. CASE ~state.finished
  <2>1. running' = "none" /\ Finalize(state, <<>>, ErrorNote, FALSE, TRUE)
    BY <1>2 DEF OnError
  <2>2. Advanced(state, <<>>) /\ state'.finished
    BY <2>1, EmptyActions, EmptyBatch, FinalAdvances, Constants
  <2>3. \E a \in Action :
          actions' = Append(<<>>, a) /\ a.action = "finalize" /\ a.from = state.start
    BY <2>2 DEF Advanced
  <2>4. \A a : Append(<<>>, a) = <<a>> OBVIOUS
  <2>5. Reacts(0)
    <3>1. state.content = state.content + 0 BY StateTypes
    <3>2. QED BY <1>2, <2>2, <3>1 DEF Reacts
  <2>6. QED BY <2>1, <2>2, <2>3, <2>4, <2>5
<1>3. QED BY <1>1, <1>2

-----------------------------------------------------------------------------
(* The driver's invariant: where it is, what its list of actions is about, *)
(* and how many writes the current message may still get.                  *)
Working == pc \in {"pull", "apply", "closing"}

PhaseInv ==
  /\ pc \in {"pull", "closing"} => running = "none" /\ actions = <<>>
  /\ pc = "apply" /\ event = "chunk" =>
       running # "finish" /\ (actions # <<>> => ~state.finished)
  /\ pc = "apply" /\ event # "chunk" =>
       running = "finish" \/ (running = "none" /\ state.finished)

(* After a throw in the loop only the catch's one write is to come.        *)
HistoryInv ==
  /\ Working /\ thrown # "none" =>
       /\ pc = "apply" /\ event = "error" /\ running = "none" /\ failure
       /\ actions # <<>> => Tail(actions) = <<>> /\ Head(actions).action = "finalize"
  /\ pc = "down" => restarts > 0

BatchInv ==
  Working => Batch(actions, state) /\ (running # "none" => Started(actions))

(* The writes of the current message that are still to come are counted.   *)
BudgetInv ==
  /\ state.patchesUsed < MaxPatches
  /\ \A s \in saved : s.patchesUsed < MaxPatches
  /\ WritesWithinBudget
  /\ Working =>
       LET writes == messages[current].writes
       IN IF actions = <<>>
          THEN ~state.finished => writes <= state.patchesUsed
          ELSE /\ Head(actions).action = "patch" => writes < state.patchesUsed
               /\ Head(actions).action = "finalize" => writes < Budget(current)

SavedFits == \A s \in saved : s \in State /\ (s.finished \/ Fits(s))

DriverInv ==
  /\ TypeOK /\ OpenFits /\ LoopInv /\ PhaseInv /\ HistoryInv /\ BatchInv
  /\ BudgetInv /\ SavedFits

TextRecord ==
  [segmentIndex : Nat, from : Nat, upto : Nat, length : Nat, final : BOOLEAN]

MessageRecord == [text : TextRecord, writes : Nat]

LEMMA DriverTypes ==
  ASSUME TypeOK
  PROVE  /\ ReplayTypeOK /\ messages \in Seq(MessageRecord) /\ current \in DOMAIN messages
         /\ DOMAIN messages = 1..Len(messages) /\ Len(messages) \in Nat
         /\ \A i \in DOMAIN messages : messages[i] \in MessageRecord
                                       /\ messages[i].writes \in Nat
         /\ MaxPatches \in Nat \ {0}
<1>1. messages \in Seq(MessageRecord) BY DEF TypeOK, MessageRecord, TextRecord
<1>2. \A i \in DOMAIN messages : messages[i] \in MessageRecord BY <1>1
<1>3. \A i \in DOMAIN messages : messages[i].writes \in Nat BY <1>2 DEF MessageRecord
<1>4. QED BY <1>1, <1>2, <1>3, ConfigAssumption, SMTT(30) DEF TypeOK, ReplayTypeOK

LEMMA SchedulerInv == DriverInv => IInv
BY DriverTypes DEF DriverInv, IInv

LEMMA BudgetIs ==
  ASSUME TypeOK
  PROVE  \A i : /\ Budget(i) \in Nat /\ MaxPatches <= Budget(i)
                /\ (thrown # "start_continuation" \/ i # current) => Budget(i) = MaxPatches
<1> TAKE i
<1>1. MaxPatches \in Nat BY ConfigAssumption
<1>2. CASE thrown = "start_continuation" /\ i = current BY <1>1, <1>2 DEF Budget
<1>3. CASE ~(thrown = "start_continuation" /\ i = current) BY <1>1, <1>3 DEF Budget
<1>4. QED BY <1>2, <1>3

(* Before the catch nothing has thrown.                                    *)
LEMMA NotThrown ==
  ASSUME DriverInv, Working, pc # "apply" \/ event # "error"
  PROVE  thrown = "none" /\ \A i : Budget(i) = MaxPatches
<1>1. thrown = "none" BY DEF DriverInv, HistoryInv
<1>2. MaxPatches \in Nat BY ConfigAssumption
<1>3. QED BY <1>1, <1>2 DEF Budget

(* What an event makes of a state leaves messages alone.                   *)
LEMMA ReactionKept ==
  ASSUME DriverInv, Working, actions = <<>>, thrown = "none", thrown' = "none",
         UNCHANGED <<messages, current>>, \A t \in saved' : t.patchesUsed < MaxPatches,
         NEW n \in Nat, Reacts(n) \/ (Ignored /\ running = "none"), state' \in State
  PROVE  BatchInv' /\ BudgetInv'
<1> USE DEF DriverInv
<1>1. /\ \A i \in DOMAIN messages : messages[i].writes \in Nat
      /\ current \in DOMAIN messages /\ state.patchesUsed \in Nat /\ MaxPatches \in Nat
  BY DriverTypes, StateTypes DEF ReplayTypeOK
<1>2. /\ \A i : Budget(i) = MaxPatches /\ Budget(i)' = MaxPatches
  BY <1>1 DEF Budget
<1>3. WritesWithinBudget' BY <1>2 DEF BudgetInv, WritesWithinBudget
<1>4. CASE Ignored /\ running = "none"
  <2>1. state' = state /\ actions' = <<>> /\ running' = "none" BY <1>4 DEF Ignored
  <2>2. BatchInv' BY <2>1, EmptyBatch DEF BatchInv
  <2>3. BudgetInv' BY <1>1, <1>3, <2>1 DEF BudgetInv
  <2>4. QED BY <2>2, <2>3
<1>5. CASE Reacts(n)
  <2>1. PICK s \in State : /\ ~state.finished /\ s.patchesUsed = state.patchesUsed
                           /\ Advanced(s, <<>>)
    BY <1>5 DEF Reacts
  <2>2. BatchInv' BY <2>1, EmptyBatch DEF BatchInv, Advanced
  <2>3. messages[current].writes <= state.patchesUsed /\ state.patchesUsed < MaxPatches
    BY <1>1, <2>1 DEF BudgetInv
  <2>4. CASE actions' = <<>> /\ state'.patchesUsed = s.patchesUsed
    <3>1. /\ state'.patchesUsed = state.patchesUsed /\ state'.patchesUsed < MaxPatches
      BY <2>1, <2>4 DEF Advanced
    <3>2. QED BY <1>1, <1>3, <2>2, <2>3, <2>4, <3>1 DEF BudgetInv
  <2>5. ASSUME NEW a \in Action, actions' = Append(<<>>, a),
               \/ a.action = "patch" /\ s.patchesUsed < state'.patchesUsed
               \/ a.action = "finalize"
        PROVE  BudgetInv'
    <3>1. actions' # <<>> /\ Head(actions') = a BY <2>5
    <3>2. state'.patchesUsed \in Nat BY StateTypes
    <3>3. Head(actions').action = "patch" => messages[current].writes < state'.patchesUsed
      BY <1>1, <2>1, <2>3, <2>5, <3>1, <3>2
    <3>4. Head(actions').action = "finalize" => messages[current].writes < Budget(current)'
      BY <1>1, <1>2, <2>3
    <3>5. state'.patchesUsed < MaxPatches BY <2>1 DEF Advanced
    <3>6. QED BY <1>1, <1>3, <3>1, <3>3, <3>4, <3>5 DEF BudgetInv
  <2>6. QED BY <2>1, <2>2, <2>4, <2>5 DEF Advanced
<1>6. QED BY <1>4, <1>5

LEMMA PullChunkKeeps ==
  ASSUME DriverInv, PullChunk
  PROVE  DriverInv'
<1> USE DEF DriverInv
<1>1. /\ pc = "pull" /\ running = "none" /\ actions = <<>> /\ state \in State
      /\ UNCHANGED <<hasSpace, failure, sawFinalize, current, messages, cancelRequested,
                     saved, failures, restarts, thrown, mixed>>
      /\ Working /\ thrown = "none" /\ \A s \in saved : s.patchesUsed < MaxPatches
  BY NotThrown DEF PullChunk, environmentVars, PhaseInv, TypeOK, Working, BudgetInv
<1>8. pc' # "down" /\ HistoryInv'
  <2>1. pc' # "down" BY <1>1 DEF PullChunk
  <2>2. QED BY <1>1, <2>1 DEF HistoryInv
<1>2. PICK n \in 0..MaxChunk :
        IF cancelRequested
        THEN aborted' = TRUE /\ pc' = "closing" /\ UNCHANGED <<schedulerVars, event>>
        ELSE /\ OnChunk(n) /\ UNCHANGED aborted
             /\ IF n = 0 THEN UNCHANGED <<pc, event>> ELSE pc' = "apply" /\ event' = "chunk"
  BY DEF PullChunk
<1>3. n \in Nat BY <1>2, Constants
<1>4. SavedFits' BY <1>1 DEF SavedFits
<1>5. CASE cancelRequested
  <2>1. aborted' = TRUE /\ pc' = "closing" /\ UNCHANGED <<state, actions, running, event>>
    BY <1>2, <1>5 DEF schedulerVars
  <2>2. TypeOK' BY <1>1, <2>1 DEF TypeOK, PCs
  <2>3. OpenFits' /\ LoopInv' /\ PhaseInv'
    BY <1>1, <2>1 DEF OpenFits, LoopInv, PhaseInv, Overflows, RenderedLength, SegmentPrefix
  <2>4. BatchInv' /\ BudgetInv'
    BY <1>1, <2>1 DEF BatchInv, BudgetInv, WritesWithinBudget, Budget, Working
  <2>5. QED BY <1>4, <1>8, <2>2, <2>3, <2>4
<1>6. CASE ~cancelRequested
  <2>1. IInv' BY <1>1, <1>2, <1>3, <1>6, SchedulerInv, ChunkKeeps
  <2>2. /\ n = 0 => Ignored /\ pc' = pc /\ event' = event
        /\ n # 0 => pc' = "apply" /\ event' = "chunk"
        /\ UNCHANGED aborted
    BY <1>2, <1>6 DEF OnChunk
  <2>3. Ignored \/ (Reacts(n) /\ running' \in {"none", "chunk"} /\ ~state'.finished)
    BY <1>1, <1>2, <1>3, <1>6, ChunkReacts DEF BudgetInv
  <2>4. TypeOK' BY <1>1, <2>1, <2>2 DEF TypeOK, IInv, ReplayTypeOK, PCs
  <2>5. PhaseInv' BY <1>1, <2>2, <2>3 DEF PhaseInv, Ignored
  <2>6. BatchInv' /\ BudgetInv'
    BY <1>1, <1>3, <2>1, <2>3, ReactionKept DEF IInv, ReplayTypeOK
  <2>7. QED BY <1>4, <1>8, <2>1, <2>4, <2>5, <2>6 DEF IInv
<1>7. QED BY <1>5, <1>6

(* The promise is rejected: the driver stops where it is.                  *)
LEMMA RejectKeeps ==
  ASSUME DriverInv, Reject, failures' \in Nat, thrown' = thrown,
         UNCHANGED <<hasSpace, sawFinalize, aborted, current, messages, cancelRequested,
                     restarts, mixed>>,
         SavedFits', \A t \in saved' : t.patchesUsed < MaxPatches, running = "none"
  PROVE  DriverInv'
<1> USE DEF DriverInv
<1>1. /\ pc' = "rejected" /\ actions' = <<>> /\ UNCHANGED <<state, running, event, failure>>
  BY DEF Reject
<1>2. TypeOK'
  <2>1. \A t \in saved' : t \in State BY DEF SavedFits
  <2>2. QED BY <1>1, <2>1, EmptyActions DEF TypeOK, PCs
<1>3. OpenFits' /\ LoopInv' /\ PhaseInv' /\ HistoryInv'
  BY <1>1 DEF OpenFits, LoopInv, PhaseInv, HistoryInv, Overflows, RenderedLength,
     SegmentPrefix, Working
<1>4. BatchInv' /\ BudgetInv'
  BY <1>1 DEF BatchInv, BudgetInv, WritesWithinBudget, Budget, Working
<1>5. QED BY <1>2, <1>3, <1>4

LEMMA FailuresTyped == TypeOK /\ (UNCHANGED failures \/ Failed) => failures' \in Nat
<1> SUFFICES ASSUME TypeOK, UNCHANGED failures \/ Failed PROVE failures' \in Nat
  OBVIOUS
<1>1. failures \in Nat BY DEF TypeOK
<1>2. failures' = failures \/ failures' = failures + 1 BY DEF Failed
<1>3. QED BY <1>1, <1>2

(* The end of the stream, however it ends.                                 *)
LEMMA EndingKeeps ==
  ASSUME DriverInv, StreamEnds \/ StreamThrows \/ Close
  PROVE  DriverInv'
<1> USE DEF DriverInv
<1>1. /\ pc \in {"pull", "closing"} /\ running = "none" /\ actions = <<>> /\ state \in State
      /\ UNCHANGED <<hasSpace, sawFinalize, aborted, current, messages, cancelRequested,
                     saved, restarts, thrown, mixed>>
      /\ failure' \in BOOLEAN /\ Working
      /\ UNCHANGED failures \/ Failed
  BY DEF StreamEnds, StreamThrows, Close, Caught, Reject, environmentVars, PhaseInv, TypeOK,
     Working
<1>6. failures' \in Nat BY <1>1, FailuresTyped
<1>7. thrown = "none" /\ \A s \in saved : s.patchesUsed < MaxPatches
  BY <1>1, NotThrown DEF BudgetInv
<1>2. SavedFits' BY <1>1 DEF SavedFits, Fits, Overflows, RenderedLength, SegmentPrefix
<1>3. CASE pc' \in {"closing", "done"} /\ UNCHANGED <<state, actions, running, event>>
  <2>1. TypeOK' BY <1>1, <1>3, <1>6 DEF TypeOK, PCs
  <2>2. OpenFits' /\ LoopInv' /\ PhaseInv' /\ HistoryInv'
    BY <1>1, <1>3, <1>7
       DEF OpenFits, LoopInv, PhaseInv, HistoryInv, Overflows, RenderedLength, SegmentPrefix
  <2>3. BatchInv' /\ BudgetInv'
    BY <1>1, <1>3 DEF BatchInv, BudgetInv, WritesWithinBudget, Budget, Working
  <2>4. QED BY <1>2, <2>1, <2>2, <2>3
<1>4. CASE /\ OnFinish \/ OnCancel \/ OnError
           /\ pc' = "apply" /\ event' \in {"error", "cancel", "finish"}
  <2>1. IInv' BY <1>1, <1>4, SchedulerInv, FinishKeeps, EndKeeps
  <2>2. \/ Ignored /\ state.finished
        \/ Reacts(0) /\ (running' = "finish" \/ (running' = "none" /\ state'.finished))
    BY <1>1, <1>4, EndReacts DEF BudgetInv
  <2>3. TypeOK' BY <1>1, <1>4, <1>6, <2>1 DEF TypeOK, IInv, ReplayTypeOK, PCs
  <2>4. PhaseInv' /\ HistoryInv' BY <1>1, <1>4, <1>7, <2>2 DEF PhaseInv, HistoryInv, Ignored
  <2>5. BatchInv' /\ BudgetInv'
    BY <1>1, <1>7, <2>1, <2>2, ReactionKept DEF IInv, ReplayTypeOK
  <2>6. QED BY <1>2, <2>1, <2>3, <2>4, <2>5 DEF IInv
<1>5. CASE Reject BY <1>1, <1>2, <1>5, <1>6, <1>7, RejectKeeps
<1>8. QED BY <1>3, <1>4, <1>5 DEF StreamEnds, StreamThrows, Close, Caught, schedulerVars

LEMMA KeepSplittingKeeps ==
  ASSUME DriverInv, KeepSplitting
  PROVE  DriverInv'
<1> USE DEF DriverInv
<1>1. /\ pc = "apply" /\ SplitOnce /\ running \in {"chunk", "finish"} /\ Working
      /\ state \in State /\ actions \in Seq(Action)
      /\ UNCHANGED <<pc, event, hasSpace, failure, sawFinalize, aborted, current, messages,
                     cancelRequested, saved, failures, restarts, thrown, mixed>>
  BY DEF KeepSplitting, SplitOnce, driverVars, environmentVars, TypeOK, Working
<1>17. thrown = "none" /\ \A i : Budget(i) = MaxPatches /\ Budget(i)' = MaxPatches
  <2>1. thrown = "none" BY <1>1 DEF HistoryInv
  <2>2. MaxPatches \in Nat BY ConfigAssumption
  <2>3. QED BY <1>1, <2>1, <2>2 DEF Budget
<1>2. IInv' BY <1>1, SchedulerInv, SplitKeeps
<1>3. TypeOK' BY <1>1, <1>2 DEF TypeOK, IInv, ReplayTypeOK
<1>4. /\ Overflows(state) /\ ~state.finished /\ Batch(actions, state) /\ Started(actions)
  BY <1>1 DEF LoopInv, BatchInv
<1>5. PICK p \in SplitPoints(state) :
        AfterOverflow(SplitState(state, p), actions \o SplitActions(state, p), running)
  BY <1>1 DEF SplitOnce
<1> DEFINE longer == actions \o SplitActions(state, p)
           s == SplitState(state, p)
<1>6. /\ longer \in Seq(Action) /\ longer # <<>> /\ Started(longer) /\ Batch(longer, s)
      /\ IF actions # <<>> THEN Head(longer) = Head(actions)
         ELSE Head(longer).action = "finalize"
      /\ s.patchesUsed = 0
  BY <1>1, <1>4, SplitBatch
<1>7. s \in State /\ ~s.finished BY <1>1, <1>4, Split
<1>8. AfterOverflow(s, longer, running) BY <1>5
<1> HIDE DEF longer, s
<1>9. MaxPatches \in Nat \ {0} BY DriverTypes
<1>10. /\ Advanced(s, longer) /\ running' \in {"none", running}
       /\ running' = "none" => (state'.finished <=> running = "finish")
  BY <1>1, <1>6, <1>7, <1>8, <1>9, AfterOverflowAdvances
<1>11. actions' # <<>> /\ Head(actions') = Head(longer)
  <2>1. CASE actions' = longer BY <1>6, <2>1
  <2>2. ASSUME NEW a \in Action, actions' = Append(longer, a)
        PROVE  actions' # <<>> /\ Head(actions') = Head(longer)
    <3>1. Len(longer) \in Nat \ {0} /\ Head(longer) = longer[1] BY <1>6
    <3>2. Append(longer, a)[1] = longer[1] /\ Append(longer, a) # <<>> BY <1>6, <3>1
    <3>3. QED BY <1>6, <2>2, <3>1, <3>2
  <2>3. QED BY <1>10, <2>1, <2>2 DEF Advanced
<1>12. PhaseInv' /\ HistoryInv'
  <2>1. running' # "none" => ~state'.finished BY <1>2 DEF IInv, LoopInv
  <2>2. PhaseInv' BY <1>1, <1>10, <2>1 DEF PhaseInv
  <2>3. HistoryInv' BY <1>1, <1>17 DEF HistoryInv
  <2>4. QED BY <2>2, <2>3
<1>13. BatchInv' BY <1>6, <1>10 DEF BatchInv, Advanced
<1>14. BudgetInv'
  <2>1. messages[current].writes < MaxPatches \/ Head(actions').action # "finalize"
    <3>1. CASE actions = <<>>
      <4>1. messages[current].writes <= state.patchesUsed /\ state.patchesUsed < MaxPatches
        BY <1>1, <1>4, <3>1 DEF BudgetInv
      <4>2. messages[current].writes \in Nat /\ state.patchesUsed \in Nat
        BY <1>1, DriverTypes, StateTypes
      <4>3. QED BY <1>9, <4>1, <4>2
    <3>2. CASE actions # <<>> BY <1>1, <1>6, <1>11, <1>17, <3>2 DEF BudgetInv
    <3>3. QED BY <3>1, <3>2
  <2>2. Head(actions').action # "patch" BY <1>6, <1>7, <1>11, OpenHead
  <2>3. WritesWithinBudget' BY <1>1, <1>17 DEF BudgetInv, WritesWithinBudget
  <2>4. QED BY <1>1, <1>10, <1>11, <1>17, <2>1, <2>2, <2>3 DEF BudgetInv, Advanced
<1>15. SavedFits' BY <1>1 DEF SavedFits
<1>16. QED BY <1>2, <1>3, <1>12, <1>13, <1>14, <1>15 DEF IInv

-----------------------------------------------------------------------------
(* Applying an action.                                                     *)
LEMMA ResultTyped ==
  ASSUME NEW s \in State, NEW ok \in BOOLEAN
  PROVE  /\ PatchResult(s, ok) \in State
         /\ PatchResult(s, ok).start = s.start /\ PatchResult(s, ok).content = s.content
         /\ PatchResult(s, ok).overflow = s.overflow
         /\ PatchResult(s, ok).truncated = s.truncated
         /\ PatchResult(s, ok).finished = s.finished
         /\ PatchResult(s, ok).segmentIndex = s.segmentIndex
         /\ PatchResult(s, ok).patchesUsed = s.patchesUsed
<1> DEFINE count == s.patchFailures + 1
           degraded == s.degraded \/ count >= MaxPatchFailures
<1>1. count \in Nat /\ degraded \in BOOLEAN BY StateTypes
<1>2. PatchResult(s, ok) \in {[s EXCEPT !.patchFailures = 0],
                              [s EXCEPT !.patchFailures = count, !.degraded = degraded]}
  BY DEF PatchResult
<1> HIDE DEF count, degraded
<1>3. /\ [s EXCEPT !.patchFailures = 0] \in State
      /\ [s EXCEPT !.patchFailures = count, !.degraded = degraded] \in State
  BY <1>1 DEF State
<1>4. QED BY <1>2, <1>3 DEF State

LEMMA ResultSame ==
  ASSUME state \in State, NEW ok \in BOOLEAN, state' = PatchResult(state, ok)
  PROVE  /\ state' \in State /\ Overflows(state)' = Overflows(state)
         /\ \A acts : Batch(acts, state') <=> Batch(acts, state)
<1>1. /\ state' \in State
      /\ state'.start = state.start /\ state'.content = state.content
      /\ state'.truncated = state.truncated /\ state'.finished = state.finished
      /\ state'.segmentIndex = state.segmentIndex
      /\ state'.patchesUsed = state.patchesUsed
  BY ResultTyped
<1>2. Overflows(state)' = Overflows(state)
  BY <1>1 DEF Overflows, RenderedLength, SegmentPrefix
<1>3. \A acts : Batch(acts, state') <=> Batch(acts, state) BY <1>1 DEF Batch, Ends
<1>4. QED BY <1>1, <1>2, <1>3

LEMMA TextTyped ==
  ASSUME NEW a \in Action
  PROVE  /\ Message(Text(a)) \in MessageRecord /\ Text(a) \in TextRecord
         /\ Message(Text(a)).writes = 0 /\ Message(Text(a)).text = Text(a)
         /\ Text(a).from = a.from /\ Text(a).upto = a.upto /\ Text(a).final = a.final
<1>1. /\ Text(a) \in TextRecord /\ Text(a).from = a.from /\ Text(a).upto = a.upto
      /\ Text(a).final = a.final
  BY DEF Action, TextRecord, Text
<1>2. QED BY <1>1 DEF Message, MessageRecord

(* A continuation is a new message that nobody has written to.             *)
LEMMA Continued ==
  ASSUME TypeOK, NEW a \in Action, messages' = Append(messages, Message(Text(a)))
  PROVE  /\ messages' \in Seq(MessageRecord) /\ Len(messages') = Len(messages) + 1
         /\ Len(messages') \in DOMAIN messages' /\ DOMAIN messages' = 1..(Len(messages) + 1)
         /\ messages'[Len(messages')] = Message(Text(a))
         /\ \A i \in DOMAIN messages : messages'[i] = messages[i]
         /\ DOMAIN messages \subseteq DOMAIN messages'
<1> DEFINE m == Message(Text(a))
<1>1. m \in MessageRecord BY TextTyped
<1>2. messages \in Seq(MessageRecord) /\ Len(messages) \in Nat BY DriverTypes
<1>3. messages' = Append(messages, m) OBVIOUS
<1> HIDE DEF m
<1>4. QED BY <1>1, <1>2, <1>3 DEF m

(* A PATCH is a write to the current message, whether it is refused or not.*)
LEMMA Rewritten ==
  ASSUME TypeOK, NEW a \in Action, Patched(a) \/ PatchRefused
  PROVE  /\ messages' \in Seq(MessageRecord) /\ DOMAIN messages' = DOMAIN messages
         /\ Len(messages') = Len(messages)
         /\ messages'[current].writes = messages[current].writes + 1
         /\ \A i \in DOMAIN messages \ {current} : messages'[i] = messages[i]
         /\ \/ Patched(a) /\ messages'[current].text = Text(a)
            \/ PatchRefused /\ messages'[current].text = messages[current].text
<1>1. /\ messages \in Seq(MessageRecord) /\ current \in DOMAIN messages
      /\ messages[current] \in MessageRecord
  BY DriverTypes
<1>2. PICK m \in MessageRecord :
        /\ messages' = [messages EXCEPT ![current] = m]
        /\ m.writes = messages[current].writes + 1
        /\ \/ Patched(a) /\ m.text = Text(a)
           \/ PatchRefused /\ m.text = messages[current].text
  <2>1. CASE Patched(a)
    <3> DEFINE m == [text |-> Text(a), writes |-> messages[current].writes + 1]
    <3>1. messages[current].writes + 1 \in Nat /\ Text(a) \in TextRecord
      BY <1>1, TextTyped DEF MessageRecord
    <3>2. m \in MessageRecord BY <3>1 DEF MessageRecord
    <3>3. messages' = [messages EXCEPT ![current] = m] BY <2>1 DEF Patched
    <3>4. QED BY <2>1, <3>2, <3>3
  <2>2. CASE PatchRefused
    <3> DEFINE m == [messages[current] EXCEPT !.writes = @ + 1]
    <3>1. /\ m \in MessageRecord /\ m.text = messages[current].text
          /\ m.writes = messages[current].writes + 1
      <4>1. \A r \in MessageRecord :
              LET q == [r EXCEPT !.writes = r.writes + 1]
              IN q \in MessageRecord /\ q.text = r.text /\ q.writes = r.writes + 1
        BY DEF MessageRecord
      <4>2. QED BY <1>1, <4>1
    <3>2. messages' = [messages EXCEPT ![current] = m] BY <2>2 DEF PatchRefused
    <3>3. QED BY <2>2, <3>1, <3>2
  <2>3. QED BY <2>1, <2>2
<1>3. QED BY <1>1, <1>2

Applying ==
  /\ pc = "apply" /\ running = "none" /\ actions # <<>>
  /\ UNCHANGED <<hasSpace, aborted, cancelRequested, saved, restarts, mixed>>

(* The request is made, and answered or not.                               *)
Requested == Applying /\ UNCHANGED <<running, event, thrown>>

LEMMA StartContinuationKeeps ==
  ASSUME DriverInv, Requested, StartContinuation(Head(actions))
  PROVE  DriverInv'
<1> USE DEF DriverInv
<1>1. /\ pc = "apply" /\ running = "none" /\ running' = "none" /\ actions # <<>> /\ Working
      /\ state \in State /\ state' = state /\ actions \in Seq(Action)
      /\ UNCHANGED <<event, hasSpace, aborted, cancelRequested, saved, restarts, sawFinalize,
                     thrown, mixed>>
      /\ Batch(actions, state)
  BY DEF Applying, Requested, StartContinuation, TypeOK, Working, BatchInv
<1> DEFINE a == Head(actions)
<1>2. /\ a \in Action /\ a.action = "start_continuation"
      /\ Tail(actions) \in Seq(Action) /\ Batch(Tail(actions), state)
      /\ Tail(actions) = <<>> => Ends(a, state)
      /\ Tail(actions) # <<>> => Follows(a, Head(Tail(actions)))
  BY <1>1, TailBatch DEF StartContinuation
<1>3. StartContinuation(a) OBVIOUS
<1>11. thrown = "none" /\ \A i : Budget(i) = MaxPatches /\ Budget(i)' = MaxPatches
  <2>1. thrown = "none" BY <1>1, <1>2 DEF HistoryInv
  <2>2. MaxPatches \in Nat BY ConfigAssumption
  <2>3. QED BY <1>1, <2>1, <2>2 DEF Budget
<1> HIDE DEF a
<1>4. SavedFits' BY <1>1 DEF SavedFits
<1>5. OpenFits' /\ LoopInv'
  BY <1>1 DEF OpenFits, LoopInv, Overflows, RenderedLength, SegmentPrefix
<1>6. failures' \in Nat
  <2>1. failures' = failures \/ failures' = failures + 1
    BY <1>3 DEF StartContinuation, Answered, Failed
  <2>2. failures \in Nat BY DEF TypeOK
  <2>3. QED BY <2>1, <2>2
<1>7. /\ MaxPatches \in Nat \ {0} /\ messages \in Seq(MessageRecord)
      /\ current \in DOMAIN messages
  BY DriverTypes
<1>8. CASE pc' = "done"
  <2>1. GiveUp /\ current' = current BY <1>1, <1>3, <1>8 DEF StartContinuation
  <2>2. messages' = messages \/ messages' = Append(messages, Message(Text(a)))
    BY <1>3, <2>1, <1>1, <1>8 DEF StartContinuation
  <2>3. /\ messages' \in Seq(MessageRecord) /\ current \in DOMAIN messages'
        /\ WritesWithinBudget'
    <3>1. CASE messages' = messages
      BY <1>7, <1>11, <3>1 DEF BudgetInv, WritesWithinBudget
    <3>2. CASE messages' = Append(messages, Message(Text(a)))
      <4>1. /\ messages' \in Seq(MessageRecord) /\ DOMAIN messages' = 1..(Len(messages) + 1)
            /\ messages'[Len(messages) + 1].writes = 0
            /\ \A i \in DOMAIN messages : messages'[i] = messages[i]
            /\ DOMAIN messages = 1..Len(messages) /\ DOMAIN messages \subseteq DOMAIN messages'
        BY <1>2, <3>2, Continued, TextTyped, DriverTypes
      <4>2. QED BY <1>7, <1>11, <4>1 DEF BudgetInv, WritesWithinBudget
    <3>3. QED BY <2>2, <3>1, <3>2
  <2>4. TypeOK'
    BY <1>1, <1>6, <1>8, <2>1, <2>3, EmptyActions DEF TypeOK, GiveUp, PCs, MessageRecord, TextRecord
  <2>5. PhaseInv' /\ HistoryInv' /\ BatchInv' /\ BudgetInv'
    BY <1>1, <1>8, <2>3 DEF PhaseInv, HistoryInv, BatchInv, BudgetInv, Working
  <2>6. QED BY <1>4, <1>5, <2>4, <2>5
<1>9. CASE pc' # "done"
  <2>1. /\ messages' = Append(messages, Message(Text(a))) /\ current' = Len(messages')
        /\ actions' = Tail(actions) /\ UNCHANGED <<failure, pc>>
    BY <1>3, <1>9 DEF StartContinuation, GiveUp
  <2>2. /\ messages' \in Seq(MessageRecord) /\ DOMAIN messages' = 1..(Len(messages) + 1)
        /\ current' \in DOMAIN messages' /\ current' = Len(messages) + 1
        /\ messages'[current'].writes = 0
        /\ \A i \in DOMAIN messages : messages'[i] = messages[i]
        /\ DOMAIN messages = 1..Len(messages)
    BY <1>2, <2>1, Continued, TextTyped, DriverTypes
  <2>3. TypeOK' BY <1>1, <1>2, <1>6, <2>1, <2>2 DEF TypeOK, MessageRecord, TextRecord
  <2>4. PhaseInv' /\ HistoryInv'
    <3>1. actions # <<>> /\ pc' = "apply" BY <1>1, <2>1
    <3>2. QED BY <1>1, <1>11, <2>1, <3>1 DEF PhaseInv, HistoryInv
  <2>5. BatchInv' BY <1>1, <1>2, <2>1 DEF BatchInv
  <2>6. WritesWithinBudget' BY <1>7, <1>11, <2>2 DEF BudgetInv, WritesWithinBudget
  <2>7. Tail(actions) # <<>> /\ Head(Tail(actions)).action = "patch" => state.patchesUsed > 0
    <3>1. SUFFICES ASSUME Tail(actions) # <<>>, Head(Tail(actions)).action = "patch"
                   PROVE  Ends(Head(Tail(actions)), state)
      BY DEF Ends
    <3>2. QED BY <1>1, <1>2, <3>1, OnlyPatch
  <2>8. state.patchesUsed \in Nat BY <1>1, StateTypes
  <2>9. BudgetInv' BY <1>1, <1>7, <1>11, <2>1, <2>2, <2>6, <2>7, <2>8, SMTT(30) DEF BudgetInv
  <2>10. QED BY <1>4, <1>5, <2>3, <2>4, <2>5, <2>9
<1>10. QED BY <1>8, <1>9

LEMMA PatchMessageKeeps ==
  ASSUME DriverInv, Requested, PatchMessage(Head(actions))
  PROVE  DriverInv'
<1> USE DEF DriverInv
<1>1. /\ pc = "apply" /\ running = "none" /\ running' = "none" /\ actions # <<>> /\ Working
      /\ state \in State /\ actions \in Seq(Action)
      /\ UNCHANGED <<event, hasSpace, aborted, cancelRequested, saved, restarts, current,
                     thrown, mixed>>
      /\ Batch(actions, state)
  BY DEF Applying, Requested, PatchMessage, TypeOK, Working, BatchInv
<1> DEFINE a == Head(actions)
<1>2. /\ a \in Action /\ a.action \in {"patch", "finalize"} /\ a.final \in BOOLEAN
      /\ Tail(actions) \in Seq(Action) /\ Batch(Tail(actions), state)
      /\ Tail(actions) = <<>> => Ends(a, state)
      /\ Tail(actions) # <<>> => Follows(a, Head(Tail(actions)))
      /\ a.final <=> a.action = "finalize"
  BY <1>1, TailBatch DEF PatchMessage, Action, Shows
<1>3. PatchMessage(a) OBVIOUS
<1> HIDE DEF a
<1>4. \E ok \in BOOLEAN : state' = PatchResult(state, ok) BY <1>3 DEF PatchMessage
<1>5. /\ state' \in State /\ Overflows(state)' = Overflows(state)
      /\ \A acts : Batch(acts, state') <=> Batch(acts, state)
      /\ state'.finished = state.finished /\ state'.truncated = state.truncated
      /\ state'.patchesUsed = state.patchesUsed
  BY <1>1, <1>4, ResultSame, ResultTyped
<1>6. SavedFits' BY <1>1 DEF SavedFits
<1>7. OpenFits' /\ LoopInv' BY <1>1, <1>5 DEF OpenFits, LoopInv
<1>8. failures' \in Nat
  <2>1. failures' = failures \/ failures' = failures + 1
    BY <1>3 DEF PatchMessage, Answered, Failed
  <2>2. failures \in Nat BY DEF TypeOK
  <2>3. QED BY <2>1, <2>2
<1>9. /\ failure' \in BOOLEAN /\ sawFinalize' \in BOOLEAN
      /\ \/ pc' = "done" /\ actions' = <<>>
         \/ pc' = "apply" /\ actions' = Tail(actions)
  <2>1. /\ failure' = failure \/ failure' = TRUE
        /\ sawFinalize' = sawFinalize \/ sawFinalize' = (sawFinalize \/ a.final)
    BY <1>3 DEF PatchMessage, GiveUp
  <2>2. failure \in BOOLEAN /\ sawFinalize \in BOOLEAN BY DEF TypeOK
  <2>3. \/ pc' = "done" /\ actions' = <<>>
        \/ pc' = "apply" /\ actions' = Tail(actions)
    BY <1>1, <1>3 DEF PatchMessage, GiveUp
  <2>4. QED BY <1>2, <2>1, <2>2, <2>3
<1>10. /\ messages' \in Seq(MessageRecord) /\ DOMAIN messages' = DOMAIN messages
       /\ messages'[current].writes = messages[current].writes + 1
       /\ \A i \in DOMAIN messages \ {current} : messages'[i] = messages[i]
  BY <1>2, <1>3, Rewritten DEF PatchMessage
<1>11. TypeOK'
  BY <1>1, <1>2, <1>5, <1>8, <1>9, <1>10, EmptyActions
     DEF TypeOK, PCs, MessageRecord, TextRecord
<1>12. PhaseInv' /\ HistoryInv'
  <2>1. PhaseInv' BY <1>1, <1>5, <1>9 DEF PhaseInv
  <2>5. thrown' = thrown /\ event' = event /\ running' = "none" /\ pc' \in {"apply", "done"}
    BY <1>1, <1>9
  <2>2. CASE thrown = "none" BY <2>1, <2>2, <2>5 DEF HistoryInv
  <2>3. CASE thrown # "none"
    <3>1. event = "error" /\ Tail(actions) = <<>> BY <1>1, <2>3 DEF HistoryInv
    <3>2. actions' = <<>> BY <1>9, <3>1
    <3>3. failure'
      <4>1. failure BY <1>1, <2>3 DEF HistoryInv
      <4>2. QED BY <1>3, <4>1 DEF PatchMessage, GiveUp
    <3>4. QED BY <2>1, <2>5, <3>1, <3>2, <3>3 DEF HistoryInv, Working
  <2>4. QED BY <2>1, <2>2, <2>3
<1>13. BatchInv' BY <1>1, <1>2, <1>5, <1>9, EmptyBatch DEF BatchInv, Working
<1>14. /\ current \in DOMAIN messages /\ MaxPatches \in Nat
       /\ Budget(current) \in Nat /\ MaxPatches <= Budget(current)
       /\ \A i : Budget(i)' = Budget(i)
       /\ messages[current].writes \in Nat /\ state.patchesUsed \in Nat
  <2>1. \A i : Budget(i)' = Budget(i)
    <3>1. thrown' = thrown /\ current' = current BY <1>1
    <3>2. QED BY <3>1 DEF Budget
  <2>2. QED BY <1>1, <2>1, DriverTypes, StateTypes, BudgetIs
<1>15. /\ a.action = "patch" => messages[current].writes < state.patchesUsed
       /\ a.action = "finalize" => messages[current].writes < Budget(current)
       /\ state.patchesUsed < MaxPatches
  BY <1>1 DEF BudgetInv, a
<1>16. WritesWithinBudget'
  <2>1. messages'[current].writes <= Budget(current) BY <1>2, <1>10, <1>14, <1>15
  <2>2. QED BY <1>10, <1>14, <2>1 DEF BudgetInv, WritesWithinBudget
<1>17. Tail(actions) # <<>> => Head(Tail(actions)).action = "start_continuation"
  BY <1>2 DEF Follows
<1>18. Tail(actions) = <<>> /\ ~state.finished =>
         messages'[current].writes <= state.patchesUsed
  BY <1>2, <1>10, <1>14, <1>15 DEF Ends
<1>19. BudgetInv'
  <2>1. CASE pc' = "done" BY <1>1, <1>5, <1>15, <1>16, <2>1 DEF BudgetInv, Working
  <2>2. CASE pc' = "apply" /\ actions' = Tail(actions)
    BY <1>1, <1>5, <1>15, <1>16, <1>17, <1>18, <2>2 DEF BudgetInv
  <2>3. QED BY <1>9, <2>1, <2>2
<1>20. QED BY <1>6, <1>7, <1>11, <1>12, <1>13, <1>19

(* Where a request throws in the loop, the catch has one write left, on    *)
(* the message at hand.                                                    *)
LEMMA RequestThrowsKeeps ==
  ASSUME DriverInv, Applying, RequestThrows(Head(actions))
  PROVE  DriverInv'
<1> USE DEF DriverInv
<1>1. /\ pc = "apply" /\ running = "none" /\ actions # <<>> /\ Working
      /\ state \in State /\ actions \in Seq(Action) /\ Batch(actions, state)
      /\ UNCHANGED <<hasSpace, aborted, cancelRequested, saved, restarts, mixed, messages,
                     current, sawFinalize>>
      /\ Throws(Head(actions).action) /\ \A s \in saved : s.patchesUsed < MaxPatches
  BY DEF Applying, RequestThrows, TypeOK, Working, BatchInv, BudgetInv
<1>2. SavedFits' BY <1>1 DEF SavedFits, Fits, Overflows, RenderedLength, SegmentPrefix
<1>3. failures' \in Nat BY <1>1, FailuresTyped DEF Throws
<1>4. CASE event # "chunk" BY <1>1, <1>2, <1>3, <1>4, RejectKeeps DEF Throws
<1>5. CASE event = "chunk"
  <2>1. /\ thrown = "none" /\ \A i : Budget(i) = MaxPatches
        /\ Caught /\ thrown' = Head(actions).action /\ ~state.finished
    <3>1. event # "error" BY <1>5
    <3>2. QED BY <1>1, <1>5, <3>1, NotThrown DEF Throws, PhaseInv
  <2>2. /\ failure' = TRUE /\ OnError /\ pc' = "apply" /\ event' = "error"
    BY <2>1 DEF Caught
  <2>3. /\ running' = "none" /\ Reacts(0) /\ state'.finished
    BY <1>1, <2>1, <2>2, ErrorReacts DEF BudgetInv
  <2>4. PICK a \in Action : actions' = <<a>> /\ a.action = "finalize"
    BY <1>1, <2>1, <2>2, ErrorReacts DEF BudgetInv
  <2>5. IInv' BY <1>1, <2>2, SchedulerInv, EndKeeps
  <2>6. Head(actions).action \in {"patch", "finalize", "start_continuation"}
    <3>1. Head(actions) \in Action BY <1>1
    <3>2. QED BY <3>1 DEF Action
  <2>7. TypeOK'
    BY <1>1, <1>3, <2>1, <2>2, <2>5, <2>6 DEF TypeOK, IInv, ReplayTypeOK, PCs
  <2>8. /\ actions' # <<>> /\ Tail(actions') = <<>> /\ Head(actions') = a BY <2>4
  <2>9. PhaseInv' /\ HistoryInv' BY <2>2, <2>3, <2>4, <2>8 DEF PhaseInv, HistoryInv
  <2>10. PICK s \in State : s.patchesUsed = state.patchesUsed /\ Advanced(s, <<>>)
    BY <2>3 DEF Reacts
  <2>11. BatchInv' BY <2>2, <2>3, <2>10, EmptyBatch DEF BatchInv, Advanced
  <2>12. /\ current \in DOMAIN messages /\ MaxPatches \in Nat
         /\ messages[current].writes \in Nat /\ state.patchesUsed \in Nat
    BY <1>1, DriverTypes, StateTypes
  <2>13. /\ \A i : i # current => Budget(i)' = MaxPatches
         /\ Budget(current)' = MaxPatches
              + (IF Head(actions).action = "start_continuation" THEN 1 ELSE 0)
    BY <1>1, <2>1, <2>12 DEF Budget
  <2>14. /\ messages[current].writes <= MaxPatches
         /\ messages[current].writes < Budget(current)'
    <3>1. messages[current].writes <= MaxPatches
      BY <2>1, <2>12 DEF BudgetInv, WritesWithinBudget
    <3>2. CASE Head(actions).action = "start_continuation" BY <2>12, <2>13, <3>1, <3>2
    <3>3. CASE Head(actions).action \in {"patch", "finalize"}
      <4>1. messages[current].writes < MaxPatches
        BY <1>1, <2>1, <2>12, <3>3 DEF BudgetInv
      <4>2. QED BY <2>12, <2>13, <3>1, <3>3, <4>1
    <3>4. QED BY <2>6, <3>2, <3>3
  <2>15. WritesWithinBudget'
    <3>1. \A i \in DOMAIN messages : messages[i].writes <= MaxPatches
      BY <2>1 DEF BudgetInv, WritesWithinBudget
    <3>2. \A i \in DOMAIN messages : messages[i].writes <= Budget(i)'
      <4>1. SUFFICES ASSUME NEW i \in DOMAIN messages
                     PROVE  messages[i].writes <= Budget(i)'
        OBVIOUS
      <4>2. CASE i = current
        <5>1. Budget(current)' \in Nat BY <2>12, <2>13
        <5>2. QED BY <2>12, <2>14, <4>2, <5>1 DEF Budget
      <4>3. CASE i # current
        <5>1. Budget(i)' = MaxPatches BY <1>1, <2>12, <4>3 DEF Budget
        <5>2. QED BY <3>1, <4>3, <5>1
      <4>4. QED BY <4>2, <4>3
    <3>3. QED BY <1>1, <3>2 DEF WritesWithinBudget
  <2>16. BudgetInv'
    BY <1>1, <2>4, <2>8, <2>10, <2>14, <2>15 DEF BudgetInv, Advanced
  <2>17. QED BY <1>2, <2>5, <2>7, <2>9, <2>11, <2>16 DEF IInv
<1>6. QED BY <1>4, <1>5

LEMMA EmitStateKeeps ==
  ASSUME DriverInv, EmitState
  PROVE  DriverInv'
<1> USE DEF DriverInv
<1>1. /\ pc = "apply" /\ running = "none" /\ actions = <<>> /\ Working
      /\ saved' \subseteq saved \cup {state}
      /\ UNCHANGED <<hasSpace, sawFinalize, aborted, current, messages, cancelRequested,
                     restarts, mixed>>
  BY DEF EmitState, Kept, Working
<1>2. state \in State /\ (state.finished \/ Fits(state))
  BY <1>1 DEF TypeOK, OpenFits, Fits
<1>3. SavedFits'
  <2>1. \A s \in saved' : s \in State /\ (s.finished \/ Fits(s))
    BY <1>1, <1>2 DEF SavedFits
  <2>2. QED BY <2>1 DEF SavedFits, Fits, Overflows, RenderedLength, SegmentPrefix
<1>4. \A s \in saved' : s.patchesUsed < MaxPatches BY <1>1 DEF BudgetInv
<1>5. CASE /\ pc' = IF event = "chunk" THEN "pull" ELSE "done"
           /\ UNCHANGED <<schedulerVars, event, failure, thrown, failures>>
  <2>1. UNCHANGED <<state, actions, running, event, failure, thrown, failures>>
    BY <1>5 DEF schedulerVars
  <2>2. TypeOK' BY <1>1, <1>2, <1>5, <2>1 DEF TypeOK, PCs
  <2>3. OpenFits' /\ LoopInv' /\ PhaseInv'
    BY <1>1, <1>5, <2>1
       DEF OpenFits, LoopInv, PhaseInv, Overflows, RenderedLength, SegmentPrefix
  <2>4. HistoryInv' BY <1>1, <1>5, <2>1 DEF HistoryInv, Working
  <2>5. BatchInv' /\ BudgetInv'
    BY <1>1, <1>4, <1>5, <2>1 DEF BatchInv, BudgetInv, WritesWithinBudget, Budget, Working
  <2>6. QED BY <1>3, <2>2, <2>3, <2>4, <2>5
<1>6. CASE Throws("none")
  <2>1. failures' \in Nat BY <1>6, FailuresTyped DEF Throws
  <2>2. CASE event # "chunk" BY <1>1, <1>3, <1>4, <1>6, <2>1, <2>2, RejectKeeps DEF Throws
  <2>3. CASE event = "chunk"
    <3>1. /\ failure' = TRUE /\ OnError /\ pc' = "apply" /\ event' = "error"
          /\ thrown = "none" /\ thrown' = "none"
      BY <1>1, <1>6, <2>3, NotThrown DEF Throws, Caught
    <3>2. running' = "none" /\ (Reacts(0) \/ Ignored) /\ state'.finished
      BY <1>1, <1>2, <3>1, ErrorReacts DEF BudgetInv, Ignored
    <3>3. IInv' BY <1>1, <3>1, SchedulerInv, EndKeeps
    <3>4. TypeOK'
      BY <1>1, <1>3, <2>1, <3>1, <3>3 DEF TypeOK, IInv, ReplayTypeOK, PCs, SavedFits
    <3>5. PhaseInv' /\ HistoryInv' BY <3>1, <3>2 DEF PhaseInv, HistoryInv
    <3>6. BatchInv' /\ BudgetInv'
      BY <1>1, <1>4, <3>1, <3>2, <3>3, ReactionKept DEF IInv, ReplayTypeOK
    <3>7. QED BY <1>3, <3>3, <3>4, <3>5, <3>6 DEF IInv
  <2>4. QED BY <2>2, <2>3
<1>7. QED BY <1>5, <1>6 DEF EmitState

LEMMA EnvironmentKeeps ==
  ASSUME DriverInv, RequestCancel \/ Crash \/ UNCHANGED vars
  PROVE  DriverInv'
<1> USE DEF DriverInv
<1>1. /\ UNCHANGED <<state, actions, running, event, hasSpace, failure, sawFinalize, aborted,
                     current, messages, saved, failures, thrown, mixed>>
      /\ cancelRequested' \in BOOLEAN /\ restarts' \in Nat
      /\ \/ pc' = pc /\ restarts' = restarts
         \/ pc' = "down" /\ restarts' > 0
  <2>1. cancelRequested \in BOOLEAN /\ restarts \in Nat BY DEF TypeOK
  <2>2. CASE RequestCancel
    BY <2>1, <2>2, SMTT(30) DEF RequestCancel, schedulerVars, driverVars
  <2>3. CASE Crash BY <2>1, <2>3, SMTT(30) DEF Crash, schedulerVars
  <2>4. CASE UNCHANGED vars
    BY <2>1, <2>4, SMTT(30) DEF vars, schedulerVars, driverVars, environmentVars
  <2>5. QED BY <2>2, <2>3, <2>4
<1>2. TypeOK' BY <1>1, SMTT(30) DEF TypeOK, PCs
<1>3. OpenFits' /\ LoopInv' /\ PhaseInv' /\ SavedFits'
  BY <1>1 DEF OpenFits, LoopInv, PhaseInv, SavedFits, Fits, Overflows, RenderedLength,
     SegmentPrefix
<1>4. BatchInv' /\ BudgetInv' /\ HistoryInv'
  BY <1>1 DEF BatchInv, BudgetInv, HistoryInv, WritesWithinBudget, Budget, Working
<1>5. QED BY <1>2, <1>3, <1>4

LEMMA Created ==
  ASSUME NEW overflow \in {"truncate", "split"}
  PROVE  LET s == CreateState(overflow)
         IN /\ s \in State /\ Fits(s) /\ s.patchesUsed = 0 /\ s.start = 0 /\ s.content = 0
            /\ s.overflow = overflow /\ ~s.finished
<1>1. LET s == CreateState(overflow)
      IN /\ s \in State /\ s.patchesUsed = 0 /\ s.start = 0 /\ s.content = 0
         /\ s.overflow = overflow /\ ~s.finished /\ s.segmentIndex = 0
  BY DEF CreateState, State
<1>2. ~Overflows(CreateState(overflow))
  BY <1>1, Constants, RoomAssumption DEF Overflows, RenderedLength, SegmentPrefix
<1>3. QED BY <1>1, <1>2 DEF Fits

(* A run begins, with messages nobody has written to in it.                *)
Begun ==
  /\ state \in State /\ (state.finished \/ Fits(state)) /\ state.patchesUsed < MaxPatches
  /\ actions = <<>> /\ running = "none" /\ pc = "pull" /\ event = "chunk"
  /\ hasSpace \in BOOLEAN /\ failure = FALSE /\ sawFinalize = FALSE /\ aborted = FALSE
  /\ current = 1 /\ messages \in Seq(MessageRecord) /\ 1 \in DOMAIN messages
  /\ \A i \in DOMAIN messages : messages[i].writes = 0
  /\ cancelRequested \in BOOLEAN
  /\ SavedFits /\ \A s \in saved : s.patchesUsed < MaxPatches
  /\ failures \in Nat /\ restarts \in Nat
  /\ thrown = "none" /\ mixed \in BOOLEAN

LEMMA BeginsWell == Begun => DriverInv
<1> SUFFICES ASSUME Begun PROVE DriverInv
  OBVIOUS
<1> USE DEF Begun
<1>1. TypeOK BY EmptyActions DEF TypeOK, PCs, MessageRecord, TextRecord, SavedFits
<1>2. OpenFits /\ LoopInv /\ PhaseInv /\ HistoryInv
  BY DEF OpenFits, LoopInv, PhaseInv, HistoryInv, Fits
<1>3. BatchInv BY EmptyBatch DEF BatchInv
<1>4. MaxPatches \in Nat /\ state.patchesUsed \in Nat BY Constants, StateTypes
<1>5. BudgetInv BY <1>4 DEF BudgetInv, WritesWithinBudget, Budget
<1>6. QED BY <1>1, <1>2, <1>3, <1>5 DEF DriverInv

(* A run that is resumed begins like a new one, from a state that was kept.*)
LEMMA ResumeKeeps ==
  ASSUME DriverInv, Resume
  PROVE  DriverInv'
<1> USE DEF DriverInv
<1>1. /\ actions' = <<>> /\ running' = "none" /\ pc' = "pull" /\ event' = "chunk"
      /\ failure' = FALSE /\ sawFinalize' = FALSE /\ aborted' = FALSE /\ current' = 1
      /\ messages' = [i \in DOMAIN messages |-> Message(messages[i].text)]
      /\ UNCHANGED <<cancelRequested, saved, failures>> /\ thrown' = "none"
  BY DEF Resume
<1>12. mixed' \in BOOLEAN
  <2>1. mixed \in BOOLEAN /\ mixed' = (mixed \/ SeveralPages) BY DEF Resume, TypeOK
  <2>2. QED BY <2>1 DEF SeveralPages
<1>2. PICK space \in Spaces :
        /\ hasSpace' = space
        /\ IF saved = {}
           THEN state' = CreateState(ResolvedOverflow(state.overflow, space))
           ELSE state' \in saved
  BY DEF Resume
<1>3. cancelRequested \in BOOLEAN /\ failures \in Nat /\ restarts \in Nat BY DEF TypeOK
<1>4. hasSpace' \in BOOLEAN BY <1>2, DriverAssumption
<1>5. restarts' \in Nat
  <2>1. restarts' = restarts \/ restarts' = restarts + 1 BY DEF Resume
  <2>2. QED BY <1>3, <2>1
<1>6. /\ messages' \in Seq(MessageRecord) /\ 1 \in DOMAIN messages'
      /\ \A i \in DOMAIN messages' : messages'[i].writes = 0
  <2>1. /\ messages \in Seq(MessageRecord) /\ DOMAIN messages = 1..Len(messages)
        /\ current \in 1..Len(messages) /\ Len(messages) \in Nat
        /\ \A i \in DOMAIN messages : messages[i] \in MessageRecord
    BY DriverTypes
  <2>2. \A r \in MessageRecord :
          Message(r.text) \in MessageRecord /\ Message(r.text).writes = 0
    BY DEF MessageRecord, Message
  <2>3. messages' \in Seq(MessageRecord)
    <3> DEFINE m == [i \in 1..Len(messages) |-> Message(messages[i].text)]
    <3>1. \A i \in 1..Len(messages) : Message(messages[i].text) \in MessageRecord
      BY <2>1, <2>2
    <3>2. m \in Seq(MessageRecord) BY <2>1, <3>1
    <3>3. messages' = m BY <1>1, <2>1
    <3>4. QED BY <3>2, <3>3
  <2>4. DOMAIN messages' = 1..Len(messages) BY <1>1, <2>1
  <2>5. 1 \in 1..Len(messages) BY <2>1
  <2>6. QED BY <1>1, <2>1, <2>2, <2>3, <2>4, <2>5
<1>7. \A s \in saved : s.patchesUsed < MaxPatches BY DEF BudgetInv
<1>8. /\ state' \in State /\ (state'.finished \/ Fits(state'))
      /\ state'.patchesUsed < MaxPatches
  <2>1. CASE saved = {}
    <3>1. ResolvedOverflow(state.overflow, space) \in {"truncate", "split"}
      <4>1. state.overflow \in {"truncate", "split"} BY StateTypes DEF TypeOK
      <4>2. QED BY <4>1 DEF ResolvedOverflow
    <3>2. MaxPatches \in Nat \ {0} BY DriverTypes
    <3>3. QED BY <1>2, <2>1, <3>1, <3>2, Created
  <2>2. CASE saved # {} BY <1>2, <1>7, <2>2 DEF SavedFits
  <2>3. QED BY <2>1, <2>2
<1>9. SavedFits' /\ (Fits(state') => Fits(state)')
  BY <1>1 DEF SavedFits, Fits, Overflows, RenderedLength, SegmentPrefix
<1>10. Begun' BY <1>1, <1>12, <1>3, <1>4, <1>5, <1>6, <1>7, <1>8, <1>9 DEF Begun
<1>11. QED BY <1>10, BeginsWell, PTL

LEMMA DriverInit == Init => DriverInv
<1> SUFFICES ASSUME Init PROVE DriverInv
  OBVIOUS
<1>1. PICK space \in Spaces, asked \in Overflow :
        hasSpace = space /\ state = CreateState(ResolvedOverflow(asked, space))
  BY DEF Init
<1>2. hasSpace \in BOOLEAN /\ ResolvedOverflow(asked, space) \in {"truncate", "split"}
  BY <1>1, DriverAssumption DEF ResolvedOverflow
<1>3. MaxPatches \in Nat \ {0} BY ConfigAssumption
<1>4. state \in State /\ Fits(state) /\ state.patchesUsed < MaxPatches
  BY <1>1, <1>2, <1>3, Created
<1>5. /\ messages \in Seq(MessageRecord) /\ 1 \in DOMAIN messages
      /\ \A i \in DOMAIN messages : messages[i].writes = 0
  <2>1. Message(NoText(0)) \in MessageRecord /\ Message(NoText(0)).writes = 0
    BY DEF Message, NoText, MessageRecord, TextRecord
  <2>2. messages = <<Message(NoText(0))>> BY DEF Init
  <2>3. QED BY <2>1, <2>2
<1>6. QED BY <1>2, <1>4, <1>5, BeginsWell DEF Begun, Init, SavedFits

LEMMA DriverNext == DriverInv /\ [Next]_vars => DriverInv'
<1> SUFFICES ASSUME DriverInv, [Next]_vars PROVE DriverInv'
  OBVIOUS
<1>1. CASE ApplyAction
  BY <1>1, StartContinuationKeeps, PatchMessageKeeps, RequestThrowsKeeps
     DEF ApplyAction, Requested, Applying
<1>2. QED
  BY <1>1, PullChunkKeeps, EndingKeeps, KeepSplittingKeeps, EmitStateKeeps,
     EnvironmentKeeps, ResumeKeeps DEF Next, Driver

LEMMA DriverInvariant == Spec => []DriverInv
BY DriverInit, DriverNext, PTL DEF Spec

(* However requests fail or throw, whenever the stream throws, is          *)
(* cancelled or resumed: no run writes to a message more often than        *)
(* maxPatches times, the failed writes and the final one included, but for *)
(* the catch's one write after a continuation that could not be requested. *)
THEOREM WithinBudget == Spec => []WritesWithinBudget
<1>1. DriverInv => WritesWithinBudget BY DEF DriverInv, BudgetInv, WritesWithinBudget
<1>2. QED BY <1>1, DriverInvariant, PTL

-----------------------------------------------------------------------------
(* The driver as a StreamedAnswer.  The next write to the current message, *)
(* or its next page, takes up the text where the message is.               *)
Aligned ==
  LET text == messages[current].text
  IN IF actions = <<>>
     THEN /\ text.from = state.start
          /\ ~state.finished => ~Sealed(current)
          /\ state.finished /\ sawFinalize =>
               text.final /\ (state.truncated \/ text.upto = Received)
     ELSE IF Head(actions).action = "start_continuation"
     THEN Sealed(current) /\ Head(actions).from - text.upto \in {0, 1}
     ELSE text.from = Head(actions).from /\ ~Sealed(current)

(* Or, once a request for another page has thrown, text from further on.   *)
Stray ==
  LET text == messages[current].text
  IN /\ text.from <= Head(actions).from
     /\ Sealed(current) => text.upto <= Head(actions).from

(* Without a crash a final text is there because a write said so.          *)
PageInv ==
  ~mixed /\ Working =>
    /\ current = Len(messages)
    /\ \A i \in DOMAIN messages \ {current} : messages[i].text.final
    /\ messages[current].text.from <= messages[current].text.upto
    /\ restarts = 0 /\ messages[current].text.final => sawFinalize
    /\ IF Astray /\ actions # <<>> THEN Stray ELSE Aligned

(* An answer of one message is resumed from the beginning of its text.     *)
SavedInv == ~mixed => SeveralPages \/ \A s \in saved : s.start = 0

AnswerParts == PageInv /\ SavedInv

AnswerInv == DriverInv /\ AnswerParts

LEMMA PagesAre ==
  TypeOK =>
    /\ Received \in Nat /\ Len(messages) \in Nat \ {0} /\ DOMAIN messages = 1..Len(messages)
    /\ Pages \in Seq(Answer!Page) /\ Len(Pages) = Len(messages)
    /\ DOMAIN Pages = DOMAIN messages
    /\ \A i \in DOMAIN messages :
         /\ Pages[i] = [from |-> messages[i].text.from, upto |-> messages[i].text.upto,
                        sealed |-> Sealed(i)]
         /\ Sealed(i) \in BOOLEAN /\ messages[i].text \in TextRecord
    /\ state.truncated \in BOOLEAN
<1> SUFFICES ASSUME TypeOK
             PROVE  /\ Received \in Nat /\ Len(messages) \in Nat \ {0}
                    /\ DOMAIN messages = 1..Len(messages)
                    /\ Pages \in Seq(Answer!Page) /\ Len(Pages) = Len(messages)
                    /\ DOMAIN Pages = DOMAIN messages
                    /\ \A i \in DOMAIN messages :
                         /\ Pages[i] = [from |-> messages[i].text.from,
                                        upto |-> messages[i].text.upto, sealed |-> Sealed(i)]
                         /\ Sealed(i) \in BOOLEAN /\ messages[i].text \in TextRecord
                    /\ state.truncated \in BOOLEAN
  OBVIOUS
<1>1. state \in State /\ sawFinalize \in BOOLEAN /\ current \in DOMAIN messages BY DEF TypeOK
<1>2. Received \in Nat /\ state.truncated \in BOOLEAN BY <1>1, StateTypes DEF Received
<1>3. /\ messages \in Seq(MessageRecord) /\ DOMAIN messages = 1..Len(messages)
      /\ Len(messages) \in Nat /\ \A i \in DOMAIN messages : messages[i] \in MessageRecord
  BY DriverTypes
<1>4. Len(messages) \in Nat \ {0} BY <1>1, <1>3
<1>5. \A r \in MessageRecord : /\ r.text \in TextRecord /\ r.text.from \in Nat
                               /\ r.text.upto \in Nat /\ r.text.final \in BOOLEAN
  BY DEF MessageRecord, TextRecord
<1>6. \A i \in DOMAIN messages : Sealed(i) \in BOOLEAN BY DEF Sealed
<1> DEFINE page(i) == [from |-> messages[i].text.from, upto |-> messages[i].text.upto,
                       sealed |-> Sealed(i)]
<1>7. \A i \in DOMAIN messages : page(i) \in Answer!Page
  BY <1>3, <1>5, <1>6 DEF Answer!Page
<1>8. Pages = [i \in 1..Len(messages) |-> page(i)] BY <1>3 DEF Pages
<1> HIDE DEF page
<1>9. /\ Pages \in Seq(Answer!Page) /\ Len(Pages) = Len(messages)
      /\ DOMAIN Pages = 1..Len(messages)
      /\ \A i \in 1..Len(messages) : Pages[i] = page(i)
  BY <1>3, <1>7, <1>8
<1>10. QED BY <1>2, <1>3, <1>4, <1>5, <1>6, <1>9 DEF page

(* What does not touch the messages does not change the pages.             *)
LEMMA SamePages ==
  ASSUME UNCHANGED <<current, sawFinalize, restarts>>, DOMAIN messages' = DOMAIN messages,
         \A i \in DOMAIN messages : messages'[i].text = messages[i].text
  PROVE  Pages' = Pages /\ \A i \in DOMAIN messages : Sealed(i)' = Sealed(i)
<1>1. \A i \in DOMAIN messages : Sealed(i)' = Sealed(i) BY DEF Sealed
<1>2. QED BY <1>1 DEF Pages

(* A report that says ok delivers: every page is sealed and shows its part.*)
LEMMA Delivers ==
  ASSUME AnswerInv, ~mixed, ~Astray, Working, actions = <<>>, state.finished, pc' = "done",
         UNCHANGED <<state, messages, current, sawFinalize, restarts, failure, thrown, mixed>>
  PROVE  Answer!Next
<1>1. Pages' = Pages BY SamePages
<1>2. Received' = Received /\ state'.truncated = state.truncated BY DEF Received
<1>3. /\ Len(Pages) = Len(messages) /\ DOMAIN Pages = DOMAIN messages
      /\ \A i \in DOMAIN messages :
           Pages[i] = [from |-> messages[i].text.from, upto |-> messages[i].text.upto,
                       sealed |-> Sealed(i)]
      /\ current \in DOMAIN messages
  BY PagesAre DEF AnswerInv, DriverInv, TypeOK
<1>4. Outcome = "open" /\ Outcome' = IF Ok THEN "delivered" ELSE "failed"
  BY DEF Outcome, Working, Ok
<1>5. CASE ~Ok BY <1>1, <1>2, <1>4, <1>5 DEF Answer!Next, Answer!Fail
<1>6. CASE Ok
  <2>1. /\ current = Len(messages)
        /\ \A i \in DOMAIN messages \ {current} : messages[i].text.final
        /\ messages[current].text.final
        /\ state.truncated \/ messages[current].text.upto = Received
    BY <1>6 DEF AnswerInv, AnswerParts, PageInv, Aligned, Ok
  <2>2. \A i \in DOMAIN messages : Sealed(i) BY <1>6, <2>1 DEF Sealed, Ok
  <2>3. \A i \in DOMAIN Pages : Pages[i].sealed BY <1>3, <2>2
  <2>4. state.truncated \/ Pages[Len(Pages)].upto = Received
    <3>1. Len(Pages) = current BY <1>3, <2>1
    <3>2. Pages[current].upto = messages[current].text.upto BY <1>3
    <3>3. QED BY <2>1, <3>1, <3>2
  <2>5. QED
    BY <1>1, <1>2, <1>4, <1>6, <2>3, <2>4 DEF Answer!Next, Answer!Deliver, Answer!LastPage
<1>7. QED BY <1>5, <1>6

(* More text, or a change of its cut, is received.                         *)
LEMMA Receives ==
  ASSUME AnswerInv, DriverInv', Working, Working', ~mixed, ~Astray, ~Astray',
         UNCHANGED <<messages, current, sawFinalize, restarts, mixed>>, Received <= Received'
  PROVE  Answer!Next
<1>1. Pages' = Pages BY SamePages
<1>2. Outcome = "open" /\ Outcome' = "open" BY DEF Outcome, Working, Astray
<1>3. state'.truncated \in BOOLEAN BY StateTypes DEF DriverInv, TypeOK
<1>4. QED BY <1>1, <1>2, <1>3 DEF Answer!Next, Answer!Receive

Implements == [Answer!Next]_(Answer!answerVars)

(* The last page is rewritten, the others stay.                            *)
LEMMA LastPageRewritten ==
  ASSUME TypeOK, DOMAIN messages' = DOMAIN messages,
         NEW last \in Nat, last = Len(messages),
         \A i \in DOMAIN messages \ {last} :
           messages'[i].text = messages[i].text /\ Sealed(i)' = Sealed(i),
         NEW page, page = [from |-> messages'[last].text.from,
                           upto |-> messages'[last].text.upto, sealed |-> Sealed(last)']
  PROVE  /\ Len(Pages) = last /\ Pages[last].from = messages[last].text.from
         /\ Pages[last].upto = messages[last].text.upto /\ Pages[last].sealed = Sealed(last)
         /\ Pages' = [Pages EXCEPT ![last] = page]
<1>1. /\ Len(Pages) = last /\ DOMAIN Pages = DOMAIN messages /\ last \in DOMAIN messages
      /\ \A i \in DOMAIN messages :
           Pages[i] = [from |-> messages[i].text.from, upto |-> messages[i].text.upto,
                       sealed |-> Sealed(i)]
      /\ Pages \in Seq(Answer!Page)
  BY PagesAre
<1>2. Pages' = [i \in DOMAIN messages |->
                  [from |-> messages'[i].text.from, upto |-> messages'[i].text.upto,
                   sealed |-> Sealed(i)']]
  BY DEF Pages
<1>3. Pages' = [Pages EXCEPT ![last] = page]
  <2>1. Pages' = [i \in DOMAIN messages |-> IF i = last THEN page ELSE Pages[i]]
    BY <1>1, <1>2
  <2>2. QED BY <1>1, <2>1
<1>4. /\ Pages[last] \in Answer!Page /\ Pages[last].from = messages[last].text.from
      /\ Pages[last].upto = messages[last].text.upto /\ Pages[last].sealed = Sealed(last)
  <2>1. Sealed(last) \in BOOLEAN BY <1>1, PagesAre
  <2>2. Pages[last] = [from |-> messages[last].text.from, upto |-> messages[last].text.upto,
                       sealed |-> Sealed(last)]
    BY <1>1
  <2>3. Pages[last] \in Answer!Page BY <1>1
  <2>4. QED BY <2>1, <2>2, <2>3
<1>5. QED BY <1>1, <1>3, <1>4

(* A page is added after the last one.                                     *)
LEMMA PageAdded ==
  ASSUME TypeOK, NEW a \in Action, messages' = Append(messages, Message(Text(a))),
         a.upto = a.from, ~a.final,
         \A i \in DOMAIN messages : Sealed(i)' = Sealed(i)
  PROVE  Pages' = Append(Pages, [from |-> a.from, upto |-> a.from, sealed |-> FALSE])
<1>1. /\ Len(Pages) = Len(messages) /\ DOMAIN Pages = DOMAIN messages
      /\ DOMAIN messages = 1..Len(messages) /\ Len(messages) \in Nat
      /\ \A i \in DOMAIN messages :
           Pages[i] = [from |-> messages[i].text.from, upto |-> messages[i].text.upto,
                       sealed |-> Sealed(i)]
      /\ Pages \in Seq(Answer!Page)
  BY PagesAre
<1>2. /\ DOMAIN messages' = 1..(Len(messages) + 1)
      /\ messages'[Len(messages) + 1] = Message(Text(a))
      /\ \A i \in DOMAIN messages : messages'[i] = messages[i]
  BY Continued
<1>3. /\ messages'[Len(messages) + 1].text.from = a.from
      /\ messages'[Len(messages) + 1].text.upto = a.from
      /\ ~messages'[Len(messages) + 1].text.final
  BY <1>2, TextTyped
<1> DEFINE page == [from |-> a.from, upto |-> a.from, sealed |-> FALSE]
<1>5. Pages' = [i \in 1..(Len(messages) + 1) |->
                  [from |-> messages'[i].text.from, upto |-> messages'[i].text.upto,
                   sealed |-> Sealed(i)']]
  BY <1>2 DEF Pages
<1>6. \A i \in 1..(Len(messages) + 1) : i \notin DOMAIN messages => Sealed(i)' = FALSE
  BY <1>1, <1>3 DEF Sealed
<1>7. Pages' = [i \in 1..(Len(messages) + 1) |-> IF i \in DOMAIN messages THEN Pages[i] ELSE page]
  <2>1. ASSUME NEW i \in 1..(Len(messages) + 1), i \in DOMAIN messages
        PROVE  Pages[i] = [from |-> messages'[i].text.from, upto |-> messages'[i].text.upto,
                           sealed |-> Sealed(i)']
    BY <1>1, <1>2, <2>1
  <2>2. ASSUME NEW i \in 1..(Len(messages) + 1), i \notin DOMAIN messages
        PROVE  page = [from |-> messages'[i].text.from, upto |-> messages'[i].text.upto,
                       sealed |-> Sealed(i)']
    <3>1. i = Len(messages) + 1 BY <1>1, <2>2
    <3>2. Sealed(i)' = FALSE BY <1>6, <2>2
    <3>3. QED BY <1>3, <3>1, <3>2
  <2>3. QED BY <1>5, <2>1, <2>2
<1> HIDE DEF page
<1>8. Append(Pages, page)
      = [i \in 1..(Len(messages) + 1) |-> IF i \in DOMAIN messages THEN Pages[i] ELSE page]
  <2> DEFINE longer == Append(Pages, page)
  <2>1. page \in Answer!Page BY DEF page, Action, Answer!Page
  <2>2. /\ longer \in Seq(Answer!Page) /\ Len(longer) = Len(messages) + 1
        /\ longer[Len(messages) + 1] = page
        /\ \A i \in 1..Len(messages) : longer[i] = Pages[i]
    BY <1>1, <2>1
  <2> HIDE DEF longer
  <2>3. longer = [i \in 1..(Len(messages) + 1) |-> longer[i]] BY <1>1, <2>2
  <2>4. \A i \in 1..(Len(messages) + 1) :
          longer[i] = IF i \in DOMAIN messages THEN Pages[i] ELSE page
    BY <1>1, <2>2
  <2>5. QED BY <2>3, <2>4 DEF longer
<1>9. QED BY <1>7, <1>8 DEF page

(* An event has been looked at: what the answer shows has not changed.     *)
LEMMA EventAnswers ==
  ASSUME AnswerInv, DriverInv', Working, pc' = "apply", actions = <<>>, ~mixed,
         thrown = "none", thrown' = "none",
         UNCHANGED <<messages, current, sawFinalize, restarts, mixed>>, SavedInv',
         NEW n \in Nat, Reacts(n)
  PROVE  AnswerParts' /\ Answer!Next
<1> USE DEF AnswerInv, AnswerParts
<1>1. Working' /\ ~Astray /\ ~Astray' BY DEF Working, Astray
<1>2. PICK s \in State :
        /\ s.start = state.start /\ s.content = state.content + n
        /\ Advanced(s, <<>>) /\ ~state.finished
  BY DEF Reacts
<1>3. /\ state.start \in Nat /\ state.content \in Nat BY StateTypes DEF DriverInv, TypeOK
<1>4. state'.start = state.start /\ Received' = Received + n /\ Received \in Nat
  BY <1>2, <1>3 DEF Advanced, Received
<1>5. \/ actions' = <<>> /\ ~state'.finished
      \/ \E a \in Action : /\ actions' = <<a>> /\ a.from = state.start
                           /\ a.action \in {"patch", "finalize"}
  BY <1>2 DEF Advanced
<1>6. messages[current].text.from = state.start /\ ~Sealed(current)
  BY <1>1, <1>2 DEF PageInv, Aligned
<1>7. messages'[current'].text.from = state'.start /\ ~Sealed(current)'
  BY <1>4, <1>6 DEF Sealed
<1>8. Aligned'
  <2>1. CASE actions' = <<>> /\ ~state'.finished BY <1>7, <2>1 DEF Aligned
  <2>2. ASSUME NEW a \in Action, actions' = <<a>>, a.from = state.start,
               a.action \in {"patch", "finalize"}
        PROVE  Aligned'
    <3>1. actions' # <<>> /\ Head(actions') = a BY <2>2
    <3>2. QED BY <1>4, <1>7, <2>2, <3>1 DEF Aligned
  <2>3. QED BY <1>5, <2>1, <2>2
<1>9. PageInv' BY <1>1, <1>8 DEF PageInv
<1>10. Received <= Received' BY <1>4
<1>11. Answer!Next BY <1>1, <1>10, Receives
<1>12. QED BY <1>9, <1>11

(* Nothing but where the driver is changes.                                *)
LEMMA Quiet ==
  ASSUME AnswerInv,
         UNCHANGED <<state, actions, messages, current, saved, sawFinalize, restarts, thrown,
                     mixed>>,
         Working' => Working
  PROVE  AnswerParts' /\ Pages' = Pages /\ Received' = Received
<1> USE DEF AnswerInv, AnswerParts
<1>1. Received' = Received /\ Pages' = Pages BY SamePages DEF Received
<1>2. PageInv' BY DEF PageInv, Aligned, Stray, Astray, Sealed, Received
<1>3. SavedInv' BY DEF SavedInv, SeveralPages
<1>4. QED BY <1>1, <1>2, <1>3

(* A step that the readers of the answer do not see.                       *)
LEMMA Unseen ==
  ASSUME Pages' = Pages, Received' = Received, state'.truncated = state.truncated,
         Outcome' = Outcome
  PROVE  UNCHANGED Answer!answerVars
BY DEF Answer!answerVars

(* A run that is rejected, or that gives up, has failed.                   *)
LEMMA Fails ==
  ASSUME AnswerInv, ~mixed, UNCHANGED mixed, Working, Outcome' = "failed", ~Working',
         UNCHANGED <<state, messages, current, sawFinalize, restarts>>, SavedInv'
  PROVE  AnswerParts' /\ Implements
<1>1. Pages' = Pages /\ Received' = Received /\ state'.truncated = state.truncated
  BY SamePages DEF Received
<1>2. Outcome \in {"open", "astray", "failed"} BY DEF Outcome, Working
<1>3. PageInv' BY DEF PageInv
<1>4. CASE Outcome = "failed"
  <2>1. UNCHANGED Answer!answerVars BY <1>1, <1>4, Unseen
  <2>2. QED BY <1>3, <2>1 DEF AnswerParts, Implements
<1>5. CASE Outcome = "open"
  <2>1. Answer!Fail BY <1>1, <1>5 DEF Answer!Fail
  <2>2. QED BY <1>3, <2>1 DEF AnswerParts, Implements, Answer!Next
<1>6. CASE Outcome = "astray"
  <2>1. Answer!FailAstray BY <1>1, <1>6 DEF Answer!FailAstray
  <2>2. QED BY <1>3, <2>1 DEF AnswerParts, Implements, Answer!Next
<1>7. QED BY <1>2, <1>4, <1>5, <1>6

LEMMA PullChunkAnswers ==
  ASSUME AnswerInv, DriverInv', ~mixed, PullChunk
  PROVE  AnswerParts' /\ Implements
<1>1. /\ pc = "pull" /\ state \in State /\ actions = <<>> /\ Working
      /\ UNCHANGED <<failure, sawFinalize, current, messages, saved, restarts, thrown, mixed>>
      /\ running = "none"
  BY DEF PullChunk, environmentVars, PhaseInv, TypeOK, AnswerInv, DriverInv, Working
<1>2. PICK n \in 0..MaxChunk :
        IF cancelRequested
        THEN pc' = "closing" /\ UNCHANGED <<schedulerVars, event>>
        ELSE /\ OnChunk(n)
             /\ IF n = 0 THEN UNCHANGED <<pc, event>> ELSE pc' = "apply" /\ event' = "chunk"
  BY DEF PullChunk
<1>3. n \in Nat BY <1>2, Constants
<1>7. thrown = "none" /\ thrown' = "none" BY <1>1, NotThrown DEF AnswerInv
<1>4. CASE state' = state /\ actions' = <<>>
  <2>1. pc' \in {"pull", "closing", "apply"} BY <1>1, <1>2
  <2>2. AnswerParts' /\ Pages' = Pages /\ Received' = Received
    BY <1>1, <1>4, <2>1, Quiet
  <2>3. Outcome = "open" /\ Outcome' = "open" BY <1>1, <1>7, <2>1 DEF Outcome, Astray
  <2>4. QED BY <1>4, <2>2, <2>3, Unseen DEF Implements
<1>5. CASE ~(state' = state /\ actions' = <<>>)
  <2>1. ~cancelRequested BY <1>1, <1>2, <1>5 DEF schedulerVars
  <2>2. Reacts(n)
    BY <1>1, <1>2, <1>3, <1>5, <2>1, ChunkReacts DEF Ignored, AnswerInv, DriverInv, BudgetInv
  <2>3. n # 0 BY <1>2, <1>5, <2>1 DEF OnChunk, Ignored
  <2>4. pc' = "apply" BY <1>2, <2>1, <2>3
  <2>5. SavedInv' BY <1>1 DEF AnswerInv, AnswerParts, SavedInv, SeveralPages
  <2>6. QED BY <1>1, <1>3, <1>7, <2>2, <2>4, <2>5, EventAnswers DEF Implements
<1>6. QED BY <1>4, <1>5

(* The text is finalized after its last event, or was before.              *)
LEMMA LastEventAnswers ==
  ASSUME AnswerInv, DriverInv', ~mixed, Working, actions = <<>>, running = "none",
         thrown = "none", thrown' = "none", pc' = "apply",
         OnFinish \/ OnCancel \/ OnError,
         UNCHANGED <<messages, current, sawFinalize, restarts, mixed>>, SavedInv'
  PROVE  AnswerParts' /\ Implements
<1> USE DEF AnswerInv, AnswerParts
<1>1. state \in State /\ state.patchesUsed < MaxPatches
  BY DEF DriverInv, TypeOK, BudgetInv
<1>2. CASE Reacts(0) BY <1>2, EventAnswers DEF Implements
<1>3. CASE Ignored
  <2>1. state' = state /\ actions' = actions BY <1>3 DEF Ignored
  <2>2. Pages' = Pages /\ Received' = Received BY <2>1, SamePages DEF Received
  <2>3. PageInv' BY <2>1 DEF PageInv, Aligned, Stray, Astray, Sealed, Received, Working
  <2>4. Outcome = "open" /\ Outcome' = "open" BY DEF Outcome, Astray, Working
  <2>5. QED BY <2>1, <2>2, <2>3, <2>4, Unseen DEF Implements
<1>4. QED BY <1>1, <1>2, <1>3, EndReacts

LEMMA EndingAnswers ==
  ASSUME AnswerInv, DriverInv', ~mixed, StreamEnds \/ StreamThrows \/ Close
  PROVE  AnswerParts' /\ Implements
<1>1. /\ pc \in {"pull", "closing"} /\ running = "none" /\ actions = <<>> /\ Working
      /\ UNCHANGED <<sawFinalize, current, messages, saved, restarts, thrown, mixed>>
  BY DEF StreamEnds, StreamThrows, Close, environmentVars, PhaseInv, AnswerInv, DriverInv,
     Working
<1>2. /\ thrown = "none" /\ thrown' = "none" /\ Outcome = "open" /\ ~Astray
  BY <1>1, NotThrown DEF AnswerInv, Outcome, Astray
<1>3. SavedInv' BY <1>1 DEF AnswerInv, AnswerParts, SavedInv, SeveralPages
<1>4. CASE (OnFinish \/ OnCancel \/ OnError) /\ pc' = "apply"
  BY <1>1, <1>2, <1>3, <1>4, LastEventAnswers
<1>5. CASE /\ UNCHANGED <<state, actions, failure>>
           /\ pc' = "closing" \/ (pc' = "done" /\ state.finished)
  <2>1. AnswerParts' /\ Pages' = Pages /\ Received' = Received BY <1>1, <1>5, Quiet
  <2>2. CASE pc' = "closing"
    <3>1. Outcome' = "open" BY <1>1, <1>2, <2>2 DEF Outcome, Astray
    <3>2. QED BY <1>2, <1>5, <2>1, <3>1, Unseen DEF Implements
  <2>3. CASE pc' = "done" /\ state.finished
    BY <1>1, <1>2, <1>5, <2>1, <2>3, Delivers DEF Implements
  <2>4. QED BY <1>5, <2>2, <2>3
<1>6. CASE Reject
  <2>1. pc' = "rejected" /\ state' = state /\ ~Working' BY <1>6 DEF Reject, Working
  <2>2. Outcome' = "failed" BY <1>1, <2>1 DEF Outcome
  <2>3. QED BY <1>1, <1>3, <2>1, <2>2, Fails
<1>7. QED BY <1>4, <1>5, <1>6 DEF StreamEnds, StreamThrows, Close, Caught, schedulerVars

LEMMA KeepSplittingAnswers ==
  ASSUME AnswerInv, DriverInv', ~mixed, KeepSplitting
  PROVE  AnswerParts' /\ Implements
<1> USE DEF AnswerInv, AnswerParts, DriverInv
<1>1. /\ pc = "apply" /\ SplitOnce /\ running \in {"chunk", "finish"} /\ Working /\ Working'
      /\ state \in State /\ actions \in Seq(Action)
      /\ UNCHANGED <<pc, event, failure, sawFinalize, current, messages, saved, restarts,
                     thrown, mixed>>
  BY DEF KeepSplitting, SplitOnce, driverVars, environmentVars, TypeOK, Working
<1>2. /\ Overflows(state) /\ ~state.finished /\ Batch(actions, state) /\ Started(actions)
  BY <1>1 DEF LoopInv, BatchInv
<1>3. PICK p \in SplitPoints(state) :
        AfterOverflow(SplitState(state, p), actions \o SplitActions(state, p), running)
  BY <1>1 DEF SplitOnce
<1> DEFINE longer == actions \o SplitActions(state, p)
           s == SplitState(state, p)
<1>4. /\ longer \in Seq(Action) /\ longer # <<>> /\ Started(longer) /\ Batch(longer, s)
      /\ IF actions # <<>> THEN Head(longer) = Head(actions)
         ELSE Head(longer).action = "finalize" /\ Head(longer).from = state.start
      /\ s.start + s.content = state.start + state.content
      /\ s.patchesUsed = 0
  BY <1>1, <1>2, SplitBatch
<1>5. s \in State /\ ~s.finished BY <1>1, <1>2, Split
<1>7. AfterOverflow(s, longer, running) BY <1>3
<1> HIDE DEF longer, s
<1>8. s.patchesUsed < MaxPatches
  <2>1. MaxPatches \in Nat \ {0} BY DriverTypes
  <2>2. QED BY <1>4, <2>1
<1>9. Advanced(s, longer) BY <1>1, <1>4, <1>5, <1>7, <1>8, AfterOverflowAdvances
<1>10. Received' = Received BY <1>4, <1>9 DEF Advanced, Received
<1>6. thrown = "none" /\ ~Astray /\ ~Astray' BY <1>1 DEF HistoryInv, Astray
<1>11. actions' # <<>> /\ Head(actions') = Head(longer)
  <2>1. CASE actions' = longer BY <1>4, <2>1
  <2>2. ASSUME NEW a \in Action, actions' = Append(longer, a)
        PROVE  actions' # <<>> /\ Head(actions') = Head(longer)
    <3>1. Len(longer) \in Nat \ {0} /\ Head(longer) = longer[1] BY <1>4
    <3>2. Append(longer, a)[1] = longer[1] /\ Append(longer, a) # <<>> BY <1>4, <3>1
    <3>3. QED BY <1>4, <2>2, <3>1, <3>2
  <2>3. QED BY <1>9, <2>1, <2>2 DEF Advanced
<1>12. Aligned'
  <2>1. Aligned BY <1>1, <1>6 DEF PageInv
  <2>2. Sealed(current)' = Sealed(current) BY <1>1 DEF Sealed
  <2>3. CASE actions = <<>>
    <3>1. messages[current].text.from = state.start /\ ~Sealed(current)
      BY <1>2, <2>1, <2>3 DEF Aligned
    <3>2. Head(actions').action = "finalize" /\ Head(actions').from = state.start
      BY <1>4, <1>11, <2>3
    <3>3. QED BY <1>1, <1>11, <2>2, <3>1, <3>2 DEF Aligned
  <2>4. CASE actions # <<>>
    <3>1. Head(actions') = Head(actions) BY <1>4, <1>11, <2>4
    <3>2. QED BY <1>1, <1>11, <2>1, <2>2, <2>4, <3>1 DEF Aligned
  <2>5. QED BY <2>3, <2>4
<1>13. PageInv' BY <1>1, <1>6, <1>12 DEF PageInv
<1>14. SavedInv' BY <1>1 DEF SavedInv, SeveralPages
<1>15. Received \in Nat BY PagesAre
<1>16. Answer!Next BY <1>1, <1>6, <1>10, <1>15, Receives
<1>17. QED BY <1>13, <1>14, <1>16 DEF Implements

(* What is kept of an answer of one message starts at its beginning.       *)
LEMMA EmitStateAnswers ==
  ASSUME AnswerInv, DriverInv', ~mixed, EmitState
  PROVE  AnswerParts' /\ Implements
<1> USE DEF AnswerInv, AnswerParts
<1>1. /\ pc = "apply" /\ running = "none" /\ actions = <<>> /\ Working
      /\ saved' \subseteq saved \cup {state}
      /\ UNCHANGED <<sawFinalize, current, messages, restarts, mixed>>
  BY DEF EmitState, Kept, Working
<1>2. SavedInv'
  <2>1. CASE SeveralPages BY <1>1, <2>1 DEF SavedInv, SeveralPages
  <2>2. CASE ~SeveralPages
    <3>1. messages[current].text.from = state.start /\ current = Len(messages)
      BY <1>1 DEF PageInv, Aligned
    <3>2. Len(messages) \in Nat \ {0} BY PagesAre DEF DriverInv
    <3>3. current = 1 /\ messages[1].text.from = 0 BY <2>2, <3>1, <3>2 DEF SeveralPages
    <3>4. \A s \in saved' : s.start = 0 BY <1>1, <2>2, <3>1, <3>3 DEF SavedInv
    <3>5. QED BY <3>4 DEF SavedInv
  <2>3. QED BY <2>1, <2>2
<1>3. CASE /\ pc' = IF event = "chunk" THEN "pull" ELSE "done"
           /\ UNCHANGED <<schedulerVars, event, failure, thrown, failures>>
  <2>1. UNCHANGED <<state, actions, failure, thrown>> BY <1>3 DEF schedulerVars
  <2>2. PageInv'
    BY <1>1, <2>1 DEF PageInv, Aligned, Stray, Astray, Sealed, Received
  <2>3. Received' = Received /\ Pages' = Pages BY <1>1, <2>1, SamePages DEF Received
  <2>4. CASE event = "chunk"
    <3>1. thrown = "none" /\ pc' = "pull" BY <1>1, <1>3, <2>4, NotThrown
    <3>2. Outcome = "open" /\ Outcome' = "open" BY <1>1, <2>1, <3>1 DEF Outcome, Astray
    <3>3. QED BY <1>2, <2>1, <2>2, <2>3, <3>2, Unseen DEF Implements
  <2>5. CASE event # "chunk" /\ ~Astray
    <3>1. state.finished /\ pc' = "done" BY <1>1, <1>3, <2>5 DEF DriverInv, PhaseInv
    <3>2. Answer!Next BY <1>1, <2>1, <2>5, <3>1, Delivers
    <3>3. QED BY <1>2, <2>2, <3>2 DEF Implements
  <2>6. CASE event # "chunk" /\ Astray
    <3>1. failure /\ pc' = "done"
      BY <1>1, <1>3, <2>6 DEF DriverInv, HistoryInv, Astray
    <3>2. Outcome' = "failed" /\ ~Working' BY <1>1, <2>1, <3>1 DEF Outcome, Ok, Working
    <3>3. QED BY <1>1, <1>2, <2>1, <3>2, Fails
  <2>7. QED BY <2>4, <2>5, <2>6
<1>4. CASE Throws("none") /\ event # "chunk"
  <2>1. pc' = "rejected" /\ state' = state /\ ~Working'
    BY <1>4 DEF Throws, Reject, Working
  <2>2. Outcome' = "failed" BY <1>1, <2>1 DEF Outcome
  <2>3. QED BY <1>1, <1>2, <2>1, <2>2, Fails
<1>5. CASE Throws("none") /\ event = "chunk"
  <2>1. OnError /\ pc' = "apply" /\ thrown' = "none" BY <1>5 DEF Throws, Caught
  <2>2. thrown = "none"
    <3>1. event # "error" BY <1>5
    <3>2. QED BY <1>1, <3>1, NotThrown
  <2>3. QED BY <1>1, <1>2, <2>1, <2>2, LastEventAnswers
<1>6. QED BY <1>3, <1>4, <1>5 DEF EmitState

(* The next page takes up the text where the last one, sealed, stopped.    *)
LEMMA StartContinuationAnswers ==
  ASSUME AnswerInv, ~mixed, Requested, StartContinuation(Head(actions))
  PROVE  AnswerParts' /\ Implements
<1> USE DEF AnswerInv, AnswerParts, DriverInv
<1> DEFINE a == Head(actions)
<1>1. /\ pc = "apply" /\ actions # <<>> /\ Working /\ state \in State /\ state' = state
      /\ actions \in Seq(Action) /\ a.action = "start_continuation"
      /\ UNCHANGED <<event, saved, restarts, sawFinalize, thrown, mixed>>
  BY DEF Applying, Requested, StartContinuation, TypeOK, Working
<1>2. Batch(actions, state) BY <1>1 DEF BatchInv
<1>3. /\ a \in Action /\ Shows(a, Received) /\ Tail(actions) \in Seq(Action)
      /\ Tail(actions) = <<>> => Ends(a, state)
      /\ Tail(actions) # <<>> => Follows(a, Head(Tail(actions)))
  BY <1>1, <1>2, TailBatch DEF Received
<1>5. ~Astray /\ ~Astray' BY <1>1 DEF HistoryInv, Astray
<1>4. Sealed(current) /\ a.from - messages[current].text.upto \in {0, 1}
  BY <1>1, <1>5 DEF PageInv, Aligned
<1> HIDE DEF a
<1>6. /\ a.upto = a.from /\ a.from <= Received /\ ~a.final /\ a.from \in Nat
  <2>1. a.from \in Nat BY <1>3 DEF Action
  <2>2. QED BY <1>1, <1>3, <2>1 DEF Shows
<1>7. /\ Len(messages) \in Nat \ {0} /\ DOMAIN messages = 1..Len(messages)
      /\ current = Len(messages) /\ current \in DOMAIN messages
      /\ Len(Pages) = Len(messages)
      /\ Pages[current] = [from |-> messages[current].text.from,
                           upto |-> messages[current].text.upto, sealed |-> Sealed(current)]
      /\ messages[current].text.upto \in Nat
  <2>1. current = Len(messages) /\ current \in DOMAIN messages BY <1>1 DEF PageInv, TypeOK
  <2>2. messages[current].text \in TextRecord BY <2>1, PagesAre
  <2>3. QED BY <2>1, <2>2, PagesAre DEF TextRecord
<1>8. /\ Pages[Len(Pages)].sealed /\ Pages[Len(Pages)].upto = messages[current].text.upto
  BY <1>4, <1>7
<1>9. \A i \in DOMAIN messages : messages[i].text.final
  BY <1>1, <1>4 DEF PageInv, Sealed
<1>10. Received' = Received /\ state'.truncated = state.truncated BY <1>1 DEF Received
<1>11. Outcome = "open" BY <1>1, <1>5 DEF Outcome
<1>13. ASSUME messages' = Append(messages, Message(Text(a))),
              current' = current \/ current' = Len(messages')
       PROVE  /\ Answer!Turn /\ SavedInv'
              /\ \A i \in DOMAIN messages : messages'[i] = messages[i]
              /\ messages'[Len(messages')].text.from = a.from
              /\ messages'[Len(messages')].text.upto = a.from
              /\ ~messages'[Len(messages')].text.final
              /\ DOMAIN messages' = DOMAIN messages \cup {Len(messages')}
  <2>1. /\ Len(messages') = Len(messages) + 1 /\ DOMAIN messages' = 1..(Len(messages) + 1)
        /\ messages'[Len(messages')] = Message(Text(a))
        /\ \A i \in DOMAIN messages : messages'[i] = messages[i]
    BY <1>3, <1>13, Continued
  <2>2. \A i \in DOMAIN messages : Sealed(i)' = Sealed(i)
    <3>1. ASSUME NEW i \in DOMAIN messages PROVE Sealed(i)' = Sealed(i)
      <4>1. messages[i].text.final /\ messages'[i].text = messages[i].text
        BY <1>9, <2>1, <3>1
      <4>2. CASE current' = current BY <1>1, <4>1, <4>2 DEF Sealed
      <4>3. CASE current' = Len(messages')
        <5>1. i # current' BY <1>7, <2>1, <3>1, <4>3
        <5>2. Sealed(i)' = TRUE BY <4>1, <5>1 DEF Sealed
        <5>3. Sealed(i) = TRUE
          <6>1. CASE i = current BY <1>4, <6>1 DEF Sealed
          <6>2. CASE i # current BY <4>1, <6>2 DEF Sealed
          <6>3. QED BY <6>1, <6>2
        <5>4. QED BY <5>2, <5>3
      <4>4. QED BY <1>13, <4>2, <4>3
    <3>2. QED BY <3>1
  <2>3. Pages' = Append(Pages, [from |-> a.from, upto |-> a.from, sealed |-> FALSE])
    BY <1>3, <1>6, <1>13, <2>2, PageAdded
  <2>4. PICK blank \in {0, 1} : a.from = messages[current].text.upto + blank
    BY <1>4, <1>6, <1>7
  <2>5. /\ Pages[Len(Pages)].upto + blank <= Received
        /\ Pages' = Append(Pages, [from |-> Pages[Len(Pages)].upto + blank,
                                   upto |-> Pages[Len(Pages)].upto + blank,
                                   sealed |-> FALSE])
    BY <1>6, <1>8, <2>3, <2>4
  <2>6. Answer!Turn BY <1>8, <2>5 DEF Answer!Turn, Answer!LastPage
  <2>7. /\ messages'[Len(messages')].text.from = a.from
        /\ messages'[Len(messages')].text.upto = a.from
        /\ ~messages'[Len(messages')].text.final
    BY <1>3, <1>6, <2>1, TextTyped
  <2>8. SavedInv' BY <1>7, <2>1 DEF SavedInv, SeveralPages
  <2>9. QED BY <1>7, <2>1, <2>6, <2>7, <2>8
<1>14. CASE /\ messages' = Append(messages, Message(Text(a)))
            /\ current' = Len(messages') /\ actions' = Tail(actions) /\ pc' = pc
  <2>1. Working' BY <1>1, <1>14 DEF Working
  <2>2. ~Sealed(current)' BY <1>13, <1>14 DEF Sealed
  <2>3. /\ messages'[current'].text.from = a.from /\ messages'[current'].text.upto = a.from
        /\ ~messages'[current'].text.final
    BY <1>13, <1>14
  <2>4. Aligned'
    <3>1. CASE actions' = <<>>
      <4>1. a.from = state.start /\ ~state.finished BY <1>1, <1>3, <1>14, <3>1 DEF Ends
      <4>2. QED BY <1>1, <2>2, <2>3, <3>1, <4>1 DEF Aligned
    <3>2. CASE actions' # <<>>
      <4>1. Head(actions').action # "start_continuation" /\ Head(actions').from = a.from
        BY <1>1, <1>3, <1>14, <3>2 DEF Follows
      <4>2. QED BY <2>2, <2>3, <3>2, <4>1 DEF Aligned
    <3>3. QED BY <3>1, <3>2
  <2>5. \A i \in DOMAIN messages' \ {current'} : messages'[i].text.final
    BY <1>9, <1>13, <1>14
  <2>6. PageInv' BY <1>5, <1>6, <1>14, <2>3, <2>4, <2>5 DEF PageInv
  <2>7. Outcome' = "open" BY <1>1, <1>5, <1>14 DEF Outcome
  <2>8. Answer!Next
    BY <1>10, <1>11, <1>13, <1>14, <2>7 DEF Answer!Next, Answer!Show
  <2>9. QED BY <1>13, <1>14, <2>6, <2>8 DEF Implements
<1>15. CASE /\ pc' = "done" /\ failure' = TRUE /\ current' = current
            /\ messages' = messages \/ messages' = Append(messages, Message(Text(a)))
  <2>1. PageInv' BY <1>15 DEF PageInv, Working
  <2>2. Outcome' = "failed" BY <1>1, <1>15 DEF Outcome, Ok
  <2>3. CASE messages' = messages
    <3>1. SavedInv' BY <1>1, <2>3 DEF SavedInv, SeveralPages
    <3>2. ~Working' BY <1>15 DEF Working
    <3>3. QED BY <1>1, <1>15, <2>2, <2>3, <3>1, <3>2, Fails
  <2>4. CASE messages' = Append(messages, Message(Text(a)))
    <3>1. Answer!Turn /\ SavedInv' BY <1>13, <1>15, <2>4
    <3>2. QED
      BY <1>10, <1>11, <2>1, <2>2, <3>1 DEF Implements, Answer!Next, Answer!Fail
  <2>5. QED BY <1>15, <2>3, <2>4
<1>16. QED BY <1>14, <1>15 DEF StartContinuation, GiveUp, a

(* A PATCH rewrites the last page; after a throw with what comes later.    *)
LEMMA PatchMessageAnswers ==
  ASSUME AnswerInv, ~mixed, Requested, PatchMessage(Head(actions))
  PROVE  AnswerParts' /\ Implements
<1> USE DEF AnswerInv, AnswerParts, DriverInv
<1> DEFINE a == Head(actions)
<1>1. /\ pc = "apply" /\ actions # <<>> /\ Working /\ state \in State
      /\ actions \in Seq(Action) /\ a.action \in {"patch", "finalize"}
      /\ UNCHANGED <<event, saved, restarts, current, thrown, mixed>>
      /\ sawFinalize \in BOOLEAN
  BY DEF Applying, Requested, PatchMessage, TypeOK, Working
<1>2. Batch(actions, state) BY <1>1 DEF BatchInv
<1>3. /\ a \in Action /\ Shows(a, Received) /\ Tail(actions) \in Seq(Action)
      /\ Tail(actions) = <<>> => Ends(a, state)
      /\ Tail(actions) # <<>> => Follows(a, Head(Tail(actions)))
  BY <1>1, <1>2, TailBatch DEF Received
<1>4. a.action = "patch" => Tail(actions) = <<>> BY <1>1, <1>2, OnlyPatch
<1>5. ~Astray => messages[current].text.from = a.from /\ ~Sealed(current)
  BY <1>1 DEF PageInv, Aligned
<1>6. PICK ok \in BOOLEAN :
        /\ state' = PatchResult(state, ok)
        /\ \/ ok /\ Patched(a) /\ sawFinalize' = (sawFinalize \/ a.final)
              /\ actions' = Tail(actions) /\ UNCHANGED <<failure, pc>>
           \/ ~ok /\ (Patched(a) \/ PatchRefused) /\ UNCHANGED sawFinalize
              /\ IF a.final THEN GiveUp
                 ELSE actions' = Tail(actions) /\ UNCHANGED <<failure, pc>>
  BY DEF PatchMessage
<1>20. Astray =>
         /\ a.action = "finalize" /\ Tail(actions) = <<>> /\ failure /\ event = "error"
         /\ Stray
  BY <1>1 DEF HistoryInv, PageInv, Astray
<1>21. messages[current].text.from <= a.from
  <2>1. CASE Astray BY <1>20, <2>1 DEF Stray
  <2>2. CASE ~Astray
    <3>1. a.from \in Nat BY <1>3 DEF Action
    <3>2. QED BY <1>5, <2>2, <3>1
  <2>3. QED BY <2>1, <2>2
<1> HIDE DEF a
<1>7. /\ a.from <= a.upto /\ a.upto <= Received /\ (a.final <=> a.action = "finalize")
      /\ a.from \in Nat /\ a.upto \in Nat /\ a.final \in BOOLEAN
  BY <1>3 DEF Shows, Action
<1>8. /\ state'.start = state.start /\ state'.content = state.content
      /\ state'.truncated = state.truncated /\ state'.finished = state.finished
  BY <1>1, <1>6, ResultTyped
<1>9. Received' = Received BY <1>8 DEF Received
<1>10. /\ Len(messages) \in Nat \ {0} /\ DOMAIN messages = 1..Len(messages)
       /\ current = Len(messages) /\ current \in DOMAIN messages
       /\ messages[current].text.upto \in Nat /\ messages[current].text.from \in Nat
       /\ Received \in Nat
  <2>1. current = Len(messages) /\ current \in DOMAIN messages BY <1>1 DEF PageInv, TypeOK
  <2>2. messages[current].text \in TextRecord BY <2>1, PagesAre
  <2>3. QED BY <2>1, <2>2, PagesAre DEF TextRecord
<1>12. Patched(a) \/ PatchRefused BY <1>6
<1>13. /\ DOMAIN messages' = DOMAIN messages /\ Len(messages') = Len(messages)
       /\ \A i \in DOMAIN messages \ {current} : messages'[i] = messages[i]
       /\ \/ Patched(a) /\ messages'[current].text = Text(a)
          \/ PatchRefused /\ messages'[current].text = messages[current].text
  BY <1>3, <1>12, Rewritten
<1>14. /\ Text(a).from = a.from /\ Text(a).upto = a.upto /\ Text(a).final = a.final
  BY <1>3, TextTyped
<1>15. \A i \in DOMAIN messages \ {current} :
         messages'[i].text = messages[i].text /\ Sealed(i)' = Sealed(i)
  BY <1>1, <1>13 DEF Sealed
<1>17. ASSUME messages'[current].text = Text(a), NEW sealed \in BOOLEAN,
              Sealed(current)' = sealed
       PROVE  /\ Len(Pages) = current /\ Pages[current].from = messages[current].text.from
              /\ Pages[current].upto = messages[current].text.upto
              /\ Pages[current].sealed = Sealed(current)
              /\ Pages' = [Pages EXCEPT ![current] =
                             [from |-> a.from, upto |-> a.upto, sealed |-> sealed]]
  <2>1. PICK last \in Nat : last = Len(messages) /\ last = current BY <1>10
  <2>2. Sealed(last)' = sealed BY <1>1, <1>17, <2>1 DEF Sealed
  <2>3. messages'[last].text.upto = a.upto /\ messages'[last].text.from = a.from
    BY <1>1, <1>14, <1>17, <2>1
  <2>4. \A i \in DOMAIN messages \ {last} :
          messages'[i].text = messages[i].text /\ Sealed(i)' = Sealed(i)
    BY <1>15, <2>1
  <2>7. PICK page : page = [from |-> a.from, upto |-> a.upto, sealed |-> sealed]
    OBVIOUS
  <2>8. page = [from |-> messages'[last].text.from, upto |-> messages'[last].text.upto,
                sealed |-> Sealed(last)']
    BY <2>2, <2>3, <2>7
  <2>5. /\ Len(Pages) = last /\ Pages[last].from = messages[last].text.from
        /\ Pages[last].upto = messages[last].text.upto
        /\ Pages[last].sealed = Sealed(last)
        /\ Pages' = [Pages EXCEPT ![last] = page]
    BY <1>13, <2>1, <2>4, <2>8, LastPageRewritten
  <2>6. QED BY <2>1, <2>5, <2>7
<1>18. ASSUME messages'[current].text = messages[current].text, UNCHANGED sawFinalize
       PROVE  Pages' = Pages
  <2>1. \A i \in DOMAIN messages : messages'[i].text = messages[i].text BY <1>13, <1>18
  <2>2. QED BY <1>1, <1>13, <1>18, <2>1, SamePages
<1>19. SavedInv'
  <2>1. CASE SeveralPages
    <3>1. CASE Len(messages) > 1 BY <1>13, <3>1 DEF SavedInv, SeveralPages
    <3>2. CASE current = 1 /\ messages[1].text.from # 0
      <4>1. messages'[1].text.from \in {a.from, messages[1].text.from}
        BY <1>13, <1>14, <3>2
      <4>2. messages'[1].text.from # 0 BY <1>7, <1>10, <1>21, <3>2, <4>1
      <4>3. QED BY <4>2 DEF SavedInv, SeveralPages
    <3>3. QED BY <1>10, <2>1, <3>1, <3>2 DEF SeveralPages
  <2>2. CASE ~SeveralPages BY <1>1, <2>2 DEF SavedInv
  <2>3. QED BY <2>1, <2>2
<1>11. ASSUME actions' = <<>>, Tail(actions) = <<>>, messages'[current].text = Text(a),
              sawFinalize' \/ ~a.final
       PROVE  Aligned'
  <2>1. Ends(a, state) BY <1>3, <1>11
  <2>2. a.from = state.start BY <2>1 DEF Ends
  <2>3. ~state.finished => ~a.final BY <1>7, <2>1 DEF Ends
  <2>4. state.finished => a.final /\ (state.truncated \/ a.upto = Received)
    BY <1>1, <1>7, <2>1 DEF Ends, Received
  <2>5. messages'[current'].text.from = state'.start BY <1>1, <1>8, <1>11, <1>14, <2>2
  <2>6. ~state'.finished => ~Sealed(current)' BY <1>1, <1>8, <1>11, <1>14, <2>3 DEF Sealed
  <2>7. state'.finished =>
          /\ messages'[current'].text.final
          /\ (state'.truncated \/ messages'[current'].text.upto = Received')
    BY <1>1, <1>8, <1>9, <1>11, <1>14, <2>4
  <2>8. QED BY <1>11, <2>5, <2>6, <2>7 DEF Aligned
<1>22. CASE ~Astray /\ actions' = Tail(actions) /\ UNCHANGED <<failure, pc>>
  <2>1. \/ messages'[current].text = Text(a) /\ sawFinalize' = (sawFinalize \/ a.final)
        \/ /\ ~a.final /\ sawFinalize' = sawFinalize
           /\ messages'[current].text \in {Text(a), messages[current].text}
    <3>1. CASE /\ ok /\ Patched(a) /\ sawFinalize' = (sawFinalize \/ a.final)
      <4>1. messages'[current].text = Text(a) BY <1>10, <3>1 DEF Patched
      <4>2. QED BY <3>1, <4>1
    <3>2. CASE ~ok
      <4>1. pc' = "done" \/ ~a.final BY <1>6, <3>2 DEF GiveUp
      <4>2. ~a.final /\ sawFinalize' = sawFinalize BY <1>1, <1>6, <1>22, <3>2, <4>1
      <4>3. QED BY <1>13, <4>2
    <3>3. QED BY <1>6, <3>1, <3>2
  <2>2. Outcome = "open" /\ Outcome' = "open" BY <1>1, <1>22 DEF Outcome, Astray
  <2>3. ~Astray' BY <1>1, <1>22 DEF Astray
  <2>4. Working' BY <1>1, <1>22 DEF Working
  <2>9. messages[current].text.from = a.from /\ ~Sealed(current) BY <1>5, <1>22
  <2>5. CASE messages'[current].text = Text(a)
    <3>1. sawFinalize' \in BOOLEAN /\ (a.final => sawFinalize') BY <1>1, <1>7, <2>1
    <3>2. Sealed(current)' <=> a.final BY <1>1, <1>14, <2>5, <3>1 DEF Sealed
    <3>3. Sealed(current)' = a.final BY <1>7, <3>2 DEF Sealed
    <3>4. Answer!Write
      <4>1. /\ Len(Pages) = current /\ Pages[current].from = a.from
            /\ ~Pages[current].sealed
            /\ Pages' = [Pages EXCEPT ![current] = [from |-> a.from, upto |-> a.upto,
                                                    sealed |-> a.final]]
        BY <1>7, <1>17, <2>5, <2>9, <3>3
      <4>2. Pages' = [Pages EXCEPT ![Len(Pages)] = [from |-> Pages[Len(Pages)].from,
                                                    upto |-> a.upto, sealed |-> a.final]]
        BY <4>1
      <4>3. a.upto \in Pages[Len(Pages)].from .. Received BY <1>7, <1>10, <4>1
      <4>4. QED BY <1>7, <4>1, <4>2, <4>3 DEF Answer!Write, Answer!LastPage
    <3>5. Answer!Next
      BY <1>8, <1>9, <2>2, <3>4 DEF Answer!Next, Answer!Show
    <3>6. Aligned'
      <4>1. CASE actions' = <<>> BY <1>11, <1>22, <2>5, <3>1, <4>1
      <4>2. CASE actions' # <<>>
        <5>1. Follows(a, Head(actions')) BY <1>3, <1>22, <4>2
        <5>2. a.action = "finalize" BY <1>1, <1>4, <1>22, <4>2
        <5>3. /\ Head(actions').action = "start_continuation"
              /\ Head(actions').from - a.upto \in {0, 1}
          BY <5>1, <5>2 DEF Follows
        <5>4. Sealed(current)' BY <1>7, <3>2, <5>2
        <5>5. messages'[current'].text.upto = a.upto BY <1>1, <1>14, <2>5
        <5>6. QED BY <4>2, <5>3, <5>4, <5>5 DEF Aligned
      <4>3. QED BY <4>1, <4>2
    <3>7. PageInv'
      BY <1>1, <1>7, <1>10, <1>13, <1>14, <2>3, <2>5, <3>1, <3>6 DEF PageInv
    <3>8. QED BY <1>19, <3>5, <3>7 DEF Implements
  <2>6. CASE messages'[current].text # Text(a)
    <3>1. /\ ~a.final /\ sawFinalize' = sawFinalize
          /\ messages'[current].text = messages[current].text
      BY <2>1, <2>6
    <3>2. Pages' = Pages BY <1>18, <3>1
    <3>3. a.action = "patch" /\ actions' = <<>> BY <1>1, <1>4, <1>7, <1>22, <3>1
    <3>4. a.from = state.start /\ ~state.finished BY <1>3, <1>22, <3>3 DEF Ends
    <3>5. ~Sealed(current)' BY <1>1, <2>9, <3>1 DEF Sealed
    <3>6. Aligned' BY <1>1, <1>8, <2>9, <3>1, <3>3, <3>4, <3>5 DEF Aligned
    <3>7. PageInv' BY <1>1, <1>10, <1>13, <2>3, <3>1, <3>6 DEF PageInv
    <3>8. UNCHANGED Answer!answerVars BY <1>8, <1>9, <2>2, <3>2, Unseen
    <3>9. QED BY <1>19, <3>7, <3>8 DEF Implements
  <2>7. QED BY <2>5, <2>6
<1>23. CASE ~Astray /\ a.final /\ GiveUp /\ UNCHANGED sawFinalize
  <2>1. PageInv' BY <1>23 DEF PageInv, Working, GiveUp
  <2>2. Outcome = "open" BY <1>1, <1>23 DEF Outcome
  <2>3. Outcome' = "failed" BY <1>1, <1>23 DEF Outcome, Ok, GiveUp
  <2>9. messages[current].text.from = a.from /\ ~Sealed(current) BY <1>5, <1>23
  <2>4. Answer!Write \/ Pages' = Pages
    <3>1. CASE messages'[current].text = Text(a)
      <4>1. PICK sealed \in BOOLEAN : Sealed(current)' = sealed
        <5>1. Sealed(current)' \in BOOLEAN BY DEF Sealed
        <5>2. QED BY <5>1
      <4>2. /\ Len(Pages) = current /\ Pages[current].from = a.from
            /\ ~Pages[current].sealed
            /\ Pages' = [Pages EXCEPT ![current] = [from |-> a.from, upto |-> a.upto,
                                                    sealed |-> sealed]]
        BY <1>17, <2>9, <3>1, <4>1
      <4>3. Pages' = [Pages EXCEPT ![Len(Pages)] = [from |-> Pages[Len(Pages)].from,
                                                    upto |-> a.upto, sealed |-> sealed]]
        BY <4>2
      <4>4. a.upto \in Pages[Len(Pages)].from .. Received BY <1>7, <1>10, <4>2
      <4>5. QED BY <4>2, <4>3, <4>4 DEF Answer!Write, Answer!LastPage
    <3>2. CASE messages'[current].text = messages[current].text BY <1>18, <1>23, <3>2
    <3>3. QED BY <1>13, <3>1, <3>2
  <2>5. QED
    BY <1>8, <1>9, <1>19, <2>1, <2>2, <2>3, <2>4
    DEF Implements, Answer!Next, Answer!Fail
<1>24. CASE Astray
  <2>1. /\ a.final /\ Tail(actions) = <<>> /\ failure /\ Astray' /\ Outcome = "astray"
    BY <1>1, <1>7, <1>20, <1>24 DEF Outcome, Astray
  <2>2. Outcome' = "failed"
    <3>1. CASE actions' = <<>> /\ pc' = pc BY <1>1, <2>1, <3>1 DEF Outcome
    <3>2. CASE pc' = "done" /\ failure' BY <1>1, <3>2 DEF Outcome, Ok
    <3>3. QED BY <1>6, <2>1, <3>1, <3>2 DEF GiveUp
  <2>3. /\ messages[current].text.from <= a.from
        /\ Sealed(current) => messages[current].text.upto <= a.from
    BY <1>20, <1>24 DEF Stray, a
  <2>4. PICK sealed \in BOOLEAN : Sealed(current)' = sealed
    <3>1. Sealed(current)' \in BOOLEAN BY DEF Sealed
    <3>2. QED BY <3>1
  <2>5. messages'[current].text = Text(a) => (Sealed(current) => sealed)
    <3>1. sawFinalize => sawFinalize' BY <1>6
    <3>2. restarts' = restarts /\ current' = current BY <1>1
    <3>3. QED BY <1>14, <2>1, <2>4, <3>1, <3>2 DEF Sealed
  <2>6. CASE messages'[current].text = Text(a)
    <3>1. /\ Len(Pages) = current /\ Pages[current].from = messages[current].text.from
          /\ Pages[current].upto = messages[current].text.upto
          /\ Pages[current].sealed = Sealed(current)
          /\ Pages' = [Pages EXCEPT ![current] = [from |-> a.from, upto |-> a.upto,
                                                  sealed |-> sealed]]
      BY <1>17, <2>4, <2>6
    <3>2. Answer!Overwrite
      <4>1. a.from \in Pages[Len(Pages)].from .. Received /\ a.upto \in a.from .. Received
        BY <1>7, <1>10, <2>3, <3>1
      <4>2. Pages[Len(Pages)].sealed => sealed /\ a.from >= Pages[Len(Pages)].upto
        BY <1>7, <1>10, <2>3, <2>5, <2>6, <3>1
      <4>3. QED BY <3>1, <4>1, <4>2 DEF Answer!Overwrite, Answer!LastPage
    <3>3. Answer!FailAstray
      BY <1>8, <1>9, <2>1, <2>2, <3>2 DEF Answer!FailAstray
    <3>4. PageInv'
      <4>1. CASE pc' = "done" BY <4>1 DEF PageInv, Working
      <4>2. CASE pc' # "done"
        <5>1. actions' = <<>> /\ sawFinalize' BY <1>6, <2>1, <4>2 DEF GiveUp
        <5>2. Aligned' BY <1>11, <2>1, <2>6, <5>1
        <5>3. QED BY <1>1, <1>7, <1>10, <1>13, <1>14, <2>6, <5>1, <5>2 DEF PageInv
      <4>3. QED BY <4>1, <4>2
    <3>5. QED BY <1>19, <3>3, <3>4 DEF Implements, Answer!Next
  <2>7. CASE PatchRefused /\ messages'[current].text # Text(a)
    <3>1. ~ok /\ GiveUp /\ UNCHANGED sawFinalize
      <4>1. ~Patched(a) BY <1>10, <2>7 DEF Patched
      <4>2. QED BY <1>6, <2>1, <4>1
    <3>2. Pages' = Pages BY <1>13, <1>18, <2>7, <3>1
    <3>3. PageInv' BY <3>1 DEF PageInv, Working, GiveUp
    <3>4. Answer!FailAstray BY <1>8, <1>9, <2>1, <2>2, <3>2 DEF Answer!FailAstray
    <3>5. QED BY <1>19, <3>3, <3>4 DEF Implements, Answer!Next
  <2>8. QED BY <1>13, <2>6, <2>7
<1>25. QED BY <1>6, <1>22, <1>23, <1>24

(* A request throws: where the driver was between two pages, it goes       *)
(* astray.                                                                 *)
LEMMA RequestThrowsAnswers ==
  ASSUME AnswerInv, DriverInv', ~mixed, Applying, RequestThrows(Head(actions))
  PROVE  AnswerParts' /\ Implements
<1> USE DEF AnswerInv, AnswerParts
<1> DEFINE a == Head(actions)
<1>1. /\ pc = "apply" /\ actions # <<>> /\ Working /\ state \in State /\ Throws(a.action)
      /\ actions \in Seq(Action) /\ Batch(actions, state) /\ running = "none"
      /\ UNCHANGED <<saved, restarts, sawFinalize, messages, current, mixed>>
  BY DEF Applying, RequestThrows, DriverInv, BatchInv, TypeOK, Working
<1>2. SavedInv' BY <1>1 DEF SavedInv, SeveralPages
<1>3. CASE event # "chunk"
  <2>1. pc' = "rejected" /\ state' = state /\ ~Working'
    BY <1>1, <1>3 DEF Throws, Reject, Working
  <2>2. Outcome' = "failed" BY <1>1, <2>1 DEF Outcome
  <2>3. QED BY <1>1, <1>2, <2>1, <2>2, Fails
<1>4. CASE event = "chunk"
  <2>1. /\ OnError /\ pc' = "apply" /\ thrown' = a.action /\ ~state.finished
        /\ Working'
    BY <1>1, <1>4 DEF Throws, Caught, DriverInv, PhaseInv, Working
  <2>2. thrown = "none" /\ ~Astray
    <3>1. event # "error" BY <1>4
    <3>2. QED BY <1>1, <3>1, NotThrown DEF Astray
  <2>3. PICK b \in Action :
          actions' = <<b>> /\ b.action = "finalize" /\ b.from = state.start
    BY <1>1, <2>1, ErrorReacts DEF DriverInv, BudgetInv
  <2>4. state'.start = state.start /\ Received' = Received
    <3>1. Reacts(0) BY <1>1, <2>1, ErrorReacts DEF DriverInv, BudgetInv
    <3>2. PICK s \in State : /\ s.start = state.start /\ s.content = state.content + 0
                             /\ Advanced(s, <<>>)
      BY <3>1 DEF Reacts
    <3>3. state.start \in Nat /\ state.content \in Nat BY <1>1, StateTypes
    <3>4. QED BY <3>2, <3>3 DEF Advanced, Received
  <2>5. actions' # <<>> /\ Head(actions') = b BY <2>3
  <2>6. Pages' = Pages /\ Sealed(current)' = Sealed(current)
    BY <1>1, SamePages DEF Sealed
  <2>7. Aligned BY <1>1, <2>2 DEF PageInv
  <2>8. state'.truncated \in BOOLEAN BY StateTypes DEF DriverInv, TypeOK
  <2>9. Outcome = "open" BY <1>1, <2>2 DEF Outcome
  <2>10. /\ a \in Action /\ a.action \in {"patch", "finalize", "start_continuation"}
         /\ a.from \in Nat /\ state.start \in Nat
    <3>1. a \in Action BY <1>1
    <3>2. QED BY <1>1, <3>1, StateTypes DEF Action
  <2>11. CASE a.action = "patch"
    <3>1. a.from = state.start
      <4>1. Tail(actions) = <<>> BY <1>1, <2>11, OnlyPatch
      <4>2. QED BY <1>1, <4>1, TailBatch DEF Ends
    <3>2. messages[current].text.from = state.start /\ ~Sealed(current)
      BY <1>1, <2>7, <2>11, <3>1 DEF Aligned
    <3>3. Aligned' BY <1>1, <2>3, <2>5, <2>6, <3>2 DEF Aligned
    <3>4. ~Astray' BY <2>1, <2>11 DEF Astray
    <3>5. PageInv' BY <1>1, <3>3, <3>4 DEF PageInv
    <3>6. Received <= Received' BY <2>4, PagesAre DEF DriverInv
    <3>7. Answer!Next BY <1>1, <2>1, <2>2, <3>4, <3>6, Receives
    <3>8. QED BY <1>2, <3>5, <3>7 DEF Implements
  <2>12. CASE a.action \in {"finalize", "start_continuation"}
    <3>1. a.from <= state.start BY <1>1, TailBatch
    <3>2. /\ messages[current].text.from \in Nat /\ messages[current].text.upto \in Nat
          /\ messages[current].text.from <= messages[current].text.upto
      <4>1. messages[current].text \in TextRecord BY PagesAre DEF DriverInv, TypeOK
      <4>2. QED BY <1>1, <4>1 DEF TextRecord, PageInv
    <3>3. /\ messages[current].text.from <= state.start
          /\ Sealed(current) => messages[current].text.upto <= state.start
      <4>1. CASE a.action = "finalize"
        <5>1. messages[current].text.from = a.from /\ ~Sealed(current)
          BY <1>1, <2>7, <4>1 DEF Aligned
        <5>2. QED BY <3>1, <5>1
      <4>2. CASE a.action = "start_continuation"
        <5>1. a.from - messages[current].text.upto \in {0, 1}
          BY <1>1, <2>7, <4>2 DEF Aligned
        <5>2. messages[current].text.upto <= a.from BY <2>10, <3>2, <5>1
        <5>3. QED BY <2>10, <3>1, <3>2, <5>2
      <4>3. QED BY <2>12, <4>1, <4>2
    <3>4. Stray' BY <1>1, <2>3, <2>5, <2>6, <3>3 DEF Stray
    <3>5. Astray' BY <2>1, <2>12 DEF Astray
    <3>6. PageInv' BY <1>1, <2>5, <3>4, <3>5 DEF PageInv
    <3>7. Outcome' = "astray" BY <1>1, <2>1, <2>5, <3>5 DEF Outcome
    <3>8. Answer!GoAstray BY <2>4, <2>6, <2>8, <2>9, <3>7 DEF Answer!GoAstray
    <3>9. QED BY <1>2, <3>6, <3>8 DEF Implements, Answer!Next
  <2>13. QED BY <2>10, <2>11, <2>12
<1>5. QED BY <1>3, <1>4

LEMMA EnvironmentAnswers ==
  ASSUME AnswerInv, ~mixed, RequestCancel \/ Crash \/ UNCHANGED vars
  PROVE  AnswerParts' /\ Implements
<1> USE DEF AnswerInv, AnswerParts, DriverInv
<1>1. CASE RequestCancel \/ UNCHANGED vars
  <2>1. /\ UNCHANGED <<state, actions, messages, current, saved, sawFinalize, restarts>>
        /\ UNCHANGED <<pc, event, failure, thrown, mixed>>
    BY <1>1 DEF RequestCancel, vars, schedulerVars, driverVars, environmentVars
  <2>2. AnswerParts' /\ Pages' = Pages /\ Received' = Received
    BY <2>1, Quiet DEF Working
  <2>3. Outcome' = Outcome BY <2>1 DEF Outcome, Ok, Astray
  <2>4. QED BY <2>1, <2>2, <2>3, Unseen DEF Implements
<1>2. CASE Crash
  <2>1. /\ Working /\ pc' = "down" /\ restarts' = restarts + 1
        /\ UNCHANGED <<state, actions, messages, current, saved, sawFinalize, thrown, mixed>>
    BY <1>2 DEF Crash, Working, schedulerVars
  <2>2. restarts \in Nat BY DEF TypeOK
  <2>3. Received' = Received BY <2>1 DEF Received
  <2>4. PageInv' BY <2>1 DEF PageInv, Working
  <2>5. SavedInv' BY <2>1 DEF SavedInv, SeveralPages
  <2>6. Outcome' = Outcome BY <2>1 DEF Outcome, Working, Astray
  <2>7. \A i \in DOMAIN messages : Sealed(i)' = Sealed(i)
    <3>1. restarts = 0 /\ messages[current].text.final => sawFinalize BY <2>1 DEF PageInv
    <3>2. restarts + 1 > 0 /\ (restarts = 0 \/ restarts > 0) BY <2>2
    <3>3. QED BY <2>1, <3>1, <3>2 DEF Sealed
  <2>8. Pages' = Pages BY <2>1, <2>7 DEF Pages
  <2>9. QED BY <2>1, <2>3, <2>4, <2>5, <2>6, <2>8, Unseen DEF Implements
<1>3. QED BY <1>1, <1>2

(* A page that a resumed run rewrites is no longer sealed.                 *)
LEMMA Unsealed ==
  ASSUME TypeOK, DOMAIN messages' = DOMAIN messages, Len(messages) = 1,
         messages'[1].text = messages[1].text, Sealed(1)' = FALSE
  PROVE  /\ Len(Pages) = 1 /\ Pages[1].from = messages[1].text.from
         /\ Pages[1].upto = messages[1].text.upto
         /\ Pages' = <<[from |-> messages[1].text.from, upto |-> messages[1].text.upto,
                        sealed |-> FALSE]>>
<1>1. /\ DOMAIN messages = 1..1 /\ Len(Pages) = 1 /\ Pages \in Seq(Answer!Page)
      /\ Pages[1] = [from |-> messages[1].text.from, upto |-> messages[1].text.upto,
                     sealed |-> Sealed(1)]
  BY PagesAre
<1> DEFINE page == [from |-> messages[1].text.from, upto |-> messages[1].text.upto,
                    sealed |-> FALSE]
<1>2. Pages' = [i \in 1..1 |-> page]
  <2>1. Pages' = [i \in 1..1 |-> [from |-> messages'[i].text.from,
                                  upto |-> messages'[i].text.upto, sealed |-> Sealed(i)']]
    BY <1>1 DEF Pages
  <2>2. \A i \in 1..1 : [from |-> messages'[i].text.from, upto |-> messages'[i].text.upto,
                         sealed |-> Sealed(i)'] = page
    <3>1. \A i \in 1..1 : i = 1 OBVIOUS
    <3>2. QED BY <3>1 DEF Sealed
  <2>3. QED BY <2>1, <2>2
<1> HIDE DEF page
<1>3. <<page>> = [i \in 1..1 |-> page] OBVIOUS
<1>4. Pages[1].from = messages[1].text.from /\ Pages[1].upto = messages[1].text.upto
  BY <1>1
<1>5. QED BY <1>1, <1>2, <1>3, <1>4 DEF page

LEMMA ResumeAnswers ==
  ASSUME AnswerInv, DriverInv', ~mixed, Resume
  PROVE  AnswerParts' /\ Implements
<1> USE DEF AnswerInv, AnswerParts
<1>1. /\ actions' = <<>> /\ pc' = "pull" /\ event' = "chunk"
      /\ failure' = FALSE /\ sawFinalize' = FALSE /\ current' = 1 /\ thrown' = "none"
      /\ messages' = [i \in DOMAIN messages |-> Message(messages[i].text)]
      /\ UNCHANGED saved /\ mixed' = SeveralPages
      /\ pc = "down" \/ (pc = "done" /\ failure) \/ pc = "rejected"
      /\ restarts' = IF pc = "down" THEN restarts ELSE restarts + 1
  BY DEF Resume, SeveralPages
<1>2. Outcome \in {"open", "astray", "failed"} BY <1>1 DEF Outcome, Ok
<1>3. /\ DOMAIN messages = 1..Len(messages) /\ Len(messages) \in Nat \ {0}
      /\ Len(Pages) = Len(messages)
      /\ \A i \in DOMAIN messages :
           /\ Pages[i] = [from |-> messages[i].text.from, upto |-> messages[i].text.upto,
                          sealed |-> Sealed(i)]
           /\ messages[i].text \in TextRecord
  BY PagesAre DEF DriverInv
<1>4. CASE SeveralPages
  <2>1. PageInv' /\ SavedInv' BY <1>1, <1>4 DEF PageInv, SavedInv
  <2>2. Outcome' = "muddled" BY <1>1, <1>4 DEF Outcome
  <2>3. ~Answer!SinglePage
    <3>1. CASE Len(messages) > 1 BY <1>3, <3>1 DEF Answer!SinglePage
    <3>2. CASE Len(messages) = 1 /\ messages[1].text.from # 0
      <4>1. Pages[Len(Pages)].from # 0 BY <1>3, <3>2
      <4>2. QED BY <4>1 DEF Answer!SinglePage, Answer!LastPage
    <3>3. QED BY <1>3, <1>4, <3>1, <3>2 DEF SeveralPages
  <2>4. Answer!TakeUpMuddled BY <1>2, <2>2, <2>3 DEF Answer!TakeUpMuddled
  <2>5. QED BY <2>1, <2>4 DEF Implements, Answer!Next
<1>5. CASE ~SeveralPages
  <2>1. /\ Len(messages) = 1 /\ messages[1].text.from = 0 /\ \A s \in saved : s.start = 0
        /\ DOMAIN messages = 1..1 /\ ~mixed'
    <3>1. Len(messages) = 1 /\ messages[1].text.from = 0 BY <1>3, <1>5 DEF SeveralPages
    <3>2. DOMAIN messages = 1..1 BY <1>3, <3>1
    <3>3. \A s \in saved : s.start = 0 BY <1>5 DEF SavedInv
    <3>4. ~mixed' BY <1>1, <1>5
    <3>5. QED BY <3>1, <3>2, <3>3, <3>4
  <2>2. restarts' > 0
    <3>1. restarts \in Nat /\ (pc = "down" => restarts > 0)
      BY DEF DriverInv, TypeOK, HistoryInv
    <3>2. QED BY <1>1, <3>1
  <2>3. state'.start = 0 /\ Received' \in Nat
    <3>1. Received' \in Nat
      <4>1. state' \in State BY DEF DriverInv, TypeOK
      <4>2. QED BY <4>1, StateTypes DEF Received
    <3>2. CASE saved = {}
      <4>1. PICK space \in Spaces : state' = CreateState(ResolvedOverflow(state.overflow, space))
        BY <3>2 DEF Resume
      <4>2. state'.start = 0 BY <4>1 DEF CreateState
      <4>3. QED BY <3>1, <4>2
    <3>3. CASE saved # {}
      <4>1. state' \in saved BY <3>3 DEF Resume
      <4>2. QED BY <2>1, <3>1, <4>1
    <3>4. QED BY <3>2, <3>3
  <2>4. /\ DOMAIN messages' = DOMAIN messages /\ Len(messages') = 1
        /\ messages'[1].text = messages[1].text
    <3>1. DOMAIN messages' = 1..1 BY <1>1, <2>1
    <3>2. messages' \in Seq(MessageRecord) BY DEF DriverInv, TypeOK, MessageRecord, TextRecord
    <3>3. messages'[1] = Message(messages[1].text) BY <1>1, <2>1
    <3>4. QED BY <2>1, <3>1, <3>2, <3>3 DEF Message
  <2>5. messages[1].text.from \in Nat /\ messages[1].text.upto \in Nat
    BY <1>3, <2>1 DEF TextRecord
  <2>6. Sealed(1)' = FALSE BY <1>1, <2>2 DEF Sealed
  <2>7. PageInv' /\ SavedInv'
    <3>1. messages[1].text.from <= messages[1].text.upto BY <2>1, <2>5
    <3>2. ~Sealed(current)' BY <1>1, <2>2 DEF Sealed
    <3>3. Aligned' BY <1>1, <2>1, <2>3, <2>4, <3>2 DEF Aligned
    <3>4. DOMAIN messages' \ {current'} = {} BY <1>1, <2>1, <2>4
    <3>5. PageInv' BY <1>1, <2>2, <2>4, <3>1, <3>3, <3>4 DEF PageInv
    <3>6. SavedInv' BY <1>1, <2>1 DEF SavedInv
    <3>7. QED BY <3>5, <3>6
  <2>8. /\ Len(Pages) = 1 /\ Pages[1].from = 0
        /\ Pages' = <<[from |-> 0, upto |-> Pages[1].upto, sealed |-> FALSE]>>
    BY <2>1, <2>4, <2>6, Unsealed DEF DriverInv
  <2>9. Outcome' = "open" BY <1>1, <2>1 DEF Outcome, Astray
  <2>10. state'.truncated \in BOOLEAN BY StateTypes DEF DriverInv, TypeOK
  <2>11. Answer!SinglePage BY <2>8 DEF Answer!SinglePage, Answer!LastPage
  <2>12. Answer!TakeUpAgain
    BY <1>2, <2>3, <2>8, <2>9, <2>10, <2>11 DEF Answer!TakeUpAgain, Answer!LastPage
  <2>13. QED BY <2>7, <2>12 DEF Implements, Answer!Next
<1>6. QED BY <1>4, <1>5

(* Nothing more is promised of an answer of several pages that was resumed.*)
LEMMA MixedAnswers ==
  ASSUME mixed, [Next]_vars
  PROVE  AnswerParts' /\ Implements
<1>1. mixed'
  BY DEF Next, Driver, PullChunk, StreamEnds, StreamThrows, Close, KeepSplitting, ApplyAction,
     EmitState, RequestCancel, Crash, Resume, vars, environmentVars
<1>2. PageInv' /\ SavedInv' BY <1>1 DEF PageInv, SavedInv
<1>3. Outcome = "muddled" /\ Outcome' = "muddled" BY <1>1 DEF Outcome
<1>4. Answer!StayMuddled BY <1>3 DEF Answer!StayMuddled
<1>5. QED BY <1>2, <1>4 DEF AnswerParts, Implements, Answer!Next

LEMMA InitAnswers == Init => AnswerInv /\ Answer!Init
<1> SUFFICES ASSUME Init PROVE AnswerInv /\ Answer!Init
  OBVIOUS
<1>1. PICK space \in Spaces, asked \in Overflow :
        hasSpace = space /\ state = CreateState(ResolvedOverflow(asked, space))
  BY DEF Init
<1>2. ResolvedOverflow(asked, space) \in {"truncate", "split"}
  BY DriverAssumption DEF ResolvedOverflow
<1>3. /\ state.start = 0 /\ state.content = 0 /\ ~state.finished
      /\ state.truncated = FALSE
  BY <1>1, <1>2, Created DEF CreateState
<1>4. Received = 0 BY <1>3 DEF Received
<1>5. /\ messages = <<Message(NoText(0))>> /\ current = 1 /\ saved = {} /\ actions = <<>>
      /\ restarts = 0 /\ pc = "pull" /\ event = "chunk" /\ thrown = "none" /\ ~mixed
  BY DEF Init
<1>6. /\ Len(messages) = 1 /\ DOMAIN messages = 1..1 /\ messages[1].text = NoText(0)
      /\ messages[1].text.from = 0 /\ messages[1].text.upto = 0
      /\ messages[1].text.final = FALSE
  <2>1. Message(NoText(0)).text = NoText(0) BY DEF Message
  <2>2. NoText(0).from = 0 /\ NoText(0).upto = 0 /\ NoText(0).final = FALSE BY DEF NoText
  <2>3. Len(messages) = 1 /\ DOMAIN messages = 1..1 /\ messages[1] = Message(NoText(0))
    BY <1>5
  <2>4. QED BY <2>1, <2>2, <2>3
<1>7. Sealed(1) = FALSE BY <1>6 DEF Sealed
<1>8. PageInv BY <1>3, <1>5, <1>6, <1>7 DEF PageInv, Aligned, Astray
<1>9. SavedInv BY <1>5 DEF SavedInv
<1>10. AnswerInv BY <1>8, <1>9, DriverInit DEF AnswerInv, AnswerParts
<1>11. Pages = <<[from |-> 0, upto |-> 0, sealed |-> FALSE]>>
  <2> DEFINE page == [from |-> 0, upto |-> 0, sealed |-> FALSE]
  <2>1. \A i \in DOMAIN messages :
          [from |-> messages[i].text.from, upto |-> messages[i].text.upto,
           sealed |-> Sealed(i)] = page
    <3> SUFFICES ASSUME NEW i \in DOMAIN messages
                 PROVE  [from |-> messages[i].text.from, upto |-> messages[i].text.upto,
                         sealed |-> Sealed(i)] = page
      OBVIOUS
    <3>1. i = 1 BY <1>6
    <3>2. messages[i].text.from = 0 /\ messages[i].text.upto = 0 BY <1>6, <3>1
    <3>3. Sealed(i) = FALSE BY <1>7, <3>1
    <3>4. QED BY <3>2, <3>3
  <2> HIDE DEF page
  <2>2. Pages = [i \in 1..1 |-> page] BY <1>6, <2>1 DEF Pages
  <2>3. <<page>> = [i \in 1..1 |-> page] OBVIOUS
  <2>4. QED BY <2>2, <2>3 DEF page
<1>12. Outcome = "open" BY <1>5 DEF Outcome, Astray
<1>13. QED BY <1>3, <1>4, <1>10, <1>11, <1>12 DEF Answer!Init

LEMMA NextAnswers == AnswerInv /\ [Next]_vars => AnswerInv' /\ Implements
<1> SUFFICES ASSUME AnswerInv, [Next]_vars PROVE AnswerInv' /\ Implements
  OBVIOUS
<1>1. DriverInv' BY DriverNext DEF AnswerInv
<1>2. AnswerParts' /\ Implements
  <2>1. CASE mixed BY <2>1, MixedAnswers
  <2>2. CASE ~mixed /\ ApplyAction
    BY <1>1, <2>2, StartContinuationAnswers, PatchMessageAnswers, RequestThrowsAnswers
       DEF ApplyAction, Requested, Applying
  <2>3. CASE ~mixed /\ ~ApplyAction
    BY <1>1, <2>3, PullChunkAnswers, EndingAnswers, KeepSplittingAnswers, EmitStateAnswers,
       EnvironmentAnswers, ResumeAnswers DEF Next, Driver
  <2>4. QED BY <2>1, <2>2, <2>3
<1>3. QED BY <1>1, <1>2 DEF AnswerInv

(* Whatever fails, throws, is cancelled or dies: the readers see pages     *)
(* that grow, are sealed and stay, each taking up the text where the last  *)
(* one stopped, and a report that says ok means they show the whole answer *)
(* or admit the cut; with the two exceptions StreamedAnswer names, a run   *)
(* that goes astray and fails, and an answer of several pages resumed.     *)
THEOREM StreamImplements == Spec => ImplementsAnswer
<1>1. Init => AnswerInv /\ Answer!Init BY InitAnswers
<1>2. AnswerInv /\ [Next]_vars => AnswerInv' /\ [Answer!Next]_(Answer!answerVars)
  BY NextAnswers DEF Implements
<1>3. QED BY <1>1, <1>2, PTL DEF Spec, ImplementsAnswer, Answer!Spec
=============================================================================
