------------------------ MODULE ConversationContext ------------------------
(***************************************************************************)
(* packages/node/src/threads/index.ts: buildConversationContext makes one  *)
(* context of the pages of a thread or a space, with what its messages     *)
(* quote, and projectModelContext walks it with a stack and hands a model  *)
(* so many fragments of so many characters of it.  A text is its length, a *)
(* note has one character.  Messages have names.  Senders, relationships,  *)
(* wording and redaction are left out; attachments have no text, as they   *)
(* are built.                                                              *)
(***************************************************************************)
EXTENDS Integers, SequencesExt, FiniteSetsExt

CONSTANTS
  RawMessages,    \* messages as they come, and what they quote
  ContextInputs   \* [pages, thread, limit, desc, maxQuoteDepth, tokens, options]

VARIABLES
  contextInput,
  context,      \* the conversation context
  projection    \* the accumulator and the messages that are pending

contextVars == <<contextInput, context, projection>>

NoText == -1

NoBudget == -1

(* A message of a page: notes counts those of its sender, its cards and    *)
(* its reactions, and created is when it came, of which order is made.  It *)
(* quotes messages whole (quotes), and one by its name and age, which may  *)
(* come with the message or with a snapshot of its text (metadata).        *)
QuotedMetadata ==
  [name : STRING, updated : Nat, message : Seq(RawMessages), snapshot : Seq(Nat)]

RawMessage ==
  [name : STRING, created : Nat, updated : Nat, chars : Nat, notes : Nat, attachments : Nat,
   quotes : Seq(RawMessages), metadata : Seq(QuotedMetadata)]

SnapshotMessage(metadata, chars) ==
  [name |-> metadata.name, created |-> metadata.updated, updated |-> metadata.updated,
   chars |-> chars, notes |-> 1, attachments |-> 0, quotes |-> <<>>, metadata |-> <<>>]

(* A page holds messages, or an error, and says whether more follow.       *)
Page == [messages : Seq(RawMessages), error : BOOLEAN, more : BOOLEAN]

ContextOptions ==
  [maxTextChars : Nat \ {0}, maxTotalTextChars : Nat \ {0}, maxFragments : Nat \ {0},
   maxQuoteDepth : Nat]

ASSUME ContextAssumption ==
  /\ \A raw \in RawMessages :
       /\ raw \in RawMessage
       /\ \A data \in Range(raw.metadata) : \A chars \in Range(data.snapshot) :
            SnapshotMessage(data, chars) \in RawMessages
  /\ \A input \in ContextInputs :
       /\ input.pages \in Seq(Page) \ {<<>>}
       /\ input.limit \in Nat /\ input.maxQuoteDepth \in Nat /\ input.options \in ContextOptions

---------------------------------------------------------------------------
(* What a message quotes.                                                  *)

AllMessages == FlattenSeq([i \in DOMAIN contextInput.pages |-> contextInput.pages[i].messages])

(* The last message of that name, unless it was edited since.              *)
LookupQuotedMessage(metadata) ==
  LET messages == AllMessages
      named == {i \in DOMAIN messages : messages[i].name = metadata.name}
      found == messages[Max(named)]
  IN IF named # {} /\ found.updated = metadata.updated THEN <<found>> ELSE <<>>

QuotedSnapshotMessage(metadata) ==
  LET found == LookupQuotedMessage(metadata)
  IN IF metadata.message # <<>> THEN metadata.message
     ELSE IF found # <<>> THEN found
     ELSE [i \in DOMAIN metadata.snapshot |-> SnapshotMessage(metadata, metadata.snapshot[i])]

NamesOf(messages) == {messages[i].name : i \in DOMAIN messages}

QuotedMessageRecords(raw) ==
  LET quoted == IF raw.metadata = <<>> THEN <<>> ELSE QuotedSnapshotMessage(raw.metadata[1])
  IN IF quoted # <<>> /\ quoted[1].name \notin NamesOf(raw.quotes)
     THEN Append(raw.quotes, quoted[1]) ELSE raw.quotes

---------------------------------------------------------------------------
(* The context.  A message of it is known by what it is made of and by     *)
(* path, the messages that quote it, one by another.                       *)

ContextMessage == [raw : RawMessages, path : Seq(STRING)]

\* cycleNode, depthNode: a note is all there is of the message.
IsSkipped(message) ==
  /\ message.path # <<>>
  /\ \/ message.raw.name \in Range(message.path)
     \/ Len(message.path) > contextInput.maxQuoteDepth

QuotedBy(message) ==
  LET records == QuotedMessageRecords(message.raw)
  IN IF IsSkipped(message) THEN <<>>
     ELSE [i \in DOMAIN records |->
             [raw |-> records[i], path |-> Append(message.path, message.raw.name)]]

CharsOf(message) == IF IsSkipped(message) THEN 0 ELSE message.raw.chars

AttachmentsOf(message) == IF IsSkipped(message) THEN 0 ELSE message.raw.attachments

NotesOf(message) ==
  LET placed  == IF message.path # <<>> \/ contextInput.thread THEN 1 ELSE 0
      quoting == IF message.path = <<>> THEN Len(QuotedMessageRecords(message.raw)) ELSE 0
  IN IF IsSkipped(message) THEN 1
     ELSE message.raw.notes + placed + quoting + message.raw.attachments

CharsPerToken == 2

(* The characters of a message, of its notes and of what it quotes, each   *)
(* part with a line end.                                                   *)
PartsLength ==
  LET length[message \in ContextMessage] ==
        LET quotes == QuotedBy(message)
        IN 2 * NotesOf(message)
             + (IF CharsOf(message) > 0 THEN CharsOf(message) + 1 ELSE 0)
             + FoldLeft(LAMBDA sum, quoted : sum + length[quoted], 0, quotes)
  IN length

\* No line end is behind the last part.
EstimateTokens(message) ==
  Max({1, (PartsLength[message] - 1 + CharsPerToken - 1) \div CharsPerToken})

(* The messages that fit the budget, each tried in turn.                   *)
ApplyModelTokenBudget(messages) ==
  LET tokens(kept) == FoldLeft(LAMBDA sum, message : sum + EstimateTokens(message), 0, kept)
      Include(kept, message) == IF tokens(Append(kept, message)) <= contextInput.tokens
                                THEN Append(kept, message) ELSE kept
      included[n \in 0..Len(messages)] ==
        IF n = 0 THEN <<>> ELSE Include(included[n - 1], messages[n])
  IN IF contextInput.tokens = NoBudget THEN messages ELSE included[Len(messages)]

SortedByTime(messages) ==
  LET Before(i, j) == \/ IF contextInput.desc THEN messages[i].created > messages[j].created
                                              ELSE messages[i].created < messages[j].created
                      \/ messages[i].created = messages[j].created /\ i < j
      Rank(i) == 1 + Cardinality({j \in DOMAIN messages : Before(j, i)})
  IN [n \in DOMAIN messages |-> messages[CHOOSE i \in DOMAIN messages : Rank(i) = n]]

ContextOf(normalized, included, truncated, more) ==
  LET dropped  == Len(included) < Len(normalized)
      OneIf(b) == IF b THEN 1 ELSE 0
  IN [messages |-> included, notes |-> OneIf(more) + OneIf(truncated) + OneIf(dropped),
      truncated |-> truncated \/ dropped, inaccessible |-> FALSE]

BuildConversationContext ==
  LET all        == AllMessages
      many       == Len(all)
      limited    == SubSeq(SortedByTime(all), 1,
                           IF many <= contextInput.limit THEN many ELSE contextInput.limit)
      more       == Last(contextInput.pages).more
      truncated  == many > contextInput.limit \/ more
      normalized == [i \in DOMAIN limited |-> [raw |-> limited[i], path |-> <<>>]]
  IN IF \E i \in DOMAIN contextInput.pages : contextInput.pages[i].error
     THEN [messages |-> <<>>, notes |-> 1, truncated |-> FALSE, inaccessible |-> TRUE]
     ELSE ContextOf(normalized, ApplyModelTokenBudget(normalized), truncated, more)

---------------------------------------------------------------------------
(* The projection for a model.                                             *)

Clipped(type, name, skipped, chars) ==
  LET most == contextInput.options.maxTextChars
  IN [type |-> type, name |-> name, skipped |-> skipped,
      chars |-> IF chars > most THEN most ELSE chars, cut |-> chars > most]

Fragment(type, message, chars) == Clipped(type, message.raw.name, IsSkipped(message), chars)

\* Mutant: a text cut short by the total does not count as truncated.
Offer_Silent(p, fragment) ==
  LET options   == contextInput.options
      remaining == options.maxTotalTextChars - p.chars
      next      == [fragment EXCEPT !.chars = IF @ > remaining THEN remaining ELSE @]
  IN IF p.refused THEN p
     ELSE IF \/ Len(p.fragments) >= options.maxFragments
             \/ fragment.chars # NoText /\ remaining <= 0
     THEN [p EXCEPT !.refused = TRUE, !.truncated = TRUE, !.omitted = @ + 1]
     ELSE [p EXCEPT !.fragments = Append(@, next),
                    !.chars = @ + (IF next.chars > 0 THEN next.chars ELSE 0),
                    !.truncated = @ \/ next.cut]

(* append: fragments and characters are both limited; after one that was   *)
(* refused its caller offers no more.                                      *)
Offer(p, fragment) ==
  LET options   == contextInput.options
      remaining == options.maxTotalTextChars - p.chars
      next      == IF fragment.chars > remaining
                   THEN [fragment EXCEPT !.chars = remaining, !.cut = TRUE] ELSE fragment
  IN IF p.refused THEN p
     ELSE IF \/ Len(p.fragments) >= options.maxFragments
             \/ fragment.chars # NoText /\ remaining <= 0
     THEN [p EXCEPT !.refused = TRUE, !.truncated = TRUE, !.omitted = @ + 1]
     ELSE [p EXCEPT !.fragments = Append(@, next),
                    !.chars = @ + (IF next.chars > 0 THEN next.chars ELSE 0),
                    !.truncated = @ \/ next.cut]

OfferAll(p, fragments) ==
  LET offered[n \in 0..Len(fragments)] ==
        IF n = 0 THEN p ELSE Offer(offered[n - 1], fragments[n])
  IN offered[Len(fragments)]

OmitForQuoteDepth(p) == [p EXCEPT !.truncated = TRUE, !.quoteDepthLimited = TRUE, !.omitted = @ + 1]

ContextNotes == [i \in 1..context.notes |-> Clipped("context_note", "", FALSE, 1)]

(* A message, its notes and its attachments, in this order.                *)
FragmentsOf(message, quoteDepth) ==
  LET type == IF quoteDepth = 0 THEN "chat_message" ELSE "quoted_message"
  IN <<Fragment(type, message, CharsOf(message))>>
       \o [i \in 1..NotesOf(message) |-> Fragment("message_note", message, 1)]
       \o [i \in 1..AttachmentsOf(message) |-> Fragment("attachment", message, NoText)]

PendingMessages(messages, quoteDepth) ==
  [i \in DOMAIN messages |-> [message |-> messages[i], quoteDepth |-> quoteDepth]]

ContextInitFrom(inputs) ==
  /\ contextInput \in inputs
  /\ context = BuildConversationContext
  /\ projection = [step |-> "notes", pending |-> PendingMessages(context.messages, 0),
                   fragments |-> <<>>, chars |-> 0, refused |-> FALSE, truncated |-> FALSE,
                   omitted |-> 0, quoteDepthLimited |-> FALSE]

ProjectNotes ==
  /\ projection.step = "notes"
  /\ projection' = [OfferAll(projection, ContextNotes) EXCEPT !.step = "messages", !.refused = FALSE]
  /\ UNCHANGED <<contextInput, context>>

\* Mutant: the quotes of a message are handed on behind the next message.
PushQuotes_Queued(p, quotes, quoteDepth) ==
  [p EXCEPT !.pending = @ \o PendingMessages(quotes, quoteDepth + 1)]

PushQuotes(p, quotes, quoteDepth) ==
  [p EXCEPT !.pending = PendingMessages(quotes, quoteDepth + 1) \o @]

(* One turn of the loop; the stack is written with its top first.          *)
ProjectMessage ==
  /\ projection.step = "messages" /\ projection.pending # <<>>
  /\ LET current == Head(projection.pending)
         maxQuoteDepth == contextInput.options.maxQuoteDepth
         popped  == [projection EXCEPT !.pending = Tail(@)]
         offered == OfferAll(popped, FragmentsOf(current.message, current.quoteDepth))
         quotes  == QuotedBy(current.message)
     IN projection' =
          CASE current.quoteDepth > maxQuoteDepth -> OmitForQuoteDepth(popped)
            [] current.quoteDepth <= maxQuoteDepth /\ offered.refused ->
                 [offered EXCEPT !.step = "done"]
            [] current.quoteDepth = maxQuoteDepth /\ ~offered.refused ->
                 IF quotes = <<>> THEN offered ELSE OmitForQuoteDepth(offered)
            [] OTHER -> PushQuotes(offered, quotes, current.quoteDepth)
  /\ UNCHANGED <<contextInput, context>>

ProjectionEnds ==
  /\ projection.step = "messages" /\ projection.pending = <<>>
  /\ projection' = [projection EXCEPT !.step = "done"]
  /\ UNCHANGED <<contextInput, context>>

ContextNext == ProjectNotes \/ ProjectMessage \/ ProjectionEnds

ContextSpec == ContextInitFrom(ContextInputs) /\ [][ContextNext]_contextVars

---------------------------------------------------------------------------
(* All fragments of a message as a reader would list them, each message    *)
(* followed by what it quotes, so many quotes deep.                        *)
FragmentsWithQuotes ==
  LET most == contextInput.options.maxQuoteDepth
      listed[k \in 0..most] ==
        [message \in ContextMessage |->
           LET quotes == QuotedBy(message)
           IN FragmentsOf(message, most - k)
                \o (IF k = 0 THEN <<>>
                    ELSE FlattenSeq([i \in DOMAIN quotes |-> listed[k - 1][quotes[i]]]))]
  IN listed

CompleteProjection ==
  LET listed == FragmentsWithQuotes[contextInput.options.maxQuoteDepth]
  IN ContextNotes \o FlattenSeq([i \in DOMAIN context.messages |-> listed[context.messages[i]]])

(* The texts that come with a message, of what it quotes; a message that   *)
(* it quotes twice is one.                                                 *)
QuotedTexts(raw) ==
  LET Told(data) == IF data.message # <<>> THEN {data.message[1]}
                    ELSE IF data.snapshot # <<>> THEN {SnapshotMessage(data, data.snapshot[1])}
                    ELSE {}
      told == IF raw.metadata = <<>> THEN {} ELSE Told(raw.metadata[1])
  IN Range(raw.quotes) \cup {text \in told : text.name \notin NamesOf(raw.quotes)}

IsNoted(name) ==
  \E fragment \in Range(projection.fragments) :
    fragment.name = name /\ fragment.type = "message_note" /\ fragment.skipped

IsWhole(name) ==
  \E fragment \in Range(projection.fragments) :
    /\ fragment.name = name /\ fragment.type \in {"chat_message", "quoted_message"}
    /\ ~fragment.skipped /\ ~fragment.cut

(* The texts that came with the pages, but for what skipped ones quote.    *)
TextsOwed ==
  LET deepest == contextInput.options.maxQuoteDepth + 1
      owed[k \in 0..deepest] ==
        IF k = 0 THEN Range(AllMessages)
        ELSE owed[k - 1] \cup
             UNION {QuotedTexts(raw) : raw \in {text \in owed[k - 1] : ~IsNoted(text.name)}}
  IN owed[deepest]

(* The beginning of the listing, whose last fragment may be cut short.     *)
IsBeginning(fragments, complete) ==
  LET CutShort(f, whole) == f.cut /\ [f EXCEPT !.chars = whole.chars, !.cut = whole.cut] = whole
  IN /\ Len(fragments) <= Len(complete)
     /\ \A i \in DOMAIN fragments :
          \/ fragments[i] = complete[i]
          \/ i = Len(fragments) /\ CutShort(fragments[i], complete[i])

(* The model is given the context in reading order, up to its limits, and  *)
(* what it is not given is owned up to: unless the context or the          *)
(* projection says that something is missing, every message of the pages   *)
(* and every quoted message whose text came with them is handed on whole,  *)
(* or a note says that it was skipped.  (A quote that came by name alone   *)
(* leaves no trace.)                                                       *)
ContextAccounted ==
  projection.step = "done" =>
    /\ IsBeginning(projection.fragments, CompleteProjection)
    /\ Len(projection.fragments) <= contextInput.options.maxFragments
    /\ projection.chars <= contextInput.options.maxTotalTextChars
    /\ \/ context.truncated \/ context.inaccessible \/ projection.truncated
       \/ \A raw \in TextsOwed : IsNoted(raw.name) \/ IsWhole(raw.name)
=============================================================================
