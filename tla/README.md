# TLA+ models of googlechatai

googlechatai is a Google Chat SDK for Node and Python. Much of it converts
payloads, in two languages that have to agree; some parts keep state, talk to
services that fail, and run several callers at once. This directory holds TLA+
models of those parts, TLC configurations that check them, and TLAPS proofs of
the results that matter most. The models follow the code; where the code and its documentation
disagree the model does what the code does, and a run shows the disagreement.

Paths below are relative to the repository (`packages/node/src/...` unless a
Python path is given).

## 1. Inventory

"Modelled" means that every operation of the part that changes state is an
action of a module, "partly" that the text says what is left out.

### Streaming (`streaming/index.ts`) - partly: the registries' `clear` is left out

*State.* A `chat.stream_scheduler_state`: accumulated text of the current
message (segment), pending characters, patches used, flags (truncated,
finished, cancelled, errored, degraded). The driver adds the name of the
current message, a failure, an abort flag. The caller keeps snapshots.

*Operations.* `advanceStreamScheduler` folds an event (chunk, flush, finish,
cancel, error, patch_result) into the state and returns Chat writes.
`streamChatReply` pulls chunks, folds them, applies each write as a request and
feeds the result back. Cancellation comes from a signal or a registry another
process writes.

*Hard.* One event may return several writes (a split finalizes a message,
creates the next and patches it), each of which may fail while the state is
already at the end of the event; a request that throws instead (no access token)
makes the loop's `catch` write once more, or, outside the loop, rejects the
promise; cancels arrive at any point; answers get lost; the process dies between
a write and `onState`; sizes and the patch budget are spent across splits.

*Correct when.* No text is lost or repeated between messages; no write exceeds
the size or the number allowed; a cancelled run ends, and not as finished; a
report that says ok is true.

### Idempotency: the store contract and its two stores - modelled

`transport/index.ts` 38-58 is the interface; `firestore/index.ts` and
`FileIdempotencyStore` (`transport/index.ts` 472-532) implement it.

*State.* One Firestore document per key (first seen, expiry, count, the
server's update time); or one JSON file with an entry per key, plus the
process's map of lock chains.

*Operations.* `claim(key)`: in Firestore a loop of create, read,
delete-if-expired and compare-and-set, each a request; in the file store
read, decide in memory, write a temporary file, rename, under
`withFileStateLock`.

*Hard.* Several processes between one another's requests, expired claims being
replaced, lost answers, crashes between write and rename, failing calls inside
a lock that others wait for, eviction at `maxEntries`.

*Correct when.* A key is granted once until it expires; every duplicate is
counted; a live claim is never deleted; the lock is exclusive, fair, and
forgets files it no longer needs; every call returns.

### File state locks (`internal/file-state.ts`, Python `_file_state.py`) - modelled

*State.* Node: `locks`, a map from file to the last promise of its chain.
Python: a table from file to a lock object with a count of its users, itself
under a lock. *Operations.* enter, acquire, release. Used by the file store and
by the file versions of the queue, the caches, checkpoints, token store and
cancellation registry. *Hard.* A call joins a chain while its last call is
deleting the file's entry; a thread takes a reference just as the last user
drops it. *Correct when* calls on one file exclude one another, in Node in
order, and no entry outlives its users.

### Router, Node (`router/runtime.ts`) - modelled

*State.* Per request: the phase of `fetch`, the frames of the middleware chain
with `currentIndex`, the handlers tried; in the store: claims.
*Operations.* `fetch`, `handlePayload`, `handleEvent`,
`guardDuplicateEventDelivery`, `runWithDeadline`, `runMiddlewareChain`,
`dispatchToHandlers`. *Hard.* Deliveries of one event at once; middlewares
that call `next()` again, late or without waiting; handlers that never settle
or settle after the deadline. *Correct when* handlers run once per claim, and
every request is answered. Left out: a `next()` that a middleware has kept and
calls after it has returned.

### Router, Python, and the ASGI adapters - partly

`packages/python/src/googlechatai/router/runtime.py`, `adapters/asgi.py`,
`adapters/fastapi.py`. The same pipeline, but blocking work (the store,
handlers and callbacks that are not coroutines) runs in a bounded pool guarded
by a semaphore, synchronous callers go through a supervisor's event loop, and
the adapter verifies POSTs in a second bounded pool under a timeout before it
reads their body. *State.* Free slots, queued and running jobs of both pools, a
task per delivery. *Hard.* Slots are taken on the event loop and released in a
worker; a job outlives its deadline; a pool is exhausted between the claim of a
delivery and its handler, or by verifications that have been given up.
*Correct when* slots are never lost, handlers see only verified and claimed
deliveries, and deliveries are answered although jobs hang. A dispatch without
a deadline runs in its caller's thread and is the pipeline of the Node router.

### Retrying transport and token stores (`transport/index.ts`, `token-store/index.ts`) - modelled

*State.* Per request: attempts, token lease, delay; in the store a record per
principal with an access token, its expiry and a refresh token.
*Operations.* `requestJsonWithRetry` with `buildRetryDecision`,
`backoffDelayMs`, `isReplaySafe`; `getAccessTokenFromStore`: load, refresh,
save. *Hard.* An answer lost after a write was carried out; tokens that expire
under several callers, who refresh without a lock; a refresh token that rotates
while the save of its successor is lost; a principal that signs out during a
refresh. *Correct when* unsafe writes are carried out at most once, a spent
refresh token is never left in the store unnoticed, and every request ends.

### Request verification (`verify/index.ts`) - modelled

*State.* The cached keys and their time. *Operations.* `verifyGoogleChatToken`
as the order of its checks; loading the keys, and the forced refresh on an
unknown key. *Hard.* Verifications that overlap fetch separately, and a late
answer overwrites a newer one, while keys rotate. *Correct when* a genuine
request is verified unless its key is withdrawn or the keys cannot be had, and a
withdrawn key is accepted for less than `cacheTtlMs`. RSA, base64 and JSON are
left out: a token is what the checks make of it.

### Plan executor and planners (`execute`, `messages`, `pins`, `reactions`) - executor modelled, planners partly

*State.* Position in the plan, status of each step, responses so far; in the
store the claimed request ids. *Operations.* `executeChatPlan`, live or dry:
gates, path placeholders, conditional requests, claims, requests, the fallback
of a PATCH; and every planner of a call plan, for what the executor looks at:
methods, request ids, conditions, gates, fallback and principal. *Hard.*
Executions that share a store, crashes between claim and request, a pin decided
on an old list, a fallback that fails, or that several executions send, as it is
not claimed. *Correct when* the request of one id is sent once, except for such
fallbacks, blocked plans send nothing, pins are only put on what a complete list
lacks, ok accounts for every step. Bodies, threads and texts are left out.

### Asynchronous answers (`queues/index.ts`, `messages/index.ts`) - modelled

*State.* The queue (in memory, in a file, pushed by a service), the
placeholder. *Operations.* `planAsyncResponse`, the placeholder, enqueue and
dequeue, the completion of the placeholder and its fallback. The worker's loop
is the application's. *Hard.* A worker that dies has already removed its task;
a pushed task arrives twice; the answer of the PATCH gets lost; request ids are
given by the caller, or else made of space and text, so that the messages of two
events may have one. *Correct when* no task is held twice, no second message
appears without a reported failure (or a pushed task that is answered again in
other words), and every accepted task is answered or lost with its worker.

### Polling (`ingestion/index.ts`, checkpoints of `workspace-events/index.ts`) - partly

*State.* Keys seen, watermark and page token, in memory and in the checkpoint.
*Operations.* the request, the page, the saving of the checkpoint. *Hard.*
Messages created, edited and deleted between two pages; a crash between the
page and the checkpoint; a watermark taken from the last page. *Correct when*
every message is handed on, and no more than once per life of the process and
what its checkpoint remembers. The other ingestion modes are builders of
requests, and the parsing of pushed events is a conversion.

### Identity cache (`identity/index.ts`) - modelled

*State.* Records by id, address and alias, in memory or in a file.
*Operations.* `putMany`, `list`, look-ups, `syncDirectoryUsersToCache`. *Hard.*
A sync lists, decides what is stale, and writes back, with others in between.
*Correct when* a person known to the directory is never forgotten, and a sync
takes effect.

### Artifact cache (`cache/index.ts`) - modelled

*State.* A blob and a metadata file per entry. *Operations.* `get` without the
lock, `put` and `putNegative` under it. *Hard.* A reader between the two files
of a writer; a crash between them. *Correct when* what is got is what was put.

### Link planners and conversation context (`chat-links`, `attachments`, `threads`) - partly

*State.* None beyond a call: a walk over a graph of objects, which may be
shared or cyclic, under several budgets; pages of messages cut to a limit, with
quotes followed to a depth, under a token budget, then cut again for a model.
*Operations.* `createChatLinkRetrievalPlan`, `createDriveLinkRetrievalPlan`,
`buildConversationContext`, `projectModelContext`. *Hard.* Nine budgets in one,
seven in another; each may stop or narrow the walk at any place. *Correct when*
nothing is left out without the result saying so.

### Live smoke scripts (`tools/live-smoke`) - partly: the ten that write

*State.* In a run: what it knows to have created, whether it has failed, the
evidence; outside: the resources of a real space and account, and the evidence
files of earlier runs. *Operations.* Each script has gates, a plan that
`--dry-run` prints, a body of requests that the first failure ends, and a
cleanup that runs in any case; later runs clean up from evidence
(`--cleanup-from-evidence`, `--cleanup-confirmations-from-evidence`,
`--cleanup-resource`, `chat-cleanup-smoke.mjs`). *Hard.* Any request fails, or
is carried out and its answer lost; the process dies before it has written what
it created; one of several deletions fails; the next script is told names.
*Correct when* a run removes nothing of others, what it knows it left is in its
evidence, and what it writes is in its plan. Left out: the scripts that only
read, those that exercise the code on this machine (parsers, transcription,
webhook, token refresh), and the texts and summaries of all.

### Event normalization (`events.ts`, `actions`, `message-ast`, and their Python twins) - modelled

*State.* None; every delivery passes through it before a router does anything.
*Operations.* `normalizeEvent` (unwrapping interactions, pushes and cloud
events; kind, key, actor, capabilities), `normalizeAction` (parameters, forms),
`normalizeMessage` (segments, links, notes, the tree of quotes and attachments).
*Hard.* Annotations that overlap, lie beyond the text or come out of order; one
event that comes in two Pub/Sub messages, two clicks that differ in their time;
absent, null, empty and ill-typed fields, for which two languages have different
ideas of what is empty. *Correct when* both packages make the same of a
delivery, the segments of a message tile its text, and two deliveries have one
key exactly if they are of one event. Wording and copied fields are left out.

### Cards and card actions (`cards/index.ts`, Python `cards`) - modelled

*State.* None in the packages; a button carries the app's state out and back.
*Operations.* Eleven builders, the responses (create, update, dialog,
navigation), `lintCardPayload`, `translateCardPayload`, `validateCardMessage`,
`summarizeCards`; for a click `summarizeCardAction`, `readCardActionState`,
`routeCardAction`. *Hard.* A button's function, parameters and encoded state
pass a builder, an envelope, a translation, Chat's event, in which they may be
in either of two places, and a summary, before a handler is chosen. *Correct
when* both packages make the same of a card and of a click, and every button of
a card that the linter has nothing against does what the app asked for.

### Not modelled

| Component | Why |
| --- | --- |
| Capabilities | a table of methods and scopes, looked up; the verdict a plan carries is in `CallPlans` |
| Agent interop | conversions of a message into the formats of other libraries, without state and without limits that interact |
| Attachments other than Drive links | a decision table for one attachment at a time; downloads, scanners, parsers and transcription are external |
| Thread, relationship and identity readers | sequences of requests whose answers are converted, without state of their own |
| Express adapter | reads a request, calls `fetch`, writes its response |
| Other Python twins | kept equal to the Node modules by shared conformance cases. Where threads make a difference there is a model (`ThreadFileLock`, `BoundedDelivery`, `AsgiDelivery`), and where the language does (`PyEventEnvelope`, `PyCards`) |
| Other command line tools (`tools/chat`, `tools/cloud`), examples, conformance harness, discovery data | sequences of local steps without state of their own, samples and data |

### How the parts interact

```
Chat --POST--> adapter --> verifier (keys)      directory --sync--> identity cache
                  |
                router --claim--> IdempotencyStore (Firestore | file --lock--> disk)
                  |
                  +--> handler --> plan executor --claim--> IdempotencyStore
                  |                      +--> retrying transport --> Chat API
                  |                                  +--> token store --> token endpoint
                  +--> streamChatReply --> (retrying transport) --> Chat API
                  |         ^-- cancellation registry, other processes
                  +--> placeholder + queue --> worker --> plan executor
Chat <--poll-- ingestion --> checkpoint (file --lock--> disk)
```

The models meet where the code's interfaces do. The router and the executor
take a claim to be one step, which is what `IdempotentClaim` promises and what
both stores are shown to implement. `AuthorizedRequests` extends
`RetryTransport` with the token store and is shown to implement it;
`AsgiDelivery` extends `BoundedDelivery` with the adapter and is shown to
implement it; `FileIdempotencyStore` extends `FileStateLock`, whose promise the
artifact cache and the file queue use as one atomic region.

## 2. Modules

| Module | Models | How state and actions correspond |
| --- | --- | --- |
| `StreamScheduler` | `advanceStreamScheduler` | `state` has the code's fields; an operator per event and per helper (`SplitPoints`, `MaybePatch`, `Finalize`). Text is a length and a position in the stream: `start` says which character the current segment begins with. A blank may be anywhere, an interval may have elapsed or not |
| `StreamReplay` | the scheduler under all event sequences | one disjunct per event; `SplitOnce` is one turn of the overflow loop, with nothing in between |
| `StreamReply` | `streamChatReply` | `pc` is the place in the function; `ApplyAction` is one request, answered, refused, applied with its answer lost, or thrown: then `Caught` is the loop's `catch`, `Reject` the end without a report. `Crash` and `Resume` restart it from a snapshot |
| `StreamedAnswer` | abstract: what readers see | pages of text; only the last changes. An answer that goes astray between two pages may lose the last one, and fails; one of several pages that is taken up again is muddled |
| `IdempotentClaim` | abstract: the store contract | a grant needs that no claim is live; a claim may be recorded without its caller hearing of it |
| `FirestoreStore` | `FirestoreIdempotencyStore.claim` | one action per request; `updates` is the source of `updateTime` |
| `FileStateLock` | `withFileStateLock` | `locks` and `previous` are the promises; a call is `Enter`, `Acquire`, `Release` |
| `FileIdempotencyStore` | `FileIdempotencyStore.claim` | extends the lock with one action per await inside it |
| `ThreadFileLock` | `_lock_for`, `file_state_lock` (Python) | one action per statement that another thread may come between |
| `EventRouter` | `GoogleChatAI` (Node) | `frame[r][i]` is the call `run(i)`; application code does anything its signature allows |
| `BoundedDelivery` | deadline dispatch (Python) | `slots` is the semaphore, `queue` and `running` the executor |
| `AsgiDelivery` | the adapters in front of it | extends `BoundedDelivery`: a POST's verification, body and status; the verifier's pool; the supervisor |
| `RetryTransport` | `requestJsonWithRetry` | one action per await |
| `AuthorizedRequests` | `getAccessTokenFromStore` and the stores | extends `RetryTransport`: a lease is load, refresh and save; a grant is a refresh token the endpoint issued |
| `PlanExecutor` | `executeChatPlan` | one action per await; requests and options are constants; `sent` says who sent what, fallbacks included |
| `CallPlans` | the planners | one operator per planner, giving the plans that `MCPlansAndRouter` executes |
| `AsyncResponse` | queues, placeholder, completion | one action per request or queue operation; `Crash` of a worker. `RequestId` is `requestIdFor`: the caller's, or made of space and slug |
| `PollingIngestion` | polling and checkpoints | one action per poll, per saved checkpoint, per change in the space |
| `RequestVerifier` | token verification | one action per fetch asked and answered; keys are introduced and withdrawn |
| `ArtifactCache` | file and memory cache | one action per file operation |
| `IdentityCache` | directory syncs | one action per await of a sync |
| `ChatLinks`, `DriveLinks` | the walks of the link planners | one step per object visited, with the budgets as in the code |
| `ConversationContext` | context and projection | the context is one operator; its projection takes a step for the notes and one per message on the stack. A message is known by what it is made of and by the messages that quote it, one by another, so that a tree of quotes is never held |
| `SmokeScripts` | the scripts' requests | one operator for the gates, the plan and the program of each script; a program is a sequence of acts, each with a body and a cleanup. A resource is the role it has in the script; a setting that is put back is a resource that is created and deleted |
| `SmokeRuns` | running them | one action per request answered, refused, or carried out with its answer lost; the report; death; the commands that follow |
| `JsonValues` | what the JSON of both languages has in common | a value is a record of its type `t` and its content; `Absent` is a key that is not there |
| `EventEnvelope`, `PyEventEnvelope` | event normalization in Node and in Python | an operator per function, named as in the language. Each is translated from its own source: `??` and `or`, missing and empty, UTF-16 units and code points differ |
| `Cards`, `PyCards` | the cards modules | likewise; a text composed of others is the tuple of them, a finding its severity, code and path, the size of a payload an input |
| `Ports` | both packages at work on the same | a delivery is normalized by each, and then another comes; a card is built, sent and checked by each, then a user clicks one of its buttons and each answers. What Chat makes of a click (`ClickEvent`) is external |
| `MC*` | | instances and inputs for TLC |
| `*Proofs` | | theorems, see section 5 |

Operators whose comment begins with *Mutant* are broken variants of the
operator that follows; each shows that a property fails when the code is wrong
in that way. No specification uses them.

## 3. Runs

| Run | Module and cfg | Shows |
| --- | --- | --- |
| `stream_reply` | `StreamReply` | one answer against a Chat that fails and requests that throw, cancelled anywhere, with a crash and a resumption: what ok means, the patch budget, that it ends (a cancelled one as cancelled or failed), and that it implements `StreamedAnswer` |
| `stream_resume_split` | `StreamReply` / `StreamReplyResumeSplit` | **violation**, see below |
| `file_store` | `MCFileIdempotencyStore` / `FileIdempotencyStore` | four calls on one file, with one crash or failing operation: order, `IdempotentClaim`, every call returns |
| `bounded_delivery` | `MCBoundedDelivery` / `BoundedDelivery` | deliveries dispatched by the application, or POSTs through the adapter: slots of both pools, only admitted deliveries handled, all answered |
| `bounded_delivery_retry` | `MCBoundedDelivery` / `BoundedDeliveryRetry` | **violation**, see below |
| `plans_and_router` | `MCPlansAndRouter` / `PlansAndRouter` | the plans of every planner, two or three that compete at a time: a request id is sent once, but for fallbacks, pins, reports; the router with two deliveries, of one or two events, one of them without a key, and one middleware: handlers run once per claim, every request is answered |
| `authorized_requests` | `MCAuthorizedRequests` / `AuthorizedRequests` | two requests sharing a token record: at most once, no grant lost unnoticed, implements the transport, all end |
| `answers_and_polling` | `MCAnswersAndPolling` / `AnswersAndPolling` | answers by way of three kinds of queue; polling in three orders, with a crash; the two packages on the same deliveries, cards and clicks: `PortsAgree`, `SegmentsTile`, `KeyPerEvent`, `ButtonsWork` |
| `independent_parts` | `MCIndependentParts` / `IndependentParts` | safety of ten parts that share no state: scheduler, Firestore store, verifier, artifact cache, identity cache, thread lock, both link planners, conversation context, live smoke scripts |
| `identity_alias_leaves` | `MCIndependentParts` / `IdentityAliasLeaves` | **violation**, see below |
| `drive_plan_input` | `MCIndependentParts` / `DrivePlanInput` | **violation**, see below |
| `smoke_foreign_message` | `MCIndependentParts` / `SmokeForeignMessage` | **violation**, see below |

`independent_parts`, `answers_and_polling` and `plans_and_router` check systems
that have nothing to do with one another; their initial states choose one, so
that the graph is the union of the parts' graphs and not their product, and
every property says of which part it speaks.

### Bounds, and why they are enough

* *Streaming.* The driver writes messages of 7 characters from streams of up to
  10, so that a stream takes two segments, the split falls everywhere, and final
  texts lie below, at and above the limit with each note; the notes differ in
  length, so that a mistaken note shows. Two failures degrade a stream, and
  suffice for a request that throws after one that failed, or twice; one restart
  resumes it (with overflow truncate; what a restart does after a split is the
  violation). The scheduler's own part of `independent_parts` goes over all
  event sequences within its bounds, truncating or splitting. The action
  sequences of one event depend on lengths only through comparisons with the
  capacity.
* *Firestore.* Three claimers, since a wrong delete needs one that read the
  expired document, one that replaced it and one to be told so; two rounds, so
  that a retry and its exhaustion both occur; a ttl shorter than the clock, so
  that a claim expires and is replaced; one fault at every place.
* *File store.* Three calls on one key and one on another: a chain of three
  is needed for a call to join while the last one leaves. `maxEntries` is the
  number of keys, the case in which the contract holds.
* *Locks of threads.* Three threads, for one to leave, one to enter and one to
  wait; two files, three lock objects, so that a file can get a new object.
* *Router.* Two requests suffice for a duplicate, and a claim expires once;
  one middleware is enough for `next()` to be called twice and late.
* *Pools.* Two slots and one worker are exhausted by three deliveries, two of
  one event. The verifier has one slot and one worker, exhausted by two POSTs.
  Direct dispatches and POSTs are two scenarios of the run: what they share is
  the pool, and the theorems cover them together.
* *Requests with tokens.* Three attempts, one expiry, three refresh tokens and
  one fault: a refresh, a second refresh with what the first spent, a retry and
  the last attempt in every order.
* *Plans.* Thirty-two plans, one for each shape a planner can produce, in groups
  that compete for an id or pin the same message; among them two completions
  with one fallback id, and one whose fallback has the id of another plan's
  create.
* *Answers.* Two events and two workers: a task redelivered to the other worker
  while the first still has it. Two faults let a PATCH and its fallback fail, or
  a worker after a lost answer. None or one of the events has request ids of its
  own; both are of one room, and of the two texts of answers one has the
  placeholder's slug, so that derived ids coincide in each way they can.
  *Polling.* Pages of one message and four changes: pages that shift under the
  poller, in ascending and descending order, from a fixed start or from the
  watermark, and one crash.
* *Verifier, caches, identities.* Two or three overlapping calls: one that read,
  one that wrote in between, one that reads the result.
* *Walks.* Inputs with sharing, cycles and nesting, under every combination of
  budgets that lies on each side of what the input needs.
* *Conversation context.* Six lists of pages, with quotes by name, snapshot, copy
  and age, mutual and nested twice, more to come and a page that failed, under
  each combination of two values per limit and three per depth, of a thread in
  order or of a space backwards; a budget of tokens, which drops whole messages
  before the projection, with the widest limits on texts.
* *Ports.* The inputs are what the properties are about: some 140 payloads,
  each kind of event by each way it comes, with each optional field present,
  absent, null, empty and ill-typed, and texts whose annotations overlap, touch,
  repeat, leave the text or come out of order; eight deliveries, of which each
  may follow each, for the keys; 256 requests for cards: each builder with and
  without each option and action, two kinds of functions, raw cards with each of
  the widgets and each fault the linter knows, every response and translation.
  Every button of a card without findings is clicked, with its action in either
  place of the event, four forms and three sets of handlers. Left out by name are
  the inputs for which the languages differ, see section 4.
* *Smoke scripts.* Seventeen command lines, which between them take every
  branch of the programs; two faults, so that a body and its cleanup, or two
  deletions, fail in one run; two commands that follow, so that a cleanup is
  repeated or another comes after it; a sweep of at most two messages, fewer
  than a run can leave.

### Deadlock

Every configuration says `CHECK_DEADLOCK FALSE`, because every system here stops:
a run that has reported, calls and requests that have all been answered, walks
that are over, polling within its bound of changes. That they do not stop too
early is what the liveness properties say.

### Fairness

* `StreamReply`: the stream goes on yielding or the driver's next step is taken;
  the stream need not end. Requests are answered, fail or throw. Nothing forces
  a cancel; `Terminates` is about runs that are cancelled or whose stream ended.
* `FileIdempotencyStore`: the event loop and the file system go on with each
  call, one at a time (weak fairness of every call's progress). Crashes and
  failures are not fair. That suffices because the lock is a queue.
* `EventRouter`: verifier and store answer, the timer fires. Middlewares,
  handlers and `onDeadline` need not end; a request in `onDeadline` counts as
  handed over. The verifier and the store are awaited before the deadline is
  armed, so their answering really is an assumption (listed as a hazard).
* `AsgiDelivery`: the event loop and its timers go on. Bodies, the verifier,
  jobs, coroutines and even the taking up of a job by a worker need not. The
  specification of the run restricts which deliveries arrive, nothing else.
* `AuthorizedRequests`: the server, the token endpoint and the store answer
  each call or fail, and timers fire (weak fairness of each call's steps).
* `AsyncResponse`: the operations of a living worker and of the handler go on
  (weak fairness); the lock of the queue's file is given to a waiting worker,
  and a service that pushes tasks delivers an unacknowledged one again and
  again (strong fairness of each task's delivery, which is what such services
  promise). Crashes and failures are not fair.
* `PollingIngestion`: the application goes on polling.

## 4. Findings

Five disagreements between documentation and code, each the only property of a
run in which TLC finds it:

1. *Resuming after a split.* `live-streaming.md` 309-313 says a resumed run
   "picks up exactly where it left off". `streamChatReply` starts with the
   target's message whatever segment the snapshot is in (`streaming/index.ts`
   788), so that the text of a later segment replaces the first message.
2. *503 between claim and handler.* `production-hardening.md` 41-42 promises a
   "retryable 503" on exhausted capacity. When the handler's own job finds the
   pool full (`router/runtime.py` 830) the claim is already recorded, and the
   retry is answered as a duplicate though no handler saw the event.
3. *An alias that leaves.* The production-auth guide (256-258) says directory
   hits replace labels by the current name, address and status. When a sync
   drops one of a user's addresses, `putMany` (`identity/index.ts` 175) leaves
   the old record under that address, `list()` prefers it, and the file cache
   goes on storing it, however often the sync is repeated.
4. *Drive links of a normalized message.* `drive-link-retrieval.md` 27-28 and
   40-42 say a normalized message may be given, quoted messages included.
   `createDriveLinkRetrievalPlan` (`attachments/index.ts` 2164) keeps only
   `links`, `message` and `context` of an input that has one of them, and a
   normalized message always has `links`: its text and quotes are not visited.
5. *A message that the smoke run did not create.* `chat-reactions-smoke.mjs`
   says at 393 that it "deletes only the temporary bot-owned target message
   created by this smoke run". The name it cleans up starts as `--message-name`
   (841), which is accepted without `--list-only` as well; when the run fails
   before its own message is created, the named one is deleted.

Noticed while modelling, without a run of their own:

* *Stores and transport.* `plan-execution.md` 153-155 says that a request "is
  never sent twice" with a shared store; `enforceMaxEntries`
  (`transport/index.ts` 397) evicts a live claim when there are more than
  `maxEntries` keys. A refused token is refreshed and the request replayed as
  long as attempts are left (301); the retry guide (145) says once.
  `Retry-After` is capped by `maxDelayMs` (260); the guide (136-137) says it is
  honoured. A sign-out during a refresh is undone by its save.
* *Streaming.* A truncated text that is then cancelled or fails bears two notes,
  while room was kept for one (`streaming/index.ts` 355). `ActionsFit` allows
  for it by name, as it does for the typing indicator of a patch. With
  decorations as long as `maxMessageChars`, the split loop does not end;
  `RoomAssumption` excludes such configurations, the code does not. The requests
  that `createChatRequestApplier` makes throw when the access token cannot be
  had (`transport/index.ts` 573, outside its `try`). If it is the create of a
  continuation, the `catch` (`streaming/index.ts` 935-941) writes the text that
  belongs to the new message over the message just sealed, with one write more
  than `maxPatches` allows; `Budget`, and `GoAstray` of `StreamedAnswer`, allow
  for it by name. What throws in the `catch` or after the loop (940, 943-953)
  rejects the promise, with no report in which `failure` could stand. A split
  answer that is resumed is the first finding, and `muddled` in
  `StreamedAnswer`.
* *Router.* For a mention with a specific handler, the fallback order
  (`router/runtime.ts` 712) differs from that of the comment at 689-694. Slow
  verifications keep their slots after their timeout, so that a few of them
  turn every POST into a 503 until they end.
* *Planning.* `plan-execution.md` 97-99 asks for two flags in a direct message;
  `planReplyToEvent` needs `allowDirectMessages` alone and
  `planCompletePlaceholderResponse` neither. `findOrSetupDm` halts when its
  search fails, so that the setup only runs when the message space exists. The
  lost answer of a PATCH followed by its fallback leaves two messages. The
  fallback is a create with a request id of its own (`messages/index.ts`
  1092-1123), sent without a claim (`execute/index.ts` 572-579), so that two
  executions whose PATCHes fail both send that id, which the guide (147-156)
  says a shared store prevents; `SentOnce` excepts it by name.
* *Asynchronous answers.* Request ids that are not given are made of the space
  and the slug of the text (`messages/index.ts` 556-558, 1335, 1975), and the
  guide's example gives none. So two events of a space share one placeholder:
  the second create is given the first one's message, and its answer replaces
  the first one's. Answers of one slug are one message; an answer with the slug
  of the placeholder is not shown. A task that is pushed again and answered in
  other words has another id and posts a second message, although the plan calls
  itself `replaySafe` (1789); `NoSecondAnswer` excepts it by name.
* *Polling.* A deletion of an edited message has the edit's key and is skipped
  (the ingestion guide, 98-100, lists deletions). `nextRequest` lacks the start
  time, `showDeleted` and the page size of the request it continues. Polling in
  descending order from the watermark misses messages (`CaughtUp` does not hold
  of that combination, which the run leaves out).
* *Identity.* A user marked as missing is written after those listed and takes
  back an address that has been given to someone else.
* *Smoke scripts.* A deletion that fails ends the sweep
  (`chat-cleanup-smoke.mjs` 536), and as candidates are taken oldest first, one
  that cannot be deleted keeps all later ones in place, in every run; cleanups
  from evidence end likewise at the first message that is already gone. The
  sweep's pattern (315) does not match `...create.threadRoot` and
  `...create.threadReply`, so that these replies are not found if their run
  failed to delete them. A Workspace Events subscription whose operation was not
  awaited to its end is left, and known to nobody. A section that a run has
  created is left without a word when a later request throws. The read-state
  update writes the time it read, which may set back what the user read in
  between. `buildWorkspaceEventsSubscriptionSmokePlan` leaves out of a dry run
  what only a live run does; `--cleanup-resource` does not change the plan.
* *Two packages.* `conformance/README.md` 10 has the cases define behaviour
  that every package shares; on inputs no case has, they differ.
  The indexes of annotations are UTF-16 units in Node and code points in Python,
  so that a mention behind an emoji is cut differently (`PortsAgree` does not
  hold of `MCEmojiDeliveries`, which the run leaves out). A message without a
  thread takes the event's in Node alone. Python raises for times of "inf" and
  after the year 9999, and for hours that are no number, and takes a boolean for
  a number. Keys are sorted by locale in Node, by code point in Python. An empty
  string or object is a value in Node (`??`) and none in Python (`or`), where an
  empty widget, response or `data` of a cloud event is left out; a parameter
  that is `true` or null becomes "True" and "None" there.
* *Cards.* `summarizeCardAction` never says `dialog_cancel`, so that a cancelled
  dialog is routed to `cardClick` although there is a handler for
  `dialogCancel`. The linter looks at the buttons of button lists alone, not at
  those of decorated text, columns, carousels, grids, chips and images, nor at
  the dialog in a message's `actionResponse`: a dialog without a submit action
  passes with a button that leads nowhere. Add-on functions that are no URL are
  "caught before users see a broken card" (the card guide) only there. The
  summaries leave out the button and the switch of decorated text.
* *Walks.* A chat-link plan that was cut but found nothing is "blocked", though
  the guide says "partial". A record with a message of its own loses its own
  text in the Drive walk; of two links of a message with one URL the first alone
  says what kind of file it is. A quote known by name alone leaves no note in the
  conversation context, although `ai-context-rendering-requirements.md` 44-45
  asks for one; `omittedFragments` counts refusals and not fragments.

## 5. Proofs

The theorems hold for every value of the constants that satisfies the named
assumptions: any number of processes, threads, calls, deliveries or keys, any
sizes and bounds. Each inductive invariant contains what it needs of the
state's types.

| Module | Theorems | Argument |
| --- | --- | --- |
| `StreamSchedulerProofs` | `TypeCorrect`, `WritesFit` (`ActionsFit`) | lengths stay natural since a split takes no more than there is: `LoopInv` says that a split under way has too much text, `OpenFits` that an unfinished answer fits or is truncated. `ActionsFit` then follows write by write; while the loop runs, `LoopWithin` keeps the writes it has collected |
| | `WithinBudget` (`WritesWithinBudget`) | of the driver: `PhaseInv` says where it is in its list of actions, `BatchInv` what the rest of that list is about, and `BudgetInv` that the scheduler's count `patchesUsed` is ahead of the writes the current message has had, in the list as in every snapshot a later process may resume from. `HistoryInv`: a run in which something threw has only the `catch`'s list left, of one write; if the create of a continuation threw, that write is the one over the budget |
| | `StreamImplements` (`ImplementsAnswer`) | the pages of `StreamedAnswer` are the messages. `PageInv`: the next write to a message begins where it began, the next message where the last one stopped, except after a throw between the two, when the one write left belongs further on (`Stray`); `SavedInv`: as long as the answer has one message, so have its snapshots. Each step changes the last page, seals it, adds one, reports, takes up again, goes astray, fails or stutters |
| `FileStateLockProofs` | `Exclusive`, `InOrder`, `NoEntryLeaks` | a file's waiting calls form a chain. `OrderInv`: distinct turns; `ChainInv`: a call waits for the one that entered just before; `TurnInv`: whoever is in has only finished calls before it; `TailInv`: the map names the last active one. Exclusion is not inductive without the chain |
| | `ClaimsInOrder` (`FirstComeFirstServed`), `StoreImplements` (`ImplementsClaim`), the latter under `KeysFit` | of the file store, whose calls run inside the lock, fail at any step and die with the process. The lock's invariant is kept by the longer steps, too. `ReadInv`: what a call is about to write is the verdict on the file as it still is, at a time since the call was made; so a rename is a grant or a refusal, and everything else stutters, fails or answers |
| | `ThreadsTakeTurns` (`OneThreadPerFile`) | the count of a lock object is the number of threads that refer to it (`CountInv`), so that an entry is deleted only when nobody does, and whoever is past `_lock_for` has the object of the table (`RefInv`) |
| `StoreAndCacheProofs` | `TypeCorrect`, `Counting`, `LiveClaims`, `Implements` | `VersionInv`: an update time names one version of the document, so a precondition that holds means that what was read is still there; `CallInv`: what a call read justifies the request it is about to make. The refinement maps each request to a grant, an unheard grant, a refusal, a failure or a stutter |
| | `CacheGotAsPut` (`GotAsPut`) | `BlobInv`: a blob has the bytes of its name and is there before metadata name it; `SeenInv`: a call that runs has seen every entry its key had; `PutInv`: what a put has written stays until it has read it back, because `LockedInv` gives it the key for itself |
| | `NobodyForgotten` (`NeverForgotten`) | of `IdentityCache`: a put keeps the keys a map has and adds those of the records it is given; `list()`, which is what the file keeps, has a record for each id, so that a reload finds it. `WritersLock`: what a sync has loaded inside the file's lock finds everybody who was put before, since nobody else writes meanwhile |
| `DeliveryAndContextProofs` | `PoolsKept` (`PoolsAccounted`), `Protected` (`OnlyAdmittedHandled`), `DeliversAsSpecified` | a job is queued at most once and never both queued and running, so that leaving one place frees one slot, in either pool; a guard that answered "claimed" belongs to a delivery that holds the claim; a POST is dispatched only after its verification came in time. Each step of the adapter is a step of `BoundedDelivery` or leaves it alone |
| | `ContextKept` (`ContextAccounted`) | of `ConversationContext`, for any messages, quotes and limits. `ProjectionInv`: what was handed on, and then the listing of what is on the stack, is the listing of all, until a limit refuses or cuts a fragment, which is said; and until something is said, there is a set of messages all of whose fragments were handed on, each of whose quotes is in the set or on the stack. At the end the set holds the messages of the context and all they quote in turn. The context itself has every message of the pages unless it says so, since ordering loses none, and what is nested deeper than a quote may be is skipped with a note |
| `RequestsAndSmokeProofs` | `UnsafeOnce` (`UnsafeAppliedOnce`) | of `RetryTransport` alone: an unsafe request that is not done has never been carried out (`FreshInv`): only a 401, which the server answers without acting, sends it again |
| | `AuthTypeCorrect`, `NoGrantLost` (`GrantKept`), `TransportImplemented`, `UnsafeOnceWithStore` | the grant a call is about to save is shared with no other call and not yet in the store, so that a save puts a grant there that is unspent. The composition implements the transport, whose theorem is then used again |
| | `WritesArePlanned` (`NoUnplannedWrite`) | of `SmokeRuns`: for each script there are a set of steps, which its program is made of, and a set of slots, the only ones the run can ever hear of; every step that writes is in the plan or needs a slot outside that set, as the deletion of a message by a script that creates none (`Told`, one lemma per script). A run keeps to both sets (`PlanKept`) |
| | `OthersStay` (`DeletesOnlyItsOwn`), under `OwnNames(Others)`, and `LeftoversKept` (`LeftoversAccounted`) | one invariant, `RunInv(theirs)`, for a set of names that are theirs: those of others, or none. Each program is `Orderly` (one lemma per script): whatever the body of an act creates is meant to stay or is cleared by the cleanup of the same act, no step is about something of theirs, and a program that was told of something of theirs removes nothing and hides its names. So what a run created and still has a name for is meant to stay, or its cleanup is still to come, or its removal failed and was noted (`LeftAccounted`); and no evidence names anything of theirs (`Archive`), which later programs are made from |
| `EventsAndPlansProofs` | `OneSender` (`SentOnce`), `Gated`, `PinsAreAbsent`, `OkIsComplete` | an id has one claimant (`OneGrant`); who sends the request of a step has claimed its id for that step, and who sends a fallback has sent the PATCH before (`ClaimedFirst`); who is past the start may send (`PassedTheGate`). For the last two, an invariant of the walk through the plan says what each step's status means for the responses read |
| | `GenuineIsVerified`, `WithdrawnKeyIsForgotten` | a key in a fetched set or in the cache was withdrawn, if at all, no earlier than the set was asked for; so a late answer may bring back an old set but not an old time with it |
| | `OncePerClaim` (`HandledOncePerClaim`) | a frame that has started is at most `currentIndex`, which only grows, so that the last one starts once (`ChainInv`); the claims of an event are numbered and no number is granted twice (`GrantInv`); a chain that has started is past the guard (`StartedInv`) |
| | `LinksKept` (`LinksAccounted`) | of both link planners, for a tree of messages of any size and shape. The invariant of each walk: unless a budget ran out, there is a set of messages that have been read, with each of their links listed under a path that has the message's name, and whatever they lead to is in the set or still to come. When nothing is to come, the set holds the root and is closed, so that all that is in reach is in it. For Chat, what is found is always found for a link in reach, whose space every request planned for it keeps to; that what is in reach is closed itself is a count of nodes (`ClosedAtSize`) |
| `AnswersAndPollingProofs` | `AnsweredOnce` (`NoSecondAnswer`) | for any request ids, given or derived, of events of any spaces. The id an answer stands under says how it came about (`OriginInv`): it is the placeholder's, or made of a text the event was answered with, or the fallback's after a failed edit; a strategy is chosen once (`CauseInv`). A task taken up once is with one worker, or was answered in one text (`TakenInv`), and queues that hand a task over never do so again (`PlaceInv`) |
| | `HeldInOnePlace` (`TasksHeldOnce`) | who holds the queue's lock has read the queue as it is (`LockInv`); a task is accepted once, by the last step of its handler, and is in one place from then on (`PlaceInv`) until it is lost or shown (`KeptInv`): that the message of its id is there (`PostedInv`), if with the answer of another event that has the same id |
| | `OncePerLife` (`HandedOnOncePerLife`) | what the poller has not in its keys seen was handed on in former lives only, at most once in each (`LifeInv`) |
| `SequenceInduction` | lemmas that the others cite | induction over the naturals for a set instead of a predicate (`SetInduction`, `UpTo`), from the least element of its complement; that a recursive function exists, whose values each step takes from `X` to `X` (`Iterated`, `Joining`); what relates each step of it to the last (`Followed`); what is in reach of a root in as many steps as there are nodes (`ClosedAtSize`); what appending, joining, flattening, reversing and ordering give |

Two of them have a hypothesis of their own, because the code does not keep the
promise without it:

* `KeysFit`: the keys in use do not outnumber `maxEntries`. With more of them
  `enforceMaxEntries` drops live claims (section 4), and a key is granted again.
* `OwnNames(Others)`: no command names something of others to a script that
  removes what it is told of, `chat` with `--cleanup-resource` or `reactions`
  without `--list-only`. The latter promises to remove only what it created and
  does not; that is the finding of `smoke_foreign_message`. Commands that only
  look at what they are given may name anything.

`file_store` satisfies the first with equality, and the commands of
`independent_parts` the second, so that TLC checks the same promises on an
instance.

Five assumptions on constants are there for the proofs: `IdentityAssumption` has
each user's addresses finite, which `SetToSeq` needs, and `SmokeAssumption` the
names on a command line in a sequence. `ChatAssumption` and `DriveAssumption` say
what a link planner is given: a finite tree, which may share nodes and have
cycles, of records of the planner's input types, and limits that are numbers. For
Drive that includes that what a record holds, quotes or has in its history is a
message that holds none itself: of a deeper one, and of the text of a record that
holds one, the code reads nothing (section 4). `ContextAssumption` says that
what is quoted is a message as well, that there is a page (a reader has asked for
one), and that the limits are natural numbers: those of the projection as
`modelContextOptions` enforces, positive but for the depth of quotes; `limit` and
`maxQuoteDepth` of the context by assumption, since `buildConversationContext`
takes any number.

What TLC alone shows:

* all liveness (`Terminates`, `EveryClaimReturns`, `EveryRequestAnswered`,
  `EveryDispatchAnswered`, `EveryCallEnds`, `EveryTaskAnswered`, `CaughtUp`),
  which is outside the prover's reach;
* what `Ports` says of the two packages (`PortsAgree`, `SegmentsTile`,
  `KeyPerEvent`, `ButtonsWork`): their functions are compositions of conversions
  of JSON of any depth, some recursive, so that TLC's inputs are all there is to
  it;
* `RetryTransport`'s type invariant, which bounds a delay that holds a power of
  two, for which the SMT backend has no arithmetic.

## 6. What is left

The order so far was: streaming, stores, locks, routers, transport and token
store, executor and planners, asynchronous answers and polling, caches and
verification, link planners and conversation context, smoke scripts, event
normalization and cards. Left are:

1. *Compositions.* The router over a store that is not atomic, the executor
   over the retrying transport, and two processes on one file store (the lock
   is per process, so that updates are lost there).
2. *More proofs.* Type correctness of the file store and of the cache as
   theorems of their own.
3. *More of the model.* The cancellation registry with `clear`, the attachment
   pipeline, the Python twins that have no model of their own, agent interop.

## 7. Running

    tlc -config StreamReply.cfg StreamReply.tla
    tlapm StoreAndCacheProofs.tla

The longest run takes a few minutes.
