--------------------------- MODULE FirestoreStore ---------------------------
(***************************************************************************)
(* FirestoreIdempotencyStore.claim                                         *)
(* (packages/node/src/firestore/index.ts:307-434): the create, read,       *)
(* delete-if-expired and compare-and-set loop by which several processes   *)
(* claim one key, each request one step, so that every interleaving of     *)
(* requests is considered.                                                 *)
(*                                                                         *)
(* Keys live in documents of their own, so one key is enough.  Firestore   *)
(* is external: it answers, refuses with an error status, or applies a     *)
(* write whose answer is lost.  The processes share one clock (the code    *)
(* trusts Date.now of each); a call reads it once, when it starts.         *)
(***************************************************************************)
EXTENDS Naturals

CONSTANTS
  Claimers,
  Ttl,               \* ttlMs
  MaxCasAttempts,
  Recording,         \* the claimers with recordDuplicateDeliveries
  ClockBound,        \* model bound: the clock's last reading
  CallBound,         \* model bound: calls in all
  FaultBound         \* model bound: requests that fail or lose their answer

ASSUME FirestoreAssumption ==
  /\ Ttl \in Nat \ {0}
  /\ MaxCasAttempts \in Nat \ {0}
  /\ Recording \subseteq Claimers
  /\ ClockBound \in Nat /\ CallBound \in Nat /\ FaultBound \in Nat

VARIABLES
  clock,
  document,     \* external: {} or {the stored document}
  updates,      \* external: writes so far, the source of updateTime
  pc, nowMs, attempt,
  existing,     \* what the call last read, a set like document
  result,       \* of the last call: [answer, seenCount]
  deliveries,   \* history: seenCount values stored since the document's creation
  calls, faults

vars == <<clock, document, updates, pc, nowMs, attempt, existing, result,
          deliveries, calls, faults>>

Document == [firstSeen : Nat, expires : Nat, seenCount : Nat, updateTime : Nat]

PCs == {"idle", "create", "read", "delete", "update"}

Answers == {"none", "claimed", "duplicate", "error", "conflict"}

Init ==
  /\ clock = 1
  /\ document = {} /\ updates = 0
  /\ pc = [c \in Claimers |-> "idle"]
  /\ nowMs = [c \in Claimers |-> 0]
  /\ attempt = [c \in Claimers |-> 0]
  /\ existing = [c \in Claimers |-> {}]
  /\ result = [c \in Claimers |-> [answer |-> "none", seenCount |-> 0]]
  /\ deliveries = 0 /\ calls = 0 /\ faults = 0

Goto(c, label) == pc' = [pc EXCEPT ![c] = label]

Return(c, answer, seenCount) ==
  /\ Goto(c, "idle")
  /\ result' = [result EXCEPT ![c] = [answer |-> answer, seenCount |-> seenCount]]
  /\ UNCHANGED attempt

(* #retryAfterConflict sleeps; then the loop starts over or gives up.      *)
RetryAfterConflict(c) ==
  IF attempt[c] + 1 < MaxCasAttempts
  THEN /\ attempt' = [attempt EXCEPT ![c] = @ + 1]
       /\ Goto(c, "create")
       /\ UNCHANGED result
  ELSE Return(c, "conflict", 0)

Faulty == faults < FaultBound /\ faults' = faults + 1

(* A request whose status is an error: it was not applied.                 *)
Refused(c) ==
  /\ Faulty
  /\ Return(c, "error", 0)
  /\ UNCHANGED <<document, updates, deliveries>>

-----------------------------------------------------------------------------
Claim(c) ==
  /\ pc[c] = "idle" /\ calls < CallBound
  /\ calls' = calls + 1
  /\ nowMs' = [nowMs EXCEPT ![c] = clock]
  /\ attempt' = [attempt EXCEPT ![c] = 0]
  /\ existing' = [existing EXCEPT ![c] = {}]
  /\ result' = [result EXCEPT ![c] = [answer |-> "none", seenCount |-> 0]]
  /\ Goto(c, "create")
  /\ UNCHANGED <<clock, document, updates, deliveries, faults>>

(* POST with documentId: 409 when the document exists.                     *)
Stored(c) ==
  /\ document' = {[firstSeen |-> nowMs[c], expires |-> nowMs[c] + Ttl,
                   seenCount |-> 1, updateTime |-> updates + 1]}
  /\ updates' = updates + 1
  /\ deliveries' = 1

Create(c) ==
  /\ pc[c] = "create"
  /\ \/ /\ document = {} /\ Stored(c) /\ Return(c, "claimed", 1)
        /\ UNCHANGED faults
     \/ /\ document = {} /\ Stored(c) /\ Faulty /\ Return(c, "error", 0)
     \/ /\ document # {} /\ Goto(c, "read")
        /\ UNCHANGED <<document, updates, deliveries, result, attempt, faults>>
     \/ Refused(c)
  /\ UNCHANGED <<clock, nowMs, existing, calls>>

\* Mutant: a claim is still taken for valid at the instant it expires.
Read_ExpiresLate(c) ==
  /\ pc[c] = "read"
  /\ existing' = [existing EXCEPT ![c] = document]
  /\ \/ /\ document = {} /\ RetryAfterConflict(c)
     \/ \E found \in document :
          IF found.expires < nowMs[c]
          THEN Goto(c, "delete") /\ UNCHANGED <<result, attempt>>
          ELSE IF c \in Recording
          THEN Goto(c, "update") /\ UNCHANGED <<result, attempt>>
          ELSE Return(c, "duplicate", found.seenCount)
  /\ UNCHANGED <<document, updates, deliveries, faults, clock, nowMs, calls>>

(* GET, and what the loop decides on what it finds.                        *)
Read(c) ==
  /\ pc[c] = "read"
  /\ existing' = [existing EXCEPT ![c] = document]
  /\ \/ /\ document = {} /\ RetryAfterConflict(c)
        /\ UNCHANGED <<document, updates, deliveries, faults>>
     \/ \E found \in document :
          /\ IF found.expires <= nowMs[c]
             THEN Goto(c, "delete") /\ UNCHANGED <<result, attempt>>
             ELSE IF c \in Recording
             THEN Goto(c, "update") /\ UNCHANGED <<result, attempt>>
             ELSE Return(c, "duplicate", found.seenCount)
          /\ UNCHANGED <<document, updates, deliveries, faults>>
     \/ Refused(c)
  /\ UNCHANGED <<clock, nowMs, calls>>

(* The precondition of a write: currentDocument.updateTime is the one read. *)
Unchanged(c) ==
  \E d \in document, e \in existing[c] : d.updateTime = e.updateTime

(* DELETE with the updateTime read: gone, changed and deleted all retry.   *)
Delete(c) ==
  /\ pc[c] = "delete"
  /\ \/ /\ document' = (IF Unchanged(c) THEN {} ELSE document)
        /\ RetryAfterConflict(c)
        /\ UNCHANGED <<updates, deliveries, faults>>
     \/ /\ Unchanged(c) /\ document' = {}
        /\ Faulty /\ Return(c, "error", 0)
        /\ UNCHANGED <<updates, deliveries>>
     \/ Refused(c)
  /\ UNCHANGED <<clock, nowMs, existing, calls>>

Counted(c) ==
  /\ document' = {[d EXCEPT !.seenCount = @ + 1, !.updateTime = updates + 1] : d \in existing[c]}
  /\ updates' = updates + 1
  /\ deliveries' = deliveries + 1

\* Mutant: the count is written without a precondition.
Update_Unconditional(c) ==
  /\ pc[c] = "update"
  /\ Counted(c)
  /\ \E found \in existing[c] : Return(c, "duplicate", found.seenCount + 1)
  /\ UNCHANGED <<faults, clock, nowMs, existing, calls>>

(* PATCH with the updateTime read.  A document that is gone is reported as *)
(* not found, which this step, unlike Delete, takes for an error, or as a  *)
(* failed precondition.                                                    *)
Update(c) ==
  /\ pc[c] = "update"
  /\ \/ /\ Unchanged(c) /\ Counted(c)
        /\ \E found \in existing[c] : Return(c, "duplicate", found.seenCount + 1)
        /\ UNCHANGED faults
     \/ /\ Unchanged(c) /\ Counted(c) /\ Faulty /\ Return(c, "error", 0)
     \/ /\ ~Unchanged(c) /\ RetryAfterConflict(c)
        /\ UNCHANGED <<document, updates, deliveries, faults>>
     \/ /\ document = {} /\ Return(c, "error", 0)
        /\ UNCHANGED <<document, updates, deliveries, faults>>
     \/ Refused(c)
  /\ UNCHANGED <<clock, nowMs, existing, calls>>

Tick ==
  /\ clock < ClockBound
  /\ clock' = clock + 1
  /\ UNCHANGED <<document, updates, pc, nowMs, attempt, existing, result,
                 deliveries, calls, faults>>

Step(c) == Create(c) \/ Read(c) \/ Delete(c) \/ Update(c)

Next == Tick \/ \E c \in Claimers : Claim(c) \/ Step(c)

Spec == Init /\ [][Next]_vars

-----------------------------------------------------------------------------
(* The state's shape; at most one document; no call goes beyond its last    *)
(* attempt.                                                                *)
TypeOK ==
  /\ clock \in Nat /\ updates \in Nat /\ deliveries \in Nat
  /\ calls \in Nat /\ faults \in Nat
  /\ document \in SUBSET Document
  /\ \A d, e \in document : d = e
  /\ pc \in [Claimers -> PCs]
  /\ nowMs \in [Claimers -> Nat]
  /\ attempt \in [Claimers -> 0..(MaxCasAttempts - 1)]
  /\ existing \in [Claimers -> SUBSET Document]
  /\ result \in [Claimers -> [answer : Answers, seenCount : Nat]]

(* When the claim on the key expires, 0 when there is none.                *)
Expiry == IF document = {} THEN 0 ELSE (CHOOSE d \in document : TRUE).expires

AnswerTo(c) ==
  IF pc[c] # "idle" THEN "pending"
  ELSE IF result[c].answer = "conflict" THEN "error" ELSE result[c].answer

Contract ==
  INSTANCE IdempotentClaim WITH
    Keys <- {"key"}, Callers <- Claimers,
    expiry <- [k \in {"key"} |-> Expiry],
    call <- [c \in Claimers |-> [key |-> "key", since |-> nowMs[c]]],
    answer <- [c \in Claimers |-> AnswerTo(c)]

(* No claim is granted twice before it expires, whatever requests          *)
(* interleave, fail or lose their answers: the store is an                 *)
(* IdempotentClaim.                                                        *)
ImplementsClaim == Contract!Spec

(* No delivery goes uncounted: seenCount is the number of deliveries       *)
(* stored since the claim, also when two duplicates arrive at once.        *)
EveryDeliveryCounted ==
  \A d \in document : d.seenCount = deliveries

(* A claim that has not expired is never deleted, whatever an older read   *)
(* said.                                                                   *)
LiveClaimKept ==
  [][\A d \in document :
       d.expires > clock => \E e \in document' : e.firstSeen = d.firstSeen /\ e.expires = d.expires
    ]_vars
=============================================================================
