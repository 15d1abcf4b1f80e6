--------------------------- MODULE RetryTransport ---------------------------
(***************************************************************************)
(* requestJsonWithRetry and buildRetryDecision                             *)
(* (packages/node/src/transport/index.ts): several requests, made at once  *)
(* with tokens of one principal, that are refreshed, retried after a delay *)
(* or given up.                                                            *)
(*                                                                         *)
(* External: the server, which applies a request or not and whose answer   *)
(* may be lost, and getAccessToken, which hands out any token that was     *)
(* ever valid, or throws.  AuthorizedRequests puts the token store's       *)
(* getAccessToken in its place and implements this module's Spec.          *)
(***************************************************************************)
EXTENDS Integers

CONSTANTS
  Calls,
  ReplaySafe,     \* for each call what isReplaySafe says of it
  MaxAttempts, BaseDelay, MaxDelay,   \* retryPolicy
  RetryAfters,    \* the values of Retry-After the server uses (-1: no header)
  ExpiryBound     \* model bound: tokens that expire

ASSUME TransportAssumption ==
  /\ ReplaySafe \in [Calls -> BOOLEAN]
  /\ MaxAttempts \in Nat \ {0}
  /\ BaseDelay \in Nat /\ MaxDelay \in Nat
  /\ RetryAfters \subseteq Nat
  /\ ExpiryBound \in Nat

VARIABLES
  validToken,   \* external: the token the server accepts
  lease,        \* the token each call uses
  pc,
  attempts,
  delay,        \* the sleep before the next attempt
  applied,      \* history: how often the server carried the request out
  result        \* "none", "ok", "http_error", "network_error", "rejected"

vars == <<validToken, lease, pc, attempts, delay, applied, result>>

Results == {"none", "ok", "http_error", "network_error", "rejected"}

Init ==
  /\ validToken = 1
  /\ lease = [c \in Calls |-> 0]
  /\ pc = [c \in Calls |-> "start"]
  /\ attempts = [c \in Calls |-> 0]
  /\ delay = [c \in Calls |-> 0]
  /\ applied = [c \in Calls |-> 0]
  /\ result = [c \in Calls |-> "none"]

-----------------------------------------------------------------------------
Least(a, b) == IF a < b THEN a ELSE b

BackoffDelay(attempt, retryAfter) ==
  IF retryAfter >= 0 THEN Least(retryAfter, MaxDelay)
  ELSE Least(BaseDelay * 2 ^ (IF attempt > 0 THEN attempt - 1 ELSE 0), MaxDelay)

\* Mutant: replay safety is not asked for.
BuildRetryDecision_Unsafe(safe, attempt, answer) ==
  IF attempt >= MaxAttempts THEN "fail"
  ELSE IF answer = "unauthorized" THEN "refresh_auth"
  ELSE IF answer \in {"retryable", "network_error"} THEN "retry"
  ELSE "fail"

BuildRetryDecision(safe, attempt, answer) ==
  IF attempt >= MaxAttempts THEN "fail"
  ELSE IF answer = "unauthorized" THEN "refresh_auth"
  ELSE IF answer \in {"retryable", "network_error"} /\ safe THEN "retry"
  ELSE "fail"

-----------------------------------------------------------------------------
Goto(c, label) == pc' = [pc EXCEPT ![c] = label]

Return(c, outcome) ==
  /\ Goto(c, "done")
  /\ result' = [result EXCEPT ![c] = outcome]

(* The first getAccessToken, outside the try block.                        *)
GetAccessToken(c) ==
  /\ pc[c] = "start"
  /\ \/ /\ \E token \in 1..validToken : lease' = [lease EXCEPT ![c] = token]
        /\ Goto(c, "send") /\ UNCHANGED result
     \/ Return(c, "rejected") /\ UNCHANGED lease
  /\ UNCHANGED <<validToken, attempts, delay, applied>>

(* What the decision on a response, or on a thrown error, leads to.        *)
Decide(c, attempt, answer, retryAfter) ==
  LET decision == BuildRetryDecision(ReplaySafe[c], attempt, answer)
  IN \/ decision = "refresh_auth" /\ Goto(c, "refresh") /\ UNCHANGED <<delay, result>>
     \/ /\ decision = "retry" /\ Goto(c, "sleep")
        /\ delay' = [delay EXCEPT ![c] = BackoffDelay(attempt, retryAfter)]
        /\ UNCHANGED result
     \/ /\ decision = "fail"
        /\ Return(c, IF answer = "network_error" THEN "network_error" ELSE "http_error")
        /\ UNCHANGED delay

Applied(c) == applied' = [applied EXCEPT ![c] = @ + 1]

\* Mutant: a 401 does not count as an attempt.
Send_UncountedAuth(c) ==
  /\ pc[c] = "send"
  /\ \/ /\ Decide(c, attempts[c] + 1, "unauthorized", -1) /\ UNCHANGED attempts
        /\ UNCHANGED applied
     \/ /\ Return(c, "ok") /\ Applied(c) /\ UNCHANGED delay
        /\ attempts' = [attempts EXCEPT ![c] = @ + 1]
  /\ UNCHANGED <<validToken, lease>>

(* One round of the loop: fetch, parseJson, and the decision.  The server  *)
(* may refuse a valid token; an error status or a lost answer does not say *)
(* whether it has carried the request out.                                 *)
Send(c) ==
  LET attempt == attempts[c] + 1
  IN /\ pc[c] = "send"
     /\ attempts' = [attempts EXCEPT ![c] = attempt]
     /\ \/ /\ lease[c] = validToken /\ Applied(c)
           /\ Return(c, "ok") /\ UNCHANGED delay
        \/ Decide(c, attempt, "unauthorized", -1) /\ UNCHANGED applied
        \/ Decide(c, attempt, "refused", -1) /\ UNCHANGED applied
        \/ /\ lease[c] = validToken
           /\ \E after \in RetryAfters \cup {-1} : Decide(c, attempt, "retryable", after)
           /\ Applied(c) \/ UNCHANGED applied
        \/ /\ Decide(c, attempt, "network_error", -1)
           /\ (lease[c] = validToken /\ Applied(c)) \/ UNCHANGED applied
     /\ UNCHANGED <<validToken, lease>>

(* getAccessToken with forceRefresh.  When it throws, the catch block      *)
(* takes that for a network error and decides again.                       *)
Refresh(c) ==
  /\ pc[c] = "refresh"
  /\ \/ /\ \E token \in 1..validToken : lease' = [lease EXCEPT ![c] = token]
        /\ Goto(c, "send") /\ UNCHANGED <<delay, result>>
     \/ /\ Decide(c, attempts[c], "network_error", -1)
        /\ UNCHANGED lease
  /\ UNCHANGED <<validToken, attempts, applied>>

Wake(c) ==
  /\ pc[c] = "sleep" /\ Goto(c, "send")
  /\ UNCHANGED <<validToken, lease, attempts, delay, applied, result>>

Expire ==
  /\ validToken <= ExpiryBound
  /\ validToken' = validToken + 1
  /\ UNCHANGED <<lease, pc, attempts, delay, applied, result>>

Step(c) == GetAccessToken(c) \/ Send(c) \/ Refresh(c) \/ Wake(c)

Next == Expire \/ \E c \in Calls : Step(c)

Spec == Init /\ [][Next]_vars

-----------------------------------------------------------------------------
(* The state's shape; attempts and delays are within the policy.           *)
TypeOK ==
  /\ validToken \in Nat
  /\ lease \in [Calls -> Nat]
  /\ pc \in [Calls -> {"start", "send", "refresh", "sleep", "done"}]
  /\ attempts \in [Calls -> 0..MaxAttempts]
  /\ delay \in [Calls -> 0..MaxDelay]
  /\ applied \in [Calls -> Nat]
  /\ result \in [Calls -> Results]

(* A write that is not safe to replay is carried out at most once, however *)
(* its attempts fail and its token expires.                                *)
UnsafeAppliedOnce ==
  \A c \in Calls : ~ReplaySafe[c] => applied[c] <= 1
=============================================================================
