--------------------------- MODULE RequestVerifier ---------------------------
(***************************************************************************)
(* createGoogleChatTokenVerifier and verifyGoogleChatToken                 *)
(* (packages/node/src/verify/index.ts): the signing keys are fetched,      *)
(* cached for cacheTtlMs, and fetched once more when a token names a key   *)
(* the cache has not.  Verifications overlap, and every one of them fetches*)
(* for itself and writes the cache when its answer arrives.                *)
(*                                                                         *)
(* External: Google, which publishes keys and withdraws them; the requests,*)
(* whose tokens are genuine or have one flaw.  RSA, base64 and JSON are    *)
(* left out: a token is what the checks make of it.                        *)
(***************************************************************************)
EXTENDS Integers, FiniteSets

CONSTANTS
  Calls,          \* model bound: calls of verify, numbered as they come in
  CacheTtl,
  Flaws,          \* model bound: the flaws of the tokens that come in
  KeyBound,       \* model bound: keys ever published
  TimeBound,      \* model bound: ticks of the clock
  FetchFaults     \* model bound: fetches that fail

\* In the order of the checks: before and after the key is looked up.
EarlyFlaws == {"missing_token", "malformed", "unsupported_algorithm"}

LateFlaws == {"bad_signature", "wrong_issuer", "wrong_audience", "not_yet_valid",
              "expired", "wrong_email", "email_not_verified"}

ASSUME VerifierAssumption ==
  /\ Calls \in Nat /\ CacheTtl \in Nat \ {0}
  /\ "none" \in Flaws /\ Flaws \subseteq EarlyFlaws \cup LateFlaws \cup {"none"}
  /\ KeyBound \in Nat \ {0} /\ TimeBound \in Nat /\ FetchFaults \in Nat

Verifications == 1..Calls

VARIABLES
  now,
  published,     \* external: the keys in the JWKS; the last one signs
  withdrawnAt,   \* external: when a key was taken out of it
  token,         \* of each verification
  stage,         \* of each verification
  asked,         \* when its fetch was sent
  fetched,       \* the keys its fetch was served with, none before that
  jwksCache,     \* keys and fetchedAtMs
  verdict,       \* "none", or the status of the result
  checkedAt,     \* nowMs of verify
  fetchFaults

verifierVars == <<now, published, withdrawnAt, token, stage, asked, fetched,
                  jwksCache, verdict, checkedAt, fetchFaults>>

NoKey == 0     \* a kid that is nowhere

NoToken == [kid |-> NoKey, flaw |-> "none"]

EmptyCache == [keys |-> {}, fetchedAtMs |-> -1]    \* cache === null

VerifierInit ==
  /\ now = 0 /\ published = {1} /\ withdrawnAt = [k \in {} |-> 0]
  /\ token = [v \in Verifications |-> NoToken]
  /\ stage = [v \in Verifications |-> "start"]
  /\ asked = [v \in Verifications |-> 0]
  /\ fetched = [v \in Verifications |-> {}]
  /\ jwksCache = EmptyCache
  /\ verdict = [v \in Verifications |-> "none"]
  /\ checkedAt = [v \in Verifications |-> 0]
  /\ fetchFaults = 0

-----------------------------------------------------------------------------
(* Google *)

unchangedByGoogle == <<token, stage, asked, fetched, jwksCache, verdict, checkedAt,
                       fetchFaults>>

PublishKey ==
  /\ Cardinality(published \cup DOMAIN withdrawnAt) < KeyBound
  /\ published' = published \cup {Cardinality(published \cup DOMAIN withdrawnAt) + 1}
  /\ UNCHANGED <<now, withdrawnAt, unchangedByGoogle>>

\* The newest key stays.
WithdrawKey ==
  \E k \in published :
    /\ \E newer \in published : newer > k
    /\ published' = published \ {k}
    /\ withdrawnAt' = [i \in DOMAIN withdrawnAt \cup {k} |->
                         IF i = k THEN now ELSE withdrawnAt[i]]
    /\ UNCHANGED <<now, unchangedByGoogle>>

VerifierTick ==
  /\ now < TimeBound /\ now' = now + 1
  /\ UNCHANGED <<published, withdrawnAt, unchangedByGoogle>>

-----------------------------------------------------------------------------
(* verifyGoogleChatToken: the status for a token and a set of keys.        *)
VerifyGoogleChatToken(tok, keys) ==
  CASE tok.flaw \in EarlyFlaws -> tok.flaw
    [] tok.flaw \notin EarlyFlaws /\ tok.kid \notin keys -> "unknown_key"
    [] tok.flaw \in LateFlaws /\ tok.kid \in keys -> tok.flaw
    [] OTHER -> "verified"

Finish(v, status) ==
  /\ stage' = [stage EXCEPT ![v] = "done"]
  /\ verdict' = [verdict EXCEPT ![v] = status]
  /\ asked' = [asked EXCEPT ![v] = 0] /\ fetched' = [fetched EXCEPT ![v] = {}]

\* fetchJwks is called, and now() is read before it.
Fetch(v, next) ==
  /\ stage' = [stage EXCEPT ![v] = next]
  /\ asked' = [asked EXCEPT ![v] = now]
  /\ fetched' = [fetched EXCEPT ![v] = {}]

\* Mutant: the keys are not fetched again for a key that is unknown.
Evaluate_Once(v, tok, keys) ==
  Finish(v, VerifyGoogleChatToken(tok, keys))

(* The first pass over the keys; an unknown key forces a refresh.          *)
Evaluate(v, tok, keys) ==
  LET status == VerifyGoogleChatToken(tok, keys)
  IN IF status = "unknown_key"
     THEN Fetch(v, "refetching") /\ UNCHANGED verdict
     ELSE Finish(v, status)

Keys == published \cup DOMAIN withdrawnAt

\* What can come in: the name of a key that is, was or never was Google's.
Tokens ==
  [kid : {NoKey}, flaw : Flaws \ LateFlaws] \cup [kid : Keys, flaw : Flaws]

CacheFresh ==
  jwksCache # EmptyCache /\ now - jwksCache.fetchedAtMs < CacheTtl

(* verify: a token comes in, and loadKeys(false) finds the cache fresh or  *)
(* fetches.                                                                *)
StartVerification(v) ==
  /\ stage[v] = "start" /\ \A u \in 1..(v - 1) : stage[u] # "start"
  /\ checkedAt' = [checkedAt EXCEPT ![v] = now]
  /\ \E tok \in Tokens :
       /\ token' = [token EXCEPT ![v] = tok]
       /\ IF CacheFresh THEN Evaluate(v, tok, jwksCache.keys)
          ELSE Fetch(v, "fetching") /\ UNCHANGED verdict
  /\ UNCHANGED <<now, published, withdrawnAt, jwksCache, fetchFaults>>

InFlight(v) == stage[v] \in {"fetching", "refetching"}

(* The server answers with the keys of that moment; the answer travels.    *)
ServeKeys(v) ==
  /\ InFlight(v) /\ fetched[v] = {}
  /\ fetched' = [fetched EXCEPT ![v] = published]
  /\ UNCHANGED <<now, published, withdrawnAt, token, stage, asked, jwksCache, verdict,
                 checkedAt, fetchFaults>>

\* Mutant: the age of the keys counts from their arrival.
CacheEntry_AtArrival(v) == [keys |-> fetched[v], fetchedAtMs |-> now]

CacheEntry(v) == [keys |-> fetched[v], fetchedAtMs |-> asked[v]]

KeysArrive(v) ==
  /\ InFlight(v) /\ fetched[v] # {}
  /\ jwksCache' = CacheEntry(v)
  /\ \/ stage[v] = "fetching" /\ Evaluate(v, token[v], fetched[v])
     \/ /\ stage[v] = "refetching"
        /\ Finish(v, VerifyGoogleChatToken(token[v], fetched[v]))
  /\ UNCHANGED <<now, published, withdrawnAt, token, checkedAt, fetchFaults>>

\* An error, an HTTP status that is not ok, or a body without keys.
FetchFails(v) ==
  /\ InFlight(v) /\ fetchFaults < FetchFaults
  /\ fetchFaults' = fetchFaults + 1
  /\ Finish(v, "keys_unavailable")
  /\ UNCHANGED <<now, published, withdrawnAt, token, jwksCache, checkedAt>>

VerifierNext ==
  \/ PublishKey \/ WithdrawKey \/ VerifierTick
  \/ \E v \in Verifications :
       StartVerification(v) \/ ServeKeys(v) \/ KeysArrive(v) \/ FetchFails(v)

VerifierSpec == VerifierInit /\ [][VerifierNext]_verifierVars

-----------------------------------------------------------------------------
VerifierTypeOK ==
  /\ now \in Nat /\ published \subseteq 1..KeyBound /\ published # {}
  /\ token \in [Verifications -> [kid : 0..KeyBound, flaw : Flaws]]
  /\ stage \in [Verifications -> {"start", "fetching", "refetching", "done"}]
  /\ asked \in [Verifications -> Nat] /\ checkedAt \in [Verifications -> Nat]
  /\ fetched \in [Verifications -> SUBSET (1..KeyBound)]
  /\ jwksCache.keys \subseteq 1..KeyBound

Genuine(v) == token[v].kid # NoKey /\ token[v].flaw = "none"

(* A genuine request is verified, however old the cache is and whichever   *)
(* of several fetches wrote it last, unless its key was withdrawn after it *)
(* was signed or the keys could not be fetched.                            *)
GenuineVerified ==
  \A v \in Verifications :
    stage[v] = "done" /\ Genuine(v) =>
      verdict[v] \in {"verified", "keys_unavailable"} \/ token[v].kid \in DOMAIN withdrawnAt

(* A key that Google has withdrawn is accepted for less than cacheTtlMs,   *)
(* however long the fetch took that brought it and in whatever order the   *)
(* answers came.                                                           *)
WithdrawnKeyForgotten ==
  \A v \in Verifications :
    verdict[v] = "verified" /\ token[v].kid \in DOMAIN withdrawnAt =>
      checkedAt[v] < withdrawnAt[token[v].kid] + CacheTtl
=============================================================================
