------------------------ MODULE EventsAndPlansProofs ------------------------
(***************************************************************************)
(* Proofs about what an inbound request meets, for any number of requests: *)
(* its verification (RequestVerifier), and the router (EventRouter); about *)
(* the execution of the plans its handlers make (PlanExecutor); and about  *)
(* the plans made of the links in its messages (ChatLinks, DriveLinks).    *)
(*                                                                         *)
(* The inductive invariant of the verifier follows a set of keys from the  *)
(* server to the cache: a key in it that has since been withdrawn was      *)
(* withdrawn no earlier than the set was asked for, and a set that answers *)
(* a fetch has every key the token could name.  That of the router says    *)
(* that the chain of a request is past the guard, that no frame beyond     *)
(* currentIndex has started, and that no claim is granted twice.  That of  *)
(* a walk for links says that, unless a budget ran out, each message that  *)
(* was read has its links found, and whatever it leads to was read as well *)
(* or is still to come.                                                    *)
(***************************************************************************)
EXTENDS RequestVerifier, EventRouter, PlanExecutor, DriveLinks, SequenceInduction,
        FiniteSetTheorems, TLAPS

Verdicts == EarlyFlaws \cup LateFlaws
              \cup {"none", "verified", "unknown_key", "keys_unavailable"}

(* Keys are numbered as they are published, and withdrawn once.            *)
KeysInv ==
  /\ \E n \in Nat : Keys = 1..n
  /\ published \cap DOMAIN withdrawnAt = {}
  /\ \A k \in DOMAIN withdrawnAt : withdrawnAt[k] \in Nat /\ withdrawnAt[k] <= now

ShapeInv ==
  /\ now \in Nat /\ jwksCache.fetchedAtMs \in Int
  /\ token \in [Verifications -> [kid : Nat, flaw : Flaws]]
  /\ stage \in [Verifications -> {"start", "fetching", "refetching", "done"}]
  /\ asked \in [Verifications -> Nat] /\ checkedAt \in [Verifications -> Nat]
  /\ fetched \in [Verifications -> SUBSET Nat]
  /\ verdict \in [Verifications -> Verdicts]
  /\ jwksCache \in [keys : SUBSET Nat, fetchedAtMs : Int]

(* A set of keys asked for at a time holds no key withdrawn before it.     *)
Asked(keys, time) ==
  \A k \in keys : k \in DOMAIN withdrawnAt => time <= withdrawnAt[k]

FetchInv ==
  \A v \in Verifications : InFlight(v) =>
    /\ checkedAt[v] <= asked[v] /\ asked[v] <= now
    /\ Asked(fetched[v], asked[v])
    /\ fetched[v] # {} => token[v].kid \in fetched[v] \cup DOMAIN withdrawnAt \cup {NoKey}

CacheInv ==
  jwksCache.fetchedAtMs <= now /\ Asked(jwksCache.keys, jwksCache.fetchedAtMs)

TokenInv ==
  \A v \in Verifications :
    /\ token[v].kid \in Keys \cup {NoKey}
    /\ checkedAt[v] <= now
    /\ stage[v] # "done" => verdict[v] = "none"

IInv ==
  /\ ShapeInv /\ KeysInv /\ FetchInv /\ CacheInv /\ TokenInv
  /\ GenuineVerified /\ WithdrawnKeyForgotten

-----------------------------------------------------------------------------
(* What verifyGoogleChatToken answers: "verified" only for a token whose   *)
(* key is in the set, and for a genuine token nothing but that or          *)
(* "unknown_key".                                                          *)
LEMMA VerifyAnswers ==
  ASSUME NEW tok, NEW keys
  PROVE  LET status == VerifyGoogleChatToken(tok, keys)
         IN /\ status \in Verdicts \ {"none"}
            /\ status = "verified" => tok.kid \in keys
            /\ tok.flaw = "none" =>
                 status = IF tok.kid \in keys THEN "verified" ELSE "unknown_key"
<1> DEFINE status == VerifyGoogleChatToken(tok, keys)
<1>1. CASE tok.flaw \in EarlyFlaws
  <2>1. status = tok.flaw BY <1>1 DEF VerifyGoogleChatToken
  <2>2. QED BY <1>1, <2>1 DEF EarlyFlaws, Verdicts
<1>2. CASE tok.flaw \notin EarlyFlaws /\ tok.kid \notin keys
  <2>1. status = "unknown_key" BY <1>2 DEF VerifyGoogleChatToken
  <2>2. QED BY <1>2, <2>1 DEF Verdicts
<1>3. CASE tok.flaw \notin EarlyFlaws /\ tok.kid \in keys /\ tok.flaw \in LateFlaws
  <2>1. status = tok.flaw BY <1>3 DEF VerifyGoogleChatToken
  <2>2. QED BY <1>3, <2>1 DEF LateFlaws, Verdicts
<1>4. CASE tok.flaw \notin EarlyFlaws /\ tok.kid \in keys /\ tok.flaw \notin LateFlaws
  <2>1. status = "verified" BY <1>4 DEF VerifyGoogleChatToken
  <2>2. QED BY <1>4, <2>1 DEF Verdicts
<1>5. QED BY <1>1, <1>2, <1>3, <1>4

(* The initial state satisfies the invariant: Google has published key 1.  *)
LEMMA InitInv == VerifierInit => IInv
<1> SUFFICES ASSUME VerifierInit PROVE IInv
  OBVIOUS
<1> USE VerifierAssumption DEF VerifierInit
<1>1. ShapeInv BY DEF ShapeInv, NoToken, NoKey, EmptyCache, Verdicts
<1>2. KeysInv
  <2>1. Keys = 1..1 BY DEF Keys
  <2>2. QED BY <2>1 DEF KeysInv
<1>3. FetchInv BY DEF FetchInv, InFlight
<1>4. CacheInv BY DEF CacheInv, Asked, EmptyCache
<1>5. TokenInv BY DEF TokenInv, NoToken, NoKey
<1>6. GenuineVerified /\ WithdrawnKeyForgotten
  BY DEF GenuineVerified, WithdrawnKeyForgotten
<1>7. QED BY <1>1, <1>2, <1>3, <1>4, <1>5, <1>6 DEF IInv

(* A key that is published has the next number, so it was never withdrawn. *)
LEMMA PublishInv == ASSUME IInv, PublishKey PROVE IInv'
<1> USE DEF IInv
<1>1. PICK n \in Nat : Keys = 1..n BY DEF KeysInv
<1>2. Cardinality(Keys) = n BY <1>1, FS_Interval
<1>3. published' = published \cup {n + 1} /\ Keys' = 1..(n + 1)
  BY <1>1, <1>2 DEF PublishKey, Keys
<1>4. n + 1 \notin DOMAIN withdrawnAt BY <1>1 DEF Keys
<1>5. KeysInv'
  <2>1. \E m \in Nat : Keys' = 1..m BY <1>3
  <2>2. UNCHANGED <<withdrawnAt, now>> BY DEF PublishKey
  <2>3. QED BY <1>3, <1>4, <2>1, <2>2 DEF KeysInv
<1>6. ShapeInv' BY DEF ShapeInv, PublishKey, unchangedByGoogle
<1>7. FetchInv' BY DEF FetchInv, InFlight, Asked, PublishKey, unchangedByGoogle
<1>8. CacheInv' BY DEF CacheInv, Asked, PublishKey, unchangedByGoogle
<1>9. TokenInv' BY <1>1, <1>3 DEF TokenInv, PublishKey, unchangedByGoogle
<1>10. GenuineVerified' /\ WithdrawnKeyForgotten'
  BY DEF GenuineVerified, WithdrawnKeyForgotten, Genuine, PublishKey, unchangedByGoogle
<1>11. QED BY <1>5, <1>6, <1>7, <1>8, <1>9, <1>10

(* A key withdrawn now was withdrawn no earlier than anything was asked    *)
(* for or checked.                                                         *)
LEMMA WithdrawInv == ASSUME IInv, WithdrawKey PROVE IInv'
<1> USE DEF IInv
<1>1. PICK k \in published :
        /\ published' = published \ {k}
        /\ withdrawnAt' = [i \in DOMAIN withdrawnAt \cup {k} |->
                             IF i = k THEN now ELSE withdrawnAt[i]]
        /\ UNCHANGED <<now, unchangedByGoogle>>
  BY DEF WithdrawKey
<1>2. k \notin DOMAIN withdrawnAt BY <1>1 DEF KeysInv
<1>3. /\ DOMAIN withdrawnAt' = DOMAIN withdrawnAt \cup {k} /\ withdrawnAt'[k] = now
      /\ \A i \in DOMAIN withdrawnAt : withdrawnAt'[i] = withdrawnAt[i]
  BY <1>1, <1>2
<1>4. Keys' = Keys BY <1>1, <1>3 DEF Keys
<1>5. ShapeInv' BY <1>1 DEF ShapeInv, unchangedByGoogle
<1>6. KeysInv'
  <2>1. \E m \in Nat : Keys' = 1..m BY <1>4 DEF KeysInv
  <2>2. published' \cap DOMAIN withdrawnAt' = {} BY <1>1, <1>3 DEF KeysInv
  <2>3. now' = now /\ now \in Nat BY <1>1 DEF ShapeInv
  <2>4. \A i \in DOMAIN withdrawnAt' : withdrawnAt'[i] \in Nat /\ withdrawnAt'[i] <= now'
    BY <1>3, <2>3 DEF KeysInv
  <2>5. QED BY <2>1, <2>2, <2>4 DEF KeysInv
<1>7. FetchInv'
  <2> SUFFICES ASSUME NEW v \in Verifications, InFlight(v)'
               PROVE  /\ (checkedAt[v] <= asked[v] /\ asked[v] <= now)'
                      /\ Asked(fetched[v], asked[v])'
                      /\ (fetched[v] # {} =>
                            token[v].kid \in fetched[v] \cup DOMAIN withdrawnAt \cup {NoKey})'
    BY DEF FetchInv
  <2>1. InFlight(v) BY <1>1 DEF InFlight, unchangedByGoogle
  <2>2. UNCHANGED <<checkedAt[v], asked[v], now, fetched[v], token[v]>>
    BY <1>1 DEF unchangedByGoogle
  <2>3. Asked(fetched[v], asked[v])' BY <1>3, <2>1, <2>2 DEF FetchInv, Asked
  <2>4. QED BY <1>3, <2>1, <2>2, <2>3 DEF FetchInv
<1>8. CacheInv'
  <2>1. UNCHANGED <<jwksCache, now>> BY <1>1 DEF unchangedByGoogle
  <2>2. QED BY <1>3, <2>1 DEF CacheInv, Asked, unchangedByGoogle
<1>9. TokenInv' BY <1>1, <1>4 DEF TokenInv, unchangedByGoogle
<1>10. GenuineVerified'
  BY <1>1, <1>3 DEF GenuineVerified, Genuine, unchangedByGoogle
<1>11. WithdrawnKeyForgotten'
  BY <1>1, <1>3, VerifierAssumption
  DEF WithdrawnKeyForgotten, TokenInv, ShapeInv, unchangedByGoogle
<1>12. QED BY <1>5, <1>6, <1>7, <1>8, <1>9, <1>10, <1>11

(* The clock only moves on.                                                *)
LEMMA TickInv == ASSUME IInv, VerifierTick PROVE IInv'
<1> USE DEF IInv, VerifierTick, unchangedByGoogle
<1>1. ShapeInv' BY DEF ShapeInv
<1>2. KeysInv'
  <2>1. \E n \in Nat : Keys' = 1..n BY DEF KeysInv, Keys
  <2>2. QED BY <2>1 DEF KeysInv, ShapeInv
<1>3. FetchInv' BY DEF FetchInv, InFlight, Asked, ShapeInv
<1>4. CacheInv' BY DEF CacheInv, Asked, ShapeInv
<1>5. TokenInv' BY DEF TokenInv, Keys, ShapeInv
<1>6. GenuineVerified' /\ WithdrawnKeyForgotten'
  BY DEF GenuineVerified, WithdrawnKeyForgotten, Genuine
<1>7. QED BY <1>1, <1>2, <1>3, <1>4, <1>5, <1>6

(* The server answers with what is published, so with every key that is    *)
(* not withdrawn.                                                          *)
LEMMA ServeInv ==
  ASSUME IInv, NEW v \in Verifications, ServeKeys(v)
  PROVE  IInv'
<1> USE DEF IInv, ServeKeys
<1>1. published \subseteq Nat BY DEF KeysInv, Keys
<1>2. ShapeInv' BY <1>1 DEF ShapeInv
<1>3. KeysInv' BY DEF KeysInv, Keys
<1>4. FetchInv'
  <2> SUFFICES ASSUME NEW u \in Verifications, InFlight(u)'
               PROVE  /\ (checkedAt[u] <= asked[u] /\ asked[u] <= now)'
                      /\ Asked(fetched[u], asked[u])'
                      /\ (fetched[u] # {} =>
                            token[u].kid \in fetched[u] \cup DOMAIN withdrawnAt \cup {NoKey})'
    BY DEF FetchInv
  <2>1. InFlight(u) BY DEF InFlight
  <2>2. CASE u # v BY <2>1, <2>2 DEF FetchInv, Asked, ShapeInv
  <2>3. CASE u = v
    <3>1. fetched'[v] = published BY DEF ShapeInv
    <3>2. published \cap DOMAIN withdrawnAt = {} BY DEF KeysInv
    <3>3. token[v].kid \in published \cup DOMAIN withdrawnAt \cup {NoKey}
      BY DEF TokenInv, Keys
    <3>4. QED BY <2>1, <2>3, <3>1, <3>2, <3>3 DEF FetchInv, Asked
  <2>4. QED BY <2>2, <2>3
<1>5. CacheInv' BY DEF CacheInv, Asked
<1>6. TokenInv' BY DEF TokenInv, Keys
<1>7. GenuineVerified' /\ WithdrawnKeyForgotten'
  BY DEF GenuineVerified, WithdrawnKeyForgotten, Genuine
<1>8. QED BY <1>2, <1>3, <1>4, <1>5, <1>6, <1>7

(* What a verification does that ends, with a status that its keys allow:  *)
(* the part of the invariant that is about verdicts.                       *)
LEMMA FinishInv ==
  ASSUME VerifierAssumption, IInv, NEW v \in Verifications, NEW status \in Verdicts,
         Finish(v, status), UNCHANGED <<now, published, withdrawnAt>>,
         \A u \in Verifications \ {v} : token'[u] = token[u] /\ checkedAt'[u] = checkedAt[u],
         token'[v].kid # NoKey /\ token'[v].flaw = "none" =>
           status \in {"verified", "keys_unavailable"} \/ token'[v].kid \in DOMAIN withdrawnAt,
         status = "verified" /\ token'[v].kid \in DOMAIN withdrawnAt =>
           checkedAt'[v] < withdrawnAt[token'[v].kid] + CacheTtl
  PROVE  GenuineVerified' /\ WithdrawnKeyForgotten'
<1> USE DEF IInv
<1>1. /\ stage'[v] = "done" /\ verdict'[v] = status
      /\ \A u \in Verifications \ {v} : stage'[u] = stage[u] /\ verdict'[u] = verdict[u]
  BY DEF Finish, ShapeInv
<1>2. GenuineVerified' BY <1>1 DEF GenuineVerified, Genuine
<1>3. WithdrawnKeyForgotten' BY <1>1 DEF WithdrawnKeyForgotten
<1>4. QED BY <1>2, <1>3

(* ... and one that goes on to fetch leaves every verdict alone.           *)
LEMMA FetchKeepsVerdicts ==
  ASSUME IInv, NEW v \in Verifications, NEW next \in {"fetching", "refetching"},
         Fetch(v, next), stage[v] # "done",
         UNCHANGED <<now, published, withdrawnAt, verdict>>,
         \A u \in Verifications \ {v} : token'[u] = token[u] /\ checkedAt'[u] = checkedAt[u]
  PROVE  GenuineVerified' /\ WithdrawnKeyForgotten'
<1> USE DEF IInv
<1>1. /\ stage'[v] = next
      /\ \A u \in Verifications \ {v} : stage'[u] = stage[u]
  BY DEF Fetch, ShapeInv
<1>2. verdict[v] = "none" BY DEF TokenInv
<1>3. GenuineVerified' BY <1>1 DEF GenuineVerified, Genuine
<1>4. WithdrawnKeyForgotten' BY <1>1, <1>2 DEF WithdrawnKeyForgotten
<1>5. QED BY <1>3, <1>4

(* The flights after a fetch is sent: the new one has no keys yet.         *)
LEMMA FetchInFlight ==
  ASSUME IInv, NEW v \in Verifications, NEW next \in {"fetching", "refetching"},
         Fetch(v, next), UNCHANGED <<now, published, withdrawnAt>>,
         checkedAt'[v] <= now,
         \A u \in Verifications \ {v} : token'[u] = token[u] /\ checkedAt'[u] = checkedAt[u]
  PROVE  FetchInv'
<1> USE DEF IInv
<1>1. /\ stage'[v] = next /\ asked'[v] = now /\ fetched'[v] = {}
      /\ \A u \in Verifications \ {v} :
           stage'[u] = stage[u] /\ asked'[u] = asked[u] /\ fetched'[u] = fetched[u]
  BY DEF Fetch, ShapeInv
<1>2. QED BY <1>1 DEF FetchInv, InFlight, Asked, ShapeInv

(* ... and after a verification has ended.                                 *)
LEMMA FinishInFlight ==
  ASSUME IInv, NEW v \in Verifications, NEW status,
         Finish(v, status), UNCHANGED <<now, published, withdrawnAt>>,
         \A u \in Verifications \ {v} : token'[u] = token[u] /\ checkedAt'[u] = checkedAt[u]
  PROVE  FetchInv'
<1> USE DEF IInv
<1>1. /\ stage'[v] = "done"
      /\ \A u \in Verifications \ {v} :
           stage'[u] = stage[u] /\ asked'[u] = asked[u] /\ fetched'[u] = fetched[u]
  BY DEF Finish, ShapeInv
<1>2. QED BY <1>1 DEF FetchInv, InFlight, Asked

(* A verification starts: a fresh cache holds no key that was withdrawn    *)
(* cacheTtlMs ago or longer.                                               *)
LEMMA StartInv ==
  ASSUME VerifierAssumption, IInv, NEW v \in Verifications, StartVerification(v)
  PROVE  IInv'
<1> USE DEF IInv
<1>1. PICK tok \in Tokens :
        /\ token' = [token EXCEPT ![v] = tok]
        /\ IF CacheFresh THEN Evaluate(v, tok, jwksCache.keys)
           ELSE Fetch(v, "fetching") /\ UNCHANGED verdict
  BY DEF StartVerification
<1>2. /\ checkedAt' = [checkedAt EXCEPT ![v] = now] /\ stage[v] = "start"
      /\ UNCHANGED <<now, published, withdrawnAt, jwksCache, fetchFaults>>
  BY DEF StartVerification
<1>3. tok \in [kid : Nat, flaw : Flaws] /\ tok.kid \in Keys \cup {NoKey}
  BY VerifierAssumption DEF Tokens, NoKey, KeysInv
<1>4. /\ token'[v] = tok /\ checkedAt'[v] = now
      /\ \A u \in Verifications \ {v} : token'[u] = token[u] /\ checkedAt'[u] = checkedAt[u]
  BY <1>1, <1>2 DEF ShapeInv
<1>5. Keys' = Keys BY <1>2 DEF Keys
<1>6. KeysInv' BY <1>2, <1>5 DEF KeysInv
<1>7. CacheInv' BY <1>2 DEF CacheInv, Asked
<1>8. now \in Nat /\ checkedAt'[v] <= now BY <1>4 DEF ShapeInv
<1> DEFINE status == VerifyGoogleChatToken(tok, jwksCache.keys)
<1>9. CASE CacheFresh /\ status # "unknown_key"
  <2>1. Finish(v, status) BY <1>1, <1>9 DEF Evaluate
  <2>2. status \in Verdicts \ {"none"} BY VerifyAnswers
  <2>3. ShapeInv' BY <1>1, <1>2, <1>3, <2>1, <2>2 DEF ShapeInv, Finish
  <2>4. FetchInv' BY <1>2, <1>4, <2>1, FinishInFlight
  <2>5. TokenInv' BY <1>2, <1>3, <1>4, <1>5, <1>8, <2>1 DEF TokenInv, Finish, ShapeInv
  <2>6. tok.kid # NoKey /\ tok.flaw = "none" => status \in {"verified", "keys_unavailable"}
    BY <1>9, VerifyAnswers
  <2>7. status = "verified" /\ tok.kid \in DOMAIN withdrawnAt =>
          now < withdrawnAt[tok.kid] + CacheTtl
    <3>1. SUFFICES ASSUME status = "verified", tok.kid \in DOMAIN withdrawnAt
                   PROVE  now < withdrawnAt[tok.kid] + CacheTtl
      OBVIOUS
    <3>2. tok.kid \in jwksCache.keys BY <3>1, VerifyAnswers
    <3>3. jwksCache.fetchedAtMs <= withdrawnAt[tok.kid] BY <3>1, <3>2 DEF CacheInv, Asked
    <3>4. now - jwksCache.fetchedAtMs < CacheTtl BY <1>9 DEF CacheFresh
    <3>5. withdrawnAt[tok.kid] \in Nat BY <3>1 DEF KeysInv
    <3>6. QED BY <1>8, <3>3, <3>4, <3>5, VerifierAssumption DEF ShapeInv
  <2>8. GenuineVerified' /\ WithdrawnKeyForgotten'
    BY <1>2, <1>4, <2>1, <2>2, <2>6, <2>7, FinishInv
  <2>9. QED BY <1>6, <1>7, <2>3, <2>4, <2>5, <2>8
<1>10. CASE ~CacheFresh \/ status = "unknown_key"
  <2>1. PICK next \in {"fetching", "refetching"} : Fetch(v, next) /\ UNCHANGED verdict
    BY <1>1, <1>10 DEF Evaluate
  <2>2. ShapeInv' BY <1>1, <1>2, <1>3, <2>1 DEF ShapeInv, Fetch
  <2>3. FetchInv' BY <1>2, <1>4, <1>8, <2>1, FetchInFlight
  <2>4. TokenInv' BY <1>2, <1>3, <1>4, <1>5, <1>8, <2>1 DEF TokenInv, Fetch, ShapeInv
  <2>5. GenuineVerified' /\ WithdrawnKeyForgotten'
    BY <1>2, <1>4, <2>1, FetchKeepsVerdicts
  <2>6. QED BY <1>6, <1>7, <2>2, <2>3, <2>4, <2>5
<1>11. QED BY <1>9, <1>10

(* The keys arrive: they were asked for no earlier than the verification   *)
(* began, so none of them was withdrawn before it.                         *)
LEMMA ArriveInv ==
  ASSUME VerifierAssumption, IInv, NEW v \in Verifications, KeysArrive(v)
  PROVE  IInv'
<1> USE DEF IInv
<1> DEFINE status == VerifyGoogleChatToken(token[v], fetched[v])
<1>1. /\ InFlight(v) /\ fetched[v] # {} /\ jwksCache' = CacheEntry(v)
      /\ \/ stage[v] = "fetching" /\ Evaluate(v, token[v], fetched[v])
         \/ stage[v] = "refetching" /\ Finish(v, status)
      /\ UNCHANGED <<now, published, withdrawnAt, token, checkedAt, fetchFaults>>
  BY DEF KeysArrive
<1>2. /\ checkedAt[v] <= asked[v] /\ asked[v] <= now /\ Asked(fetched[v], asked[v])
      /\ token[v].kid \in fetched[v] \cup DOMAIN withdrawnAt \cup {NoKey}
      /\ asked[v] \in Nat /\ checkedAt[v] \in Nat /\ now \in Nat /\ fetched[v] \in SUBSET Nat
  BY <1>1 DEF FetchInv, ShapeInv
<1>3. Keys' = Keys BY <1>1 DEF Keys
<1>4. KeysInv' BY <1>1, <1>3 DEF KeysInv
<1>5. CacheInv' BY <1>1, <1>2 DEF CacheInv, CacheEntry, Asked
<1>6. jwksCache' \in [keys : SUBSET Nat, fetchedAtMs : Int] BY <1>1, <1>2 DEF CacheEntry
<1>7. CASE Finish(v, status) /\ (status = "unknown_key" => stage[v] = "refetching")
  <2>1. status \in Verdicts \ {"none"} BY VerifyAnswers
  <2>2. ShapeInv' BY <1>1, <1>6, <1>7, <2>1 DEF ShapeInv, Finish
  <2>3. FetchInv' BY <1>1, <1>7, FinishInFlight
  <2>4. TokenInv' BY <1>1, <1>3, <1>7 DEF TokenInv, Finish, ShapeInv
  <2>5. token[v].kid # NoKey /\ token[v].flaw = "none" =>
          status \in {"verified", "keys_unavailable"} \/ token[v].kid \in DOMAIN withdrawnAt
    BY <1>2, VerifyAnswers
  <2>6. status = "verified" /\ token[v].kid \in DOMAIN withdrawnAt =>
          checkedAt[v] < withdrawnAt[token[v].kid] + CacheTtl
    <3>1. SUFFICES ASSUME status = "verified", token[v].kid \in DOMAIN withdrawnAt
                   PROVE  checkedAt[v] < withdrawnAt[token[v].kid] + CacheTtl
      OBVIOUS
    <3>2. token[v].kid \in fetched[v] BY <3>1, VerifyAnswers
    <3>3. asked[v] <= withdrawnAt[token[v].kid] BY <1>2, <3>1, <3>2 DEF Asked
    <3>4. withdrawnAt[token[v].kid] \in Nat BY <3>1 DEF KeysInv
    <3>5. QED BY <1>2, <3>3, <3>4, VerifierAssumption
  <2>7. GenuineVerified' /\ WithdrawnKeyForgotten'
    BY <1>1, <1>7, <2>1, <2>5, <2>6, FinishInv
  <2>8. QED BY <1>4, <1>5, <2>2, <2>3, <2>4, <2>7
<1>8. CASE Fetch(v, "refetching") /\ UNCHANGED verdict
  <2>1. ShapeInv' BY <1>1, <1>6, <1>8 DEF ShapeInv, Fetch
  <2>2. checkedAt'[v] <= now BY <1>1, <1>2
  <2>3. FetchInv' BY <1>1, <1>8, <2>2, FetchInFlight
  <2>4. TokenInv' BY <1>1, <1>3, <1>8 DEF TokenInv, Fetch, ShapeInv, InFlight
  <2>5. stage[v] # "done" BY <1>1 DEF InFlight
  <2>6. GenuineVerified' /\ WithdrawnKeyForgotten'
    BY <1>1, <1>8, <2>5, FetchKeepsVerdicts
  <2>7. QED BY <1>4, <1>5, <2>1, <2>3, <2>4, <2>6
<1>9. QED BY <1>1, <1>7, <1>8 DEF Evaluate

LEMMA FailInv ==
  ASSUME VerifierAssumption, IInv, NEW v \in Verifications, FetchFails(v)
  PROVE  IInv'
<1> USE DEF IInv
<1>1. /\ InFlight(v) /\ Finish(v, "keys_unavailable")
      /\ UNCHANGED <<now, published, withdrawnAt, token, jwksCache, checkedAt>>
  BY DEF FetchFails
<1>2. ShapeInv' BY <1>1 DEF ShapeInv, Finish, Verdicts
<1>3. KeysInv' BY <1>1 DEF KeysInv, Keys
<1>4. FetchInv' BY <1>1, FinishInFlight
<1>5. CacheInv' BY <1>1 DEF CacheInv, Asked
<1>6. TokenInv' BY <1>1 DEF TokenInv, Finish, ShapeInv, Keys
<1>7. GenuineVerified' /\ WithdrawnKeyForgotten' BY <1>1, FinishInv DEF Verdicts
<1>8. QED BY <1>2, <1>3, <1>4, <1>5, <1>6, <1>7

LEMMA StutterInv == ASSUME IInv, UNCHANGED verifierVars PROVE IInv'
BY DEF IInv, verifierVars, ShapeInv, KeysInv, Keys, FetchInv, InFlight, Asked, CacheInv,
   TokenInv, GenuineVerified, Genuine, WithdrawnKeyForgotten

LEMMA StepInv == ASSUME VerifierAssumption, IInv, [VerifierNext]_verifierVars PROVE IInv'
<1>1. CASE PublishKey BY <1>1, PublishInv
<1>2. CASE WithdrawKey BY <1>2, WithdrawInv
<1>3. CASE VerifierTick BY <1>3, TickInv
<1>4. CASE \E v \in Verifications :
             StartVerification(v) \/ ServeKeys(v) \/ KeysArrive(v) \/ FetchFails(v)
  BY <1>4, StartInv, ServeInv, ArriveInv, FailInv
<1>5. CASE UNCHANGED verifierVars BY <1>5, StutterInv
<1>6. QED BY <1>1, <1>2, <1>3, <1>4, <1>5 DEF VerifierNext

-----------------------------------------------------------------------------
(* A genuine request is verified, however old the cache is and whichever   *)
(* of several fetches wrote it last, unless its key was withdrawn after it *)
(* was signed or the keys could not be fetched.                            *)
THEOREM GenuineIsVerified == VerifierSpec => []GenuineVerified
<1>1. IInv => GenuineVerified BY DEF IInv
<1>2. QED BY VerifierAssumption, InitInv, StepInv, <1>1, PTL DEF VerifierSpec

(* A key that Google has withdrawn is accepted for less than cacheTtlMs.   *)
THEOREM WithdrawnKeyIsForgotten == VerifierSpec => []WithdrawnKeyForgotten
<1>1. IInv => WithdrawnKeyForgotten BY DEF IInv
<1>2. QED BY VerifierAssumption, InitInv, StepInv, <1>1, PTL DEF VerifierSpec

-----------------------------------------------------------------------------
(* The router: what is known of each request while its chain of            *)
(* middlewares goes on and its deadline passes.                            *)
RouterShape ==
  /\ phase \in [Requests -> Phases]
  /\ event \in [Requests -> RoutedEvents]
  /\ answer \in [Requests -> Answers]
  /\ frame \in [Requests -> [Frames -> Outcomes \cup {"idle", "running"}]]
  /\ currentIndex \in [Requests -> -1..Middlewares]
  /\ claimCount \in [RoutedEvents -> Nat]
  /\ granted \in [Requests -> Nat]
  /\ dispatched \in [Requests -> Nat]

Before == {"new", "verify", "parse", "guard"}

(* Before the chain has started there is neither a claim nor an answer.    *)
FreshInv ==
  \A r \in Requests : phase[r] \in Before =>
    currentIndex[r] = -1 /\ granted[r] = 0 /\ answer[r] = "none"

(* A frame that has started is no further than currentIndex, which only    *)
(* grows, and its last value is the dispatch.                              *)
ChainInv ==
  \A r \in Requests :
    /\ \A i \in Frames : frame[r][i] # "idle" => i <= currentIndex[r]
    /\ dispatched[r] = IF currentIndex[r] = Middlewares THEN 1 ELSE 0

(* A chain that has started belongs to a request that was not refused and, *)
(* if its event has a key, was granted a claim.                            *)
StartedInv ==
  \A r \in Requests : currentIndex[r] # -1 =>
    /\ answer[r] \notin Refusals
    /\ event[r] \in Keyed => granted[r] > 0

RefusedInv ==
  \A r \in Requests : answer[r] \in Refusals => granted[r] = 0 /\ currentIndex[r] = -1

(* The claims of an event are numbered, and each is granted once.          *)
GrantInv ==
  /\ \A r \in Requests : granted[r] <= claimCount[event[r]]
  /\ \A r, s \in Requests : r # s /\ event[r] = event[s] /\ granted[r] > 0 =>
       granted[r] # granted[s]

RouterInv ==
  RouterShape /\ FreshInv /\ ChainInv /\ StartedInv /\ RefusedInv /\ GrantInv

LEMMA RouterInitInv == ASSUME RouterAssumption, RouterInit PROVE RouterInv
BY DEF RouterAssumption, RouterInit, RouterInv, RouterShape, FreshInv, ChainInv, StartedInv,
       RefusedInv, GrantInv, Before, Phases, Answers, Outcomes, Refusals, Frames

(* What the change of one frame of one request leaves.                     *)
LEMMA FrameUpdate ==
  ASSUME NEW S, NEW f \in [Requests -> [Frames -> S]], NEW r \in Requests, NEW i \in Frames,
         NEW value \in S
  PROVE  /\ [f EXCEPT ![r][i] = value] \in [Requests -> [Frames -> S]]
         /\ \A q \in Requests : \A j \in Frames :
              [f EXCEPT ![r][i] = value][q][j] = IF q = r /\ j = i THEN value ELSE f[q][j]
OBVIOUS

(* What changes a phase and an answer alone.                               *)
LEMMA RefuseInv ==
  ASSUME RouterAssumption, RouterInv, NEW r \in Requests,
         Arrive(r) \/ Verify(r) \/ Parse(r)
  PROVE  RouterInv'
<1>1. /\ phase[r] \in Before
      /\ UNCHANGED <<event, frame, currentIndex, dispatched, claimCount, granted>>
  BY DEF Arrive, Verify, Parse, Before, RouterGoto, RouterAnswer, chainVars, storeVars
<1>2. \/ /\ \E next \in Before : phase' = [phase EXCEPT ![r] = next]
         /\ UNCHANGED answer
      \/ /\ phase' = [phase EXCEPT ![r] = "done"]
         /\ \E refusal \in Refusals : answer' = [answer EXCEPT ![r] = refusal]
  BY DEF Arrive, Verify, Parse, Before, RouterGoto, RouterAnswer, Refusals
<1>3. RouterShape'
  <2>1. phase' \in [Requests -> Phases]
    BY <1>2 DEF RouterInv, RouterShape, Before, Phases
  <2>2. answer' \in [Requests -> Answers]
    BY <1>2 DEF RouterInv, RouterShape, Answers
  <2> QED BY <1>1, <2>1, <2>2 DEF RouterInv, RouterShape
<1>4. FreshInv' /\ RefusedInv'
  BY <1>1, <1>2 DEF RouterInv, RouterShape, FreshInv, RefusedInv, Before
<1>5. StartedInv'
  BY <1>1, <1>2 DEF RouterInv, RouterShape, FreshInv, StartedInv
<1>6. ChainInv' /\ GrantInv'
  BY <1>1 DEF RouterInv, ChainInv, GrantInv
<1> QED BY <1>3, <1>4, <1>5, <1>6 DEF RouterInv

(* The chain goes on to a frame beyond currentIndex.                       *)
LEMMA RunKeeps ==
  ASSUME RouterAssumption, RouterShape, ChainInv, NEW r \in Requests, NEW i \in Frames,
         i > currentIndex[r], Run(r, i)
  PROVE  /\ ChainInv'
         /\ frame' \in [Requests -> [Frames -> Outcomes \cup {"idle", "running"}]]
         /\ currentIndex' \in [Requests -> -1..Middlewares]
         /\ dispatched' \in [Requests -> Nat]
<1>1. /\ currentIndex' = [currentIndex EXCEPT ![r] = i]
      /\ frame' = [frame EXCEPT ![r][i] = "running"]
      /\ dispatched' = [dispatched EXCEPT ![r] = IF i = Middlewares THEN @ + 1 ELSE @]
  BY DEF Run
<1>2. Middlewares \in Nat /\ i \in 0..Middlewares BY DEF RouterAssumption, Frames
<1>3. currentIndex' \in [Requests -> -1..Middlewares]
  BY <1>1, <1>2 DEF RouterShape
<1>4. dispatched' \in [Requests -> Nat]
  BY <1>1 DEF RouterShape
<1>5. /\ frame' \in [Requests -> [Frames -> Outcomes \cup {"idle", "running"}]]
      /\ \A q \in Requests : \A j \in Frames :
           frame'[q][j] = IF q = r /\ j = i THEN "running" ELSE frame[q][j]
  BY <1>1, FrameUpdate DEF RouterShape
<1>6. ASSUME NEW q \in Requests, NEW j \in Frames, frame'[q][j] # "idle"
      PROVE  j <= currentIndex'[q]
  <2>1. q # r => currentIndex'[q] = currentIndex[q]
    BY <1>1 DEF RouterShape
  <2>2. currentIndex'[r] = i
    BY <1>1 DEF RouterShape
  <2>3. j \in Int /\ i \in Int /\ currentIndex[r] \in Int
    BY <1>2 DEF RouterShape, Frames
  <2>4. (q = r /\ j = i) \/ frame[q][j] # "idle"
    BY <1>5, <1>6
  <2> QED BY <2>1, <2>2, <2>3, <2>4 DEF ChainInv
<1>7. ASSUME NEW q \in Requests
      PROVE  dispatched'[q] = IF currentIndex'[q] = Middlewares THEN 1 ELSE 0
  BY <1>1, <1>2 DEF RouterShape, ChainInv
<1> QED BY <1>3, <1>4, <1>5, <1>6, <1>7 DEF ChainInv

(* A claim is recorded for a request that had none.                        *)
LEMMA GrantKeeps ==
  ASSUME RouterShape, GrantInv, NEW r \in Requests, UNCHANGED event,
         claimCount' = [claimCount EXCEPT ![event[r]] = @ + 1],
         granted' = [granted EXCEPT ![r] = claimCount[event[r]] + 1]
  PROVE  /\ GrantInv'
         /\ claimCount' \in [RoutedEvents -> Nat] /\ granted' \in [Requests -> Nat]
         /\ granted'[r] > 0 /\ \A q \in Requests \ {r} : granted'[q] = granted[q]
<1>1. event[r] \in RoutedEvents /\ claimCount[event[r]] \in Nat
  BY DEF RouterShape
<1>2. claimCount' \in [RoutedEvents -> Nat] /\ granted' \in [Requests -> Nat]
  BY <1>1 DEF RouterShape
<1>3. /\ granted'[r] = claimCount[event[r]] + 1
      /\ \A q \in Requests \ {r} : granted'[q] = granted[q]
  BY DEF RouterShape
<1>4. \A q \in Requests :
        /\ event[q] \in RoutedEvents /\ claimCount[event[q]] \in Nat /\ granted[q] \in Nat
        /\ claimCount'[event[q]] = IF event[q] = event[r] THEN claimCount[event[q]] + 1
                                   ELSE claimCount[event[q]]
  BY <1>1 DEF RouterShape
<1>5. ASSUME NEW q \in Requests PROVE granted'[q] <= claimCount'[event[q]]
  BY <1>1, <1>3, <1>4 DEF GrantInv
<1>6. ASSUME NEW q \in Requests, NEW s \in Requests, q # s, event[q] = event[s], granted'[q] > 0
      PROVE  granted'[q] # granted'[s]
  <2>1. CASE q = r
    BY <1>1, <1>3, <1>4, <1>6, <2>1 DEF GrantInv
  <2>2. CASE s = r
    BY <1>1, <1>3, <1>4, <1>6, <2>2 DEF GrantInv
  <2>3. CASE q # r /\ s # r
    BY <1>3, <1>6, <2>3 DEF GrantInv
  <2> QED BY <2>1, <2>2, <2>3
<1> QED BY <1>1, <1>2, <1>3, <1>5, <1>6 DEF GrantInv

(* The chain starts; a request that has a key has just been granted.       *)
LEMMA StartChainInv ==
  ASSUME RouterAssumption, RouterInv, NEW r \in Requests, phase[r] = "guard",
         RouterGoto(r, "run"), Run(r, 0),
         \/ event[r] \notin Keyed /\ UNCHANGED storeVars
         \/ Record(r, event[r])
  PROVE  RouterInv'
<1>0. /\ currentIndex[r] = -1 /\ granted[r] = 0 /\ answer[r] = "none"
      /\ event[r] \in RoutedEvents /\ claimCount[event[r]] \in Nat
      /\ 0 \in Frames /\ Middlewares \in Nat
  BY DEF RouterInv, FreshInv, Before, RouterShape, RouterAssumption, Frames
<1>1. /\ UNCHANGED <<event, answer>> /\ phase' = [phase EXCEPT ![r] = "run"]
      /\ currentIndex' = [currentIndex EXCEPT ![r] = 0]
  BY DEF RouterGoto, Run
<1>2. /\ ChainInv'
      /\ frame' \in [Requests -> [Frames -> Outcomes \cup {"idle", "running"}]]
      /\ currentIndex' \in [Requests -> -1..Middlewares]
      /\ dispatched' \in [Requests -> Nat]
  BY <1>0, RunKeeps DEF RouterInv
<1>3. /\ GrantInv'
      /\ claimCount' \in [RoutedEvents -> Nat] /\ granted' \in [Requests -> Nat]
      /\ event[r] \in Keyed => granted'[r] > 0
      /\ \A q \in Requests \ {r} : granted'[q] = granted[q]
  <2>1. CASE event[r] \notin Keyed /\ UNCHANGED <<claimCount, granted>>
    BY <1>1, <2>1 DEF RouterInv, RouterShape, GrantInv
  <2>2. CASE Record(r, event[r])
    BY <1>1, <2>2, GrantKeeps DEF RouterInv, Record
  <2> QED BY <2>1, <2>2 DEF storeVars
<1>4. RouterShape'
  BY <1>1, <1>2, <1>3 DEF RouterInv, RouterShape, Phases
<1>5. FreshInv' /\ RefusedInv'
  BY <1>0, <1>1, <1>3 DEF RouterInv, RouterShape, FreshInv, RefusedInv, Before, Refusals
<1>6. StartedInv'
  BY <1>0, <1>1, <1>3 DEF RouterInv, RouterShape, StartedInv, Refusals
<1> QED BY <1>2, <1>3, <1>4, <1>5, <1>6 DEF RouterInv

(* A store that throws may have recorded the claim.                        *)
LEMMA GuardInv ==
  ASSUME RouterAssumption, RouterInv, NEW r \in Requests, Guard(r) PROVE RouterInv'
<1>1. CASE RouterGoto(r, "run") /\ Run(r, 0)
  <2>1. phase[r] = "guard" /\ (\/ event[r] \notin Keyed /\ UNCHANGED storeVars
                               \/ Record(r, event[r]))
    BY <1>1 DEF Guard, RouterGoto, RouterAnswer, RouterInv, RouterShape
  <2> QED BY <1>1, <2>1, StartChainInv
<1>2. CASE ~(RouterGoto(r, "run") /\ Run(r, 0))
  <2>1. /\ phase[r] = "guard" /\ UNCHANGED chainVars
        /\ \E response \in {"duplicate", "rejected"} : RouterAnswer(r, response)
        /\ Record(r, event[r]) \/ UNCHANGED storeVars
    BY <1>2 DEF Guard
  <2>2. /\ currentIndex[r] = -1 /\ granted[r] = 0
        /\ event[r] \in RoutedEvents /\ claimCount[event[r]] \in Nat
    BY <2>1 DEF RouterInv, FreshInv, Before, RouterShape
  <2>3. /\ UNCHANGED <<event, frame, currentIndex, dispatched>>
        /\ phase' = [phase EXCEPT ![r] = "done"]
        /\ \E response \in {"duplicate", "rejected"} : answer' = [answer EXCEPT ![r] = response]
    BY <2>1 DEF chainVars, RouterAnswer
  <2>4. /\ GrantInv'
        /\ claimCount' \in [RoutedEvents -> Nat] /\ granted' \in [Requests -> Nat]
        /\ \A q \in Requests \ {r} : granted'[q] = granted[q]
    <3>1. CASE UNCHANGED storeVars
      BY <2>3, <3>1 DEF storeVars, RouterInv, RouterShape, GrantInv
    <3>2. CASE Record(r, event[r])
      BY <2>3, <3>2, GrantKeeps DEF RouterInv, Record
    <3> QED BY <2>1, <3>1, <3>2
  <2>5. RouterShape'
    BY <2>2, <2>3, <2>4, ZenonT(30) DEF RouterInv, RouterShape, Phases, Answers
  <2>6. FreshInv' /\ RefusedInv'
    BY <2>2, <2>3, <2>4 DEF RouterInv, RouterShape, FreshInv, RefusedInv, Before, Refusals
  <2>7. StartedInv' /\ ChainInv'
    BY <2>2, <2>3, <2>4 DEF RouterInv, RouterShape, StartedInv, ChainInv
  <2> QED BY <2>4, <2>5, <2>6, <2>7 DEF RouterInv
<1> QED BY <1>1, <1>2

(* A frame that runs ends.                                                 *)
LEMMA EndKeeps ==
  ASSUME RouterInv, NEW r \in Requests, NEW i \in Frames, NEW outcome \in Outcomes,
         frame[r][i] = "running", frame' = [frame EXCEPT ![r][i] = outcome],
         UNCHANGED <<phase, event, answer, claimCount, granted, currentIndex, dispatched>>
  PROVE  RouterShape' /\ ChainInv'
<1>1. /\ frame' \in [Requests -> [Frames -> Outcomes \cup {"idle", "running"}]]
      /\ \A q \in Requests : \A j \in Frames :
           frame'[q][j] = IF q = r /\ j = i THEN outcome ELSE frame[q][j]
  BY FrameUpdate DEF RouterInv, RouterShape
<1>2. \A q \in Requests : \A j \in Frames : frame'[q][j] # "idle" => frame[q][j] # "idle"
  BY <1>1
<1>3. RouterShape'
  BY <1>1 DEF RouterInv, RouterShape
<1>4. ChainInv'
  BY <1>2 DEF RouterInv, ChainInv
<1> QED BY <1>3, <1>4

(* next() goes on to the following frame at most once, since its guard     *)
(* compares with currentIndex.                                             *)
LEMMA CallNextInv ==
  ASSUME RouterAssumption, RouterInv, NEW r \in Requests, NEW i \in Frames, CallNext(r, i)
  PROVE  RouterInv'
<1>1. /\ Middlewares \in Nat /\ i \in Nat /\ i < Middlewares /\ i + 1 \in Frames
      /\ currentIndex[r] \in -1..Middlewares /\ i <= currentIndex[r]
      /\ UNCHANGED <<phase, event, answer, claimCount, granted>>
  BY DEF CallNext, RunsIn, RouterInv, RouterShape, ChainInv, RouterAssumption, Frames,
         requestVars, storeVars
<1>2. phase[r] \notin Before
  BY <1>1 DEF RouterInv, FreshInv, RouterShape
<1>3. CASE i + 1 > currentIndex[r] /\ Run(r, i + 1)
  <2>1. currentIndex' = [currentIndex EXCEPT ![r] = i + 1]
    BY <1>3 DEF Run
  <2>2. /\ ChainInv'
        /\ frame' \in [Requests -> [Frames -> Outcomes \cup {"idle", "running"}]]
        /\ currentIndex' \in [Requests -> -1..Middlewares]
        /\ dispatched' \in [Requests -> Nat]
    BY <1>1, <1>3, RunKeeps DEF RouterInv
  <2>3. RouterShape'
    BY <1>1, <2>2 DEF RouterInv, RouterShape
  <2>4. FreshInv' /\ RefusedInv' /\ StartedInv'
    BY <1>1, <1>2, <2>1 DEF RouterInv, RouterShape, FreshInv, RefusedInv, StartedInv
  <2>5. GrantInv'
    BY <1>1 DEF RouterInv, GrantInv
  <2> QED BY <2>2, <2>3, <2>4, <2>5 DEF RouterInv
<1>4. CASE /\ frame' = [frame EXCEPT ![r][i] = "threw"]
           /\ UNCHANGED <<currentIndex, tried, dispatched>>
  <2>1. RouterShape' /\ ChainInv'
    BY <1>1, <1>4, EndKeeps DEF CallNext, RunsIn, Outcomes
  <2>2. FreshInv' /\ RefusedInv' /\ StartedInv' /\ GrantInv'
    BY <1>1, <1>4 DEF RouterInv, FreshInv, RefusedInv, StartedInv, GrantInv
  <2> QED BY <2>1, <2>2 DEF RouterInv
<1> QED BY <1>3, <1>4 DEF CallNext

(* A frame that runs ends; a handler is tried.                             *)
LEMMA FrameInv ==
  ASSUME RouterAssumption, RouterInv, NEW r \in Requests,
         RunHandler(r) \/ \E i \in Frames : MiddlewareEnds(r, i)
  PROVE  RouterInv'
<1>1. /\ UNCHANGED <<phase, event, answer, claimCount, granted, currentIndex, dispatched>>
      /\ \/ UNCHANGED frame
         \/ \E i \in Frames : \E outcome \in Outcomes :
              /\ frame[r][i] = "running"
              /\ frame' = [frame EXCEPT ![r][i] = outcome]
  BY DEF RunHandler, MiddlewareEnds, RunsIn, requestVars, storeVars, Outcomes, Frames,
         RouterAssumption
<1>2. RouterShape' /\ ChainInv'
  <2>1. CASE UNCHANGED frame
    BY <1>1, <2>1 DEF RouterInv, RouterShape, ChainInv
  <2> QED BY <1>1, <2>1, EndKeeps
<1>3. FreshInv' /\ RefusedInv' /\ StartedInv' /\ GrantInv'
  BY <1>1 DEF RouterInv, FreshInv, RefusedInv, StartedInv, GrantInv
<1> QED BY <1>2, <1>3 DEF RouterInv

(* The chain or the deadline answers, once the guard is passed; a claim    *)
(* expires; the process dies.                                              *)
LEMMA AnswerInv ==
  ASSUME RouterAssumption, RouterInv,
         \/ \E r \in Requests : Settle(r) \/ DeadlineExceeded(r) \/ OnDeadline(r)
         \/ \E e \in RoutedEvents : Expire(e)
         \/ RouterCrash
  PROVE  RouterInv'
<1>1. UNCHANGED <<event, frame, currentIndex, dispatched, claimCount, granted>>
  BY DEF Settle, DeadlineExceeded, OnDeadline, Expire, RouterCrash, RouterGoto, RouterAnswer,
         chainVars, storeVars, requestVars
<1>2. /\ phase' \in [Requests -> Phases]
      /\ \A r \in Requests : phase'[r] \in Before => phase[r] = phase'[r] /\ answer'[r] = answer[r]
  BY DEF Settle, DeadlineExceeded, OnDeadline, Expire, RouterCrash, RouterGoto, RouterAnswer,
         requestVars, RouterInv, RouterShape, Phases, Before
<1>3. /\ answer' \in [Requests -> Answers]
      /\ \A r \in Requests : answer'[r] \in Refusals => answer'[r] = answer[r]
  BY DEF Settle, DeadlineExceeded, OnDeadline, Expire, RouterCrash, RouterGoto, RouterAnswer,
         requestVars, RouterInv, RouterShape, ResponseTo, Answers, Refusals, Outcomes
<1>4. RouterShape' /\ ChainInv' /\ GrantInv'
  BY <1>1, <1>2, <1>3 DEF RouterInv, RouterShape, ChainInv, GrantInv
<1>5. FreshInv' /\ RefusedInv' /\ StartedInv'
  BY <1>1, <1>2, <1>3 DEF RouterInv, RouterShape, FreshInv, RefusedInv, StartedInv
<1> QED BY <1>4, <1>5 DEF RouterInv

LEMMA RouterStepInv ==
  ASSUME RouterAssumption, RouterInv, [RouterNext]_routerVars PROVE RouterInv'
<1>1. CASE RouterNext
  BY <1>1, RefuseInv, GuardInv, CallNextInv, FrameInv, AnswerInv DEF RouterNext, RouterStep
<1>2. CASE UNCHANGED routerVars
  BY <1>2 DEF routerVars, RouterInv, RouterShape, FreshInv, ChainInv, StartedInv, RefusedInv,
              GrantInv
<1> QED BY <1>1, <1>2

(* Whatever the middlewares do with next(), and whenever deliveries of an  *)
(* event arrive, time out or die: handlers run once for every claim, and a *)
(* refused request leaves no claim.                                        *)
THEOREM OncePerClaim == RouterSpec => []HandledOncePerClaim
<1>1. RouterInv => HandledOncePerClaim
  BY RouterAssumption DEF RouterAssumption, RouterInv, RouterShape, ChainInv, StartedInv,
                          RefusedInv, GrantInv, HandledOncePerClaim
<1>2. RouterInit => RouterInv
  BY RouterAssumption, RouterInitInv
<1>3. RouterInv /\ [RouterNext]_routerVars => RouterInv'
  BY RouterAssumption, RouterStepInv
<1> QED BY <1>1, <1>2, <1>3, PTL DEF RouterSpec

-----------------------------------------------------------------------------
(* The execution of plans: for every set of executions, plans and options, *)
(* the request of one requestId is sent once, but for a fallback, what is  *)
(* blocked sends and claims nothing, a message is pinned only on the word  *)
(* of a complete list without it, and the result is ok only when every     *)
(* request of the plan was accounted for.                                  *)


Labels == {"new", "request", "claim", "send", "fallback", "done", "rejected", "gone"}

Shape == pc \in [Executions -> Labels] /\ at \in [Executions -> Nat]

(* The store grants a requestId to one step of one execution.              *)
OneGrant == \A a, b \in claims : a.id = b.id => a.by = b.by /\ a.step = b.step

Grant(e) == [id |-> Request(e).id, by |-> e, step |-> at[e]]

GrantOf(s) == [id |-> IdOf(s), by |-> s.by, step |-> s.step]

(* What is sent, or about to be, was claimed first, or is a fallback for   *)
(* what was sent before it.                                                *)
ClaimedFirst ==
  /\ \A e \in Executions : pc[e] = "send" /\ Request(e).id # NoId => Grant(e) \in claims
  /\ \A e \in Executions :
       pc[e] = "fallback" => [by |-> e, step |-> at[e], fallback |-> FALSE] \in sent
  /\ \A s \in sent :
       IF s.fallback THEN PatchOf(s) \in sent ELSE IdOf(s) # NoId => GrantOf(s) \in claims

(* No execution is past the block without leave to send.                   *)
PassedTheGate ==
  \A e \in Executions : pc[e] \in {"request", "claim", "send", "fallback"} => MaySend(e)

ExecutionInv == Shape /\ OneGrant /\ ClaimedFirst /\ PassedTheGate /\ GatesHold

LEMMA ExecutionInitInv == Init => ExecutionInv
BY DEF Init, ExecutionInv, Shape, Labels, OneGrant, ClaimedFirst, PassedTheGate, GatesHold

(* The loop goes on with a request that is not being sent yet.             *)
LEMMA LoopStep ==
  ASSUME Shape, NEW e \in Executions, Advance(e) \/ Halt(e)
  PROVE  /\ Shape'
         /\ pc'[e] \in {"request", "done"}
         /\ \A d \in Executions : d # e => pc'[d] = pc[d] /\ at'[d] = at[d]
BY DEF Shape, Advance, Halt, Goto, Labels

(* A step that only moves one execution, to a label before "send", keeps   *)
(* the invariant.                                                          *)
LEMMA MoveInv ==
  ASSUME ExecutionInv, Shape', NEW e \in Executions, UNCHANGED <<claims, sent>>,
         \A d \in Executions : d # e => pc'[d] = pc[d] /\ at'[d] = at[d],
         pc'[e] \notin {"send", "fallback"},
         pc'[e] \in {"request", "claim"} => MaySend(e)
  PROVE  ExecutionInv'
<1>1. OneGrant' BY DEF ExecutionInv, OneGrant
<1>2. ClaimedFirst'
  BY DEF ExecutionInv, Shape, ClaimedFirst, Grant, GrantOf, PatchOf, Request, IdOf
<1>3. PassedTheGate' BY DEF ExecutionInv, Shape, Labels, PassedTheGate, MaySend
<1>4. GatesHold' BY DEF ExecutionInv, GatesHold, MaySend
<1>5. QED BY <1>1, <1>2, <1>3, <1>4 DEF ExecutionInv

LEMMA ExecutionStartInv ==
  ASSUME ExecutionInv, NEW e \in Executions, Start(e)
  PROVE  ExecutionInv'
<1>1. /\ Shape' /\ pc'[e] \in {"done", "request"} /\ UNCHANGED <<claims, sent>>
      /\ \A d \in Executions : d # e => pc'[d] = pc[d] /\ at'[d] = at[d]
  BY DEF ExecutionInv, Shape, Labels, Start, Goto
<1>2. pc'[e] = "request" => MaySend(e)
  <2>1. pc'[e] = "request" => OptionsOf[e].mode = "live" /\ ~Blocked(e)
    BY DEF ExecutionInv, Shape, Start, Goto
  <2>2. OptionsOf[e].mode = "live" /\ ~Blocked(e) => MaySend(e)
    BY DEF Blocked, MaySend
  <2>3. QED BY <2>1, <2>2
<1>3. QED BY <1>1, <1>2, MoveInv

LEMMA PrepareInv ==
  ASSUME ExecutionInv, NEW e \in Executions, Prepare(e)
  PROVE  ExecutionInv'
<1>1. MaySend(e) /\ UNCHANGED <<claims, sent>> /\ Shape
  BY DEF ExecutionInv, PassedTheGate, Prepare
<1>2. CASE Advance(e) \/ Halt(e)
  BY <1>1, <1>2, LoopStep, MoveInv
<1>3. CASE /\ Goto(e, IF Request(e).id = NoId THEN "send" ELSE "claim")
           /\ UNCHANGED at
  <2>1. /\ Shape' /\ pc'[e] \in {"send", "claim"}
        /\ pc'[e] = "send" => Request(e).id = NoId
        /\ \A d \in Executions : d # e => pc'[d] = pc[d]
    BY <1>1, <1>3 DEF Shape, Labels, Goto
  <2>2. OneGrant' BY <1>1, SMTT(30) DEF ExecutionInv, OneGrant
  <2>3. ClaimedFirst'
    BY <1>1, <1>3, <2>1, SMTT(30)
       DEF ExecutionInv, ClaimedFirst, Grant, GrantOf, PatchOf, Request, IdOf
  <2>4. PassedTheGate' BY <1>1, <2>1 DEF ExecutionInv, PassedTheGate, MaySend
  <2>5. GatesHold' BY <1>1 DEF ExecutionInv, GatesHold, MaySend
  <2>6. QED BY <2>1, <2>2, <2>3, <2>4, <2>5 DEF ExecutionInv
<1>4. QED BY <1>2, <1>3 DEF Prepare

(* Only a requestId that nobody has claimed is granted.                    *)
LEMMA ClaimInv == ASSUME ExecutionInv, NEW e \in Executions, Claim(e) PROVE ExecutionInv'
<1>1. MaySend(e) /\ UNCHANGED sent /\ Shape
  BY DEF ExecutionInv, PassedTheGate, Claim
<1>2. CASE /\ ClaimedBy(Request(e).id) = {} /\ claims' = claims \cup {Grant(e)}
           /\ Goto(e, "send") \/ Goto(e, "rejected")
           /\ UNCHANGED at
  <2>1. /\ Shape' /\ pc'[e] \in {"send", "rejected"}
        /\ \A d \in Executions : d # e => pc'[d] = pc[d]
    BY <1>1, <1>2 DEF Shape, Labels, Goto
  <2>2. \A a \in claims : a.id # Request(e).id BY <1>2 DEF ClaimedBy
  <2>3. OneGrant' BY <1>2, <2>2, SMTT(30) DEF ExecutionInv, OneGrant, Grant
  <2>4. ClaimedFirst'
    BY <1>1, <1>2, <2>1, SMTT(30)
       DEF ExecutionInv, ClaimedFirst, Grant, GrantOf, PatchOf, Request, IdOf
  <2>5. PassedTheGate' BY <1>1, <2>1 DEF ExecutionInv, PassedTheGate, MaySend
  <2>6. GatesHold' BY <1>1, <1>2 DEF ExecutionInv, GatesHold, MaySend, Grant
  <2>7. QED BY <2>1, <2>3, <2>4, <2>5, <2>6 DEF ExecutionInv
<1>3. CASE Advance(e) /\ UNCHANGED claims
  BY <1>1, <1>3, LoopStep, MoveInv
<1>4. CASE Goto(e, "rejected") /\ UNCHANGED <<at, claims>>
  <2>1. Shape' /\ pc'[e] = "rejected" /\ \A d \in Executions : d # e => pc'[d] = pc[d]
    BY <1>1, <1>4 DEF Shape, Labels, Goto
  <2>2. QED BY <1>1, <1>4, <2>1, MoveInv
<1>5. QED BY <1>2, <1>3, <1>4 DEF Claim, Grant

LEMMA SendInv == ASSUME ExecutionInv, NEW e \in Executions, Send(e) PROVE ExecutionInv'
<1> DEFINE s == [by |-> e, step |-> at[e], fallback |-> FALSE]
<1>1. /\ pc[e] = "send" /\ MaySend(e) /\ UNCHANGED claims /\ Shape
      /\ sent' = sent \cup {s}
  BY DEF ExecutionInv, PassedTheGate, Send, HandOver
<1>2. /\ Shape' /\ pc'[e] \in {"request", "done", "fallback"}
      /\ \A d \in Executions : d # e => pc'[d] = pc[d] /\ at'[d] = at[d]
  <2>1. CASE Advance(e) \/ Halt(e) BY <1>1, <2>1, LoopStep
  <2>2. CASE Goto(e, "fallback") /\ UNCHANGED at
    BY <1>1, <2>2 DEF Shape, Labels, Goto
  <2>3. QED BY <2>1, <2>2 DEF Send
<1>3. IdOf(s) = Request(e).id BY DEF IdOf, Request
<1>4. IdOf(s) # NoId => GrantOf(s) \in claims
  BY <1>1, <1>3 DEF ExecutionInv, ClaimedFirst, Grant, GrantOf
<1>5. OneGrant' BY <1>1 DEF ExecutionInv, OneGrant
<1>6. ClaimedFirst'
  <2>1. \A d \in Executions : pc'[d] = "send" =>
          d # e /\ pc[d] = "send" /\ at'[d] = at[d] /\ Request(d)' = Request(d)
    BY <1>2 DEF Request
  <2>2. \A d \in Executions : pc'[d] = "send" /\ Request(d)'.id # NoId => Grant(d)' \in claims'
    BY <1>1, <2>1 DEF ExecutionInv, ClaimedFirst, Grant
  <2>3. \A t \in sent' :
          IF t.fallback THEN PatchOf(t) \in sent' ELSE IdOf(t) # NoId => GrantOf(t) \in claims'
    <3>1. \A t \in sent :
            IF t.fallback THEN PatchOf(t) \in sent ELSE IdOf(t) # NoId => GrantOf(t) \in claims
      BY DEF ExecutionInv, ClaimedFirst
    <3>2. ~s.fallback OBVIOUS
    <3>3. QED BY <1>1, <1>4, <3>1, <3>2
  <2>4. \A d \in Executions :
          pc'[d] = "fallback" => [by |-> d, step |-> at'[d], fallback |-> FALSE] \in sent'
    <3>1. pc'[e] = "fallback" => at'[e] = at[e]
      <4>1. CASE Advance(e) \/ Halt(e)
        BY <1>1, <4>1, LoopStep
      <4>2. CASE UNCHANGED at BY <4>2
      <4>3. QED BY <4>1, <4>2 DEF Send
    <3>2. QED BY <1>1, <1>2, <3>1 DEF ExecutionInv, ClaimedFirst
  <2>5. QED BY <2>2, <2>3, <2>4 DEF ClaimedFirst, IdOf, GrantOf, PatchOf
<1>7. PassedTheGate' BY <1>1, <1>2 DEF ExecutionInv, PassedTheGate, MaySend
<1>8. GatesHold' BY <1>1 DEF ExecutionInv, GatesHold, MaySend
<1>9. QED BY <1>2, <1>5, <1>6, <1>7, <1>8 DEF ExecutionInv

(* A fallback is sent with the leave, and after the PATCH, of its step.    *)
LEMMA FallbackInv == ASSUME ExecutionInv, NEW e \in Executions, Fallback(e) PROVE ExecutionInv'
<1> DEFINE f == [by |-> e, step |-> at[e], fallback |-> TRUE]
<1>1. /\ MaySend(e) /\ UNCHANGED claims /\ Shape /\ (Advance(e) \/ Halt(e))
      /\ sent' = sent \cup {f}
  BY DEF ExecutionInv, PassedTheGate, Fallback, HandOver
<1>2. PatchOf(f) \in sent BY DEF ExecutionInv, ClaimedFirst, Fallback, PatchOf
<1>3. /\ Shape' /\ pc'[e] \in {"request", "done"}
      /\ \A d \in Executions : d # e => pc'[d] = pc[d] /\ at'[d] = at[d]
  BY <1>1, LoopStep
<1>4. OneGrant' BY <1>1 DEF ExecutionInv, OneGrant
<1>5. ClaimedFirst'
  <2>1. \A t \in sent :
          IF t.fallback THEN PatchOf(t) \in sent ELSE IdOf(t) # NoId => GrantOf(t) \in claims
    BY DEF ExecutionInv, ClaimedFirst
  <2>2. \A t \in sent' :
          IF t.fallback THEN PatchOf(t) \in sent' ELSE IdOf(t) # NoId => GrantOf(t) \in claims'
    <3>1. f.fallback OBVIOUS
    <3>2. QED BY <1>1, <1>2, <2>1, <3>1
  <2>3. \A d \in Executions : pc'[d] \in {"send", "fallback"} =>
          d # e /\ pc[d] = pc'[d] /\ at'[d] = at[d] /\ Request(d)' = Request(d)
    BY <1>3 DEF Request
  <2>4. \A d \in Executions :
          /\ pc'[d] = "send" /\ Request(d)'.id # NoId => Grant(d)' \in claims'
          /\ pc'[d] = "fallback" => [by |-> d, step |-> at'[d], fallback |-> FALSE] \in sent'
    BY <1>1, <2>3 DEF ExecutionInv, ClaimedFirst, Grant
  <2>5. QED BY <2>2, <2>4 DEF ClaimedFirst, IdOf, GrantOf, PatchOf
<1>6. PassedTheGate' BY <1>1, <1>3 DEF ExecutionInv, PassedTheGate, MaySend
<1>7. GatesHold' BY <1>1 DEF ExecutionInv, GatesHold, MaySend
<1>8. QED BY <1>3, <1>4, <1>5, <1>6, <1>7 DEF ExecutionInv

LEMMA NextInv == ExecutionInv /\ [Next]_vars => ExecutionInv'
<1> SUFFICES ASSUME ExecutionInv, [Next]_vars PROVE ExecutionInv' OBVIOUS
<1>1. ASSUME NEW e \in Executions, Fallback(e) PROVE ExecutionInv'
  BY <1>1, FallbackInv
<1>2. ASSUME NEW e \in Executions, Crash(e) PROVE ExecutionInv'
  <2>1. /\ Shape' /\ pc'[e] = "gone" /\ UNCHANGED <<at, claims, sent>>
        /\ \A d \in Executions : d # e => pc'[d] = pc[d]
    BY <1>2 DEF ExecutionInv, Shape, Labels, Crash, Goto
  <2>2. QED BY <2>1, MoveInv
<1>3. CASE UNCHANGED vars
  BY <1>3 DEF vars, ExecutionInv, Shape, OneGrant, ClaimedFirst, PassedTheGate, GatesHold,
              Grant, GrantOf, PatchOf, Request, IdOf, MaySend
<1>4. QED BY <1>1, <1>2, <1>3, ExecutionStartInv, PrepareInv, ClaimInv, SendInv DEF Next, Step

LEMMA ExecutorInvariant == Spec => []ExecutionInv
BY ExecutionInitInv, NextInv, PTL DEF Spec

(* The request of one requestId is sent by one step of one execution,      *)
(* whichever of them fails, dies or is repeated; what several may send is  *)
(* a fallback, each after its own PATCH.                                   *)
THEOREM OneSender == Spec => []SentOnce
<1>1. ExecutionInv => SentOnce
  <2> SUFFICES ASSUME ExecutionInv, NEW s \in sent, NEW t \in sent,
                      IdOf(s) = IdOf(t), IdOf(s) # NoId
               PROVE  \/ s.by = t.by /\ s.step = t.step
                      \/ \E f \in {s, t} : f.fallback /\ PatchOf(f) \in sent
    BY DEF SentOnce
  <2>1. \A f \in {s, t} : f.fallback => PatchOf(f) \in sent
    BY DEF ExecutionInv, ClaimedFirst
  <2>2. CASE ~s.fallback /\ ~t.fallback
    <3>1. GrantOf(s) \in claims /\ GrantOf(t) \in claims
      BY <2>2 DEF ExecutionInv, ClaimedFirst
    <3>2. QED BY <3>1 DEF ExecutionInv, OneGrant, GrantOf
  <2>3. QED BY <2>1, <2>2
<1>2. QED BY <1>1, ExecutorInvariant, PTL

(* A dry run or a blocked plan sends nothing and claims nothing.           *)
THEOREM Gated == Spec => []GatesHold
<1>1. ExecutionInv => GatesHold BY DEF ExecutionInv
<1>2. QED BY <1>1, ExecutorInvariant, PTL

-----------------------------------------------------------------------------
(* The walk of an execution through its plan: what is behind it is         *)
(* accounted for, what is before it has not been reached.                  *)

(* The state's tables, of which a step changes one entry at a time.        *)
Tables ==
  /\ pc \in [Executions -> Labels] /\ at \in [Executions -> Nat]
  /\ steps = [e \in Executions |-> [i \in StepsOf(e) |-> steps[e][i]]]
  /\ responses = [e \in Executions |-> [i \in StepsOf(e) |-> responses[e][i]]]
  /\ fallback = [e \in Executions |-> fallback[e]]
  /\ ok = [e \in Executions |-> ok[e]]

Accounted(e, i) ==
  \/ steps[e][i] \in {"executed", "duplicate", "already_pinned"}
  \/ steps[e][i] = "failed" /\ fallback[e] = "executed"

(* A complete list without the message was read before step j.             *)
Cleared(e, j) ==
  \E i \in 1..(j - 1) :
    /\ steps[e][i] = "executed" /\ responses[e][i].pins
    /\ ~responses[e][i].more /\ ~responses[e][i].pinned

UnderWay(e) == pc[e] \in {"new", "request", "claim", "send", "fallback"}

WalkOf(e) ==
  /\ at[e] \in StepsOf(e)
  /\ UnderWay(e) =>
       /\ \A i \in StepsOf(e) : i > at[e] => steps[e][i] = "not_reached"
       /\ \A i \in StepsOf(e) : i < at[e] => Accounted(e, i)
       /\ IF pc[e] = "fallback" THEN steps[e][at[e]] = "failed"
          ELSE steps[e][at[e]] = "not_reached"
  /\ pc[e] # "done" => ~ok[e]
  /\ pc[e] = "done" /\ ok[e] /\ OptionsOf[e].mode = "live" =>
       \A i \in StepsOf(e) : Accounted(e, i)
  /\ pc[e] \in {"claim", "send"} /\ Request(e).pinAbsent => Cleared(e, at[e])

SentOf(s) ==
  /\ s.by \in Executions /\ pc[s.by] # "new"
  /\ s.step \in StepsOf(s.by) /\ s.step <= at[s.by]
  /\ ~s.fallback /\ PlanOf[s.by].requests[s.step].pinAbsent => Cleared(s.by, s.step)

WalkInv == Tables /\ (\A e \in Executions : WalkOf(e)) /\ (\A s \in sent : SentOf(s))

Unmoved(d) ==
  UNCHANGED <<pc[d], at[d], steps[d], responses[d], fallback[d], ok[d]>>

(* Nothing but the entries of the step an execution is at changes.         *)
OneEntry(e) ==
  \A i \in StepsOf(e) : i # at[e] =>
    steps'[e][i] = steps[e][i] /\ responses'[e][i] = responses[e][i]

LEMMA InitWalk == Init => WalkInv
<1> SUFFICES ASSUME Init PROVE WalkInv OBVIOUS
<1>1. Tables BY DEF Init, Tables, Labels
<1>2. ASSUME NEW e \in Executions PROVE WalkOf(e)
  <2>1. 1 \in StepsOf(e) BY PlanAssumption DEF StepsOf
  <2>3. pc[e] = "new" /\ at[e] = 1 /\ ~ok[e] BY DEF Init
  <2>4. \A i \in StepsOf(e) : steps[e][i] = "not_reached" BY DEF Init
  <2>5. \A i \in StepsOf(e) : ~(i < 1) BY PlanAssumption DEF StepsOf
  <2>6. QED BY <2>1, <2>3, <2>4, <2>5 DEF WalkOf, UnderWay
<1>3. sent = {} BY DEF Init
<1>4. QED BY <1>1, <1>2, <1>3 DEF WalkInv

(* The others stand still, and what was sent keeps its grounds.            *)
LEMMA Frame ==
  ASSUME WalkInv, Tables', NEW e \in Executions,
         \A d \in Executions : d # e => Unmoved(d),
         pc[e] = "new" \/ OneEntry(e),
         pc'[e] # "new", at'[e] >= at[e]
  PROVE  /\ \A d \in Executions : d # e => WalkOf(d)'
         /\ \A s \in sent : SentOf(s)'
<1>1. ASSUME NEW d \in Executions, d # e PROVE WalkOf(d)'
  <2>1. WalkOf(d) /\ Unmoved(d) BY <1>1 DEF WalkInv
  <2>2. UnderWay(d)' = UnderWay(d) BY <2>1 DEF UnderWay, Unmoved
  <2>3. \A i : Accounted(d, i)' = Accounted(d, i) BY <2>1 DEF Accounted, Unmoved
  <2>4. Cleared(d, at[d])' = Cleared(d, at[d]) BY <2>1 DEF Cleared, Unmoved
  <2>5. Request(d)' = Request(d) BY <2>1 DEF Request, Unmoved
  <2>6. QED BY <2>1, <2>2, <2>3, <2>4, <2>5 DEF WalkOf, Unmoved
<1>2. ASSUME NEW s \in sent PROVE SentOf(s)'
  <2>1. SentOf(s) BY DEF WalkInv
  <2>2. CASE s.by # e
    BY <2>1, <2>2 DEF SentOf, Cleared, Unmoved
  <2>3. CASE s.by = e
    <3>1. OneEntry(e) BY <2>1, <2>3 DEF SentOf
    <3>2. /\ s.step \in Nat /\ at[e] \in Nat /\ at'[e] \in Nat /\ s.step <= at[e]
          /\ \A i \in 1..(s.step - 1) : i \in StepsOf(e) /\ i # at[e]
      BY <2>1, <2>3, PlanAssumption DEF SentOf, StepsOf, WalkInv, Tables
    <3>3. Cleared(e, s.step) => Cleared(e, s.step)'
      BY <3>1, <3>2 DEF Cleared, OneEntry
    <3>4. QED BY <2>1, <2>3, <3>2, <3>3 DEF SentOf
  <2>4. QED BY <2>2, <2>3
<1>3. QED BY <1>1, <1>2

LEMMA WalkFrame ==
  ASSUME WalkInv, Tables', NEW e \in Executions,
         \A d \in Executions : d # e => Unmoved(d),
         pc[e] = "new" \/ OneEntry(e),
         pc'[e] # "new", at'[e] >= at[e],
         WalkOf(e)', \A s \in sent' : s \in sent \/ SentOf(s)'
  PROVE  WalkInv'
BY Frame DEF WalkInv

(* The loop goes on, or ends with everything accounted for.                *)
LEMMA AdvanceWalk ==
  ASSUME WalkInv, Tables', NEW e \in Executions, Advance(e), OneEntry(e),
         UnderWay(e), NEW a, a = at[e], Accounted(e, a)',
         \A i \in StepsOf(e) : Accounted(e, i) /\ i # at[e] => Accounted(e, i)'
  PROVE  WalkOf(e)' /\ at'[e] >= at[e] /\ pc'[e] \in {"request", "done"}
<1>1. /\ at[e] \in Nat /\ StepsOf(e) = 1..Len(PlanOf[e].requests) /\ at[e] \in StepsOf(e)
      /\ Len(PlanOf[e].requests) \in Nat
  BY PlanAssumption DEF WalkInv, WalkOf, Tables, StepsOf
<1>2. /\ \A i \in StepsOf(e) : i > at[e] => steps'[e][i] = "not_reached"
      /\ \A i \in StepsOf(e) : i <= at[e] => Accounted(e, i)'
  <2>1. WalkOf(e) BY DEF WalkInv
  <2>2. \A i \in StepsOf(e) : i > at[e] => steps[e][i] = "not_reached" /\ i # at[e]
    BY <1>1, <2>1 DEF WalkOf
  <2>3. \A i \in StepsOf(e) : i < at[e] => Accounted(e, i) /\ i # at[e]
    BY <1>1, <2>1 DEF WalkOf
  <2>4. \A i \in StepsOf(e) : i <= at[e] => i < at[e] \/ i = a
    BY <1>1
  <2>5. QED BY <1>1, <2>2, <2>3, <2>4 DEF OneEntry
<1>3. ~ok[e] BY DEF WalkInv, WalkOf, UnderWay
<1>4. CASE at[e] < Len(PlanOf[e].requests)
  <2>1. at'[e] = at[e] + 1 /\ pc'[e] = "request" /\ ok' = ok
    BY <1>4 DEF Advance, Goto, WalkInv, Tables
  <2>2. at[e] + 1 \in StepsOf(e) /\ at[e] + 1 > at[e]
    BY <1>1, <1>4
  <2>3. steps'[e][at'[e]] = "not_reached" BY <1>2, <2>1, <2>2
  <2>4. /\ \A i \in StepsOf(e) : i > at'[e] => steps'[e][i] = "not_reached"
        /\ \A i \in StepsOf(e) : i < at'[e] => Accounted(e, i)'
    <3> SUFFICES ASSUME NEW i \in StepsOf(e)
                 PROVE  /\ i > at'[e] => steps'[e][i] = "not_reached"
                        /\ i < at'[e] => Accounted(e, i)'
      OBVIOUS
    <3>1. i \in Nat BY <1>1
    <3>2. i > at'[e] => i > at[e] BY <1>1, <2>1, <3>1
    <3>3. i < at'[e] => i <= at[e] BY <1>1, <2>1, <3>1
    <3>4. QED BY <1>2, <3>2, <3>3
  <2>5. at'[e] \in StepsOf(e) /\ ~ok'[e] BY <1>3, <2>1, <2>2
  <2>6. WalkOf(e)' BY <2>1, <2>3, <2>4, <2>5 DEF WalkOf, UnderWay
  <2>7. QED BY <1>1, <2>1, <2>2, <2>6
<1>5. CASE ~(at[e] < Len(PlanOf[e].requests))
  <2>1. at' = at /\ pc'[e] = "done"
    BY <1>5 DEF Advance, Goto, WalkInv, Tables
  <2>2. \A i \in StepsOf(e) : i <= at[e] BY <1>1, <1>5
  <2>3. QED BY <1>1, <1>2, <2>1, <2>2 DEF WalkOf, UnderWay
<1>6. QED BY <1>4, <1>5

LEMMA HaltWalk ==
  ASSUME WalkInv, NEW e \in Executions, Halt(e), UnderWay(e)
  PROVE  WalkOf(e)' /\ at'[e] = at[e] /\ pc'[e] = "done"
<1>1. at' = at /\ ok' = ok /\ pc'[e] = "done" BY DEF Halt, Goto, WalkInv, Tables
<1>2. ~ok[e] /\ at[e] \in StepsOf(e) BY DEF WalkInv, WalkOf, UnderWay
<1>3. QED BY <1>1, <1>2 DEF WalkOf, UnderWay

StepsTable == steps = [e \in Executions |-> [i \in StepsOf(e) |-> steps[e][i]]]

LEMMA MarkEntry ==
  ASSUME WalkInv, NEW e \in Executions, NEW status, Mark(e, status)
  PROVE  /\ StepsTable' /\ steps'[e][at[e]] = status
         /\ \A i \in StepsOf(e) : i # at[e] => steps'[e][i] = steps[e][i]
         /\ \A d \in Executions : d # e => steps'[d] = steps[d]
<1>1. at[e] \in StepsOf(e) /\ StepsTable BY DEF WalkInv, WalkOf, Tables, StepsTable
<1>2. steps' = [steps EXCEPT ![e] = [steps[e] EXCEPT ![at[e]] = status]] BY DEF Mark
<1>3. /\ DOMAIN steps = Executions
      /\ \A d \in Executions : steps[d] = [i \in StepsOf(d) |-> steps[d][i]]
  BY <1>1 DEF StepsTable
<1> DEFINE marked == [steps[e] EXCEPT ![at[e]] = status]
<1>4. /\ steps' = [d \in Executions |-> IF d = e THEN marked ELSE steps[d]]
      /\ marked = [i \in StepsOf(e) |-> IF i = at[e] THEN status ELSE steps[e][i]]
  BY <1>2, <1>3
<1>5. /\ steps'[e] = marked
      /\ \A d \in Executions : d # e => steps'[d] = steps[d]
  BY <1>4
<1>6. \A d \in Executions : steps'[d] = [i \in StepsOf(d) |-> steps'[d][i]]
  BY <1>3, <1>4, <1>5
<1>7. StepsTable' BY <1>4, <1>6 DEF StepsTable
<1>8. QED BY <1>1, <1>4, <1>5, <1>7

(* What moves one execution moves it alone.                                *)
LEMMA LoopTables ==
  ASSUME WalkInv, NEW e \in Executions, Advance(e) \/ Halt(e)
  PROVE  /\ pc' \in [Executions -> Labels] /\ at' \in [Executions -> Nat]
         /\ ok' = [d \in Executions |-> ok'[d]]
         /\ \A d \in Executions :
              d # e => pc'[d] = pc[d] /\ at'[d] = at[d] /\ ok'[d] = ok[d]
<1>1. pc \in [Executions -> Labels] /\ at \in [Executions -> Nat]
      /\ ok = [d \in Executions |-> ok[d]]
  BY DEF WalkInv, Tables
<1>2. CASE Advance(e) BY <1>1, <1>2 DEF Advance, Goto, Labels
<1>3. CASE Halt(e) BY <1>1, <1>3 DEF Halt, Goto, Labels
<1>4. QED BY <1>2, <1>3

(* A step is marked, and the loop goes on with it accounted for, or ends.  *)
LEMMA MarkedWalk ==
  ASSUME WalkInv, NEW e \in Executions, NEW status, Mark(e, status),
         pc[e] \in {"request", "claim", "send"},
         UNCHANGED fallback,
         responses' = [d \in Executions |-> [i \in StepsOf(d) |-> responses'[d][i]]],
         \A d \in Executions : d # e => responses'[d] = responses[d],
         \A i \in StepsOf(e) : i # at[e] => responses'[e][i] = responses[e][i],
         \/ Advance(e) /\ status \in {"executed", "duplicate", "already_pinned"}
         \/ Halt(e)
  PROVE  /\ \A d \in Executions : WalkOf(d)'
         /\ \A s \in sent : SentOf(s)'
         /\ Tables'
         /\ at'[e] >= at[e] /\ pc'[e] # "new" /\ OneEntry(e)
<1>1. /\ StepsTable' /\ steps'[e][at[e]] = status
      /\ \A i \in StepsOf(e) : i # at[e] => steps'[e][i] = steps[e][i]
      /\ \A d \in Executions : d # e => steps'[d] = steps[d]
  BY MarkEntry
<1>2. fallback = [d \in Executions |-> fallback[d]] BY DEF WalkInv, Tables
<1>3. Tables' BY <1>1, <1>2, LoopTables DEF Tables, StepsTable
<1>4. OneEntry(e) BY <1>1 DEF OneEntry
<1>5. \A d \in Executions : d # e => Unmoved(d) BY <1>1, LoopTables DEF Unmoved
<1>6. UnderWay(e) BY DEF UnderWay
<1>7. WalkOf(e)' /\ at'[e] >= at[e] /\ pc'[e] \in {"request", "done"}
  <2>1. CASE Advance(e) /\ status \in {"executed", "duplicate", "already_pinned"}
    <3>1. ASSUME NEW a, a = at[e] PROVE Accounted(e, a)' BY <1>1, <2>1, <3>1 DEF Accounted
    <3>2. \A i \in StepsOf(e) : Accounted(e, i) /\ i # at[e] => Accounted(e, i)'
      BY <1>1 DEF Accounted
    <3>3. QED BY <1>3, <1>4, <1>6, <2>1, <3>1, <3>2, AdvanceWalk
  <2>2. CASE Halt(e)
    <3>1. at[e] \in Nat BY DEF WalkInv, Tables
    <3>2. QED BY <1>6, <2>2, <3>1, HaltWalk
  <2>3. QED BY <2>1, <2>2
<1>8. /\ \A d \in Executions : d # e => WalkOf(d)'
      /\ \A s \in sent : SentOf(s)'
  BY <1>3, <1>4, <1>5, <1>7, Frame
<1>9. QED BY <1>3, <1>4, <1>7, <1>8

(* An execution goes to another label and nothing else changes but claims. *)
LEMMA GotoWalk ==
  ASSUME WalkInv, NEW e \in Executions, NEW label \in Labels, Goto(e, label),
         UNCHANGED <<at, steps, fallback, responses, ok, sent>>,
         \/ label \in {"rejected", "gone"} /\ pc[e] \notin {"done"}
         \/ /\ pc[e] \in {"new", "request", "claim"}
            /\ label \in {"request", "claim", "send"}
            /\ label \in {"claim", "send"} /\ Request(e).pinAbsent => Cleared(e, at[e])
  PROVE  WalkInv'
<1>1. WalkOf(e) /\ Tables BY DEF WalkInv
<1>2. /\ Tables' /\ pc'[e] = label /\ pc'[e] # "new" /\ at'[e] >= at[e]
      /\ \A d \in Executions : d # e => pc'[d] = pc[d]
  BY <1>1 DEF Tables, Goto, Labels
<1>3. \A d \in Executions : d # e => Unmoved(d) BY <1>2 DEF Unmoved
<1>4. OneEntry(e) BY DEF OneEntry
<1>5. \A i : Accounted(e, i)' = Accounted(e, i) BY DEF Accounted
<1>6. Cleared(e, at[e])' = Cleared(e, at[e]) /\ Request(e)' = Request(e)
  BY DEF Cleared, Request
<1>7. WalkOf(e)'
  <2>1. CASE label \in {"rejected", "gone"} /\ pc[e] \notin {"done"}
    BY <1>1, <1>2, <2>1 DEF WalkOf, UnderWay
  <2>2. CASE /\ pc[e] \in {"new", "request", "claim"}
             /\ label \in {"request", "claim", "send"}
             /\ label \in {"claim", "send"} /\ Request(e).pinAbsent => Cleared(e, at[e])
    <3>1. UnderWay(e) /\ pc[e] # "fallback" /\ pc'[e] # "fallback" /\ pc'[e] # "done"
      BY <1>2, <2>2 DEF UnderWay
    <3>2. QED BY <1>1, <1>2, <1>5, <1>6, <2>2, <3>1 DEF WalkOf
  <2>3. QED BY <2>1, <2>2
<1>8. QED BY <1>2, <1>3, <1>4, <1>7, WalkFrame

LEMMA StartWalk == ASSUME WalkInv, NEW e \in Executions, Start(e) PROVE WalkInv'
<1>1. CASE OptionsOf[e].mode = "live" /\ ~Blocked(e) /\ Goto(e, "request")
           /\ UNCHANGED <<steps, ok, at, fallback, responses, claims, sent>>
  <2>1. pc[e] = "new" BY DEF Start
  <2>2. QED BY <1>1, <2>1, GotoWalk DEF Labels
<1>2. ASSUME NEW status, All(e, status), Goto(e, "done"),
             \/ ok' = [ok EXCEPT ![e] = ~Blocked(e)] /\ OptionsOf[e].mode = "dryRun"
             \/ ok' = ok
      PROVE  WalkInv'
  <2>1. /\ pc[e] = "new" /\ UNCHANGED <<at, fallback, responses, sent>>
        /\ WalkOf(e) /\ Tables
    BY DEF Start, WalkInv
  <2>2. steps' = [d \in Executions |-> IF d = e THEN [i \in StepsOf(e) |-> status]
                                       ELSE steps[d]]
    BY <1>2, <2>1 DEF All, Tables
  <2>3. /\ \A d \in Executions : d # e => steps'[d] = steps[d]
        /\ \A d \in Executions : steps'[d] = [i \in StepsOf(d) |-> steps'[d][i]]
    BY <2>1, <2>2 DEF Tables
  <2>4. /\ pc' \in [Executions -> Labels] /\ pc'[e] = "done"
        /\ \A d \in Executions : d # e => pc'[d] = pc[d]
    BY <1>2, <2>1 DEF Goto, Tables, Labels
  <2>5. /\ ok' = [d \in Executions |-> ok'[d]]
        /\ \A d \in Executions : d # e => ok'[d] = ok[d]
    BY <1>2, <2>1 DEF Tables
  <2>6. steps' = [d \in Executions |-> [i \in StepsOf(d) |-> steps'[d][i]]]
    BY <2>2, <2>3
  <2>7. Tables' BY <2>1, <2>4, <2>5, <2>6 DEF Tables
  <2>8. \A d \in Executions : d # e => Unmoved(d)
    BY <2>1, <2>3, <2>4, <2>5 DEF Unmoved
  <2>9. ok'[e] => OptionsOf[e].mode = "dryRun"
    BY <1>2, <2>1 DEF WalkOf, UnderWay
  <2>10. WalkOf(e)' BY <2>1, <2>4, <2>9 DEF WalkOf, UnderWay
  <2>11. at[e] \in Nat BY <2>1 DEF Tables
  <2>12. QED BY <2>1, <2>4, <2>7, <2>8, <2>10, <2>11, WalkFrame
<1>3. QED BY <1>1, <1>2 DEF Start

(* Whoever may pin has read a complete list without the message.           *)
LEMMA ConditionHolds ==
  ASSUME WalkInv, NEW e \in Executions, pc[e] = "request",
         Condition(e) = "execute", Request(e).pinAbsent
  PROVE  Cleared(e, at[e])
<1>1. /\ LastList(e) # {} /\ ~LastListHas(e, "more") /\ ~LastListHas(e, "pinned")
  BY DEF Condition
<1>2. PICK i \in LastList(e) : TRUE BY <1>1
<1>3. /\ i \in StepsOf(e) /\ steps[e][i] = "executed" /\ responses[e][i].pins
      /\ ~responses[e][i].more /\ ~responses[e][i].pinned
  BY <1>1, <1>2 DEF LastList, Lists, LastListHas
<1>4. /\ \A j \in StepsOf(e) : j >= at[e] => steps[e][j] = "not_reached"
      /\ at[e] \in StepsOf(e)
  <2>1. WalkOf(e) /\ UnderWay(e) /\ pc[e] # "fallback" BY DEF WalkInv, UnderWay
  <2>2. \A j \in StepsOf(e) : j >= at[e] => j > at[e] \/ j = at[e]
    BY <2>1, PlanAssumption DEF WalkOf, StepsOf
  <2>3. QED BY <2>1, <2>2 DEF WalkOf
<1>5. i \in 1..(at[e] - 1)
  <2>1. i \in Nat \ {0} /\ at[e] \in Nat BY <1>3, <1>4, PlanAssumption DEF StepsOf
  <2>2. ~(i >= at[e]) BY <1>3, <1>4
  <2>3. QED BY <2>1, <2>2
<1>6. QED BY <1>3, <1>5 DEF Cleared

LEMMA PrepareWalk == ASSUME WalkInv, NEW e \in Executions, Prepare(e) PROVE WalkInv'
<1>1. pc[e] = "request" /\ UNCHANGED <<fallback, responses, claims, sent>> BY DEF Prepare
<1>2. responses = [d \in Executions |-> [i \in StepsOf(d) |-> responses[d][i]]]
  BY DEF WalkInv, Tables
<1>3. ASSUME NEW status, Mark(e, status),
             (Advance(e) /\ status = "already_pinned") \/ Halt(e)
      PROVE  WalkInv'
  BY <1>1, <1>2, <1>3, MarkedWalk DEF WalkInv
<1>4. CASE /\ Condition(e) = "execute"
           /\ Goto(e, IF Request(e).id = NoId THEN "send" ELSE "claim")
           /\ UNCHANGED <<steps, at, ok>>
  BY <1>1, <1>4, ConditionHolds, GotoWalk DEF Labels
<1>5. QED BY <1>3, <1>4 DEF Prepare

LEMMA ClaimWalk == ASSUME WalkInv, NEW e \in Executions, Claim(e) PROVE WalkInv'
<1>1. pc[e] = "claim" /\ UNCHANGED <<fallback, responses, sent>> /\ WalkOf(e)
  BY DEF Claim, WalkInv
<1>2. responses = [d \in Executions |-> [i \in StepsOf(d) |-> responses[d][i]]]
  BY DEF WalkInv, Tables
<1>3. CASE Mark(e, "duplicate") /\ Advance(e)
  BY <1>1, <1>2, <1>3, MarkedWalk DEF WalkInv
<1>4. ASSUME NEW label \in {"send", "rejected"}, Goto(e, label), UNCHANGED <<steps, at, ok>>
      PROVE  WalkInv'
  <2>1. Request(e).pinAbsent => Cleared(e, at[e]) BY <1>1 DEF WalkOf
  <2>2. label \in Labels BY <1>4 DEF Labels
  <2>3. QED BY <1>1, <1>4, <2>1, <2>2, GotoWalk
<1>5. QED BY <1>3, <1>4 DEF Claim

LEMMA SendWalk == ASSUME WalkInv, NEW e \in Executions, Send(e) PROVE WalkInv'
<1>1. /\ pc[e] = "send" /\ UNCHANGED fallback /\ WalkOf(e) /\ Tables
      /\ sent' = sent \cup {[by |-> e, step |-> at[e], fallback |-> FALSE]}
  BY DEF Send, HandOver, WalkInv
<1> DEFINE Kept == /\ Tables' /\ \A d \in Executions : WalkOf(d)'
                   /\ \A t \in sent : SentOf(t)'
                   /\ at'[e] >= at[e] /\ pc'[e] # "new" /\ OneEntry(e)
<1>2. ASSUME NEW r, responses' = [responses EXCEPT ![e][at[e]] = r],
             Mark(e, "executed"), Advance(e)
      PROVE  Kept
  <2> DEFINE answered == [responses[e] EXCEPT ![at[e]] = r]
  <2>1. /\ \A d \in Executions : responses[d] = [i \in StepsOf(d) |-> responses[d][i]]
        /\ DOMAIN responses = Executions
    BY <1>1 DEF Tables
  <2>2. /\ responses' = [d \in Executions |-> IF d = e THEN answered ELSE responses[d]]
        /\ answered = [i \in StepsOf(e) |-> IF i = at[e] THEN r ELSE responses[e][i]]
    BY <1>2, <2>1
  <2>3. /\ responses'[e] = answered
        /\ \A d \in Executions : d # e => responses'[d] = responses[d]
        /\ \A i \in StepsOf(e) : i # at[e] => responses'[e][i] = responses[e][i]
    BY <2>2
  <2>4. \A d \in Executions : responses'[d] = [i \in StepsOf(d) |-> responses'[d][i]]
    BY <2>1, <2>2, <2>3
  <2>5. responses' = [d \in Executions |-> [i \in StepsOf(d) |-> responses'[d][i]]]
    BY <2>2, <2>4
  <2>6. QED BY <1>1, <1>2, <2>3, <2>5, MarkedWalk
<1>3. ASSUME Mark(e, "failed"), UNCHANGED responses, Halt(e) PROVE Kept
  <2>1. responses = [d \in Executions |-> [i \in StepsOf(d) |-> responses[d][i]]]
    BY <1>1 DEF Tables
  <2>2. QED BY <1>1, <1>3, <2>1, MarkedWalk
<1>4. ASSUME Mark(e, "failed"), UNCHANGED responses, Goto(e, "fallback"), UNCHANGED <<at, ok>>
      PROVE  Kept
  <2>1. /\ StepsTable' /\ steps'[e][at[e]] = "failed"
        /\ \A i \in StepsOf(e) : i # at[e] => steps'[e][i] = steps[e][i]
        /\ \A d \in Executions : d # e => steps'[d] = steps[d]
    BY <1>4, MarkEntry
  <2>2. /\ pc' \in [Executions -> Labels] /\ pc'[e] = "fallback"
        /\ \A d \in Executions : d # e => pc'[d] = pc[d]
    BY <1>1, <1>4 DEF Goto, Tables, Labels
  <2>3. Tables' BY <1>1, <1>4, <2>1, <2>2 DEF Tables, StepsTable
  <2>4. OneEntry(e) /\ \A d \in Executions : d # e => Unmoved(d)
    BY <1>1, <1>4, <2>1, <2>2 DEF OneEntry, Unmoved
  <2>5. at[e] \in Nat /\ \A i \in StepsOf(e) : i > at[e] \/ i < at[e] => i # at[e]
    BY <1>1, PlanAssumption DEF Tables, StepsOf
  <2>6. \A i \in StepsOf(e) : i > at[e] => steps'[e][i] = "not_reached"
    BY <1>1, <2>1, <2>5 DEF WalkOf, UnderWay
  <2>7. \A i \in StepsOf(e) : i < at[e] => Accounted(e, i)'
    BY <1>1, <2>1, <2>5 DEF WalkOf, UnderWay, Accounted
  <2>8. WalkOf(e)'
    BY <1>1, <1>4, <2>1, <2>2, <2>6, <2>7 DEF WalkOf, UnderWay
  <2>9. at'[e] >= at[e] /\ pc'[e] # "new" BY <1>4, <2>2, <2>5
  <2>10. QED BY <2>3, <2>4, <2>8, <2>9, Frame
<1>5. Kept BY <1>2, <1>3, <1>4 DEF Send
<1>6. ASSUME NEW t, t = [by |-> e, step |-> at[e], fallback |-> FALSE] PROVE SentOf(t)'
  <2>1. at[e] \in StepsOf(e) /\ (Request(e).pinAbsent => Cleared(e, at[e]))
    BY <1>1 DEF WalkOf
  <2>2. /\ t.by = e /\ t.step = at[e]
        /\ \A i \in 1..(t.step - 1) : i \in StepsOf(e) /\ i # at[e]
    BY <1>6, <2>1, PlanAssumption DEF StepsOf
  <2>3. Cleared(e, t.step) => Cleared(e, t.step)' BY <1>5, <2>2 DEF Cleared, OneEntry
  <2>4. QED BY <1>5, <2>1, <2>2, <2>3 DEF SentOf, Request
<1>7. QED BY <1>1, <1>5, <1>6 DEF WalkInv

LEMMA FallbackWalk == ASSUME WalkInv, NEW e \in Executions, Fallback(e) PROVE WalkInv'
<1>1. /\ pc[e] = "fallback" /\ UNCHANGED <<steps, claims>> /\ WalkOf(e) /\ Tables
      /\ sent' = sent \cup {[by |-> e, step |-> at[e], fallback |-> TRUE]}
  BY DEF Fallback, HandOver, WalkInv
<1>2. UnderWay(e) BY <1>1 DEF UnderWay
<1>3. ASSUME Advance(e) \/ Halt(e),
             NEW status, fallback' = [fallback EXCEPT ![e] = status] \/ UNCHANGED fallback,
             responses' = [d \in Executions |-> [i \in StepsOf(d) |-> responses'[d][i]]],
             \A d \in Executions : d # e => responses'[d] = responses[d],
             \A i \in StepsOf(e) : i # at[e] => responses'[e][i] = responses[e][i]
      PROVE  Tables' /\ OneEntry(e) /\ \A d \in Executions : d # e => Unmoved(d)
  <2>1. /\ fallback' = [d \in Executions |-> fallback'[d]]
        /\ \A d \in Executions : d # e => fallback'[d] = fallback[d]
    BY <1>1, <1>3 DEF Tables
  <2>2. Tables' BY <1>1, <1>3, <2>1, LoopTables DEF Tables
  <2>3. QED BY <1>1, <1>3, <2>1, <2>2, LoopTables DEF OneEntry, Unmoved
<1>4. ASSUME pc'[e] # "new", at'[e] >= at[e] PROVE \A s \in sent' : s \in sent \/ SentOf(s)'
  BY <1>1, <1>4 DEF SentOf, WalkOf
<1>5. CASE /\ fallback' = [fallback EXCEPT ![e] = "executed"]
           /\ responses' = [responses EXCEPT ![e][at[e]].space = TRUE]
           /\ Advance(e)
  <2> DEFINE named == [responses[e][at[e]] EXCEPT !.space = TRUE]
             answered == [responses[e] EXCEPT ![at[e]] = named]
  <2>1. /\ \A d \in Executions : responses[d] = [i \in StepsOf(d) |-> responses[d][i]]
        /\ DOMAIN responses = Executions
    BY <1>1 DEF Tables
  <2>2. responses' = [d \in Executions |-> IF d = e THEN answered ELSE responses[d]]
    BY <1>5, <2>1
  <2>3. /\ responses'[e] = answered
        /\ \A d \in Executions : d # e => responses'[d] = responses[d]
    BY <2>2
  <2> HIDE DEF named
  <2>4. answered = [i \in StepsOf(e) |-> IF i = at[e] THEN named ELSE responses[e][i]]
    BY <2>1
  <2>5. \A i \in StepsOf(e) : i # at[e] => responses'[e][i] = responses[e][i]
    BY <2>3, <2>4
  <2>6. \A d \in Executions : responses'[d] = [i \in StepsOf(d) |-> responses'[d][i]]
    BY <2>1, <2>3, <2>4
  <2>7. responses' = [d \in Executions |-> [i \in StepsOf(d) |-> responses'[d][i]]]
    BY <2>2, <2>6
  <2>8. Tables' /\ OneEntry(e) /\ \A d \in Executions : d # e => Unmoved(d)
    BY <1>3, <1>5, <2>3, <2>5, <2>7
  <2>9. fallback'[e] = "executed" /\ steps[e][at[e]] = "failed"
    BY <1>1, <1>5 DEF Tables, WalkOf, UnderWay
  <2>10. ASSUME NEW a, a = at[e] PROVE Accounted(e, a)' BY <1>1, <2>9, <2>10 DEF Accounted
  <2>11. \A i \in StepsOf(e) : Accounted(e, i) /\ i # at[e] => Accounted(e, i)'
    BY <1>1, <2>9 DEF Accounted
  <2>12. WalkOf(e)' /\ at'[e] >= at[e] /\ pc'[e] \in {"request", "done"}
    BY <1>2, <1>5, <2>8, <2>10, <2>11, AdvanceWalk
  <2>13. QED BY <1>1, <1>4, <2>8, <2>12, WalkFrame
<1>6. ASSUME NEW status, fallback' = [fallback EXCEPT ![e] = status] \/ UNCHANGED fallback,
             Halt(e), UNCHANGED responses
      PROVE  WalkInv'
  <2>1. responses = [d \in Executions |-> [i \in StepsOf(d) |-> responses[d][i]]]
    BY <1>1 DEF Tables
  <2>2. Tables' /\ OneEntry(e) /\ \A d \in Executions : d # e => Unmoved(d)
    BY <1>3, <1>6, <2>1
  <2>3. WalkOf(e)' /\ at'[e] = at[e] /\ pc'[e] = "done" BY <1>2, <1>6, HaltWalk
  <2>4. at[e] \in Nat BY <1>1 DEF Tables
  <2>5. QED BY <1>1, <1>4, <2>2, <2>3, <2>4, WalkFrame
<1>7. QED BY <1>5, <1>6 DEF Fallback

LEMMA NextWalk == WalkInv /\ [Next]_vars => WalkInv'
<1> SUFFICES ASSUME WalkInv, [Next]_vars PROVE WalkInv' OBVIOUS
<1>1. ASSUME NEW e \in Executions, Crash(e) PROVE WalkInv'
  BY <1>1, GotoWalk DEF Crash, Labels
<1>2. CASE UNCHANGED vars
  <2>1. Tables' BY <1>2 DEF vars, WalkInv, Tables
  <2>2. \A e \in Executions : WalkOf(e)'
    BY <1>2 DEF vars, WalkInv, WalkOf, UnderWay, Accounted, Cleared, Request
  <2>3. \A s \in sent' : SentOf(s)' BY <1>2 DEF vars, WalkInv, SentOf, Cleared
  <2>4. QED BY <2>1, <2>2, <2>3 DEF WalkInv
<1>3. QED BY <1>1, <1>2, StartWalk, PrepareWalk, ClaimWalk, SendWalk, FallbackWalk
         DEF Next, Step

LEMMA WalkInvariant == Spec => []WalkInv
BY InitWalk, NextWalk, PTL DEF Spec

(* A message is pinned only on the word of a complete list without it that *)
(* the same execution has read before.                                     *)
THEOREM PinsAreAbsent == Spec => []PinsOnlyWhatIsAbsent
<1>1. WalkInv => PinsOnlyWhatIsAbsent
  BY DEF WalkInv, SentOf, Cleared, PinsOnlyWhatIsAbsent
<1>2. QED BY <1>1, WalkInvariant, PTL

(* A report that says ok accounts for every step of the plan.              *)
THEOREM OkIsComplete == Spec => []OkAccountsForAll
<1>1. WalkInv => OkAccountsForAll
  BY DEF WalkInv, WalkOf, Accounted, OkAccountsForAll
<1>2. QED BY <1>1, WalkInvariant, PTL

---------------------------------------------------------------------------
(* What a link points at.                                                  *)

(* The first two parts of a name are a name whose first two parts they are.*)
LEMMA NameStart ==
  ASSUME NEW S, NEW name \in Seq(S), Len(name) >= 2
  PROVE  SubSeq(name, 1, 2) = <<name[1], name[2]>> /\ name[1] \in S /\ name[2] \in S
<1> DEFINE s == SubSeq(name, 1, 2)
<1>1. \A i \in 1..2 : name[i] \in S BY ElementOfSeq, LenProperties
<1>2. s \in Seq(S) /\ Len(s) = 2 /\ \A i \in 1..2 : s[i] = name[i]
  BY <1>1, SubSeqProperties
<1> DEFINE t == <<name[1], name[2]>>
<1>3. t \in Seq(S) /\ Len(t) = 2 /\ t[1] = name[1] /\ t[2] = name[2] BY <1>1
<1> HIDE DEF s, t
<1>4. \A i \in 1..Len(s) : s[i] = t[i] BY <1>2, <1>3
<1>5. s = t BY <1>2, <1>3, <1>4, SeqEqual
<1>6. QED BY <1>1, <1>5 DEF s, t

(* The start of a name is its own start.                                   *)
LEMMA SpaceOfName ==
  ASSUME NEW S, NEW name \in Seq(S), Len(name) >= 2
  PROVE  SubSeq(SubSeq(name, 1, 2), 1, 2) = SubSeq(name, 1, 2)
<1> DEFINE s == <<name[1], name[2]>>
<1>1. SubSeq(name, 1, 2) = s /\ name[1] \in S /\ name[2] \in S BY NameStart
<1>2. s \in Seq(S) /\ Len(s) = 2 /\ s[1] = name[1] /\ s[2] = name[2] BY <1>1
<1> HIDE DEF s
<1>3. Len(s) >= 2 BY <1>2
<1>4. SubSeq(s, 1, 2) = <<s[1], s[2]>> BY <1>2, <1>3, NameStart
<1>5. QED BY <1>1, <1>2, <1>4 DEF s

(* The start of a name of two parts, and of one of four.                   *)
LEMMA PartsStart ==
  ASSUME NEW a, NEW b, NEW c, NEW d
  PROVE  SubSeq(<<a, b>>, 1, 2) = <<a, b>> /\ SubSeq(<<a, b, c, d>>, 1, 2) = <<a, b>>
<1> DEFINE S    == {a, b, c, d}
           two  == <<a, b>>
           four == <<a, b, c, d>>
<1>1. two \in Seq(S) /\ Len(two) >= 2 /\ two[1] = a /\ two[2] = b OBVIOUS
<1>2. four \in Seq(S) /\ Len(four) >= 2 /\ four[1] = a /\ four[2] = b OBVIOUS
<1> HIDE DEF S, two, four
<1>3. SubSeq(two, 1, 2) = <<two[1], two[2]>> BY <1>1, NameStart
<1>4. SubSeq(four, 1, 2) = <<four[1], four[2]>> BY <1>2, NameStart
<1>5. SubSeq(two, 1, 2) = two /\ SubSeq(four, 1, 2) = two
  BY <1>1, <1>2, <1>3, <1>4 DEF two
<1>6. QED BY <1>5 DEF two, four

ScopesKnown == {"space", "thread", "message"}

(* Structured data that is understood names one space, and what is planned *)
(* to be read for it is in that space.                                     *)
LEMMA DataTarget ==
  ASSUME NEW data \in [message : Segments, thread : Segments, space : Segments],
         NEW target, target = ParseChatSpaceLinkData(data), target # ParsedUnknown
  PROVE  LET named == {SubSeq(data[kind], 1, 2) :
                         kind \in {k \in DOMAIN NoData : data[k] # <<>>}} IN
         /\ target.scope \in ScopesKnown
         /\ named = {SubSeq(target.space, 1, 2)}
         /\ named = {SubSeq(ResourceFor(target), 1, 2)}
<1> DEFINE kinds  == {"message", "thread", "space"}
           given  == {kind \in DOMAIN data : data[kind] # <<>>}
           spaces == {SubSeq(data[kind], 1, 2) : kind \in given}
           finest == CHOOSE kind \in given :
             (kind = "message") \/ ("message" \notin given /\ kind = "thread") \/ given = {"space"}
           space == CHOOSE s \in spaces : TRUE
<1>1. DOMAIN data = kinds /\ DOMAIN NoData = kinds BY DEF NoData
<1>2. \A kind \in kinds : data[kind] \in Segments OBVIOUS
<1>3. /\ Cardinality(spaces) = 1
      /\ \A kind \in given : Canonical(kind, data[kind])
      /\ target = ChatTarget(finest, space, data.thread, data.message)
  BY DEF ParseChatSpaceLinkData
<1>4. PICK s : spaces = {s}
  <2> DEFINE start(kind) == {SubSeq(data[kind], 1, 2)}
             most == (start("message") \cup start("thread")) \cup start("space")
  <2>1. spaces \subseteq most BY <1>1
  <2>2. \A x : IsFiniteSet({x}) BY FS_Singleton
  <2>3. IsFiniteSet(most)
    <3>1. IsFiniteSet(start("message") \cup start("thread")) BY <2>2, FS_Union
    <3>2. IsFiniteSet(start("space")) BY <2>2
    <3> HIDE DEF start
    <3>3. QED BY <3>1, <3>2, FS_Union
  <2>4. IsFiniteSet(spaces) BY <2>1, <2>3, FS_Subset
  <2>5. QED BY <1>3, <2>4, FS_Singleton
<1>5. finest \in given
  <2>1. given # {} /\ given \subseteq kinds BY <1>1, <1>4
  <2>2. \E kind \in given :
          (kind = "message") \/ ("message" \notin given /\ kind = "thread") \/ given = {"space"}
    <3>1. CASE "message" \in given BY <3>1
    <3>2. CASE "message" \notin given /\ "thread" \in given BY <3>2
    <3>3. CASE "message" \notin given /\ "thread" \notin given
      <4>1. given = {"space"} BY <2>1, <3>3
      <4>2. QED BY <4>1
    <3>4. QED BY <3>1, <3>2, <3>3
  <2>3. QED BY <2>2
<1>6. space = s BY <1>4
<1>7. /\ Len(data[finest]) >= 2 /\ data[finest] \in Segments /\ SubSeq(data[finest], 1, 2) = s
  <2>1. \A kind \in given : SubSeq(data[kind], 1, 2) = s BY <1>4
  <2>2. finest \in kinds BY <1>1, <1>5
  <2>3. Len(data[finest]) = (IF finest = "space" THEN 2 ELSE 4) BY <1>3, <1>5 DEF Canonical
  <2> HIDE DEF finest, given, spaces
  <2>4. QED BY <1>2, <1>5, <2>1, <2>2, <2>3
<1>8. SubSeq(s, 1, 2) = s BY <1>7, SpaceOfName DEF Segments
<1>9. finest \in kinds BY <1>1, <1>5
<1> HIDE DEF finest, space, given
<1>10. target.scope = finest /\ target.space = s BY <1>3, <1>6 DEF ChatTarget
<1>11. ResourceFor(target) = IF finest = "space" THEN s ELSE data[finest]
  BY <1>3, <1>6, <1>9 DEF ResourceFor, ChatTarget
<1>12. SubSeq(ResourceFor(target), 1, 2) = s BY <1>7, <1>8, <1>11
<1>13. spaces = {SubSeq(data[kind], 1, 2) : kind \in {k \in DOMAIN NoData : data[k] # <<>>}}
  BY <1>1 DEF given
<1> HIDE DEF spaces
<1>14. QED BY <1>4, <1>8, <1>9, <1>10, <1>12, <1>13 DEF ScopesKnown

(* So does a URL that is understood.                                       *)
LEMMA UrlTarget ==
  ASSUME NEW link \in ChatLink, NEW target, target = ParseChatUrl(link.url),
         target.scope \notin {"none", "unknown"}
  PROVE  /\ target.scope \in ScopesKnown
         /\ SubSeq(target.space, 1, 2) = target.space
         /\ SubSeq(ResourceFor(target), 1, 2) = target.space
<1> DEFINE path == link.url.path
           hash == link.url.hash
<1>1. /\ path \in Segments /\ hash \in Segments BY DEF ChatLink
<1>2. \A id \in STRING : /\ NormalizedSpace(id).scope = "space"
                         /\ ResourceFor(NormalizedSpace(id)) = NormalizedSpace(id).space
                         /\ SubSeq(NormalizedSpace(id).space, 1, 2) = NormalizedSpace(id).space
  <2>1. ASSUME NEW id \in STRING
        PROVE  SubSeq(<<"spaces", id>>, 1, 2) = <<"spaces", id>> BY PartsStart
  <2>2. QED BY <2>1 DEF NormalizedSpace, ChatTarget, ResourceFor
<1>3. (\E id \in STRING : target = NormalizedSpace(id))
        \/ (\E id \in STRING, thread \in STRING :
              target = ChatTarget("thread", <<"spaces", id>>,
                                  <<"spaces", id, "threads", thread>>, <<>>))
  <2>1. NotChat.scope = "none" /\ ParsedUnknown.scope = "unknown"
    BY DEF NotChat, ParsedUnknown, ChatTarget
  <2>2. target # NotChat /\ target # ParsedUnknown BY <2>1
  <2>3. CASE link.url.host = "mail.google.com"
    <3>1. target = ParseMailHashSpace(link.url) BY <2>2, <2>3 DEF ParseChatUrl
    <3>2. target = NormalizedSpace(hash[3]) /\ Len(hash) = 3
      BY <2>2, <3>1 DEF ParseMailHashSpace
    <3>3. hash[3] \in STRING
      <4>1. 3 \in 1..Len(hash) BY <3>2
      <4>2. QED BY <1>1, <4>1, ElementOfSeq DEF Segments
    <3>4. QED BY <3>2, <3>3
  <2>4. CASE link.url.host # "mail.google.com"
    <3>1. target = ParseChatHostUrl(link.url) BY <2>2, <2>4 DEF ParseChatUrl
    <3> DEFINE is(length, parts) == Len(path) = length /\ \A i \in DOMAIN parts : path[i] = parts[i]
    <3>2. \/ is(2, <<"room">>) /\ target = NormalizedSpace(path[2])
          \/ is(3, <<"room">>) /\ target = ChatTarget("thread", <<"spaces", path[2]>>,
                                           <<"spaces", path[2], "threads", path[3]>>, <<>>)
          \/ is(5, <<"u">>) /\ target = NormalizedSpace(path[5])
      BY <2>2, <3>1 DEF ParseChatHostUrl
    <3>3. \A i \in 1..Len(path) : path[i] \in STRING BY <1>1, ElementOfSeq DEF Segments
    <3>4. CASE is(2, <<"room">>) /\ target = NormalizedSpace(path[2])
      <4>1. 2 \in 1..Len(path) BY <3>4
      <4>2. QED BY <3>3, <3>4, <4>1
    <3>5. CASE is(3, <<"room">>) /\ target = ChatTarget("thread", <<"spaces", path[2]>>,
                                           <<"spaces", path[2], "threads", path[3]>>, <<>>)
      <4>1. 2 \in 1..Len(path) /\ 3 \in 1..Len(path) BY <3>5
      <4>2. QED BY <3>3, <3>5, <4>1
    <3>6. CASE is(5, <<"u">>) /\ target = NormalizedSpace(path[5])
      <4>1. 5 \in 1..Len(path) BY <3>6
      <4>2. QED BY <3>3, <3>6, <4>1
    <3>7. QED BY <3>2, <3>4, <3>5, <3>6
  <2>5. QED BY <2>3, <2>4
<1>4. CASE \E id \in STRING : target = NormalizedSpace(id)
  BY <1>2, <1>4 DEF ScopesKnown
<1>5. CASE \E id \in STRING, thread \in STRING :
             target = ChatTarget("thread", <<"spaces", id>>, <<"spaces", id, "threads", thread>>, <<>>)
  <2>1. PICK id \in STRING, thread \in STRING :
               target = ChatTarget("thread", <<"spaces", id>>, <<"spaces", id, "threads", thread>>, <<>>)
    BY <1>5
  <2>2. /\ SubSeq(<<"spaces", id>>, 1, 2) = <<"spaces", id>>
        /\ SubSeq(<<"spaces", id, "threads", thread>>, 1, 2) = <<"spaces", id>> BY PartsStart
  <2>3. QED BY <2>1, <2>2 DEF ScopesKnown, ChatTarget, ResourceFor
<1>6. QED BY <1>3, <1>4, <1>5

(* Whatever a link points at is in the one space it names.                 *)
LEMMA TargetInSpace ==
  ASSUME NEW link \in ChatLink, ChatTargetOf(link).scope \notin {"none", "unknown"}
  PROVE  LET target == ChatTargetOf(link) IN
         /\ target.scope \in ScopesKnown
         /\ SpacesNamed(link) = {SubSeq(target.space, 1, 2)}
         /\ SpacesNamed(link) = {SubSeq(ResourceFor(target), 1, 2)}
<1> DEFINE target == ChatTargetOf(link)
<1>1. CASE link.data = NoData
  <2>1. target = ParseChatUrl(link.url) BY <1>1 DEF ChatTargetOf
  <2>2. SpacesNamed(link) = {target.space} BY <1>1 DEF SpacesNamed
  <2> HIDE DEF target
  <2>3. /\ target.scope \in ScopesKnown
        /\ SubSeq(target.space, 1, 2) = target.space
        /\ SubSeq(ResourceFor(target), 1, 2) = target.space
    <3>1. target.scope \notin {"none", "unknown"} BY DEF target
    <3>2. QED BY <2>1, <3>1, UrlTarget
  <2>4. QED BY <2>2, <2>3 DEF target
<1>2. CASE link.data # NoData
  <2>1. target = ParseChatSpaceLinkData(link.data) BY <1>2 DEF ChatTargetOf
  <2>2. SpacesNamed(link) = {SubSeq(link.data[kind], 1, 2) :
                               kind \in {k \in DOMAIN NoData : link.data[k] # <<>>}}
    BY <1>2 DEF SpacesNamed
  <2>3. target # ParsedUnknown BY DEF ParsedUnknown, ChatTarget
  <2>4. link.data \in [message : Segments, thread : Segments, space : Segments] BY DEF ChatLink
  <2> HIDE DEF target
  <2>5. QED BY <2>1, <2>2, <2>3, <2>4, DataTarget DEF target
<1>3. QED BY <1>1, <1>2

---------------------------------------------------------------------------
(* The walk, as a set its steps stay in.  What it has found are candidates *)
(* made of links in reach, and each item of its stack is a node in reach,  *)
(* by a path that ends in the name of the node.                            *)
Relationships == STRING \cup {"input", "self", "message", "context"}

ChatLabels == [relationship : Relationships, index : Nat, name : STRING, number : Nat]

ChatPaths == Seq(ChatLabels)

KeyOf(link) == DedupeKeyForCandidate(link, ChatTargetOf(link))

LinksInReach == UNION {ChatLinksIn(node) : node \in ReachableMessages}

CandidatesFor(link) ==
  [key : {KeyOf(link)}, target : {ChatTargetOf(link)}, paths : Seq(ChatPaths)]

ChatCandidates == UNION {CandidatesFor(link) : link \in LinksInReach}

ChatItems ==
  {item \in [node : ReachableMessages, depth : Nat, path : ChatPaths] :
     Last(item.path).name = chatInput.tree[item.node].name}

WasCapped(w) == \E budget \in Budgets : w.capped[budget] > 0

ChatWalks ==
  {w \in [stack : Seq(ChatItems), visited : SUBSET ReachableMessages,
           found : Seq(ChatCandidates), nodes : Nat, scanned : 0..ChatLimits.scans,
           urls : Nat, anonymous : Nat, capped : [Budgets -> Nat], ended : BOOLEAN] :
     w.ended => WasCapped(w)}

(* What the collection of links leaves alone, and what it never takes away.*)
StaysPut(w, x) ==
  x.stack = w.stack /\ x.visited = w.visited /\ x.nodes = w.nodes /\ x.anonymous = w.anonymous

Keeps(w, x) ==
  /\ WasCapped(w) => WasCapped(x)
  /\ \A i \in DOMAIN w.found :
       /\ i \in DOMAIN x.found /\ x.found[i].key = w.found[i].key
       /\ \A path \in Range(w.found[i].paths) : path \in Range(x.found[i].paths)

Grew(w, x) == StaysPut(w, x) /\ Keeps(w, x)

(* A link is told of: it is listed with the path, or it is no Chat link, or*)
(* a budget ran out.                                                       *)
Listed(w, link, path) ==
  \E i \in DOMAIN w.found : w.found[i].key = KeyOf(link) /\ path \in Range(w.found[i].paths)

Told(w, link, path) ==
  WasCapped(w) \/ ChatTargetOf(link).scope = "none" \/ Listed(w, link, path)

(* Growth goes on from step to step, and what was told stays told.         *)
LEMMA GrewSelf ==
  ASSUME NEW w
  PROVE  Grew(w, w)
BY DEF Grew, StaysPut, Keeps

LEMMA GrewTwice ==
  ASSUME NEW w, NEW x, NEW y, Grew(w, x), Grew(x, y)
  PROVE  Grew(w, y)
<1>1. StaysPut(w, y) BY DEF Grew, StaysPut
<1>2. WasCapped(w) => WasCapped(y) BY DEF Grew, Keeps
<1>3. ASSUME NEW i \in DOMAIN w.found
      PROVE  /\ i \in DOMAIN y.found /\ y.found[i].key = w.found[i].key
             /\ \A path \in Range(w.found[i].paths) : path \in Range(y.found[i].paths)
  <2>1. /\ i \in DOMAIN x.found /\ x.found[i].key = w.found[i].key
        /\ \A path \in Range(w.found[i].paths) : path \in Range(x.found[i].paths)
    BY DEF Grew, Keeps
  <2>2. /\ i \in DOMAIN y.found /\ y.found[i].key = x.found[i].key
        /\ \A path \in Range(x.found[i].paths) : path \in Range(y.found[i].paths)
    BY <2>1 DEF Grew, Keeps
  <2>3. QED BY <2>1, <2>2
<1>4. Keeps(w, y) BY <1>2, <1>3 DEF Keeps
<1>5. QED BY <1>1, <1>4 DEF Grew

LEMMA ToldStays ==
  ASSUME NEW w, NEW x, Keeps(w, x), NEW link, NEW path, Told(w, link, path)
  PROVE  Told(x, link, path)
BY DEF Keeps, Told, Listed

(* A count of what a budget left out.                                      *)
LEMMA CapEffect ==
  ASSUME NEW w \in ChatWalks, NEW budget \in Budgets, NEW count \in Nat
  PROVE  LET x == ChatCap(w, budget, count) IN
         /\ x \in ChatWalks /\ Grew(w, x)
         /\ x.ended = w.ended /\ x.urls = w.urls /\ x.scanned = w.scanned
         /\ x.found = w.found
         /\ count > 0 => WasCapped(x)
<1> DEFINE x == ChatCap(w, budget, count)
<1>1. /\ w.capped \in [Budgets -> Nat]
      /\ x = [w EXCEPT !.capped = [w.capped EXCEPT ![budget] = @ + count]]
  BY DEF ChatCap, ChatWalks
<1>2. /\ x.capped \in [Budgets -> Nat]
      /\ x.capped[budget] = w.capped[budget] + count
      /\ \A b \in Budgets : x.capped[b] >= w.capped[b]
      /\ x.stack = w.stack /\ x.visited = w.visited /\ x.found = w.found
      /\ x.nodes = w.nodes /\ x.scanned = w.scanned /\ x.urls = w.urls
      /\ x.anonymous = w.anonymous /\ x.ended = w.ended
  BY <1>1 DEF ChatWalks
<1>3. WasCapped(w) => WasCapped(x) BY <1>1, <1>2 DEF WasCapped
<1>4. count > 0 => WasCapped(x) BY <1>1, <1>2 DEF WasCapped
<1>5. x \in ChatWalks BY <1>1, <1>2, <1>3 DEF ChatWalks
<1>6. Grew(w, x) BY <1>2, <1>3 DEF Grew, StaysPut, Keeps
<1>7. QED BY <1>2, <1>4, <1>5, <1>6

(* A candidate is listed anew, or with one more path.                      *)
LEMMA AddEffect ==
  ASSUME NEW w \in ChatWalks, NEW link, NEW path \in ChatPaths,
         ChatTargetOf(link).scope # "none" => link \in LinksInReach
  PROVE  LET x == AddChatEntry(w, link, path) IN
         x \in ChatWalks /\ Grew(w, x) /\ Told(x, link, path)
<1> DEFINE x      == AddChatEntry(w, link, path)
           target == ChatTargetOf(link)
           key    == KeyOf(link)
           same   == {i \in DOMAIN w.found : w.found[i].key = key}
           n      == Len(w.found)
           C      == ChatCandidates
<1>1. w.found \in Seq(C) /\ n \in Nat /\ DOMAIN w.found = 1..n
  BY LenProperties DEF ChatWalks
<1>2. CASE target.scope = "none"
  <2>1. x = w BY <1>2 DEF AddChatEntry
  <2>2. QED BY <1>2, <2>1, GrewSelf DEF Told
<1>3. CASE target.scope # "none" /\ same # {}
  <2> DEFINE i == CHOOSE j \in same : TRUE
             c == w.found[i]
             more == [c EXCEPT !.paths = Append(@, path)]
  <2>1. i \in same BY <1>3
  <2>2. i \in 1..n /\ c.key = key BY <1>1, <2>1
  <2>3. x = AddOccurrence(w, i, path) BY <1>3 DEF AddChatEntry, KeyOf
  <2> HIDE DEF i
  <2>4. c \in C BY <1>1, <2>2, ElementOfSeq
  <2>5. PICK l \in LinksInReach : c \in CandidatesFor(l) BY <2>4 DEF ChatCandidates
  <2>6. c.paths \in Seq(ChatPaths) BY <2>5 DEF CandidatesFor
  <2>7. CASE path \in Range(c.paths)
    <3>1. x = w BY <2>3, <2>7 DEF AddOccurrence
    <3>2. Listed(w, link, path) BY <1>1, <2>2, <2>7 DEF Listed
    <3>3. QED BY <3>1, <3>2, GrewSelf DEF Told
  <2>8. CASE path \notin Range(c.paths) /\ Len(c.paths) >= ChatLimits.occurrences
    <3>1. x = ChatCap(w, "occurrences", 1) BY <2>3, <2>8 DEF AddOccurrence
    <3>2. "occurrences" \in Budgets /\ 1 \in Nat /\ 1 > 0 BY DEF Budgets
    <3>3. QED BY <3>1, <3>2, CapEffect DEF Told
  <2>9. CASE path \notin Range(c.paths) /\ ~(Len(c.paths) >= ChatLimits.occurrences)
    <3>1. x = [w EXCEPT !.found[i].paths = Append(@, path)] BY <2>3, <2>9 DEF AddOccurrence
    <3>2. more.paths = Append(c.paths, path) /\ more.key = c.key /\ more \in CandidatesFor(l)
      <4>1. Append(c.paths, path) \in Seq(ChatPaths) BY <2>6, AppendProperties
      <4>2. QED BY <2>5, <4>1 DEF CandidatesFor
    <3>3. x = [w EXCEPT !.found = [w.found EXCEPT ![i] = more]] BY <3>1
    <3>4. Range(more.paths) = Range(c.paths) \cup {path} BY <2>6, <3>2, RangeAppended
    <3>5. more \in C BY <3>2 DEF ChatCandidates
    <3> HIDE DEF more
    <3>6. /\ x.found = [w.found EXCEPT ![i] = more]
          /\ x.stack = w.stack /\ x.visited = w.visited /\ x.capped = w.capped
          /\ x.nodes = w.nodes /\ x.scanned = w.scanned /\ x.urls = w.urls
          /\ x.anonymous = w.anonymous /\ x.ended = w.ended
      BY <3>3 DEF ChatWalks
    <3>7. x.found \in Seq(C) /\ DOMAIN x.found = 1..n BY <1>1, <2>2, <3>5, <3>6
    <3>8. x \in ChatWalks BY <3>3, <3>6, <3>7 DEF ChatWalks, WasCapped
    <3>9. Grew(w, x)
      <4>1. StaysPut(w, x) BY <3>6 DEF StaysPut
      <4>2. ASSUME NEW j \in 1..n
            PROVE  /\ x.found[j].key = w.found[j].key
                   /\ \A p \in Range(w.found[j].paths) : p \in Range(x.found[j].paths)
        <5>1. CASE j = i BY <1>1, <2>2, <3>2, <3>4, <3>6, <5>1
        <5>2. CASE j # i BY <1>1, <3>6, <5>2
        <5>3. QED BY <5>1, <5>2
      <4>3. Keeps(w, x) BY <1>1, <3>6, <3>7, <4>2 DEF Keeps, WasCapped
      <4>4. QED BY <4>1, <4>3 DEF Grew
    <3>10. Listed(x, link, path)
      <4>1. x.found[i].key = key /\ path \in Range(x.found[i].paths)
        BY <1>1, <2>2, <3>2, <3>4, <3>6
      <4>2. QED BY <2>2, <3>7, <4>1 DEF Listed
    <3>11. QED BY <3>8, <3>9, <3>10 DEF Told
  <2>10. QED BY <2>7, <2>8, <2>9
<1>4. CASE target.scope # "none" /\ same = {} /\ n >= ChatLimits.candidates
  <2>1. x = ChatCap(w, "candidates", 1) BY <1>4 DEF AddChatEntry, KeyOf
  <2>2. "candidates" \in Budgets /\ 1 \in Nat /\ 1 > 0 BY DEF Budgets
  <2>3. QED BY <2>1, <2>2, CapEffect DEF Told
<1>5. CASE target.scope # "none" /\ same = {} /\ ~(n >= ChatLimits.candidates)
  <2> DEFINE new == [key |-> key, target |-> target, paths |-> <<path>>]
  <2>1. x = [w EXCEPT !.found = Append(@, new)] BY <1>5 DEF AddChatEntry, KeyOf
  <2>2. new \in C
    <3>1. <<path>> \in Seq(ChatPaths) OBVIOUS
    <3>2. new \in CandidatesFor(link) BY <3>1 DEF CandidatesFor
    <3>3. QED BY <1>5, <3>2 DEF ChatCandidates
  <2>3. new.key = key /\ path \in Range(new.paths)
    <3>1. new.paths = <<path>> /\ 1 \in DOMAIN <<path>> /\ <<path>>[1] = path OBVIOUS
    <3>2. QED BY <3>1 DEF Range
  <2> HIDE DEF new, C
  <2>4. /\ Append(w.found, new) \in Seq(C) /\ Len(Append(w.found, new)) = n + 1
        /\ \A i \in 1..n : Append(w.found, new)[i] = w.found[i]
        /\ Append(w.found, new)[n + 1] = new
    BY <1>1, <2>2, AppendProperties
  <2>5. /\ x.found = Append(w.found, new)
        /\ x.stack = w.stack /\ x.visited = w.visited /\ x.capped = w.capped
        /\ x.nodes = w.nodes /\ x.scanned = w.scanned /\ x.urls = w.urls
        /\ x.anonymous = w.anonymous /\ x.ended = w.ended
    BY <2>1 DEF ChatWalks
  <2>6. DOMAIN x.found = 1..(n + 1) BY <2>4, <2>5, LenProperties
  <2>7. x \in ChatWalks BY <2>1, <2>4, <2>5 DEF ChatWalks, WasCapped, C
  <2>8. Grew(w, x)
    <3>1. \A i \in 1..n : i \in 1..(n + 1) /\ x.found[i] = w.found[i] BY <1>1, <2>4, <2>5
    <3>2. Keeps(w, x) BY <1>1, <2>5, <2>6, <3>1 DEF Keeps, WasCapped
    <3>3. QED BY <2>5, <3>2 DEF Grew, StaysPut
  <2>9. Listed(x, link, path)
    <3>1. n + 1 \in 1..(n + 1) BY <1>1
    <3>2. QED BY <2>3, <2>4, <2>5, <2>6, <3>1 DEF Listed
  <2>10. QED BY <2>7, <2>8, <2>9 DEF Told
<1>6. QED BY <1>2, <1>3, <1>4, <1>5

GrewPairs == {p \in ChatWalks \X ChatWalks : Grew(p[1], p[2])}

(* Loops of such steps.                                                    *)
LEMMA GrewAlong ==
  ASSUME NEW base \in ChatWalks, NEW n \in Nat, NEW F \in [1..n -> [ChatWalks -> ChatWalks]],
         \A i \in 1..n, w \in ChatWalks : Grew(w, F[i][w]),
         NEW f, LeadsOn(f, base, n, F)
  PROVE  \A i \in 0..n : f[i] \in ChatWalks /\ Grew(f[i], f[n])
<1> DEFINE X == ChatWalks
           R == GrewPairs
<1>1. \A x \in X : <<x, x>> \in R BY GrewSelf DEF GrewPairs
<1>2. ASSUME NEW x \in X, NEW y \in X, NEW z \in X, <<x, y>> \in R, <<y, z>> \in R
      PROVE  <<x, z>> \in R
  <2>1. Grew(x, y) /\ Grew(y, z) BY <1>2 DEF GrewPairs
  <2>2. Grew(x, z) BY <2>1, GrewTwice
  <2>3. QED BY <2>2 DEF GrewPairs
<1>3. \A i \in 1..n, x \in X : <<x, F[i][x]>> \in R BY DEF GrewPairs
<1>4. \A x \in X, y \in X, z \in X : <<x, y>> \in R /\ <<y, z>> \in R => <<x, z>> \in R
  BY <1>2
<1>5. \A p \in R : Grew(p[1], p[2]) BY DEF GrewPairs
<1> HIDE DEF X, R
<1>6. base \in X /\ F \in [1..n -> [X -> X]] BY DEF X
<1>7. \A i \in 0..n : f[i] \in X /\ <<f[i], f[n]>> \in R
  BY <1>1, <1>3, <1>4, <1>6, Followed
<1>8. QED BY <1>5, <1>7 DEF X

(* The links of one list.                                                  *)
Reached(link) ==
  EntryAllowedByOptions(link) /\ ChatTargetOf(link).scope # "none" => link \in LinksInReach

LEMMA AllowedEffect ==
  ASSUME NEW w \in ChatWalks, NEW link, Reached(link), NEW path \in ChatPaths
  PROVE  LET x == AddAllowedEntry(w, link, path) IN
         x \in ChatWalks /\ Grew(w, x) /\ (EntryAllowedByOptions(link) => Told(x, link, path))
<1>1. CASE EntryAllowedByOptions(link)
  <2>1. AddAllowedEntry(w, link, path) = AddChatEntry(w, link, path)
    BY <1>1 DEF AddAllowedEntry
  <2>2. QED BY <1>1, <2>1, AddEffect DEF Reached
<1>2. CASE ~EntryAllowedByOptions(link)
  <2>1. AddAllowedEntry(w, link, path) = w BY <1>2 DEF AddAllowedEntry
  <2>2. QED BY <1>2, <2>1, GrewSelf
<1>3. QED BY <1>1, <1>2

LEMMA ScannedEffect ==
  ASSUME ChatLimits.scans \in Nat, NEW w \in ChatWalks, NEW S, NEW links \in Seq(S),
         NEW path \in ChatPaths, \A link \in S : Reached(link)
  PROVE  LET x == CollectScanned(w, links, path) IN
         /\ x \in ChatWalks /\ Grew(w, x)
         /\ \A i \in 1..Len(links) :
              EntryAllowedByOptions(links[i]) => Told(x, links[i], path)
<1> DEFINE x == CollectScanned(w, links, path)
           n == Len(links)
<1>1. n \in Nat /\ \A i \in 1..n : links[i] \in S BY LenProperties, ElementOfSeq
<1>2. CASE w.ended
  <2>1. x = w /\ WasCapped(w) BY <1>2 DEF CollectScanned, ChatWalks
  <2>2. QED BY <2>1, GrewSelf DEF Told
<1>3. CASE ~w.ended
  <2> DEFINE room == IF n <= ChatLimits.scans - w.scanned THEN n ELSE ChatLimits.scans - w.scanned
             capped == ChatCap(w, "scans", n - room)
             first == [capped EXCEPT !.scanned = @ + room, !.ended = room < n]
             IsAdded(f) == f = [i \in 0..room |-> IF i = 0 THEN first
                                  ELSE AddAllowedEntry(f[i - 1], links[i], path)]
             added == CHOOSE f : IsAdded(f)
             F == [i \in 1..room |-> [y \in ChatWalks |-> AddAllowedEntry(y, links[i], path)]]
  <2>1. x = added[room] BY <1>3 DEF CollectScanned
  <2>2. /\ room \in 0..n /\ n - room \in Nat /\ w.scanned + room \in 0..ChatLimits.scans
        /\ w.scanned \in 0..ChatLimits.scans
    BY <1>1, SMTT(30) DEF ChatWalks
  <2> HIDE DEF room
  <2>3. /\ capped \in ChatWalks /\ Grew(w, capped) /\ capped.scanned = w.scanned
        /\ n - room > 0 => WasCapped(capped)
    BY <2>2, CapEffect DEF Budgets
  <2> HIDE DEF capped
  <2>4. first \in ChatWalks /\ Grew(w, first) /\ (room < n => WasCapped(first))
    <3>1. /\ first.stack = capped.stack /\ first.visited = capped.visited
          /\ first.found = capped.found /\ first.nodes = capped.nodes
          /\ first.scanned = capped.scanned + room /\ first.urls = capped.urls
          /\ first.anonymous = capped.anonymous /\ first.capped = capped.capped
          /\ first.ended = (room < n)
      BY <2>3 DEF ChatWalks
    <3>2. room < n => n - room > 0 BY <1>1, <2>2
    <3>3. WasCapped(first) = WasCapped(capped) BY <3>1 DEF WasCapped
    <3>4. first \in ChatWalks
      <4>1. first.ended => WasCapped(first) BY <2>3, <3>1, <3>2, <3>3
      <4>2. first.scanned \in 0..ChatLimits.scans BY <2>2, <2>3, <3>1
      <4>3. first = [capped EXCEPT !.scanned = first.scanned, !.ended = first.ended] BY <3>1
      <4>4. first.ended \in BOOLEAN BY <3>1
      <4> HIDE DEF first
      <4>5. QED BY <2>3, <4>1, <4>2, <4>3, <4>4 DEF ChatWalks
    <3>5. Grew(capped, first) BY <3>1, <3>3 DEF Grew, StaysPut, Keeps
    <3>6. QED BY <2>3, <3>2, <3>3, <3>4, <3>5, GrewTwice
  <2> HIDE DEF first
  <2>5. \A i \in 1..room : links[i] \in S BY <1>1, <2>2
  <2>6. \A i \in 1..room, y \in ChatWalks :
          LET z == AddAllowedEntry(y, links[i], path) IN
          z \in ChatWalks /\ Grew(y, z) /\ (EntryAllowedByOptions(links[i]) => Told(z, links[i], path))
    BY <2>5, AllowedEffect
  <2>7. /\ F \in [1..room -> [ChatWalks -> ChatWalks]]
        /\ \A i \in 1..room, y \in ChatWalks : F[i][y] = AddAllowedEntry(y, links[i], path)
    BY <2>6
  <2>8. room \in Nat /\ \A i \in 1..room : i - 1 \in 0..room BY <2>2
  <2> HIDE DEF F
  <2>9. IsAdded(added)
    <3>1. PICK g \in [0..room -> ChatWalks] : LeadsOn(g, first, room, F)
      BY <2>4, <2>7, <2>8, Iterated
    <3>2. \A i \in 1..room : g[i] = AddAllowedEntry(g[i - 1], links[i], path)
      BY <2>7, <2>8, <3>1 DEF LeadsOn
    <3>3. \A i \in 0..room : i # 0 => i \in 1..room BY <2>8
    <3>4. IsAdded(g) BY <3>1, <3>2, <3>3 DEF LeadsOn
    <3>5. QED BY <3>4
  <2> HIDE DEF added
  <2>10. added[0] = first /\ \A i \in 1..room : added[i] = AddAllowedEntry(added[i - 1], links[i], path)
    BY <2>8, <2>9
  <2> DEFINE Sofar == {i \in 0..room : added[i] \in ChatWalks}
  <2>11. \A i \in 0..room : added[i] \in ChatWalks
    <3>1. 0 \in Sofar BY <2>4, <2>8, <2>10
    <3>2. ASSUME NEW i \in 1..room, i - 1 \in Sofar
          PROVE  i \in Sofar
      BY <2>6, <2>8, <2>10, <3>2
    <3> HIDE DEF Sofar
    <3>3. 0..room \subseteq Sofar BY <2>8, <3>1, <3>2, UpTo
    <3>4. QED BY <3>3 DEF Sofar
  <2>12. LeadsOn(added, first, room, F) BY <2>7, <2>8, <2>10, <2>11 DEF LeadsOn
  <2>13. \A i \in 1..room, y \in ChatWalks : Grew(y, F[i][y]) BY <2>6, <2>7
  <2>14. \A i \in 0..room : added[i] \in ChatWalks /\ Grew(added[i], added[room])
    BY <2>4, <2>7, <2>8, <2>12, <2>13, GrewAlong
  <2>15. added[room] \in ChatWalks /\ Grew(first, added[room]) BY <2>8, <2>10, <2>14
  <2>16. ASSUME NEW i \in 1..n, EntryAllowedByOptions(links[i])
         PROVE  Told(added[room], links[i], path)
    <3>1. CASE i \in 1..room
      <4>1. Told(added[i], links[i], path) BY <2>6, <2>8, <2>10, <2>11, <2>16, <3>1
      <4>2. Keeps(added[i], added[room]) BY <2>8, <2>14, <3>1 DEF Grew
      <4>3. QED BY <4>1, <4>2, ToldStays
    <3>2. CASE i \notin 1..room
      <4>1. WasCapped(first) BY <1>1, <2>2, <2>4, <3>2
      <4>2. WasCapped(added[room]) BY <2>15, <4>1 DEF Grew, Keeps
      <4>3. QED BY <4>2 DEF Told
    <3>3. QED BY <3>1, <3>2
  <2>17. Grew(w, added[room]) BY <2>4, <2>15, GrewTwice
  <2>18. QED BY <2>1, <2>15, <2>16, <2>17
<1>4. QED BY <1>2, <1>3

(* Each URL of a text starts before the text ends.                         *)
LEMMA StartsRise ==
  ASSUME NEW S, \A link \in S : link.url.size \in Nat, NEW text \in Seq(S)
  PROVE  LET starts == UrlStarts(text) IN
         /\ \A k \in 0..Len(text) : starts[k] \in Nat
         /\ \A k \in 1..Len(text) : starts[k - 1] + text[k].url.size + 1 <= starts[Len(text)]
<1> DEFINE n == Len(text)
           IsStarts(f) == f = [k \in 0..n |-> IF k = 0 THEN 0 ELSE f[k - 1] + text[k].url.size + 1]
           starts == CHOOSE f : IsStarts(f)
           F == [k \in 1..n |-> [x \in Nat |-> x + text[k].url.size + 1]]
<1>1. n \in Nat /\ (\A k \in 1..n : text[k].url.size \in Nat) /\ \A k \in 1..n : k - 1 \in 0..n
  BY LenProperties, ElementOfSeq
<1>2. /\ F \in [1..n -> [Nat -> Nat]]
      /\ \A k \in 1..n, x \in Nat : F[k][x] = x + text[k].url.size + 1
  BY <1>1
<1>3. UrlStarts(text) = starts BY DEF UrlStarts
<1> HIDE DEF F
<1>4. IsStarts(starts)
  <2>1. PICK g \in [0..n -> Nat] : LeadsOn(g, 0, n, F) BY <1>1, <1>2, Iterated
  <2>2. \A k \in 1..n : g[k] = g[k - 1] + text[k].url.size + 1 BY <1>1, <1>2, <2>1 DEF LeadsOn
  <2>3. \A k \in 0..n : k # 0 => k \in 1..n BY <1>1
  <2>4. IsStarts(g) BY <2>1, <2>2, <2>3 DEF LeadsOn
  <2>5. QED BY <2>4
<1> HIDE DEF starts
<1>5. starts[0] = 0 /\ \A k \in 1..n : starts[k] = starts[k - 1] + text[k].url.size + 1
  <2>1. \A k \in 0..n : starts[k] = IF k = 0 THEN 0 ELSE starts[k - 1] + text[k].url.size + 1
    BY <1>4, Zenon
  <2>2. 0 \in 0..n /\ \A k \in 1..n : k \in 0..n /\ k # 0 BY <1>1
  <2>3. QED BY <2>1, <2>2, Zenon
<1> DEFINE Sofar == {k \in 0..n : starts[k] \in Nat}
<1>6. \A k \in 0..n : starts[k] \in Nat
  <2>1. 0 \in Sofar BY <1>1, <1>5
  <2>2. ASSUME NEW k \in 1..n, k - 1 \in Sofar
        PROVE  k \in Sofar
    BY <1>1, <1>5, <2>2, SMTT(30)
  <2> HIDE DEF Sofar
  <2>3. 0..n \subseteq Sofar BY <1>1, <2>1, <2>2, UpTo
  <2>4. QED BY <2>3 DEF Sofar
<1>7. LeadsOn(starts, 0, n, F) BY <1>1, <1>2, <1>5, <1>6 DEF LeadsOn
<1> DEFINE R == {p \in Nat \X Nat : p[1] <= p[2]}
<1>8. /\ \A x \in Nat : <<x, x>> \in R
      /\ \A x \in Nat, y \in Nat, z \in Nat : <<x, y>> \in R /\ <<y, z>> \in R => <<x, z>> \in R
  OBVIOUS
<1>9. ASSUME NEW k \in 1..n, NEW x \in Nat
      PROVE  <<x, F[k][x]>> \in R
  <2>1. text[k].url.size \in Nat /\ F[k][x] = x + text[k].url.size + 1 BY <1>1, <1>2
  <2>2. F[k][x] \in Nat /\ x <= F[k][x] BY <2>1
  <2>3. QED BY <2>2
<1>10. \A p \in R : p[1] <= p[2] OBVIOUS
<1> DEFINE X    == Nat
           base == 0
<1>11. \A k \in 0..n : starts[k] \in X /\ <<starts[k], starts[n]>> \in R
  <2>1. /\ base \in X /\ n \in Nat /\ F \in [1..n -> [X -> X]]
        /\ LeadsOn(starts, base, n, F)
    BY <1>1, <1>2, <1>7
  <2>2. \A x \in X : <<x, x>> \in R BY <1>8
  <2>3. \A x \in X, y \in X, z \in X : <<x, y>> \in R /\ <<y, z>> \in R => <<x, z>> \in R
    BY <1>8
  <2>4. \A k \in 1..n, x \in X : <<x, F[k][x]>> \in R BY <1>9
  <2> HIDE DEF R, X, base, n
  <2>5. QED BY <2>1, <2>2, <2>3, <2>4, Followed
<1> HIDE DEF R
<1>12. \A k \in 0..n : starts[k] <= starts[n] BY <1>10, <1>11
<1>13. \A k \in 1..n : k \in 0..n BY <1>1
<1>14. QED BY <1>3, <1>5, <1>6, <1>12, <1>13

(* A URL of a text that starts within the characters read is told of.      *)
LEMMA ReadEffect ==
  ASSUME NEW w \in ChatWalks, NEW link, Reached(link), EntryAllowedByOptions(link),
         NEW start, NEW path \in ChatPaths
  PROVE  LET x == ReadUrl(w, link, start, path) IN
         x \in ChatWalks /\ Grew(w, x) /\ (~(start >= ChatLimits.chars) => Told(x, link, path))
<1> DEFINE x == ReadUrl(w, link, start, path)
           long == start + link.url.size > ChatLimits.chars \/ link.url.size > ChatLimits.urlLength
           counted == [w EXCEPT !.urls = @ + 1]
<1>1. CASE w.ended \/ start >= ChatLimits.chars
  <2>1. x = w BY <1>1 DEF ReadUrl
  <2>2. w.ended => WasCapped(w) BY DEF ChatWalks
  <2>3. QED BY <1>1, <2>1, <2>2, GrewSelf DEF Told
<1>2. CASE ~(w.ended \/ start >= ChatLimits.chars) /\ w.urls >= ChatLimits.urls
  <2> DEFINE c == ChatCap(w, "urls", 1)
  <2>1. x = [c EXCEPT !.ended = TRUE] BY <1>2 DEF ReadUrl
  <2>2. c \in ChatWalks /\ Grew(w, c) /\ WasCapped(c) BY CapEffect DEF Budgets
  <2> HIDE DEF c
  <2>3. x \in ChatWalks /\ Grew(c, x) /\ WasCapped(x)
    BY <2>1, <2>2 DEF ChatWalks, WasCapped, Grew, StaysPut, Keeps
  <2>4. QED BY <2>2, <2>3, GrewTwice DEF Told
<1>3. CASE ~(w.ended \/ start >= ChatLimits.chars) /\ ~(w.urls >= ChatLimits.urls) /\ long
  <2>1. x = ChatCap(w, "oversized", 1) BY <1>3 DEF ReadUrl
  <2>2. x \in ChatWalks /\ Grew(w, x) /\ WasCapped(x) BY <2>1, CapEffect DEF Budgets
  <2>3. QED BY <2>2 DEF Told
<1>4. CASE ~(w.ended \/ start >= ChatLimits.chars) /\ ~(w.urls >= ChatLimits.urls) /\ ~long
  <2>1. x = AddChatEntry(counted, link, path) BY <1>4 DEF ReadUrl
  <2>2. counted \in ChatWalks /\ Grew(w, counted)
    <3>1. /\ counted.stack = w.stack /\ counted.visited = w.visited
          /\ counted.found = w.found /\ counted.nodes = w.nodes
          /\ counted.scanned = w.scanned /\ counted.urls = w.urls + 1 /\ w.urls + 1 \in Nat
          /\ counted.anonymous = w.anonymous /\ counted.capped = w.capped
          /\ counted.ended = w.ended
      BY DEF ChatWalks
    <3>2. WasCapped(counted) = WasCapped(w) BY <3>1 DEF WasCapped
    <3>3. counted.ended => WasCapped(counted) BY <3>1, <3>2 DEF ChatWalks
    <3>4. counted = [w EXCEPT !.urls = counted.urls] BY <3>1
    <3> HIDE DEF counted
    <3>5. counted \in ChatWalks BY <3>1, <3>3, <3>4 DEF ChatWalks
    <3>6. QED BY <3>1, <3>2, <3>5 DEF Grew, StaysPut, Keeps
  <2> HIDE DEF counted
  <2>3. x \in ChatWalks /\ Grew(counted, x) /\ Told(x, link, path)
    BY <2>1, <2>2, AddEffect DEF Reached
  <2>4. QED BY <2>2, <2>3, GrewTwice
<1>5. QED BY <1>1, <1>2, <1>3, <1>4

(* All URLs of a text are told of: one that starts beyond the characters   *)
(* read leaves some of them unread, and those are counted.                 *)
LEMMA TextEffect ==
  ASSUME ChatLimits.chars \in Nat, NEW w \in ChatWalks, NEW S, NEW text \in Seq(S),
         \A link \in S : /\ Reached(link) /\ EntryAllowedByOptions(link)
                         /\ link.url.size \in Nat /\ link.url.size > 0,
         NEW path \in ChatPaths
  PROVE  LET x == CollectPlainTextUrls(w, text, path) IN
         /\ x \in ChatWalks /\ Grew(w, x)
         /\ \A i \in 1..Len(text) : Told(x, text[i], path)
<1> DEFINE x == CollectPlainTextUrls(w, text, path)
           n == Len(text)
<1>1. n \in Nat /\ (\A i \in 1..n : text[i] \in S) /\ \A i \in 1..n : i - 1 \in 0..n
  BY LenProperties, ElementOfSeq
<1>2. CASE w.ended \/ text = <<>>
  <2>1. x = w BY <1>2 DEF CollectPlainTextUrls
  <2>2. w.ended => WasCapped(w) BY DEF ChatWalks
  <2>3. text = <<>> => n = 0 OBVIOUS
  <2>4. QED BY <1>2, <2>1, <2>2, <2>3, GrewSelf DEF Told
<1>3. CASE ~(w.ended \/ text = <<>>)
  <2> DEFINE starts == UrlStarts(text)
             unread == starts[n] - 1 - ChatLimits.chars
             first == ChatCap(w, "chars", IF unread > 0 THEN unread ELSE 0)
             IsRead(f) == f = [k \in 0..n |-> IF k = 0 THEN first
                                 ELSE ReadUrl(f[k - 1], text[k], starts[k - 1], path)]
             read == CHOOSE f : IsRead(f)
             F == [k \in 1..n |-> [y \in ChatWalks |-> ReadUrl(y, text[k], starts[k - 1], path)]]
  <2>1. x = read[n] BY <1>3 DEF CollectPlainTextUrls
  <2>2. /\ \A k \in 0..n : starts[k] \in Nat
        /\ \A k \in 1..n : starts[k - 1] + text[k].url.size + 1 <= starts[n]
    BY StartsRise
  <2> HIDE DEF starts
  <2>3. unread \in Int /\ n \in 0..n BY <1>1, <2>2
  <2>4. first \in ChatWalks /\ Grew(w, first) /\ (unread > 0 => WasCapped(first))
    <3>1. (IF unread > 0 THEN unread ELSE 0) \in Nat BY <2>3
    <3>2. unread > 0 => (IF unread > 0 THEN unread ELSE 0) > 0 OBVIOUS
    <3> HIDE DEF unread
    <3>3. QED BY <3>1, <3>2, CapEffect DEF Budgets
  <2> HIDE DEF first
  <2>5. \A i \in 1..n, y \in ChatWalks :
          LET z == ReadUrl(y, text[i], starts[i - 1], path) IN
          z \in ChatWalks /\ Grew(y, z) /\ (~(starts[i - 1] >= ChatLimits.chars) => Told(z, text[i], path))
    BY <1>1, ReadEffect
  <2>6. /\ F \in [1..n -> [ChatWalks -> ChatWalks]]
        /\ \A i \in 1..n, y \in ChatWalks : F[i][y] = ReadUrl(y, text[i], starts[i - 1], path)
    BY <2>5
  <2> HIDE DEF F
  <2>7. IsRead(read)
    <3>1. PICK g \in [0..n -> ChatWalks] : LeadsOn(g, first, n, F)
      BY <1>1, <2>4, <2>6, Iterated
    <3>2. \A i \in 1..n : g[i] = ReadUrl(g[i - 1], text[i], starts[i - 1], path)
      BY <1>1, <2>6, <3>1 DEF LeadsOn
    <3>3. \A i \in 0..n : i # 0 => i \in 1..n BY <1>1
    <3>4. IsRead(g) BY <3>1, <3>2, <3>3 DEF LeadsOn
    <3>5. QED BY <3>4
  <2> HIDE DEF read
  <2>8. /\ read[0] = first
        /\ \A i \in 1..n : read[i] = ReadUrl(read[i - 1], text[i], starts[i - 1], path)
    BY <1>1, <2>7
  <2> DEFINE Sofar == {i \in 0..n : read[i] \in ChatWalks}
  <2>9. \A i \in 0..n : read[i] \in ChatWalks
    <3>1. 0 \in Sofar BY <1>1, <2>4, <2>8
    <3>2. ASSUME NEW i \in 1..n, i - 1 \in Sofar
          PROVE  i \in Sofar
      BY <1>1, <2>5, <2>8, <3>2
    <3> HIDE DEF Sofar
    <3>3. 0..n \subseteq Sofar BY <1>1, <3>1, <3>2, UpTo
    <3>4. QED BY <3>3 DEF Sofar
  <2>10. LeadsOn(read, first, n, F) BY <1>1, <2>6, <2>8, <2>9 DEF LeadsOn
  <2>11. \A i \in 1..n, y \in ChatWalks : Grew(y, F[i][y]) BY <2>5, <2>6
  <2>12. \A i \in 0..n : read[i] \in ChatWalks /\ Grew(read[i], read[n])
    BY <1>1, <2>4, <2>6, <2>10, <2>11, GrewAlong
  <2>13. read[n] \in ChatWalks /\ Grew(first, read[n]) BY <1>1, <2>8, <2>12
  <2>14. ASSUME NEW i \in 1..n
         PROVE  Told(read[n], text[i], path)
    <3>1. CASE unread > 0
      <4>1. WasCapped(read[n]) BY <2>4, <2>13, <3>1 DEF Grew, Keeps
      <4>2. QED BY <4>1 DEF Told
    <3>2. CASE ~(unread > 0)
      <4>1. /\ text[i].url.size \in Nat /\ text[i].url.size > 0
            /\ starts[i - 1] \in Nat /\ starts[n] \in Nat
            /\ starts[i - 1] + text[i].url.size + 1 <= starts[n]
        BY <1>1, <2>2
      <4>2. ~(starts[i - 1] >= ChatLimits.chars) BY <3>2, <4>1, SMTT(30)
      <4>3. Told(read[i], text[i], path) BY <1>1, <2>5, <2>8, <2>9, <4>2
      <4>4. Keeps(read[i], read[n]) BY <1>1, <2>12 DEF Grew
      <4>5. QED BY <4>3, <4>4, ToldStays
    <3>3. QED BY <3>1, <3>2
  <2>15. Grew(w, read[n]) BY <2>4, <2>13, GrewTwice
  <2>16. QED BY <2>1, <2>13, <2>14, <2>15
<1>4. QED BY <1>2, <1>3

(* A sequence is one of its own elements.                                  *)
LEMMA OwnRange ==
  ASSUME NEW S, NEW s \in Seq(S)
  PROVE  /\ s \in Seq(Range(s)) /\ Range(s) \subseteq S
         /\ \A x \in Range(s) : \E i \in 1..Len(s) : x = s[i]
<1>1. Len(s) \in Nat /\ DOMAIN s = 1..Len(s) /\ s = [i \in 1..Len(s) |-> s[i]]
      /\ \A i \in 1..Len(s) : s[i] \in S
  BY LenProperties, ElementOfSeq
<1>2. \A i \in 1..Len(s) : s[i] \in Range(s) BY <1>1 DEF Range
<1>3. s \in [1..Len(s) -> Range(s)] BY <1>1, <1>2
<1>4. s \in Seq(Range(s)) BY <1>1, <1>3
<1>5. QED BY <1>1, <1>4 DEF Range

(* A visit tells of every Chat link of the message.                        *)
LEMMA MessageEffect ==
  ASSUME ChatAssumption, chatInput \in ChatInputs, NEW node \in ReachableMessages,
         node \in DOMAIN chatInput.tree, NEW w \in ChatWalks, NEW path \in ChatPaths
  PROVE  LET x == CollectFromMessageLike(w, chatInput.tree[node], path) IN
         /\ x \in ChatWalks /\ Grew(w, x)
         /\ \A link \in ChatLinksIn(node) : Told(x, link, path)
<1> DEFINE value   == chatInput.tree[node]
           matched == IF "matched_url" \in chatInput.options.sources THEN value.matched ELSE <<>>
           text    == IF "plain_url" \in chatInput.options.sources THEN value.text ELSE <<>>
           begun   == [w EXCEPT !.ended = FALSE]
           linked  == CollectScanned(begun, value.links, path)
           noted   == CollectScanned(linked, value.annotations, path)
           scanned == CollectScanned(noted, matched, path)
           x       == CollectPlainTextUrls(scanned, text, path)
           Matched == {link \in ChatLink : link.source = "matched_url"}
           Plain   == {link \in ChatLink : link.source = "plain_url" /\ link.url.size > 0}
<1>1. CollectFromMessageLike(w, value, path) = x BY DEF CollectFromMessageLike
<1>2. /\ value.links \in Seq(ChatLink) /\ value.annotations \in Seq(ChatLink)
      /\ value.matched \in Seq(Matched) /\ value.text \in Seq(Plain)
  BY DEF ChatAssumption, ChatNode
<1>3. ChatLimits.scans \in Nat /\ ChatLimits.chars \in Nat
  BY DEF ChatAssumption, ChatLimits, LimitNames
<1>4. ASSUME NEW link \in UNION {Range(value.links), Range(value.annotations),
                                Range(value.matched), Range(value.text)}
      PROVE  Reached(link)
  BY <1>4 DEF Reached, LinksInReach, ChatLinksIn
<1> HIDE DEF value
<1>5. begun \in ChatWalks /\ Grew(w, begun)
  <2>1. /\ begun.stack = w.stack /\ begun.visited = w.visited
        /\ begun.found = w.found /\ begun.nodes = w.nodes /\ begun.ended = FALSE
        /\ begun.anonymous = w.anonymous /\ begun.capped = w.capped
    BY DEF ChatWalks
  <2>2. WasCapped(begun) = WasCapped(w) BY <2>1 DEF WasCapped
  <2>3. begun \in ChatWalks BY <2>1 DEF ChatWalks
  <2>4. QED BY <2>1, <2>2, <2>3 DEF Grew, StaysPut, Keeps
<1> HIDE DEF begun
<1>6. /\ value.links \in Seq(Range(value.links)) /\ value.annotations \in Seq(Range(value.annotations))
      /\ value.matched \in Seq(Range(value.matched)) /\ value.text \in Seq(Range(value.text))
      /\ \A link \in Range(value.links) : \E i \in 1..Len(value.links) : link = value.links[i]
      /\ \A link \in Range(value.annotations) :
           \E i \in 1..Len(value.annotations) : link = value.annotations[i]
      /\ Range(value.matched) \subseteq Matched
      /\ \A link \in Range(value.matched) : \E i \in 1..Len(value.matched) : link = value.matched[i]
      /\ Range(value.text) \subseteq Plain
      /\ \A link \in Range(value.text) : \E i \in 1..Len(value.text) : link = value.text[i]
  BY <1>2, OwnRange
<1>7. /\ linked \in ChatWalks /\ Grew(begun, linked)
      /\ \A link \in Range(value.links) : EntryAllowedByOptions(link) => Told(linked, link, path)
  <2>1. \A link \in Range(value.links) : Reached(link) BY <1>4
  <2>2. /\ linked \in ChatWalks /\ Grew(begun, linked)
        /\ \A i \in 1..Len(value.links) :
             EntryAllowedByOptions(value.links[i]) => Told(linked, value.links[i], path)
    BY <1>3, <1>5, <1>6, <2>1, ScannedEffect
  <2> HIDE DEF linked
  <2>3. QED BY <1>6, <2>2, ZenonT(30)
<1> HIDE DEF linked
<1>8. /\ noted \in ChatWalks /\ Grew(linked, noted)
      /\ \A link \in Range(value.annotations) : EntryAllowedByOptions(link) => Told(noted, link, path)
  <2>1. \A link \in Range(value.annotations) : Reached(link) BY <1>4
  <2>2. /\ noted \in ChatWalks /\ Grew(linked, noted)
        /\ \A i \in 1..Len(value.annotations) :
             EntryAllowedByOptions(value.annotations[i]) => Told(noted, value.annotations[i], path)
    BY <1>3, <1>6, <1>7, <2>1, ScannedEffect
  <2> HIDE DEF noted
  <2>3. QED BY <1>6, <2>2, ZenonT(30)
<1> HIDE DEF noted
<1>9. /\ scanned \in ChatWalks /\ Grew(noted, scanned)
      /\ \A link \in Range(value.matched) : EntryAllowedByOptions(link) => Told(scanned, link, path)
  <2>1. \A link \in Range(value.matched) : Reached(link) BY <1>4
  <2>2. matched \in Seq(Range(value.matched))
    <3>1. CASE "matched_url" \in chatInput.options.sources BY <1>6, <3>1
    <3>2. CASE "matched_url" \notin chatInput.options.sources
      <4>1. matched = <<>> BY <3>2
      <4> HIDE DEF matched
      <4>2. QED BY <4>1
    <3>3. QED BY <3>1, <3>2
  <2>3. /\ scanned \in ChatWalks /\ Grew(noted, scanned)
        /\ \A i \in 1..Len(matched) :
             EntryAllowedByOptions(matched[i]) => Told(scanned, matched[i], path)
    <3> HIDE DEF matched
    <3>1. QED BY <1>3, <1>8, <2>1, <2>2, ScannedEffect
  <2> HIDE DEF scanned
  <2>4. ASSUME NEW link \in Range(value.matched), EntryAllowedByOptions(link)
        PROVE  Told(scanned, link, path)
    <3>1. link \in Matched BY <1>6
    <3>2. matched = value.matched BY <2>4, <3>1 DEF EntryAllowedByOptions
    <3> HIDE DEF matched
    <3>3. PICK i \in 1..Len(matched) : link = matched[i] BY <1>6, <3>2
    <3>4. QED BY <2>3, <2>4, <3>3
  <2>5. QED BY <2>3, <2>4
<1> HIDE DEF scanned
<1>10. /\ x \in ChatWalks /\ Grew(scanned, x)
       /\ \A link \in Range(value.text) : EntryAllowedByOptions(link) => Told(x, link, path)
  <2> DEFINE S == {link \in Range(value.text) : EntryAllowedByOptions(link)}
  <2>1. \A link \in Range(value.text) : link.source = "plain_url" /\ link.url.size > 0
                                       /\ link.url.size \in Nat
    BY <1>6 DEF ChatLink
  <2>2. \A link \in S : /\ Reached(link) /\ EntryAllowedByOptions(link)
                        /\ link.url.size \in Nat /\ link.url.size > 0
    BY <1>4, <2>1
  <2>3. text \in Seq(S)
    <3>1. CASE "plain_url" \in chatInput.options.sources
      <4>1. S = Range(value.text) BY <2>1, <3>1 DEF EntryAllowedByOptions
      <4>2. QED BY <1>6, <3>1, <4>1
    <3>2. CASE "plain_url" \notin chatInput.options.sources BY <3>2
    <3>3. QED BY <3>1, <3>2
  <2>4. /\ x \in ChatWalks /\ Grew(scanned, x)
        /\ \A i \in 1..Len(text) : Told(x, text[i], path)
    <3> HIDE DEF text, S
    <3>1. QED BY <1>3, <1>9, <2>2, <2>3, TextEffect
  <2> HIDE DEF x
  <2>5. ASSUME NEW link \in Range(value.text), EntryAllowedByOptions(link)
        PROVE  Told(x, link, path)
    <3>1. text = value.text BY <2>1, <2>5 DEF EntryAllowedByOptions
    <3> HIDE DEF text
    <3>2. PICK i \in 1..Len(text) : link = text[i] BY <1>6, <3>1
    <3>3. QED BY <2>4, <3>2
  <2>6. QED BY <2>4, <2>5
<1> HIDE DEF x
<1>11. Grew(w, x)
  <2>1. Grew(w, linked) BY <1>5, <1>7, GrewTwice
  <2>2. Grew(w, noted) BY <1>8, <2>1, GrewTwice
  <2>3. Grew(w, scanned) BY <1>9, <2>2, GrewTwice
  <2>4. QED BY <1>10, <2>3, GrewTwice
<1>12. ASSUME NEW link \in ChatLinksIn(node)
       PROVE  Told(x, link, path)
  <2>1. /\ link \in UNION {Range(value.links), Range(value.annotations),
                           Range(value.matched), Range(value.text)}
        /\ EntryAllowedByOptions(link)
    BY DEF ChatLinksIn, value
  <2>2. Keeps(scanned, x) BY <1>10 DEF Grew
  <2>3. Keeps(noted, x) BY <1>9, <1>10, GrewTwice DEF Grew
  <2>4. Keeps(linked, x) BY <1>8, <1>9, <1>10, GrewTwice DEF Grew
  <2>5. CASE link \in Range(value.links) BY <1>7, <2>1, <2>4, <2>5, ToldStays
  <2>6. CASE link \in Range(value.annotations) BY <1>8, <2>1, <2>3, <2>6, ToldStays
  <2>7. CASE link \in Range(value.matched) BY <1>9, <2>1, <2>2, <2>7, ToldStays
  <2>8. CASE link \in Range(value.text) BY <1>10, <2>1, <2>8
  <2>9. QED BY <2>1, <2>5, <2>6, <2>7, <2>8
<1>13. QED BY <1>1, <1>10, <1>11, <1>12 DEF value

---------------------------------------------------------------------------
(* The children of a node are in the tree.                                 *)
LEMMA ChildrenInTree ==
  ASSUME ChatAssumption, chatInput \in ChatInputs, NEW node \in DOMAIN chatInput.tree
  PROVE  LET groups == TraversalChildren(chatInput.tree[node])
             nodes  == DOMAIN chatInput.tree
         IN /\ groups \in Seq(Seq([node : nodes, relationship : Relationships, index : Nat]))
            /\ Len(groups) = 4 /\ ChildrenOf(node) \subseteq nodes
<1> DEFINE nodes  == DOMAIN chatInput.tree
           value  == chatInput.tree[node]
           Child  == [node : nodes, relationship : Relationships, index : Nat]
           groups == TraversalChildren(value)
           context == value.contextNode
           as(relationship, list) ==
             [i \in DOMAIN list |-> [node |-> list[i], relationship |-> relationship, index |-> 0]]
           numbered(list) ==
             [i \in DOMAIN list |-> [node |-> list[i], relationship |-> "message", index |-> i]]
           third == IF context = <<>> THEN <<>>
                    ELSE IF value.ast THEN chatInput.tree[context[1]].children
                    ELSE as("context", context)
<1>1. /\ value.message \in Seq(nodes) /\ value.messages \in Seq(nodes)
      /\ context \in Seq(nodes)
  BY DEF ChatAssumption, ChatNode
<1>2. \A other \in nodes : chatInput.tree[other].children \in Seq(Child)
  <2> DEFINE Plain == [node : nodes, relationship : STRING, index : Nat]
  <2>1. ASSUME NEW other \in nodes
        PROVE  chatInput.tree[other].children \in Seq(Plain)
    BY DEF ChatAssumption, ChatNode
  <2>2. \A c \in Plain : c \in Child BY DEF Relationships
  <2> HIDE DEF Plain, Child
  <2>3. ASSUME NEW list \in Seq(Plain)
        PROVE  list \in Seq(Child)
    <3>1. Len(list) \in Nat /\ list \in [1..Len(list) -> Child]
      BY <2>2, LenProperties, ElementOfSeq
    <3>2. QED BY <3>1
  <2>4. QED BY <2>1, <2>3
<1>3. groups = <<as("message", value.message), numbered(value.messages), third, value.children>>
  BY DEF TraversalChildren
<1>4. value.children \in Seq(Child) BY <1>2
<1> HIDE DEF value, groups, nodes, context
<1>5. ASSUME NEW relationship \in Relationships, NEW list \in Seq(nodes)
      PROVE  as(relationship, list) \in Seq(Child)
  <2>1. Len(list) \in Nat /\ DOMAIN list = 1..Len(list) /\ \A i \in 1..Len(list) : list[i] \in nodes
    BY LenProperties, ElementOfSeq
  <2>2. \A i \in 1..Len(list) :
          [node |-> list[i], relationship |-> relationship, index |-> 0] \in Child
    BY <2>1
  <2> HIDE DEF Child
  <2>3. as(relationship, list) \in [1..Len(list) -> Child] BY <2>1, <2>2
  <2> DEFINE made == as(relationship, list)
  <2>4. made \in [1..Len(list) -> Child] BY <2>3
  <2> HIDE DEF made
  <2>5. made \in Seq(Child) BY <2>1, <2>4
  <2>6. QED BY <2>5 DEF made
<1>6. numbered(value.messages) \in Seq(Child)
  <2> DEFINE list == value.messages
  <2>1. Len(list) \in Nat /\ DOMAIN list = 1..Len(list) /\ \A i \in 1..Len(list) : list[i] \in nodes
    BY <1>1, LenProperties, ElementOfSeq
  <2>2. "message" \in Relationships BY DEF Relationships
  <2>3. \A i \in 1..Len(list) :
          [node |-> list[i], relationship |-> "message", index |-> i] \in Child
    BY <2>1, <2>2
  <2> HIDE DEF Child, list
  <2>4. numbered(list) \in [1..Len(list) -> Child] BY <2>1, <2>3
  <2> HIDE DEF numbered
  <2>5. QED BY <2>1, <2>4 DEF list
<1>7. third \in Seq(Child)
  <2>1. CASE context = <<>> BY <2>1
  <2>2. CASE context # <<>> /\ value.ast
    <3>1. context[1] \in nodes BY <1>1, <2>2
    <3>2. third = chatInput.tree[context[1]].children BY <2>2
    <3> HIDE DEF third, context
    <3>3. QED BY <1>2, <3>1, <3>2
  <2>3. CASE context # <<>> /\ ~value.ast
    <3>1. third = as("context", context) BY <2>3
    <3> HIDE DEF third, as
    <3>2. "context" \in Relationships BY DEF Relationships
    <3>3. QED BY <1>1, <1>5, <3>1, <3>2
  <2>4. QED BY <2>1, <2>2, <2>3
<1>8. as("message", value.message) \in Seq(Child)
  <2>1. "message" \in Relationships BY DEF Relationships
  <2> HIDE DEF as, Child
  <2>2. QED BY <1>1, <1>5, <2>1
<1> DEFINE first == as("message", value.message)
           second == numbered(value.messages)
           fourth == value.children
<1>9. groups = <<first, second, third, fourth>> BY <1>3
<1>10. first \in Seq(Child) /\ second \in Seq(Child) /\ third \in Seq(Child) /\ fourth \in Seq(Child)
  BY <1>4, <1>6, <1>7, <1>8
<1> HIDE DEF as, numbered, third, first, second, fourth
<1> DEFINE X == Seq(Child)
<1>11. groups \in Seq(Seq(Child)) /\ Len(groups) = 4
  <2>1. first \in X /\ second \in X /\ third \in X /\ fourth \in X BY <1>10
  <2> HIDE DEF X
  <2>2. groups \in Seq(X) /\ Len(groups) = 4 BY <1>9, <2>1
  <2>3. QED BY <2>2 DEF X
<1>12. ChildrenOf(node) \subseteq nodes
  <2>1. ASSUME NEW g \in DOMAIN groups, NEW i \in DOMAIN groups[g]
        PROVE  groups[g][i].node \in nodes
    <3>1. groups[g] \in Seq(Child)
      <4>1. g \in 1..Len(groups) BY <1>11, LenProperties
      <4> HIDE DEF X, Child
      <4>2. QED BY <1>11, <4>1, ElementOfSeq
    <3>2. i \in 1..Len(groups[g]) BY <3>1, LenProperties
    <3>3. groups[g][i] \in Child BY <3>1, <3>2, ElementOfSeq
    <3>4. QED BY <3>3
  <2>2. ChildrenOf(node) = UNION {{groups[g][i].node : i \in DOMAIN groups[g]} : g \in DOMAIN groups}
    BY DEF ChildrenOf, groups, value
  <2> HIDE DEF Child
  <2>3. QED BY <2>1, <2>2
<1>13. QED BY <1>11, <1>12 DEF groups, value, nodes

(* As many steps as there are nodes lead to all in reach: that set holds   *)
(* the root and the children of each of its nodes, and is in every set     *)
(* that does.                                                              *)
LEMMA Reach ==
  ASSUME ChatAssumption, chatInput \in ChatInputs
  PROVE  /\ ReachableMessages \subseteq DOMAIN chatInput.tree
         /\ chatInput.root \in ReachableMessages
         /\ \A node \in ReachableMessages : ChildrenOf(node) \subseteq ReachableMessages
         /\ \A V : /\ chatInput.root \in V
                   /\ \A node \in V \cap ReachableMessages : ChildrenOf(node) \subseteq V
                  => ReachableMessages \subseteq V
<1> DEFINE D == DOMAIN chatInput.tree
           n == Cardinality(D)
           root == chatInput.root
           IsWithin(f) == f = [k \in 0..n |-> IF k = 0 THEN {root}
                                 ELSE f[k - 1] \cup UNION {ChildrenOf(node) : node \in f[k - 1]}]
           within == CHOOSE f : IsWithin(f)
           C == [node \in D |-> ChildrenOf(node)]
           X == SUBSET D
           F == [k \in 1..n |-> [s \in X |-> s \cup UNION {ChildrenOf(node) : node \in s}]]
<1>1. IsFiniteSet(D) /\ root \in D BY DEF ChatAssumption
<1>2. n \in Nat /\ \A k \in 1..n : k - 1 \in 0..n BY <1>1, FS_CardinalityType
<1>3. \A node \in D : ChildrenOf(node) \subseteq D BY ChildrenInTree
<1>4. ReachableMessages = within[n] BY DEF ReachableMessages
<1> HIDE DEF D, n, root
<1>5. /\ F \in [1..n -> [X -> X]]
      /\ \A k \in 1..n, s \in X : F[k][s] = s \cup UNION {ChildrenOf(node) : node \in s}
  BY <1>3
<1>6. {root} \in X BY <1>1
<1> HIDE DEF F, X
<1>7. IsWithin(within)
  <2>1. PICK g \in [0..n -> X] : LeadsOn(g, {root}, n, F) BY <1>2, <1>5, <1>6, Iterated
  <2>2. \A k \in 1..n : g[k] = g[k - 1] \cup UNION {ChildrenOf(node) : node \in g[k - 1]}
    BY <1>2, <1>5, <2>1 DEF LeadsOn
  <2>3. \A k \in 0..n : k # 0 => k \in 1..n BY <1>2
  <2>4. IsWithin(g) BY <2>1, <2>2, <2>3 DEF LeadsOn
  <2>5. QED BY <2>4
<1> HIDE DEF within
<1>8. /\ within[0] = {root}
      /\ \A k \in 1..n : within[k] = within[k - 1] \cup UNION {ChildrenOf(node) : node \in within[k - 1]}
  <2>1. \A k \in 0..n :
          within[k] = IF k = 0 THEN {root}
                      ELSE within[k - 1] \cup UNION {ChildrenOf(node) : node \in within[k - 1]}
    BY <1>7, Zenon
  <2>2. 0 \in 0..n /\ \A k \in 1..n : k \in 0..n /\ k # 0 BY <1>2
  <2>3. QED BY <2>1, <2>2, Zenon
<1> DEFINE Inside == {k \in 0..n : within[k] \subseteq D}
<1>9. \A k \in 0..n : within[k] \subseteq D
  <2>1. 0 \in Inside BY <1>1, <1>2, <1>8
  <2>2. ASSUME NEW k \in 1..n, k - 1 \in Inside
        PROVE  k \in Inside
    BY <1>2, <1>3, <1>8, <2>2
  <2> HIDE DEF Inside
  <2>3. 0..n \subseteq Inside BY <1>2, <2>1, <2>2, UpTo
  <2>4. QED BY <2>3 DEF Inside
<1>10. Spreads(within, root, n, C)
  <2>1. \A k \in 1..n : {ChildrenOf(node) : node \in within[k - 1]} = {C[node] : node \in within[k - 1]}
    BY <1>2, <1>9
  <2> HIDE DEF C
  <2>2. QED BY <1>8, <2>1 DEF Spreads
<1>11. C \in [D -> SUBSET D] BY <1>3
<1> HIDE DEF C
<1>12. /\ within[n] \subseteq D /\ root \in within[n]
       /\ \A node \in within[n] : C[node] \subseteq within[n]
  BY <1>1, <1>10, <1>11, ClosedAtSize DEF n
<1>13. \A node \in within[n] : ChildrenOf(node) \subseteq within[n] BY <1>12 DEF C
<1>14. ASSUME NEW V, root \in V, \A node \in V \cap within[n] : ChildrenOf(node) \subseteq V
       PROVE  within[n] \subseteq V
  <2> DEFINE S == {k \in 0..n : within[k] \subseteq V /\ within[k] \subseteq within[n]}
  <2>1. 0 \in S BY <1>2, <1>8, <1>12, <1>14
  <2>2. ASSUME NEW k \in 1..n, k - 1 \in S
        PROVE  k \in S
    <3>1. within[k - 1] \subseteq V /\ within[k - 1] \subseteq within[n] BY <2>2
    <3>2. \A node \in within[k - 1] : ChildrenOf(node) \subseteq V /\ ChildrenOf(node) \subseteq within[n]
      BY <1>13, <1>14, <3>1
    <3>3. within[k] \subseteq V /\ within[k] \subseteq within[n] BY <1>8, <3>1, <3>2
    <3>4. QED BY <1>2, <3>3
  <2> HIDE DEF S
  <2>3. 0..n \subseteq S BY <1>2, <2>1, <2>2, UpTo
  <2>4. n \in S BY <1>2, <2>3
  <2>5. QED BY <2>4 DEF S
<1>15. QED BY <1>4, <1>12, <1>13, <1>14 DEF D, root

---------------------------------------------------------------------------
(* The stack.                                                              *)
OnStack(w) == {w.stack[i].node : i \in DOMAIN w.stack}

PushesOn(w, x) ==
  /\ x.visited = w.visited /\ x.found = w.found
  /\ WasCapped(w) => WasCapped(x)
  /\ OnStack(w) \subseteq OnStack(x)

ChildrenInReach == [node : ReachableMessages, relationship : Relationships, index : Nat]

(* Children that are not pushed are counted.                               *)
LEMMA PushEffect ==
  ASSUME ChatAssumption, chatInput \in ChatInputs, NEW w \in ChatWalks,
         NEW parent \in ChatItems, NEW children \in Seq(ChildrenInReach)
  PROVE  LET x == PushTraversalChildren(w, parent, children) IN
         /\ x \in ChatWalks /\ PushesOn(w, x)
         /\ \A i \in 1..Len(children) : WasCapped(x) \/ children[i].node \in OnStack(x)
<1> DEFINE n == Len(children)
           depth == parent.depth + 1
           slots == ChatLimits.nodes - w.nodes - Len(w.stack)
           kept == IF depth > ChatLimits.depth \/ slots <= 0 THEN 0
                   ELSE IF n <= slots THEN n ELSE slots
           item(i) == [node |-> children[i].node, depth |-> depth,
                       path |-> Append(parent.path, MessageLabel(children[i], w.anonymous + i))]
           new == [i \in 1..kept |-> item(kept + 1 - i)]
           capped == ChatCap(w, "nodes", n - kept)
           x == PushTraversalChildren(w, parent, children)
<1>1. x = [capped EXCEPT !.stack = @ \o new, !.anonymous = @ + kept]
  BY DEF PushTraversalChildren
<1>2. /\ n \in Nat /\ (\A i \in 1..n : children[i] \in ChildrenInReach)
      /\ w.stack \in Seq(ChatItems) /\ Len(w.stack) \in Nat /\ DOMAIN w.stack = 1..Len(w.stack)
      /\ w.nodes \in Nat /\ w.anonymous \in Nat /\ ChatLimits.nodes \in Nat
      /\ depth \in Nat /\ parent.path \in ChatPaths
  <2>1. w.stack \in Seq(ChatItems) /\ w.nodes \in Nat /\ w.anonymous \in Nat
    BY DEF ChatWalks
  <2>2. ChatLimits.nodes \in Nat BY DEF ChatAssumption, ChatLimits, LimitNames
  <2>3. depth \in Nat /\ parent.path \in ChatPaths BY DEF ChatItems
  <2>4. n \in Nat /\ \A i \in 1..n : children[i] \in ChildrenInReach
    BY LenProperties, ElementOfSeq
  <2>5. Len(w.stack) \in Nat /\ DOMAIN w.stack = 1..Len(w.stack) BY <2>1, LenProperties
  <2>6. QED BY <2>1, <2>2, <2>3, <2>4, <2>5
<1>3. kept \in 0..n /\ n - kept \in Nat /\ kept \in Nat /\ w.anonymous + kept \in Nat
  <2> HIDE DEF n, depth
  <2>1. slots \in Int BY <1>2
  <2> HIDE DEF slots
  <2>2. QED BY <1>2, <2>1
<1> HIDE DEF kept
<1>4. \A i \in 1..n : item(i) \in ChatItems /\ item(i).node = children[i].node
  <2>1. ASSUME NEW i \in 1..n
        PROVE  item(i) \in ChatItems /\ item(i).node = children[i].node
    <3> DEFINE child == children[i]
               label == MessageLabel(child, w.anonymous + i)
               path  == Append(parent.path, label)
    <3>1. child \in ChildrenInReach /\ w.anonymous + i \in Nat BY <1>2
    <3>2. chatInput.tree[child.node].name \in STRING
      <4>1. child.node \in DOMAIN chatInput.tree BY <3>1, Reach DEF ChildrenInReach
      <4>2. QED BY <4>1 DEF ChatAssumption, ChatNode
    <3>3. label \in ChatLabels /\ label.name = chatInput.tree[child.node].name
      <4> HIDE DEF child
      <4>1. QED BY <3>1, <3>2 DEF MessageLabel, ChatLabels, ChildrenInReach
    <3> HIDE DEF label
    <3>4. path \in ChatPaths /\ Last(path) = label
      <4>1. parent.path \in Seq(ChatLabels) BY <1>2 DEF ChatPaths
      <4>2. /\ Append(parent.path, label) \in Seq(ChatLabels)
            /\ Len(Append(parent.path, label)) = Len(parent.path) + 1
            /\ Append(parent.path, label)[Len(parent.path) + 1] = label
        BY <3>3, <4>1, AppendProperties
      <4>3. QED BY <4>2 DEF ChatPaths, Last
    <3> HIDE DEF path
    <3>5. item(i) = [node |-> child.node, depth |-> depth, path |-> path] BY DEF path, label
    <3>6. [node |-> child.node, depth |-> depth, path |-> path] \in ChatItems
      BY <1>2, <3>1, <3>3, <3>4 DEF ChatItems, ChildrenInReach
    <3>7. QED BY <3>5, <3>6
  <2>2. QED BY <2>1
<1>5. \A i \in 1..kept : kept + 1 - i \in 1..n /\ kept + 1 - i \in 1..kept BY <1>2, <1>3
<1> HIDE DEF item
<1>6. /\ new \in Seq(ChatItems) /\ Len(new) = kept
      /\ \A i \in 1..kept : new[i] = item(kept + 1 - i)
  <2>1. new \in [1..kept -> ChatItems] BY <1>4, <1>5
  <2>2. \A i \in 1..kept : new[i] = item(kept + 1 - i) OBVIOUS
  <2> HIDE DEF new
  <2>3. new \in Seq(ChatItems) /\ Len(new) = kept BY <1>3, <2>1
  <2>4. QED BY <2>2, <2>3
<1> HIDE DEF new
<1> DEFINE stack == w.stack \o new
           m == Len(w.stack)
<1>7. /\ stack \in Seq(ChatItems) /\ DOMAIN stack = 1..(m + kept)
      /\ \A i \in 1..m : stack[i] = w.stack[i]
      /\ \A i \in 1..kept : stack[m + i] = new[i]
  <2>1. /\ stack \in Seq(ChatItems) /\ Len(stack) = m + kept
        /\ \A i \in 1..(m + kept) : stack[i] = IF i <= m THEN w.stack[i] ELSE new[i - m]
    BY <1>2, <1>6, ConcatProperties, ZenonT(60)
  <2> HIDE DEF stack
  <2>2. DOMAIN stack = 1..(m + kept) BY <2>1, LenProperties
  <2>3. ASSUME NEW i \in 1..m
        PROVE  stack[i] = w.stack[i]
    <3>1. m \in Nat /\ kept \in Nat BY <1>2, <1>3
    <3> HIDE DEF m
    <3>2. i \in 1..(m + kept) /\ i <= m BY <3>1
    <3>3. QED BY <2>1, <3>2
  <2>4. ASSUME NEW i \in 1..kept
        PROVE  stack[m + i] = new[i]
    <3>1. m + i \in 1..(m + kept) /\ ~(m + i <= m) /\ (m + i) - m = i BY <1>2, <1>3
    <3>2. QED BY <2>1, <3>1
  <2>5. QED BY <2>1, <2>2, <2>3, <2>4
<1>8. /\ capped \in ChatWalks /\ Grew(w, capped) /\ (n - kept > 0 => WasCapped(capped))
      /\ capped.ended = w.ended
  BY <1>3, CapEffect DEF Budgets
<1>9. capped.stack = w.stack /\ capped.anonymous = w.anonymous /\ capped.visited = w.visited
      /\ capped.nodes = w.nodes
  BY <1>8 DEF Grew, StaysPut
<1>10. capped.found = w.found BY <1>3, CapEffect DEF Budgets
<1> HIDE DEF capped, x, stack, m
<1>11. /\ x.stack = stack /\ x.anonymous = w.anonymous + kept
       /\ x.visited = w.visited /\ x.found = w.found /\ x.capped = capped.capped
       /\ x.nodes = capped.nodes /\ x.scanned = capped.scanned /\ x.urls = capped.urls
       /\ x.ended = capped.ended
  BY <1>1, <1>8, <1>9, <1>10 DEF ChatWalks, stack
<1>12. WasCapped(x) = WasCapped(capped) BY <1>11 DEF WasCapped
<1>13. x \in ChatWalks
  <2>1. x.ended => WasCapped(x) BY <1>8, <1>11, <1>12 DEF ChatWalks
  <2>2. x = [capped EXCEPT !.stack = x.stack, !.anonymous = x.anonymous] BY <1>1, <1>8 DEF ChatWalks
  <2>3. x.stack \in Seq(ChatItems) /\ x.anonymous \in Nat BY <1>3, <1>7, <1>11
  <2>4. QED BY <1>8, <2>1, <2>2, <2>3 DEF ChatWalks
<1>14. PushesOn(w, x)
  <2>1. WasCapped(w) => WasCapped(x) BY <1>8, <1>12 DEF Grew, Keeps
  <2>2. OnStack(w) \subseteq OnStack(x)
    <3>1. \A i \in 1..m : i \in 1..(m + kept) BY <1>2, <1>3 DEF m
    <3>2. DOMAIN w.stack = 1..m BY <1>2 DEF m
    <3>3. QED BY <1>7, <1>11, <3>1, <3>2 DEF OnStack
  <2>3. QED BY <1>11, <2>1, <2>2 DEF PushesOn
<1>15. ASSUME NEW i \in 1..n
       PROVE  WasCapped(x) \/ children[i].node \in OnStack(x)
  <2>1. CASE i \in 1..kept
    <3> DEFINE j == kept + 1 - i
    <3>1. j \in 1..kept /\ kept + 1 - j = i BY <1>3, <2>1
    <3>2. m + j \in 1..(m + kept)
      <4>1. m \in Nat /\ kept \in Nat BY <1>2, <1>3 DEF m
      <4> HIDE DEF m, j
      <4>2. QED BY <3>1, <4>1
    <3> HIDE DEF j
    <3>3. stack[m + j] = item(i) BY <1>6, <1>7, <3>1
    <3>4. stack[m + j].node = children[i].node BY <1>4, <3>3
    <3>5. QED BY <1>7, <1>11, <3>2, <3>4 DEF OnStack
  <2>2. CASE i \notin 1..kept
    <3>1. n - kept > 0 BY <1>2, <1>3, <2>2
    <3>2. QED BY <1>8, <1>12, <3>1
  <2>3. QED BY <2>1, <2>2
<1>16. QED BY <1>13, <1>14, <1>15 DEF x

(* The visit of one message.                                               *)
NamedIn(w, link, node) ==
  \E i \in DOMAIN w.found :
    /\ w.found[i].key = KeyOf(link)
    /\ \E path \in Range(w.found[i].paths) : Last(path).name = chatInput.tree[node].name

Shown(w, node) == \A link \in ChatLinksIn(node) : NamedIn(w, link, node)

WalkAccounted(w) ==
  WasCapped(w) \/
    /\ chatInput.options.enabled => chatInput.root \in w.visited \cup OnStack(w)
    /\ \A node \in w.visited :
         ChildrenOf(node) \subseteq w.visited \cup OnStack(w) /\ Shown(w, node)

ChatInv == chatInput \in ChatInputs /\ chatWalk \in ChatWalks /\ WalkAccounted(chatWalk)

(* What is pushed stays on the stack while the groups after it are pushed. *)
LEMMA PushesAlong ==
  ASSUME NEW base \in ChatWalks, NEW n \in Nat, NEW F \in [1..n -> [ChatWalks -> ChatWalks]],
         \A i \in 1..n, w \in ChatWalks : PushesOn(w, F[i][w]),
         NEW f, LeadsOn(f, base, n, F)
  PROVE  \A i \in 0..n : f[i] \in ChatWalks /\ PushesOn(f[i], f[n])
<1> DEFINE X == ChatWalks
           R == {p \in ChatWalks \X ChatWalks : PushesOn(p[1], p[2])}
<1>1. \A x \in X : <<x, x>> \in R BY DEF PushesOn
<1>2. \A x \in X, y \in X, z \in X : <<x, y>> \in R /\ <<y, z>> \in R => <<x, z>> \in R
  BY DEF PushesOn
<1>3. \A i \in 1..n, x \in X : <<x, F[i][x]>> \in R OBVIOUS
<1>4. \A p \in R : PushesOn(p[1], p[2]) OBVIOUS
<1> HIDE DEF X, R
<1>5. base \in X /\ F \in [1..n -> [X -> X]] BY DEF X
<1>6. \A i \in 0..n : f[i] \in X /\ <<f[i], f[n]>> \in R
  BY <1>1, <1>2, <1>3, <1>5, Followed
<1>7. QED BY <1>4, <1>6 DEF X

(* So the children of all groups are on the stack, or were counted.        *)
LEMMA PushedEffect ==
  ASSUME ChatAssumption, chatInput \in ChatInputs, NEW w \in ChatWalks, NEW parent \in ChatItems,
         NEW groups \in Seq(Seq(ChildrenInReach)), NEW pushed,
         pushed = [g \in 0..Len(groups) |->
                     IF g = 0 THEN w ELSE PushTraversalChildren(pushed[g - 1], parent, groups[g])]
  PROVE  LET x == pushed[Len(groups)] IN
         /\ x \in ChatWalks /\ PushesOn(w, x)
         /\ \A g \in 1..Len(groups) : \A i \in 1..Len(groups[g]) :
              WasCapped(x) \/ groups[g][i].node \in OnStack(x)
<1> DEFINE n == Len(groups)
           F == [g \in 1..n |-> [y \in ChatWalks |-> PushTraversalChildren(y, parent, groups[g])]]
           X == ChatWalks
<1>1. /\ n \in Nat /\ (\A g \in 1..n : groups[g] \in Seq(ChildrenInReach))
      /\ \A g \in 1..n : g - 1 \in 0..n /\ g \in 0..n /\ g # 0
      /\ n \in 0..n /\ 0 \in 0..n
  BY LenProperties, ElementOfSeq
<1>2. \A g \in 1..n, y \in X :
        LET z == PushTraversalChildren(y, parent, groups[g]) IN
        /\ z \in X /\ PushesOn(y, z)
        /\ \A i \in 1..Len(groups[g]) : WasCapped(z) \/ groups[g][i].node \in OnStack(z)
  BY <1>1, PushEffect
<1>3. /\ F \in [1..n -> [X -> X]]
      /\ \A g \in 1..n, y \in X : F[g][y] = PushTraversalChildren(y, parent, groups[g])
  BY <1>2
<1> HIDE DEF F
<1>4. pushed[0] = w /\ \A g \in 1..n : pushed[g] = PushTraversalChildren(pushed[g - 1], parent, groups[g])
  <2>1. \A g \in 0..n :
          pushed[g] = IF g = 0 THEN w ELSE PushTraversalChildren(pushed[g - 1], parent, groups[g])
    OBVIOUS
  <2> HIDE DEF n
  <2>2. QED BY <1>1, <2>1
<1> DEFINE Sofar == {g \in 0..n : pushed[g] \in X}
<1>5. \A g \in 0..n : pushed[g] \in X
  <2>1. 0 \in Sofar BY <1>1, <1>4
  <2>2. ASSUME NEW g \in 1..n, g - 1 \in Sofar
        PROVE  g \in Sofar
    BY <1>1, <1>2, <1>4, <2>2
  <2> HIDE DEF Sofar
  <2>3. 0..n \subseteq Sofar BY <1>1, <2>1, <2>2, UpTo
  <2>4. QED BY <2>3 DEF Sofar
<1>6. LeadsOn(pushed, w, n, F) BY <1>1, <1>3, <1>4, <1>5 DEF LeadsOn
<1>7. \A g \in 1..n, y \in X : PushesOn(y, F[g][y]) BY <1>2, <1>3
<1>8. \A g \in 0..n : PushesOn(pushed[g], pushed[n])
  <2>1. /\ w \in ChatWalks /\ F \in [1..n -> [ChatWalks -> ChatWalks]]
        /\ \A g \in 1..n, y \in ChatWalks : PushesOn(y, F[g][y])
    BY <1>3, <1>7
  <2> HIDE DEF n, X
  <2>2. QED BY <1>1, <1>6, <2>1, PushesAlong
<1>9. ASSUME NEW g \in 1..n, NEW i \in 1..Len(groups[g])
       PROVE  WasCapped(pushed[n]) \/ groups[g][i].node \in OnStack(pushed[n])
  <2>1. WasCapped(pushed[g]) \/ groups[g][i].node \in OnStack(pushed[g])
    BY <1>1, <1>2, <1>4, <1>5
  <2>2. PushesOn(pushed[g], pushed[n]) BY <1>1, <1>8
  <2>3. QED BY <2>1, <2>2 DEF PushesOn
<1>10. QED BY <1>1, <1>4, <1>5, <1>8, <1>9

(* Taking the last item off the stack forgets no other.                    *)
LEMMA PopEffect ==
  ASSUME NEW w \in ChatWalks, w.stack # <<>>
  PROVE  LET rest == [w EXCEPT !.stack = Front(@)] IN
         /\ Last(w.stack) \in ChatItems
         /\ rest \in ChatWalks /\ Keeps(w, rest)
         /\ rest.visited = w.visited /\ rest.found = w.found
         /\ rest.nodes = w.nodes /\ rest.capped = w.capped
         /\ OnStack(w) \subseteq OnStack(rest) \cup {Last(w.stack).node}
<1> DEFINE s == w.stack
           n == Len(s)
           rest == [w EXCEPT !.stack = Front(@)]
<1>1. /\ s \in Seq(ChatItems) /\ n \in Nat /\ DOMAIN s = 1..n
      /\ \A i \in 1..n : s[i] \in ChatItems
  BY LenProperties, ElementOfSeq DEF ChatWalks
<1>2. n > 0 BY <1>1
<1>3. Last(s) \in ChatItems BY <1>1, <1>2 DEF Last
<1>4. /\ Front(s) \in Seq(ChatItems) /\ Len(Front(s)) = n - 1
      /\ \A i \in 1..(n - 1) : Front(s)[i] = s[i]
  <2>1. \A i \in 1..(n - 1) : s[i] \in ChatItems BY <1>1
  <2>2. n - 1 \in Int /\ 1 \in Int /\ n - 1 \in Nat BY <1>1, <1>2
  <2> HIDE DEF s, n
  <2> DEFINE m == n - 1
  <2>3. /\ SubSeq(s, 1, m) \in Seq(ChatItems)
        /\ Len(SubSeq(s, 1, m)) = IF 1 <= m THEN m - 1 + 1 ELSE 0
        /\ \A i \in 1..(m - 1 + 1) : SubSeq(s, 1, m)[i] = s[1 + i - 1]
    <3> HIDE DEF m
    <3>1. QED BY <2>1, <2>2, SubSeqProperties DEF m
  <2>4. \A i \in 1..m : 1 + i - 1 = i BY <2>2
  <2>5. (IF 1 <= m THEN m - 1 + 1 ELSE 0) = m /\ m - 1 + 1 = m BY <2>2
  <2>6. QED BY <2>3, <2>4, <2>5 DEF Front, n
<1>5. /\ rest.stack = Front(s) /\ rest.visited = w.visited /\ rest.found = w.found
      /\ rest.nodes = w.nodes /\ rest.capped = w.capped /\ rest.ended = w.ended
  BY DEF ChatWalks
<1>6. rest \in ChatWalks
  <2>1. WasCapped(rest) = WasCapped(w) BY <1>5 DEF WasCapped
  <2>2. rest.ended => WasCapped(rest) BY <1>5, <2>1 DEF ChatWalks
  <2> HIDE DEF s
  <2>3. rest = [w EXCEPT !.stack = Front(s)] BY DEF s
  <2> HIDE DEF rest
  <2>4. QED BY <1>4, <2>2, <2>3 DEF ChatWalks
<1>7. Keeps(w, rest) BY <1>5 DEF Keeps, WasCapped
<1>8. OnStack(w) \subseteq OnStack(rest) \cup {Last(s).node}
  <2>1. DOMAIN Front(s) = 1..(n - 1) BY <1>4, LenProperties
  <2>2. ASSUME NEW i \in 1..n
        PROVE  s[i].node \in OnStack(rest) \cup {Last(s).node}
    <3>1. CASE i = n BY <3>1 DEF Last
    <3>2. CASE i # n
      <4>1. i \in 1..(n - 1) BY <1>1, <3>2
      <4>2. QED BY <1>4, <1>5, <2>1, <4>1 DEF OnStack
    <3>3. QED BY <3>1, <3>2
  <2>3. QED BY <1>1, <2>2 DEF OnStack
<1>9. QED BY <1>3, <1>5, <1>6, <1>7, <1>8

(* What was found of a message stays found.                                *)
LEMMA ShownStays ==
  ASSUME NEW w, NEW x, Keeps(w, x), NEW node, Shown(w, node)
  PROVE  Shown(x, node)
<1>1. ASSUME NEW link \in ChatLinksIn(node)
      PROVE  NamedIn(x, link, node)
  <2>1. PICK i \in DOMAIN w.found :
          /\ w.found[i].key = KeyOf(link)
          /\ \E path \in Range(w.found[i].paths) : Last(path).name = chatInput.tree[node].name
    BY DEF Shown, NamedIn
  <2>2. /\ i \in DOMAIN x.found /\ x.found[i].key = w.found[i].key
        /\ \A path \in Range(w.found[i].paths) : path \in Range(x.found[i].paths)
    BY DEF Keeps
  <2>3. QED BY <2>1, <2>2 DEF NamedIn
<1>2. QED BY <1>1 DEF Shown

(* A visit keeps the account: the message told of is visited, its children *)
(* wait on the stack, and nothing that was told or waits is taken away.    *)
LEMMA VisitEffect ==
  ASSUME ChatAssumption, ChatInv, VisitTraversalItem
  PROVE  chatWalk' \in ChatWalks /\ WalkAccounted(chatWalk')
<1> DEFINE w      == chatWalk
           item   == Last(w.stack)
           node   == item.node
           value  == chatInput.tree[node]
           rest   == [w EXCEPT !.stack = Front(@)]
           open   == [rest EXCEPT !.visited = @ \cup {node}]
           begun  == [open EXCEPT !.nodes = @ + 1]
           told   == CollectFromMessageLike(begun, value, item.path)
           groups == TraversalChildren(value)
           IsPushed(f) ==
             f = [g \in 0..Len(groups) |->
                    IF g = 0 THEN told ELSE PushTraversalChildren(f[g - 1], item, groups[g])]
           pushed == CHOOSE f : IsPushed(f)
<1>1. /\ w.stack # <<>>
      /\ chatWalk' =
           IF node \in w.visited THEN rest
           ELSE IF item.depth > ChatLimits.depth \/ w.nodes >= ChatLimits.nodes
                THEN ChatCap(open, "nodes", 1)
           ELSE pushed[Len(groups)]
  BY DEF VisitTraversalItem
<1>2. w \in ChatWalks /\ chatInput \in ChatInputs /\ WalkAccounted(w) BY DEF ChatInv
<1>3. /\ item \in ChatItems
      /\ rest \in ChatWalks /\ Keeps(w, rest)
      /\ rest.visited = w.visited /\ rest.found = w.found
      /\ rest.nodes = w.nodes /\ rest.capped = w.capped
      /\ OnStack(w) \subseteq OnStack(rest) \cup {node}
  BY <1>1, <1>2, PopEffect
<1> HIDE DEF rest, pushed, groups, told, item, w
<1>4. /\ node \in ReachableMessages /\ node \in DOMAIN chatInput.tree
      /\ item.path \in ChatPaths /\ Last(item.path).name = chatInput.tree[node].name
  BY <1>2, <1>3, Reach DEF ChatItems
<1>5. CASE node \in w.visited
  <2>1. chatWalk' = rest BY <1>1, <1>5
  <2>2. WasCapped(rest) = WasCapped(w) BY <1>3 DEF WasCapped
  <2>3. w.visited \cup OnStack(w) \subseteq rest.visited \cup OnStack(rest) BY <1>3, <1>5
  <2>4. \A other : Shown(w, other) => Shown(rest, other) BY <1>3, ShownStays
  <2>5. WalkAccounted(rest)
    <3>1. CASE WasCapped(w) BY <2>2, <3>1 DEF WalkAccounted
    <3>2. CASE ~WasCapped(w)
      <4>1. /\ chatInput.options.enabled => chatInput.root \in w.visited \cup OnStack(w)
            /\ \A other \in w.visited :
                 ChildrenOf(other) \subseteq w.visited \cup OnStack(w) /\ Shown(w, other)
        BY <1>2, <3>2 DEF WalkAccounted
      <4>2. chatInput.options.enabled => chatInput.root \in rest.visited \cup OnStack(rest)
        BY <2>3, <4>1
      <4>3. ASSUME NEW other \in rest.visited
            PROVE  ChildrenOf(other) \subseteq rest.visited \cup OnStack(rest) /\ Shown(rest, other)
        BY <1>3, <2>3, <2>4, <4>1
      <4>4. QED BY <4>2, <4>3 DEF WalkAccounted
    <3>3. QED BY <3>1, <3>2
  <2>6. QED BY <1>3, <2>1, <2>5
<1>6. /\ open \in ChatWalks /\ open.stack = rest.stack /\ open.found = rest.found
      /\ open.capped = rest.capped /\ open.nodes = rest.nodes
      /\ open.visited = rest.visited \cup {node} /\ open.ended = rest.ended
  <2>1. /\ open.stack = rest.stack /\ open.found = rest.found
        /\ open.capped = rest.capped /\ open.nodes = rest.nodes
        /\ open.visited = rest.visited \cup {node} /\ open.ended = rest.ended
    BY <1>3 DEF ChatWalks
  <2>2. WasCapped(open) = WasCapped(rest) BY <2>1 DEF WasCapped
  <2>3. open.ended => WasCapped(open) BY <1>3, <2>1, <2>2 DEF ChatWalks
  <2>4. open.visited \subseteq ReachableMessages BY <1>3, <1>4, <2>1 DEF ChatWalks
  <2>5. open = [rest EXCEPT !.visited = open.visited] BY <2>1
  <2> HIDE DEF open
  <2>6. open \in ChatWalks BY <1>3, <2>3, <2>4, <2>5 DEF ChatWalks
  <2>7. QED BY <2>1, <2>6
<1> HIDE DEF open
<1>7. CASE node \notin w.visited /\ (item.depth > ChatLimits.depth \/ w.nodes >= ChatLimits.nodes)
  <2>1. chatWalk' = ChatCap(open, "nodes", 1) BY <1>1, <1>7
  <2>2. chatWalk' \in ChatWalks /\ WasCapped(chatWalk') BY <1>6, <2>1, CapEffect DEF Budgets
  <2>3. QED BY <2>2 DEF WalkAccounted
<1>8. CASE node \notin w.visited /\ ~(item.depth > ChatLimits.depth \/ w.nodes >= ChatLimits.nodes)
  <2> DEFINE x == pushed[Len(groups)]
  <2>1. chatWalk' = x BY <1>1, <1>8
  <2>2. /\ begun \in ChatWalks /\ begun.stack = open.stack /\ begun.found = open.found
        /\ begun.capped = open.capped /\ begun.visited = open.visited
    <3>1. /\ begun.stack = open.stack /\ begun.found = open.found
          /\ begun.capped = open.capped /\ begun.visited = open.visited
          /\ begun.ended = open.ended /\ begun.nodes = open.nodes + 1 /\ open.nodes + 1 \in Nat
      BY <1>6 DEF ChatWalks
    <3>2. WasCapped(begun) = WasCapped(open) BY <3>1 DEF WasCapped
    <3>3. begun.ended => WasCapped(begun) BY <1>6, <3>1, <3>2 DEF ChatWalks
    <3>4. begun = [open EXCEPT !.nodes = begun.nodes] BY <3>1
    <3> HIDE DEF begun
    <3>5. begun \in ChatWalks BY <1>6, <3>1, <3>3, <3>4 DEF ChatWalks
    <3>6. QED BY <3>1, <3>5
  <2> HIDE DEF begun
  <2>3. /\ told \in ChatWalks /\ Grew(begun, told)
        /\ \A link \in ChatLinksIn(node) : Told(told, link, item.path)
    BY <1>2, <1>4, <2>2, MessageEffect DEF told
  <2>4. /\ groups \in Seq(Seq(ChildrenInReach)) /\ Len(groups) \in Nat
        /\ ChildrenOf(node) = UNION {{groups[g][i].node : i \in DOMAIN groups[g]} : g \in DOMAIN groups}
    <3>1. groups \in Seq(Seq([node : DOMAIN chatInput.tree, relationship : Relationships, index : Nat]))
      BY <1>2, <1>4, ChildrenInTree DEF groups
    <3>2. ChildrenOf(node) = UNION {{groups[g][i].node : i \in DOMAIN groups[g]} : g \in DOMAIN groups}
      BY DEF ChildrenOf, groups
    <3>3. ChildrenOf(node) \subseteq ReachableMessages BY <1>2, <1>4, Reach
    <3> DEFINE Child == [node : DOMAIN chatInput.tree, relationship : Relationships, index : Nat]
               X == Seq(ChildrenInReach)
    <3>4. ASSUME NEW g \in 1..Len(groups)
          PROVE  groups[g] \in X
      <4>1. groups[g] \in Seq(Child)
        <5> HIDE DEF Child
        <5>1. groups \in Seq(Seq(Child)) BY <3>1 DEF Child
        <5>2. QED BY <5>1, ElementOfSeq
      <4> DEFINE list == groups[g]
      <4>2. Len(list) \in Nat /\ DOMAIN list = 1..Len(list) /\ \A i \in 1..Len(list) : list[i] \in Child
        <5> HIDE DEF Child
        <5>1. QED BY <4>1, LenProperties, ElementOfSeq
      <4>3. g \in DOMAIN groups BY <3>1, LenProperties
      <4>4. \A i \in 1..Len(list) : list[i] \in ChildrenInReach
        BY <3>2, <3>3, <4>2, <4>3 DEF ChildrenInReach
      <4>5. list = [i \in 1..Len(list) |-> list[i]]
        <5> HIDE DEF Child
        <5>1. QED BY <4>1, <4>2
      <4> HIDE DEF list
      <4>6. list \in Seq(ChildrenInReach) BY <4>2, <4>4, <4>5
      <4>7. QED BY <4>6 DEF list
    <3>5. Len(groups) \in Nat /\ groups = [g \in 1..Len(groups) |-> groups[g]]
      <4> DEFINE Y == Seq(Child)
      <4>1. groups \in Seq(Y) BY <3>1
      <4> HIDE DEF Y
      <4>2. QED BY <4>1, LenProperties
    <3> HIDE DEF X
    <3>6. groups \in Seq(X) BY <3>4, <3>5
    <3>7. QED BY <3>2, <3>5, <3>6 DEF X
  <2>5. IsPushed(pushed)
    <3> DEFINE n == Len(groups)
               F == [g \in 1..n |-> [y \in ChatWalks |-> PushTraversalChildren(y, item, groups[g])]]
    <3>1. \A g \in 1..n : groups[g] \in Seq(ChildrenInReach) BY <2>4, ElementOfSeq
    <3>2. \A g \in 1..n, y \in ChatWalks : PushTraversalChildren(y, item, groups[g]) \in ChatWalks
      BY <1>2, <1>3, <3>1, PushEffect
    <3>3. /\ F \in [1..n -> [ChatWalks -> ChatWalks]] /\ n \in Nat
          /\ \A g \in 1..n, y \in ChatWalks : F[g][y] = PushTraversalChildren(y, item, groups[g])
      BY <2>4, <3>2
    <3> HIDE DEF F, n
    <3>4. PICK f \in [0..n -> ChatWalks] : LeadsOn(f, told, n, F) BY <2>3, <3>3, Iterated
    <3>5. \A g \in 1..n : g - 1 \in 0..n BY <3>3
    <3>6. \A g \in 1..n : f[g] = PushTraversalChildren(f[g - 1], item, groups[g])
      BY <3>3, <3>4, <3>5 DEF LeadsOn
    <3>7. \A g \in 0..n : g # 0 => g \in 1..n BY <3>3
    <3>8. IsPushed(f) BY <3>4, <3>6, <3>7 DEF LeadsOn, n
    <3>9. QED BY <3>8 DEF pushed
  <2>6. /\ x \in ChatWalks /\ PushesOn(told, x)
        /\ \A g \in 1..Len(groups) : \A i \in 1..Len(groups[g]) :
             WasCapped(x) \/ groups[g][i].node \in OnStack(x)
    BY <1>2, <1>3, <2>3, <2>4, <2>5, PushedEffect
  <2> HIDE DEF x
  <2>7. CASE WasCapped(x) BY <2>1, <2>6, <2>7 DEF WalkAccounted
  <2>8. CASE ~WasCapped(x)
    <3>1. ~WasCapped(told) BY <2>6, <2>8 DEF PushesOn
    <3>2. ~WasCapped(w)
      <4>1. WasCapped(begun) = WasCapped(w) BY <1>3, <1>6, <2>2 DEF WasCapped
      <4>2. WasCapped(begun) => WasCapped(told) BY <2>3 DEF Grew, Keeps
      <4>3. QED BY <3>1, <4>1, <4>2
    <3>3. /\ x.visited = w.visited \cup {node} /\ OnStack(rest) \subseteq OnStack(x)
      <4>1. told.stack = rest.stack /\ told.visited = w.visited \cup {node}
        BY <1>3, <1>6, <2>2, <2>3 DEF Grew, StaysPut
      <4>2. OnStack(told) = OnStack(rest) BY <4>1 DEF OnStack
      <4>3. QED BY <2>6, <4>1, <4>2 DEF PushesOn
    <3>4. w.visited \cup OnStack(w) \subseteq x.visited \cup OnStack(x) BY <1>3, <3>3
    <3>5. ChildrenOf(node) \subseteq OnStack(x)
      <4>1. ASSUME NEW g \in DOMAIN groups, NEW i \in DOMAIN groups[g]
            PROVE  groups[g][i].node \in OnStack(x)
        <5>1. g \in 1..Len(groups)
          <6> DEFINE Y == Seq(ChildrenInReach)
          <6>1. groups \in Seq(Y) BY <2>4
          <6> HIDE DEF Y
          <6>2. QED BY <6>1, LenProperties
        <5>2. groups[g] \in Seq(ChildrenInReach) BY <2>4, <5>1, ElementOfSeq
        <5>3. i \in 1..Len(groups[g]) BY <5>2, LenProperties
        <5>4. QED BY <2>6, <2>8, <5>1, <5>3
      <4>2. QED BY <2>4, <4>1
    <3>6. Shown(x, node)
      <4>1. ASSUME NEW link \in ChatLinksIn(node)
            PROVE  NamedIn(x, link, node)
        <5>1. ChatTargetOf(link).scope # "none" BY DEF ChatLinksIn
        <5>2. Listed(told, link, item.path) BY <2>3, <3>1, <5>1 DEF Told
        <5>3. x.found = told.found BY <2>6 DEF PushesOn
        <5>4. Listed(x, link, item.path) BY <5>2, <5>3 DEF Listed
        <5>5. QED BY <1>4, <5>4 DEF Listed, NamedIn
      <4>2. QED BY <4>1 DEF Shown
    <3>7. Keeps(w, x)
      <4>1. begun.found = w.found BY <1>3, <1>6, <2>2
      <4>2. Keeps(begun, told) /\ x.found = told.found BY <2>3, <2>6 DEF Grew, PushesOn
      <4>3. QED BY <3>2, <4>1, <4>2 DEF Keeps
    <3>8. /\ chatInput.options.enabled => chatInput.root \in w.visited \cup OnStack(w)
          /\ \A other \in w.visited :
               ChildrenOf(other) \subseteq w.visited \cup OnStack(w) /\ Shown(w, other)
      BY <1>2, <3>2 DEF WalkAccounted
    <3>9. chatInput.options.enabled => chatInput.root \in x.visited \cup OnStack(x)
      BY <3>4, <3>8
    <3>10. ASSUME NEW other \in x.visited
           PROVE  ChildrenOf(other) \subseteq x.visited \cup OnStack(x) /\ Shown(x, other)
      <4>1. CASE other = node BY <3>5, <3>6, <4>1
      <4>2. CASE other \in w.visited
        <5>1. Shown(w, other) /\ ChildrenOf(other) \subseteq w.visited \cup OnStack(w)
          BY <3>8, <4>2
        <5>2. QED BY <3>4, <3>7, <5>1, ShownStays
      <4>3. QED BY <3>3, <4>1, <4>2
    <3>11. WalkAccounted(x) BY <3>9, <3>10 DEF WalkAccounted
    <3>12. QED BY <2>1, <2>6, <3>11
  <2>9. QED BY <2>7, <2>8
<1>9. QED BY <1>5, <1>7, <1>8

(* The walk starts with the root, or with nothing when it is not enabled.  *)
LEMMA ChatInitInv ==
  ASSUME ChatAssumption, ChatInit
  PROVE  ChatInv
<1> DEFINE w    == chatWalk
           item == ChatRoot(chatInput)
           name == chatInput.tree[chatInput.root].name
           label == [relationship |-> IF name = "" THEN "input" ELSE "self", index |-> 0,
                     name |-> name, number |-> 0]
<1>1. /\ chatInput \in ChatInputs
      /\ w = [stack |-> IF chatInput.options.enabled THEN <<item>> ELSE <<>>,
              visited |-> {}, found |-> <<>>, nodes |-> 0, scanned |-> 0, urls |-> 0,
              anonymous |-> 0, capped |-> [budget \in Budgets |-> 0], ended |-> FALSE]
  BY DEF ChatInit, ChatInitFrom
<1>2. chatInput.root \in ReachableMessages /\ chatInput.root \in DOMAIN chatInput.tree
  BY <1>1, Reach
<1>3. name \in STRING BY <1>1, <1>2 DEF ChatAssumption, ChatNode
<1>4. ChatLimits.scans \in Nat BY <1>1 DEF ChatAssumption, ChatLimits, LimitNames
<1>5. item = [node |-> chatInput.root, depth |-> 1, path |-> <<label>>] BY DEF ChatRoot
<1>6. label \in ChatLabels /\ label.name = name BY <1>3 DEF ChatLabels, Relationships
<1> HIDE DEF label, name, item, w
<1>7. item \in ChatItems /\ item.node = chatInput.root
  <2>1. <<label>> \in ChatPaths /\ Last(<<label>>) = label BY <1>6 DEF ChatPaths, Last
  <2>2. QED BY <1>2, <1>5, <1>6, <2>1 DEF ChatItems, name
<1>8. w \in ChatWalks
  <2> DEFINE stack == IF chatInput.options.enabled THEN <<item>> ELSE <<>>
  <2>1. stack \in Seq(ChatItems)
    <3> HIDE DEF ChatItems
    <3>1. <<item>> \in Seq(ChatItems) BY <1>7
    <3>2. QED BY <3>1
  <2> DEFINE C == ChatCandidates
  <2>2. <<>> \in Seq(C) OBVIOUS
  <2>3. [budget \in Budgets |-> 0] \in [Budgets -> Nat] OBVIOUS
  <2>4. 0 \in 0..ChatLimits.scans BY <1>4
  <2>5. w.ended = FALSE BY <1>1
  <2> HIDE DEF stack, C
  <2>6. w = [stack |-> stack, visited |-> {}, found |-> <<>>, nodes |-> 0, scanned |-> 0,
             urls |-> 0, anonymous |-> 0, capped |-> [budget \in Budgets |-> 0], ended |-> FALSE]
    BY <1>1 DEF stack
  <2>7. QED BY <2>1, <2>2, <2>3, <2>4, <2>5, <2>6 DEF ChatWalks, C
<1>9. WalkAccounted(w)
  <2>1. w.visited = {} BY <1>1
  <2>2. ASSUME chatInput.options.enabled
        PROVE  chatInput.root \in OnStack(w)
    <3>1. w.stack = <<item>> BY <1>1, <2>2
    <3>2. 1 \in DOMAIN w.stack /\ w.stack[1] = item BY <3>1
    <3>3. QED BY <1>7, <3>2 DEF OnStack
  <2>3. QED BY <2>1, <2>2 DEF WalkAccounted
<1>10. QED BY <1>1, <1>8, <1>9 DEF ChatInv, w

(* What a plan is asked for does not change while it is made.              *)
LEMMA SameInput ==
  ASSUME chatInput' = chatInput
  PROVE  ChatWalks' = ChatWalks /\ \A w : WalkAccounted(w)' = WalkAccounted(w)
<1>1. ReachableMessages' = ReachableMessages
  BY DEF ReachableMessages, ChildrenOf, TraversalChildren
<1>2. \A node : ChildrenOf(node)' = ChildrenOf(node) BY DEF ChildrenOf, TraversalChildren
<1>3. \A node : ChatLinksIn(node)' = ChatLinksIn(node)
  BY DEF ChatLinksIn, EntryAllowedByOptions
<1>4. LinksInReach' = LinksInReach BY <1>1, <1>3 DEF LinksInReach
<1>5. ChatCandidates' = ChatCandidates BY <1>4 DEF ChatCandidates
<1>6. ChatItems' = ChatItems BY <1>1 DEF ChatItems
<1>7. ChatLimits' = ChatLimits BY DEF ChatLimits
<1>8. ChatWalks' = ChatWalks BY <1>1, <1>5, <1>6, <1>7 DEF ChatWalks
<1>9. \A w : WalkAccounted(w)' = WalkAccounted(w)
  <2>1. \A w, node : Shown(w, node)' = Shown(w, node) BY <1>3 DEF Shown, NamedIn
  <2>2. QED BY <1>2, <2>1 DEF WalkAccounted
<1>10. QED BY <1>8, <1>9

(* Every step keeps the account.                                           *)
LEMMA ChatStep ==
  ASSUME ChatAssumption, ChatInv, [ChatNext]_chatVars
  PROVE  ChatInv'
<1>1. CASE VisitTraversalItem
  <2>1. chatWalk' \in ChatWalks /\ WalkAccounted(chatWalk') BY <1>1, VisitEffect
  <2>2. chatInput' = chatInput BY <1>1 DEF VisitTraversalItem
  <2>3. ChatWalks' = ChatWalks /\ WalkAccounted(chatWalk)' = WalkAccounted(chatWalk')
    <3>1. ChatWalks' = ChatWalks /\ \A w : WalkAccounted(w)' = WalkAccounted(w) BY <2>2, SameInput
    <3>2. QED BY <3>1
  <2>4. QED BY <2>1, <2>2, <2>3 DEF ChatInv
<1>2. CASE UNCHANGED chatVars
  <2>1. chatInput' = chatInput /\ chatWalk' = chatWalk BY <1>2 DEF chatVars
  <2>2. ChatWalks' = ChatWalks /\ WalkAccounted(chatWalk)' = WalkAccounted(chatWalk')
    <3>1. ChatWalks' = ChatWalks /\ \A w : WalkAccounted(w)' = WalkAccounted(w) BY <2>1, SameInput
    <3>2. QED BY <3>1
  <2>3. QED BY <2>1, <2>2 DEF ChatInv
<1>3. QED BY <1>1, <1>2 DEF ChatNext

(* Every candidate was made of a link in reach.                            *)
LEMMA FoundFor ==
  ASSUME ChatAssumption, ChatInv, NEW i \in DOMAIN chatWalk.found
  PROVE  \E link \in LinksInReach : chatWalk.found[i] \in CandidatesFor(link)
<1>1. chatWalk.found \in Seq(ChatCandidates) BY DEF ChatInv, ChatWalks
<1> DEFINE C == ChatCandidates
<1>2. chatWalk.found[i] \in C
  <2>1. chatWalk.found \in Seq(C) BY <1>1
  <2> HIDE DEF C
  <2>2. i \in 1..Len(chatWalk.found) BY <2>1, LenProperties
  <2>3. QED BY <2>1, <2>2, ElementOfSeq
<1>3. QED BY <1>2 DEF ChatCandidates

(* Every link in reach is a Chat link of the tree.                         *)
LEMMA LinksTyped ==
  ASSUME ChatAssumption, chatInput \in ChatInputs, NEW link \in LinksInReach
  PROVE  link \in ChatLink /\ ChatTargetOf(link).scope # "none"
<1>1. PICK node \in ReachableMessages : link \in ChatLinksIn(node) BY DEF LinksInReach
<1>2. node \in DOMAIN chatInput.tree BY <1>1, Reach
<1> DEFINE value == chatInput.tree[node]
           Matched == {l \in ChatLink : l.source = "matched_url"}
           Plain   == {l \in ChatLink : l.source = "plain_url" /\ l.url.size > 0}
<1>3. /\ value.links \in Seq(ChatLink) /\ value.annotations \in Seq(ChatLink)
      /\ value.matched \in Seq(Matched) /\ value.text \in Seq(Plain)
  BY <1>2 DEF ChatAssumption, ChatNode
<1>4. /\ link \in UNION {Range(value.links), Range(value.annotations),
                         Range(value.matched), Range(value.text)}
      /\ ChatTargetOf(link).scope # "none"
  BY <1>1 DEF ChatLinksIn
<1> HIDE DEF value
<1>5. /\ Range(value.links) \subseteq ChatLink /\ Range(value.annotations) \subseteq ChatLink
      /\ Range(value.matched) \subseteq Matched /\ Range(value.text) \subseteq Plain
  BY <1>3, OwnRange
<1>6. QED BY <1>4, <1>5

(* A read is planned of what each candidate points at, when there is one.  *)
LEMMA ReadPlanned ==
  ASSUME ChatAssumption, chatInput \in ChatInputs,
         NEW link \in LinksInReach, NEW candidate \in CandidatesFor(link)
  PROVE  /\ candidate.target.scope # "unknown" =>
              \E request \in RequestForCandidate(candidate) :
                request.of = ResourceFor(ChatTargetOf(link))
         /\ \A request \in RequestForCandidate(candidate) :
              SpacesNamed(link) = {SubSeq(request.of, 1, 2)}
<1> DEFINE target == ChatTargetOf(link)
           get  == [resource |-> "spaces.get", of |-> target.space, fields |-> FALSE]
           read == [resource |-> CacheRevalidateWith(candidate), of |-> ResourceFor(target),
                    fields |-> HasCacheHit(candidate)]
<1>1. candidate.target = target BY DEF CandidatesFor
<1>2. link \in ChatLink /\ target.scope # "none" BY LinksTyped
<1>3. CASE target.scope = "unknown"
  <2>1. RequestForCandidate(candidate) = {} BY <1>1, <1>3 DEF RequestForCandidate
  <2>2. QED BY <1>1, <1>3, <2>1
<1>4. CASE target.scope # "unknown"
  <2>1. /\ target.scope \in ScopesKnown
        /\ SpacesNamed(link) = {SubSeq(target.space, 1, 2)}
        /\ SpacesNamed(link) = {SubSeq(ResourceFor(target), 1, 2)}
    BY <1>2, <1>4, TargetInSpace
  <2>2. /\ RequestForCandidate(candidate) = IF read.resource = "none" THEN {get} ELSE {get, read}
    BY <1>1, <1>4 DEF RequestForCandidate
  <2>3. read.resource = "none" => target.space = ResourceFor(target)
    <3> HIDE DEF target
    <3>1. read.resource = "none" => target.scope = "space"
      BY <1>1, <2>1 DEF CacheRevalidateWith, ScopesKnown
    <3>2. QED BY <3>1 DEF ResourceFor
  <2>4. get.of = target.space /\ read.of = ResourceFor(target) OBVIOUS
  <2> HIDE DEF get, read, target
  <2>5. QED BY <2>1, <2>2, <2>3, <2>4 DEF target
<1>5. QED BY <1>3, <1>4

(* Links with one key point at the same.                                   *)
LEMMA SameKey ==
  ASSUME NEW link, NEW other, KeyOf(link) = KeyOf(other), ChatTargetOf(other).scope # "unknown"
  PROVE  ResourceFor(ChatTargetOf(link)) = ResourceFor(ChatTargetOf(other))
<1>1. KeyOf(other) = [resource |-> ResourceFor(ChatTargetOf(other)), unknown |-> {}]
  BY DEF KeyOf, DedupeKeyForCandidate
<1>2. CASE ChatTargetOf(link).scope = "unknown"
  <2>1. KeyOf(link).unknown # {} BY <1>2 DEF KeyOf, DedupeKeyForCandidate
  <2>2. QED BY <1>1, <2>1
<1>3. CASE ChatTargetOf(link).scope # "unknown"
  <2>1. KeyOf(link) = [resource |-> ResourceFor(ChatTargetOf(link)), unknown |-> {}]
    BY <1>3 DEF KeyOf, DedupeKeyForCandidate
  <2>2. KeyOf(link).resource = ResourceFor(ChatTargetOf(link)) BY <2>1
  <2>3. QED BY <1>1, <2>2
<1>4. QED BY <1>2, <1>3

(* When the stack is empty, what was visited holds the root and is closed: *)
(* it is all that is in reach.                                             *)
LEMMA NoneOmitted ==
  ASSUME ChatAssumption, ChatInv, chatWalk.stack = <<>>, chatInput.options.enabled,
         ~TraversalWasCapped
  PROVE  NothingOmitted
<1> DEFINE w == chatWalk
<1>1. chatInput \in ChatInputs /\ w \in ChatWalks /\ WalkAccounted(w) BY DEF ChatInv
<1>2. ~WasCapped(w) BY DEF WasCapped, TraversalWasCapped
<1>3. OnStack(w) = {} BY DEF OnStack
<1>4. /\ chatInput.root \in w.visited
      /\ \A node \in w.visited : ChildrenOf(node) \subseteq w.visited /\ Shown(w, node)
  BY <1>1, <1>2, <1>3 DEF WalkAccounted
<1>5. ReachableMessages \subseteq w.visited BY <1>1, <1>4, Reach
<1>6. ASSUME NEW node \in ReachableMessages, NEW link \in ChatLinksIn(node)
      PROVE  \E i \in DOMAIN chatWalk.found :
               LET candidate == chatWalk.found[i]
                   name == chatInput.tree[node].name
               IN /\ candidate.key = DedupeKeyForCandidate(link, ChatTargetOf(link))
                  /\ name # "" => \E j \in DOMAIN candidate.paths : Last(candidate.paths[j]).name = name
                  /\ PlanStatus = "ready" =>
                       \E request \in DedupedRequests : request.of = ResourceFor(ChatTargetOf(link))
  <2>1. NamedIn(w, link, node) BY <1>4, <1>5 DEF Shown
  <2>2. PICK i \in DOMAIN w.found :
          /\ w.found[i].key = KeyOf(link)
          /\ \E path \in Range(w.found[i].paths) : Last(path).name = chatInput.tree[node].name
    BY <2>1 DEF NamedIn
  <2> DEFINE candidate == w.found[i]
  <2>3. \E j \in DOMAIN candidate.paths : Last(candidate.paths[j]).name = chatInput.tree[node].name
    BY <2>2 DEF Range
  <2>4. candidate.key = DedupeKeyForCandidate(link, ChatTargetOf(link)) BY <2>2 DEF KeyOf
  <2>5. ASSUME PlanStatus = "ready"
        PROVE  \E request \in DedupedRequests : request.of = ResourceFor(ChatTargetOf(link))
    <3>1. PICK other \in LinksInReach : candidate \in CandidatesFor(other) BY <1>1, FoundFor
    <3>2. /\ candidate.target.scope # "unknown"
          /\ chatInput.options.authMode \in {"user", "app"}
      BY <2>5 DEF PlanStatus
    <3>3. candidate.key = KeyOf(other) /\ candidate.target = ChatTargetOf(other)
      BY <3>1 DEF CandidatesFor
    <3>4. ResourceFor(ChatTargetOf(link)) = ResourceFor(ChatTargetOf(other))
      BY <2>2, <3>2, <3>3, SameKey
    <3>5. PICK request \in RequestForCandidate(candidate) : request.of = ResourceFor(ChatTargetOf(other))
      BY <1>1, <3>1, <3>2, ReadPlanned
    <3>6. request \in DedupedRequests BY <3>2 DEF DedupedRequests
    <3>7. QED BY <3>4, <3>5, <3>6
  <2>6. QED BY <2>3, <2>4, <2>5
<1>7. QED BY <1>6 DEF NothingOmitted

(* Every read planned is of a link in reach.                               *)
LEMMA NoneStray ==
  ASSUME ChatAssumption, ChatInv
  PROVE  NothingStray
<1>1. ASSUME NEW request \in DedupedRequests
      PROVE  \E node \in ReachableMessages : \E link \in ChatLinksIn(node) :
               SpacesNamed(link) = {SubSeq(request.of, 1, 2)}
  <2>1. PICK i \in DOMAIN chatWalk.found : request \in RequestForCandidate(chatWalk.found[i])
    BY DEF DedupedRequests
  <2>2. PICK link \in LinksInReach : chatWalk.found[i] \in CandidatesFor(link) BY FoundFor
  <2>3. SpacesNamed(link) = {SubSeq(request.of, 1, 2)}
    BY <2>1, <2>2, ReadPlanned DEF ChatInv
  <2>4. QED BY <2>3 DEF LinksInReach
<1>2. QED BY <1>1 DEF NothingStray

---------------------------------------------------------------------------
(* The walk for Drive links, as a set its steps stay in.                   *)
DriveNodes == DOMAIN DriveTree

DriveNames == STRING \cup {""}

DriveRelations == STRING \cup {"", "quoted_message", "thread_history"}

DriveLabels == [relationship : DriveRelations, name : DriveNames, number : Nat]

DrivePaths == Seq(DriveLabels)

DriveVisits ==
  {visit \in [node : DriveNodes, fresh : BOOLEAN, relationship : DriveRelations,
              path : DrivePaths, depth : Nat, leaves : BOOLEAN] :
     visit.fresh => ~IsHolder(DriveTree[visit.node])}

DriveEntries == [path : DrivePaths, link : DriveLink]

DriveWalks ==
  [agenda : Seq(DriveVisits), found : Seq(DriveEntries), nodes : Nat,
   scanned : 0..DriveLimits.scans, urls : 0..DriveLimits.urls, anonymous : Nat,
   capped : [DriveLimitsHit -> Nat]]

Truncated(w) == \E limit \in DriveLimitsHit : w.capped[limit] > 0

DriveGrew(w, x) ==
  /\ x.agenda = w.agenda
  /\ Truncated(w) => Truncated(x)
  /\ \A i \in DOMAIN w.found : i \in DOMAIN x.found /\ x.found[i] = w.found[i]

(* A link is told of: its URL is listed with the path, or a limit was hit. *)
DriveTold(w, link, path) ==
  Truncated(w) \/
    \E i \in DOMAIN w.found : w.found[i].path = path /\ w.found[i].link.url = link.url

(* A walk only grows: what was told stays told.                            *)
LEMMA DriveGrewOn ==
  ASSUME NEW w
  PROVE  /\ DriveGrew(w, w)
         /\ \A x, y : DriveGrew(w, x) /\ DriveGrew(x, y) => DriveGrew(w, y)
         /\ \A x, link, path : DriveGrew(w, x) /\ DriveTold(w, link, path) => DriveTold(x, link, path)
<1>1. DriveGrew(w, w) BY DEF DriveGrew
<1>2. ASSUME NEW x, NEW y, DriveGrew(w, x), DriveGrew(x, y)
      PROVE  DriveGrew(w, y)
  BY <1>2 DEF DriveGrew
<1>3. ASSUME NEW x, NEW link, NEW path, DriveGrew(w, x), DriveTold(w, link, path)
      PROVE  DriveTold(x, link, path)
  BY <1>3 DEF DriveGrew, DriveTold
<1>4. QED BY <1>1, <1>2, <1>3

(* A count of what was left out says that the walk is truncated.           *)
LEMMA DriveCapEffect ==
  ASSUME NEW w \in DriveWalks, NEW limit \in DriveLimitsHit, NEW count \in Nat
  PROVE  LET x == DriveCap(w, limit, count) IN
         /\ x \in DriveWalks /\ DriveGrew(w, x) /\ (count > 0 => Truncated(x))
         /\ x.scanned = w.scanned /\ x.urls = w.urls
<1> DEFINE x == DriveCap(w, limit, count)
<1>1. /\ w.capped \in [DriveLimitsHit -> Nat]
      /\ x = [w EXCEPT !.capped = [w.capped EXCEPT ![limit] = @ + count]]
  BY DEF DriveCap, DriveWalks
<1>2. /\ x.capped \in [DriveLimitsHit -> Nat]
      /\ x.capped[limit] = w.capped[limit] + count
      /\ \A l \in DriveLimitsHit : x.capped[l] >= w.capped[l]
      /\ x.agenda = w.agenda /\ x.found = w.found /\ x.scanned = w.scanned /\ x.urls = w.urls
  BY <1>1 DEF DriveWalks
<1>3. x \in DriveWalks BY <1>1, <1>2 DEF DriveWalks
<1>4. Truncated(w) => Truncated(x) BY <1>1, <1>2 DEF Truncated
<1>5. count > 0 => Truncated(x) BY <1>1, <1>2 DEF Truncated
<1>6. QED BY <1>2, <1>3, <1>4, <1>5 DEF DriveGrew

(* An allowed link is told of once it was added.                           *)
LEMMA DriveAddEffect ==
  ASSUME NEW w \in DriveWalks, NEW link \in DriveLink, NEW path \in DrivePaths
  PROVE  LET x == AddAllowedDriveLink(w, link, path) IN
         /\ x \in DriveWalks /\ DriveGrew(w, x)
         /\ DriveSourceAllowed(link) => DriveTold(x, link, path)
<1> DEFINE x     == AddAllowedDriveLink(w, link, path)
           entry == [path |-> path, link |-> link]
           known == \E i \in DOMAIN w.found : w.found[i].path = path /\ w.found[i].link.url = link.url
           n     == Len(w.found)
           E     == DriveEntries
<1>1. CASE ~DriveSourceAllowed(link)
  <2>1. x = w BY <1>1 DEF AddAllowedDriveLink
  <2>2. QED BY <1>1, <2>1, DriveGrewOn
<1>2. CASE DriveSourceAllowed(link) /\ n >= DriveLimits.links
  <2>1. x = DriveCap(w, "links", 1) BY <1>2 DEF AddAllowedDriveLink, AddDriveLinkEntry
  <2>2. QED BY <2>1, DriveCapEffect DEF DriveLimitsHit, DriveTold
<1>3. CASE DriveSourceAllowed(link) /\ ~(n >= DriveLimits.links) /\ known
  <2>1. x = w BY <1>3 DEF AddAllowedDriveLink, AddDriveLinkEntry
  <2>2. QED BY <1>3, <2>1, DriveGrewOn DEF DriveTold
<1>4. CASE DriveSourceAllowed(link) /\ ~(n >= DriveLimits.links) /\ ~known
  <2>1. x = [w EXCEPT !.found = Append(@, entry)] BY <1>4 DEF AddAllowedDriveLink, AddDriveLinkEntry
  <2>2. w.found \in Seq(E) /\ n \in Nat /\ DOMAIN w.found = 1..n
    BY LenProperties DEF DriveWalks
  <2>3. entry \in E /\ entry.path = path /\ entry.link = link BY DEF DriveEntries
  <2> HIDE DEF entry, E
  <2>4. /\ Append(w.found, entry) \in Seq(E) /\ Len(Append(w.found, entry)) = n + 1
        /\ \A i \in 1..n : Append(w.found, entry)[i] = w.found[i]
        /\ Append(w.found, entry)[n + 1] = entry
    BY <2>2, <2>3, AppendProperties
  <2>5. x.found = Append(w.found, entry) /\ x.agenda = w.agenda /\ x.capped = w.capped
    BY <2>1 DEF DriveWalks
  <2>6. DOMAIN x.found = 1..(n + 1) /\ n + 1 \in 1..(n + 1)
    BY <2>2, <2>4, <2>5, LenProperties
  <2>7. x \in DriveWalks BY <2>1, <2>4, <2>5 DEF DriveWalks, E
  <2>8. \A i \in 1..n : i \in 1..(n + 1) /\ x.found[i] = w.found[i] BY <2>2, <2>4, <2>5
  <2>9. DriveGrew(w, x) BY <2>2, <2>5, <2>6, <2>8 DEF DriveGrew, Truncated
  <2>10. DriveTold(x, link, path) BY <2>3, <2>4, <2>5, <2>6 DEF DriveTold
  <2>11. QED BY <2>7, <2>9, <2>10
<1>5. QED BY <1>1, <1>2, <1>3, <1>4

(* The links of one list.                                                  *)
LEMMA DriveEntriesEffect ==
  ASSUME NEW w \in DriveWalks, NEW links \in Seq(DriveLink), NEW path \in DrivePaths
  PROVE  LET x == CollectDriveEntries(w, links, path) IN
         /\ x \in DriveWalks /\ DriveGrew(w, x)
         /\ \A i \in 1..Len(links) : DriveSourceAllowed(links[i]) => DriveTold(x, links[i], path)
<1> DEFINE n == Len(links)
           X == DriveWalks
           IsAdded(f) == f = [i \in 0..n |-> IF i = 0 THEN w
                                ELSE AddAllowedDriveLink(f[i - 1], links[i], path)]
           added == CHOOSE f : IsAdded(f)
           F == [i \in 1..n |-> [y \in X |-> AddAllowedDriveLink(y, links[i], path)]]
           R == {p \in X \X X : DriveGrew(p[1], p[2])}
<1>1. /\ n \in Nat /\ (\A i \in 1..n : links[i] \in DriveLink)
      /\ (\A i \in 1..n : i - 1 \in 0..n /\ i \in 0..n /\ i # 0) /\ n \in 0..n /\ 0 \in 0..n
  BY LenProperties, ElementOfSeq
<1>2. CollectDriveEntries(w, links, path) = added[n] BY DEF CollectDriveEntries
<1>3. \A i \in 1..n, y \in X :
        LET z == AddAllowedDriveLink(y, links[i], path) IN
        z \in X /\ DriveGrew(y, z) /\ (DriveSourceAllowed(links[i]) => DriveTold(z, links[i], path))
  BY <1>1, DriveAddEffect
<1>4. /\ F \in [1..n -> [X -> X]]
      /\ \A i \in 1..n, y \in X : F[i][y] = AddAllowedDriveLink(y, links[i], path)
  BY <1>3
<1>5. /\ \A y \in X : <<y, y>> \in R
      /\ \A x \in X, y \in X, z \in X : <<x, y>> \in R /\ <<y, z>> \in R => <<x, z>> \in R
      /\ \A p \in R : DriveGrew(p[1], p[2])
  BY DriveGrewOn
<1>6. \A i \in 1..n, y \in X : <<y, F[i][y]>> \in R BY <1>3, <1>4
<1> HIDE DEF F, R
<1>7. IsAdded(added)
  <2>1. PICK g \in [0..n -> X] : LeadsOn(g, w, n, F) BY <1>1, <1>4, Iterated
  <2>2. \A i \in 1..n : g[i] = AddAllowedDriveLink(g[i - 1], links[i], path)
    BY <1>1, <1>4, <2>1 DEF LeadsOn
  <2>3. \A i \in 0..n : i # 0 => i \in 1..n BY <1>1
  <2>4. IsAdded(g) BY <2>1, <2>2, <2>3 DEF LeadsOn
  <2>5. QED BY <2>4
<1> HIDE DEF added
<1>8. added[0] = w /\ \A i \in 1..n : added[i] = AddAllowedDriveLink(added[i - 1], links[i], path)
  <2>1. \A i \in 0..n :
          added[i] = IF i = 0 THEN w ELSE AddAllowedDriveLink(added[i - 1], links[i], path)
    BY <1>7, Zenon
  <2>2. QED BY <1>1, <2>1, Zenon
<1> DEFINE Sofar == {i \in 0..n : added[i] \in X}
<1>9. \A i \in 0..n : added[i] \in X
  <2>1. 0 \in Sofar BY <1>1, <1>8
  <2>2. ASSUME NEW i \in 1..n, i - 1 \in Sofar
        PROVE  i \in Sofar
    BY <1>1, <1>3, <1>8, <2>2
  <2> HIDE DEF Sofar
  <2>3. 0..n \subseteq Sofar BY <1>1, <2>1, <2>2, UpTo
  <2>4. QED BY <2>3 DEF Sofar
<1>10. LeadsOn(added, w, n, F) BY <1>1, <1>4, <1>8, <1>9 DEF LeadsOn
<1>11. \A i \in 0..n : <<added[i], added[n]>> \in R
  <2>1. w \in X /\ n \in Nat /\ F \in [1..n -> [X -> X]] BY <1>1, <1>4
  <2>2. \A y \in X : <<y, y>> \in R BY <1>5
  <2>3. \A x \in X, y \in X, z \in X : <<x, y>> \in R /\ <<y, z>> \in R => <<x, z>> \in R
    BY <1>5
  <2> HIDE DEF X, n
  <2>4. QED BY <1>6, <1>10, <2>1, <2>2, <2>3, Followed
<1>12. \A i \in 0..n : DriveGrew(added[i], added[n]) BY <1>5, <1>11
<1>13. ASSUME NEW i \in 1..n, DriveSourceAllowed(links[i])
       PROVE  DriveTold(added[n], links[i], path)
  <2>1. DriveTold(added[i], links[i], path) BY <1>1, <1>3, <1>8, <1>9, <1>13
  <2>2. QED BY <1>1, <1>12, <2>1, DriveGrewOn
<1>14. QED BY <1>1, <1>2, <1>8, <1>9, <1>12, <1>13

(* The limits of a plan are numbers.                                       *)
LEMMA DriveLimitShape ==
  ASSUME driveInput \in DriveInputs
  PROVE  \A name \in DriveLimitNames : DriveLimits[name] \in Nat
<1>1. driveInput.limits \in [DriveLimitNames -> Nat] BY DriveAssumption
<1>2. QED BY <1>1 DEF DriveLimits

(* The front of a list is a list.                                          *)
LEMMA FrontOf ==
  ASSUME NEW S, NEW s \in Seq(S), NEW room \in 0..Len(s)
  PROVE  /\ SubSeq(s, 1, room) \in Seq(S) /\ Len(SubSeq(s, 1, room)) = room
         /\ \A i \in 1..room : SubSeq(s, 1, room)[i] = s[i]
<1>1. Len(s) \in Nat /\ \A i \in 1..Len(s) : s[i] \in S BY LenProperties, ElementOfSeq
<1>2. room \in Nat /\ 1 \in Int /\ room \in Int /\ \A i \in 1..room : s[i] \in S
  BY <1>1
<1>3. /\ SubSeq(s, 1, room) \in Seq(S)
      /\ Len(SubSeq(s, 1, room)) = IF 1 <= room THEN (room - 1) + 1 ELSE 0
      /\ \A i \in 1..((room - 1) + 1) : SubSeq(s, 1, room)[i] = s[(1 + i) - 1]
  BY <1>2, SubSeqProperties
<1>4. /\ (IF 1 <= room THEN (room - 1) + 1 ELSE 0) = room /\ (room - 1) + 1 = room
      /\ \A i \in 1..room : (1 + i) - 1 = i
  BY <1>2
<1>5. QED BY <1>3, <1>4

(* The links of one list, as far as there is a budget for them.            *)
LEMMA DriveFrontEffect ==
  ASSUME NEW w \in DriveWalks, NEW links \in Seq(DriveLink), NEW path \in DrivePaths,
         NEW room \in 0..Len(links), room < Len(links) => Truncated(w)
  PROVE  LET x == CollectDriveEntries(w, SubSeq(links, 1, room), path) IN
         /\ x \in DriveWalks /\ DriveGrew(w, x)
         /\ \A i \in 1..Len(links) : DriveSourceAllowed(links[i]) => DriveTold(x, links[i], path)
<1> DEFINE x == CollectDriveEntries(w, SubSeq(links, 1, room), path)
           front == SubSeq(links, 1, room)
<1>1. front \in Seq(DriveLink) /\ Len(front) = room /\ \A i \in 1..room : front[i] = links[i]
  BY FrontOf
<1>2. Len(links) \in Nat BY LenProperties
<1> HIDE DEF front
<1>3. /\ CollectDriveEntries(w, front, path) \in DriveWalks
      /\ DriveGrew(w, CollectDriveEntries(w, front, path))
      /\ \A i \in 1..Len(front) : DriveSourceAllowed(front[i]) =>
           DriveTold(CollectDriveEntries(w, front, path), front[i], path)
  BY <1>1, DriveEntriesEffect
<1>4. x \in DriveWalks /\ DriveGrew(w, x) BY <1>3 DEF front
<1>5. \A i \in 1..room : DriveSourceAllowed(links[i]) => DriveTold(x, links[i], path)
  BY <1>1, <1>3 DEF front
<1> HIDE DEF x
<1>6. ASSUME NEW i \in 1..Len(links), DriveSourceAllowed(links[i])
      PROVE  DriveTold(x, links[i], path)
  <2>1. CASE i \in 1..room BY <1>5, <1>6, <2>1
  <2>2. CASE i \notin 1..room
    <3>1. room < Len(links) BY <1>2, <2>2
    <3>2. QED BY <1>4, <3>1 DEF DriveGrew, DriveTold
  <2>3. QED BY <2>1, <2>2
<1>7. QED BY <1>4, <1>6 DEF x

(* Links and annotations are read under one budget.                        *)
LEMMA DriveLinksEffect ==
  ASSUME driveInput \in DriveInputs,
         NEW w \in DriveWalks, NEW links \in Seq(DriveLink), NEW path \in DrivePaths
  PROVE  LET x == CollectDriveLinks(w, links, path) IN
         /\ x \in DriveWalks /\ DriveGrew(w, x)
         /\ \A i \in 1..Len(links) : DriveSourceAllowed(links[i]) => DriveTold(x, links[i], path)
<1> DEFINE left == DriveLimits.scans - w.scanned
           room == IF Len(links) <= left THEN Len(links) ELSE left
           capped == DriveCap(w, "scans", Len(links) - room)
           scanned == [capped EXCEPT !.scanned = @ + room]
<1>1. /\ DriveLimits.scans \in Nat /\ w.scanned \in 0..DriveLimits.scans /\ Len(links) \in Nat
  BY DriveLimitShape, LenProperties DEF DriveLimitNames, DriveWalks
<1>2. /\ room \in 0..Len(links) /\ w.scanned + room \in 0..DriveLimits.scans
      /\ Len(links) - room \in Nat /\ (room < Len(links) => Len(links) - room > 0)
  BY <1>1
<1> HIDE DEF room, left
<1>3. /\ capped \in DriveWalks /\ DriveGrew(w, capped)
      /\ (room < Len(links) => Truncated(capped)) /\ capped.scanned = w.scanned
  BY <1>2, DriveCapEffect DEF DriveLimitsHit
<1> HIDE DEF capped
<1>4. /\ scanned \in DriveWalks /\ DriveGrew(w, scanned)
      /\ (room < Len(links) => Truncated(scanned))
  <2>1. /\ scanned.agenda = capped.agenda /\ scanned.found = capped.found
        /\ scanned.capped = capped.capped
    BY <1>3 DEF DriveWalks
  <2>2. scanned \in DriveWalks BY <1>2, <1>3 DEF DriveWalks
  <2>3. DriveGrew(w, scanned) BY <1>3, <2>1 DEF DriveGrew, Truncated
  <2>4. QED BY <1>3, <2>1, <2>2, <2>3 DEF Truncated
<1>5. CollectDriveLinks(w, links, path) =
        CollectDriveEntries(scanned, SubSeq(links, 1, room), path)
  BY DEF CollectDriveLinks, room, left, capped
<1> HIDE DEF scanned
<1> DEFINE x == CollectDriveEntries(scanned, SubSeq(links, 1, room), path)
<1>6. /\ x \in DriveWalks /\ DriveGrew(scanned, x)
      /\ \A i \in 1..Len(links) : DriveSourceAllowed(links[i]) => DriveTold(x, links[i], path)
  BY <1>2, <1>4, DriveFrontEffect
<1> HIDE DEF x
<1>7. DriveGrew(w, x) BY <1>4, <1>6, DriveGrewOn
<1>8. QED BY <1>5, <1>6, <1>7 DEF x

(* The URLs of a text are read under a budget of their own.                *)
LEMMA DriveTextEffect ==
  ASSUME driveInput \in DriveInputs,
         NEW w \in DriveWalks, NEW text \in Seq(DriveLink), NEW path \in DrivePaths
  PROVE  LET x == CollectPlainTextDriveUrls(w, text, path) IN
         /\ x \in DriveWalks /\ DriveGrew(w, x)
         /\ \A i \in 1..Len(text) : DriveSourceAllowed(text[i]) => DriveTold(x, text[i], path)
<1> DEFINE left == DriveLimits.urls - w.urls
           room == IF Len(text) <= left THEN Len(text) ELSE left
           over == IF room < Len(text) THEN 1 ELSE 0
           capped == DriveCap(w, "urls", over)
           read == [capped EXCEPT !.urls = @ + room]
<1>1. /\ DriveLimits.urls \in Nat /\ w.urls \in 0..DriveLimits.urls /\ Len(text) \in Nat
  BY DriveLimitShape, LenProperties DEF DriveLimitNames, DriveWalks
<1>2. room \in 0..Len(text) /\ w.urls + room \in 0..DriveLimits.urls BY <1>1
<1> HIDE DEF room, left
<1>3. over \in Nat /\ (room < Len(text) => over > 0) OBVIOUS
<1> HIDE DEF over
<1>4. /\ capped \in DriveWalks /\ DriveGrew(w, capped)
      /\ (room < Len(text) => Truncated(capped)) /\ capped.urls = w.urls
  BY <1>3, DriveCapEffect DEF DriveLimitsHit
<1> HIDE DEF capped
<1>5. /\ read \in DriveWalks /\ DriveGrew(w, read)
      /\ (room < Len(text) => Truncated(read))
  <2>1. /\ read.agenda = capped.agenda /\ read.found = capped.found
        /\ read.capped = capped.capped
    BY <1>4 DEF DriveWalks
  <2>2. read \in DriveWalks BY <1>2, <1>4 DEF DriveWalks
  <2>3. DriveGrew(w, read) BY <1>4, <2>1 DEF DriveGrew, Truncated
  <2>4. QED BY <1>4, <2>1, <2>2, <2>3 DEF Truncated
<1>6. CollectPlainTextDriveUrls(w, text, path) =
        CollectDriveEntries(read, SubSeq(text, 1, room), path)
  BY DEF CollectPlainTextDriveUrls, room, left, over, capped
<1> HIDE DEF read
<1> DEFINE x == CollectDriveEntries(read, SubSeq(text, 1, room), path)
<1>7. /\ x \in DriveWalks /\ DriveGrew(read, x)
      /\ \A i \in 1..Len(text) : DriveSourceAllowed(text[i]) => DriveTold(x, text[i], path)
  BY <1>2, <1>5, DriveFrontEffect
<1> HIDE DEF x
<1>8. DriveGrew(w, x) BY <1>5, <1>7, DriveGrewOn
<1>9. QED BY <1>6, <1>7, <1>8 DEF x

(* What is known of a record of the walk's tree.                           *)
DriveShape(raw) ==
  /\ raw.links \in Seq(DriveLink) /\ raw.annotations \in Seq(DriveLink)
  /\ raw.matched \in Seq(DriveLink)
  /\ raw.text \in Seq({link \in DriveLink : link.source = "plain_url"})
  /\ raw.message \in Seq(DriveNodes) /\ raw.context \in Seq(DriveNodes)
  /\ raw.children \in Seq(DriveNodes) /\ raw.quotedMessages \in Seq(DriveNodes)
  /\ raw.threadHistory \in Seq(DriveNodes) /\ raw.quotedMessage \in Seq(DriveNodes)
  /\ raw.contextNode \in Seq(DriveNodes)
  /\ raw.name \in DriveNames /\ raw.relationship \in DriveRelations
  /\ raw.context # <<>> => raw.wrapper
  /\ Len(raw.message) <= 1 /\ \A other \in MessagesIn(raw) : ~IsHolder(DriveTree[other])
  /\ IsHolder(raw) => raw.name = "" /\ {raw.annotations, raw.matched, raw.text} = {<<>>}
  /\ raw.wrapper => raw.name = ""

(* The tree of a walk has such records, and its root is one of them.       *)
LEMMA DriveRecordShape ==
  ASSUME driveInput \in DriveInputs
  PROVE  /\ WalkRoot \in DriveNodes /\ IsFiniteSet(DriveNodes)
         /\ \A node \in DriveNodes : DriveShape(DriveTree[node])
<1> DEFINE tree == driveInput.tree
           D == DOMAIN tree
           Link == DriveLink
           Plain == {link \in Link : link.source = "plain_url"}
           N == DriveNodes
<1>1. /\ IsFiniteSet(D) /\ "sourceInput" \notin D /\ driveInput.root \in D
      /\ DriveTreeOf(tree)
  BY DriveAssumption
<1>2. N = D \cup {WalkRoot} BY DEF DriveNodes, DriveTree
<1>3. IsFiniteSet(N) BY <1>1, <1>2, FS_AddElement
<1>4. WalkRoot = driveInput.root \/ WalkRoot = "sourceInput" BY DEF WalkRoot
<1>5. /\ \A node \in D : DriveTree[node] = tree[node]
      /\ "sourceInput" \in N =>
           DriveTree["sourceInput"] = [tree[driveInput.root] EXCEPT !.wrapper = TRUE, !.name = ""]
  BY <1>1, <1>2 DEF DriveTree
<1>6. \A node \in N : node \in D \/ node = "sourceInput" BY <1>1, <1>2, <1>4
<1>7. ASSUME NEW node \in D
      PROVE  LET raw == tree[node] IN
             /\ raw \in DriveRecord(D)
             /\ raw.context # <<>> => raw.wrapper
             /\ Len(raw.message) <= 1 /\ \A other \in MessagesIn(raw) : ~IsHolder(tree[other])
             /\ IsHolder(raw) => raw.name = "" /\ {raw.annotations, raw.matched, raw.text} = {<<>>}
             /\ raw.wrapper => raw.name = ""
  BY <1>1 DEF DriveTreeOf
<1>8. ASSUME NEW s \in Seq(D)
      PROVE  s \in Seq(N) /\ Range(s) \subseteq D
  <2>1. Len(s) \in Nat /\ DOMAIN s = 1..Len(s) /\ \A i \in 1..Len(s) : s[i] \in D
    BY LenProperties, ElementOfSeq
  <2>2. s \in Seq(N) BY <1>2
  <2>3. QED BY <2>1, <2>2 DEF Range
<1> HIDE DEF N, D, tree, Link
<1>9. ASSUME NEW raw \in DriveRecord(D)
      PROVE  /\ raw.links \in Seq(Link) /\ raw.annotations \in Seq(Link)
             /\ raw.matched \in Seq(Link) /\ raw.text \in Seq(Plain)
             /\ raw.message \in Seq(N) /\ raw.context \in Seq(N)
             /\ raw.children \in Seq(N) /\ raw.quotedMessages \in Seq(N)
             /\ raw.threadHistory \in Seq(N) /\ raw.quotedMessage \in Seq(N)
             /\ raw.contextNode \in Seq(N)
             /\ raw.name \in DriveNames /\ raw.relationship \in DriveRelations
             /\ MessagesIn(raw) \subseteq D
  <2>1. /\ raw.links \in Seq(Link) /\ raw.annotations \in Seq(Link)
        /\ raw.matched \in Seq(Link) /\ raw.text \in Seq(Plain)
        /\ raw.name \in DriveNames /\ raw.relationship \in DriveRelations
    BY DEF DriveRecord, Link, DriveNames, DriveRelations
  <2>2. /\ raw.message \in Seq(D) /\ raw.context \in Seq(D)
        /\ raw.children \in Seq(D) /\ raw.quotedMessages \in Seq(D)
        /\ raw.threadHistory \in Seq(D) /\ raw.quotedMessage \in Seq(D)
        /\ raw.contextNode \in Seq(D)
    BY DEF DriveRecord
  <2>3. MessagesIn(raw) \subseteq D
    <3>1. /\ Range(raw.message) \subseteq D /\ Range(raw.quotedMessages) \subseteq D
          /\ Range(raw.threadHistory) \subseteq D /\ Range(raw.quotedMessage) \subseteq D
      BY <1>8, <2>2
    <3>2. QED BY <3>1 DEF MessagesIn
  <2>4. QED BY <1>8, <2>1, <2>2, <2>3
<1>10. ASSUME NEW node \in D
       PROVE  DriveShape(tree[node])
  <2> DEFINE raw == tree[node]
  <2>1. /\ raw \in DriveRecord(D)
        /\ raw.context # <<>> => raw.wrapper
        /\ Len(raw.message) <= 1 /\ \A other \in MessagesIn(raw) : ~IsHolder(tree[other])
        /\ IsHolder(raw) => raw.name = "" /\ {raw.annotations, raw.matched, raw.text} = {<<>>}
        /\ raw.wrapper => raw.name = ""
    BY <1>7
  <2> HIDE DEF raw
  <2>2. /\ raw.links \in Seq(Link) /\ raw.annotations \in Seq(Link)
        /\ raw.matched \in Seq(Link) /\ raw.text \in Seq(Plain)
        /\ raw.message \in Seq(N) /\ raw.context \in Seq(N)
        /\ raw.children \in Seq(N) /\ raw.quotedMessages \in Seq(N)
        /\ raw.threadHistory \in Seq(N) /\ raw.quotedMessage \in Seq(N)
        /\ raw.contextNode \in Seq(N)
        /\ raw.name \in DriveNames /\ raw.relationship \in DriveRelations
        /\ MessagesIn(raw) \subseteq D
    BY <1>9, <2>1
  <2>3. \A other \in MessagesIn(raw) : ~IsHolder(DriveTree[other]) BY <1>5, <2>1, <2>2
  <2>4. DriveShape(raw) BY <2>1, <2>2, <2>3 DEF DriveShape, N, Link
  <2>5. QED BY <2>4 DEF raw
<1>11. ASSUME "sourceInput" \in N
       PROVE  DriveShape(DriveTree["sourceInput"])
  <2> DEFINE old == tree[driveInput.root]
             raw == [old EXCEPT !.wrapper = TRUE, !.name = ""]
  <2>1. DriveShape(old) /\ old \in DriveRecord(D) BY <1>1, <1>7, <1>10 DEF tree, D
  <2> HIDE DEF old
  <2>2. /\ raw.links = old.links /\ raw.annotations = old.annotations
        /\ raw.matched = old.matched /\ raw.text = old.text
        /\ raw.message = old.message /\ raw.context = old.context
        /\ raw.children = old.children /\ raw.quotedMessages = old.quotedMessages
        /\ raw.threadHistory = old.threadHistory /\ raw.quotedMessage = old.quotedMessage
        /\ raw.contextNode = old.contextNode /\ raw.relationship = old.relationship
        /\ raw.name = "" /\ raw.wrapper
    BY <2>1 DEF DriveRecord
  <2> HIDE DEF raw
  <2>3. MessagesIn(raw) = MessagesIn(old) /\ (IsHolder(raw) <=> IsHolder(old)) BY <2>2 DEF MessagesIn, IsHolder
  <2>4. DriveShape(raw) BY <2>1, <2>2, <2>3 DEF DriveShape, DriveNames
  <2>5. DriveTree["sourceInput"] = raw BY <1>5, <1>11 DEF raw, old, tree
  <2>6. QED BY <2>4, <2>5
<1>12. \A node \in N : DriveShape(DriveTree[node]) BY <1>5, <1>6, <1>10, <1>11
<1>13. QED BY <1>2, <1>3, <1>12 DEF N

(* The records a walk still has to visit.                                  *)
Awaited(agenda) == {agenda[i].node : i \in {j \in DOMAIN agenda : ~agenda[j].leaves}}

(* Agendas that are put together await what each does.                     *)
LEMMA AwaitedOfJoined ==
  ASSUME NEW s \in Seq(DriveVisits), NEW t \in Seq(DriveVisits)
  PROVE  s \o t \in Seq(DriveVisits) /\ Awaited(s \o t) = Awaited(s) \cup Awaited(t)
<1>1. Range(s) \cup Range(t) = Range(s \o t) BY RangeJoined
<1>2. \A r : Awaited(r) = {visit.node : visit \in {v \in Range(r) : ~v.leaves}}
  BY DEF Awaited, Range
<1>3. s \o t \in Seq(DriveVisits) BY ConcatProperties
<1>4. QED BY <1>1, <1>2, <1>3

(* Visits made of the nodes of a list await all of them.                   *)
LEMMA AwaitedOfNodes ==
  ASSUME NEW nodes \in Seq(DriveNodes), NEW fresh \in BOOLEAN,
         NEW relationship \in DriveRelations, NEW path \in DrivePaths, NEW depth \in Nat,
         fresh => \A node \in Range(nodes) : ~IsHolder(DriveTree[node])
  PROVE  LET visits == [i \in DOMAIN nodes |->
                          DriveVisit(nodes[i], fresh, relationship, path, depth)]
         IN visits \in Seq(DriveVisits) /\ Awaited(visits) = Range(nodes)
<1> DEFINE visits == [i \in DOMAIN nodes |->
                        DriveVisit(nodes[i], fresh, relationship, path, depth)]
<1>1. /\ Len(nodes) \in Nat /\ DOMAIN nodes = 1..Len(nodes)
      /\ \A i \in 1..Len(nodes) : nodes[i] \in DriveNodes /\ nodes[i] \in Range(nodes)
  <2>1. Len(nodes) \in Nat /\ DOMAIN nodes = 1..Len(nodes) BY LenProperties
  <2>2. \A i \in 1..Len(nodes) : nodes[i] \in DriveNodes BY ElementOfSeq
  <2>3. QED BY <2>1, <2>2 DEF Range
<1>2. ASSUME NEW i \in 1..Len(nodes)
      PROVE  /\ visits[i] \in DriveVisits /\ visits[i].node = nodes[i] /\ ~visits[i].leaves
  <2> DEFINE visit == DriveVisit(nodes[i], fresh, relationship, path, depth)
  <2>1. visits[i] = visit BY <1>1
  <2>2. visit.node = nodes[i] /\ visit.fresh = fresh /\ ~visit.leaves BY DEF DriveVisit
  <2>3. visit \in [node : DriveNodes, fresh : BOOLEAN, relationship : DriveRelations,
                   path : DrivePaths, depth : Nat, leaves : BOOLEAN]
    BY <1>1 DEF DriveVisit
  <2>4. visit.fresh => ~IsHolder(DriveTree[visit.node]) BY <1>1, <2>2
  <2> HIDE DEF visit
  <2>5. visit \in DriveVisits BY <2>3, <2>4 DEF DriveVisits
  <2>6. QED BY <2>1, <2>2, <2>5
<1>3. DOMAIN visits = 1..Len(nodes) BY <1>1
<1> HIDE DEF visits
<1>4. visits \in Seq(DriveVisits)
  <2>1. visits = [i \in 1..Len(nodes) |-> visits[i]] BY <1>3 DEF visits
  <2>2. QED BY <1>1, <1>2, <2>1
<1>5. Awaited(visits) = Range(nodes) BY <1>1, <1>2, <1>3 DEF Awaited, Range
<1>6. QED BY <1>4, <1>5 DEF visits

(* The branches of a record lead to what it has beside what it holds.      *)
Beside(raw) ==
  UNION {Range(raw.children), Range(raw.quotedMessages), Range(raw.threadHistory),
         Range(raw.quotedMessage), Range(raw.contextNode)}

(* So the branches of a record are visits that await all of that.          *)
LEMMA DriveBranchesEffect ==
  ASSUME driveInput \in DriveInputs, NEW node \in DriveNodes, NEW path \in DrivePaths,
         NEW depth \in Nat
  PROVE  LET raw == DriveTree[node]
             below == BranchesOf(raw, path, depth)
         IN below \in Seq(DriveVisits) /\ Awaited(below) = Beside(raw)
<1> DEFINE raw == DriveTree[node]
           own(nodes) == [i \in DOMAIN nodes |-> DriveVisit(nodes[i], FALSE, "", path, depth)]
           wrapped(nodes, relationship) ==
             [i \in DOMAIN nodes |-> DriveVisit(nodes[i], TRUE, relationship, path, depth)]
           a == own(raw.children)
           b == wrapped(raw.quotedMessages, "quoted_message")
           c == wrapped(raw.threadHistory, "thread_history")
           d == wrapped(raw.quotedMessage, "quoted_message")
           e == own(raw.contextNode)
<1>1. DriveShape(raw) BY DriveRecordShape
<1>2. {"", "quoted_message", "thread_history"} \subseteq DriveRelations BY DEF DriveRelations
<1>3. /\ \A other \in Range(raw.quotedMessages) : ~IsHolder(DriveTree[other])
      /\ \A other \in Range(raw.threadHistory) : ~IsHolder(DriveTree[other])
      /\ \A other \in Range(raw.quotedMessage) : ~IsHolder(DriveTree[other])
  BY <1>1 DEF DriveShape, MessagesIn
<1>4. BranchesOf(raw, path, depth) = a \o b \o c \o d \o e BY DEF BranchesOf
<1> HIDE DEF raw
<1>5. a \in Seq(DriveVisits) /\ Awaited(a) = Range(raw.children)
  BY <1>1, <1>2, AwaitedOfNodes, ZenonT(30) DEF DriveShape
<1>6. b \in Seq(DriveVisits) /\ Awaited(b) = Range(raw.quotedMessages)
  BY <1>1, <1>2, <1>3, AwaitedOfNodes, ZenonT(30) DEF DriveShape
<1>7. c \in Seq(DriveVisits) /\ Awaited(c) = Range(raw.threadHistory)
  BY <1>1, <1>2, <1>3, AwaitedOfNodes, ZenonT(30) DEF DriveShape
<1>8. d \in Seq(DriveVisits) /\ Awaited(d) = Range(raw.quotedMessage)
  BY <1>1, <1>2, <1>3, AwaitedOfNodes, ZenonT(30) DEF DriveShape
<1>9. e \in Seq(DriveVisits) /\ Awaited(e) = Range(raw.contextNode)
  BY <1>1, <1>2, AwaitedOfNodes, ZenonT(30) DEF DriveShape
<1> HIDE DEF a, b, c, d, e
<1>10. a \o b \in Seq(DriveVisits) /\ Awaited(a \o b) = Awaited(a) \cup Awaited(b)
  BY <1>5, <1>6, AwaitedOfJoined
<1>11. /\ a \o b \o c \in Seq(DriveVisits)
       /\ Awaited(a \o b \o c) = Awaited(a \o b) \cup Awaited(c)
  BY <1>7, <1>10, AwaitedOfJoined
<1>12. /\ a \o b \o c \o d \in Seq(DriveVisits)
       /\ Awaited(a \o b \o c \o d) = Awaited(a \o b \o c) \cup Awaited(d)
  BY <1>8, <1>11, AwaitedOfJoined
<1>13. /\ a \o b \o c \o d \o e \in Seq(DriveVisits)
       /\ Awaited(a \o b \o c \o d \o e) = Awaited(a \o b \o c \o d) \cup Awaited(e)
  BY <1>9, <1>12, AwaitedOfJoined
<1>14. Awaited(a \o b \o c \o d \o e) = Beside(raw)
  BY <1>5, <1>6, <1>7, <1>8, <1>9, <1>10, <1>11, <1>12, <1>13 DEF Beside
<1>15. QED BY <1>4, <1>13, <1>14 DEF raw

(* The links of a record are told of under a path that has its name.       *)
NamedLike(path, name) == name # "" => Last(path).name = name

LinksTold(w, node) ==
  Truncated(w) \/
    \A link \in DriveLinksIn(DriveTree[node]) : \E i \in DOMAIN w.found :
      w.found[i].link.url = link.url /\ NamedLike(w.found[i].path, DriveTree[node].name)

(* A path with the name of the record does for all links in it.            *)
LEMMA ToldUnder ==
  ASSUME NEW w, NEW node, NEW path, NamedLike(path, DriveTree[node].name),
         \A link \in DriveLinksIn(DriveTree[node]) : DriveTold(w, link, path)
  PROVE  LinksTold(w, node)
BY DEF LinksTold, DriveTold

(* What the walk does with one record: some records are read, and their    *)
(* links told of; whatever these lead to is among them or comes up next.   *)
ReadsAll(into, node) ==
  \E C \in SUBSET DriveNodes :
    /\ node \in C
    /\ \A n \in C : /\ RecordsIn(DriveTree[n]) \subseteq C \cup Awaited(into.branches)
                    /\ LinksTold(into.w, n)

(* A wrapper is read alone, and its message and its context come up next.  *)
LEMMA DriveWrapperEffect ==
  ASSUME driveInput \in DriveInputs, NEW w \in DriveWalks, NEW visit \in DriveVisits,
         DriveTree[visit.node].wrapper
  PROVE  LET into == CollectFromWrapper(w, visit) IN
         /\ into.w \in DriveWalks /\ DriveGrew(w, into.w)
         /\ into.branches \in Seq(DriveVisits) /\ ReadsAll(into, visit.node)
<1> DEFINE node == visit.node
           raw == DriveTree[node]
           nodes == raw.message \o raw.context
           x == CollectDriveLinks(w, raw.links, visit.path)
           below == WrapperBranches(raw, visit.path, visit.depth + 1)
           into == CollectFromWrapper(w, visit)
<1>1. /\ node \in DriveNodes /\ visit.path \in DrivePaths /\ visit.depth + 1 \in Nat
  BY DEF DriveVisits
<1>2. DriveShape(raw) BY <1>1, DriveRecordShape
<1>3. into.w = x /\ into.branches = below BY DEF CollectFromWrapper
<1>4. /\ x \in DriveWalks /\ DriveGrew(w, x)
      /\ \A i \in 1..Len(raw.links) :
           DriveSourceAllowed(raw.links[i]) => DriveTold(x, raw.links[i], visit.path)
  BY <1>1, <1>2, DriveLinksEffect DEF DriveShape
<1>5. /\ nodes \in Seq(DriveNodes) /\ Range(nodes) = Range(raw.message) \cup Range(raw.context)
  <2>1. raw.message \in Seq(DriveNodes) /\ raw.context \in Seq(DriveNodes) BY <1>2 DEF DriveShape
  <2> HIDE DEF raw
  <2>2. QED BY <2>1, ConcatProperties, RangeJoined
<1>6. below \in Seq(DriveVisits) /\ Awaited(below) = Range(nodes)
  <2>1. "" \in DriveRelations BY DEF DriveRelations
  <2>2. below = [i \in DOMAIN nodes |->
                   DriveVisit(nodes[i], FALSE, "", visit.path, visit.depth + 1)]
    BY DEF WrapperBranches
  <2> HIDE DEF nodes, below
  <2>3. QED BY <1>1, <1>5, <2>1, <2>2, AwaitedOfNodes, ZenonT(60)
<1>7. RecordsIn(raw) = Range(raw.message) \cup Range(raw.context) BY DEF RecordsIn
<1>8. LinksTold(x, node)
  <2>1. DOMAIN raw.links = 1..Len(raw.links) BY <1>2, LenProperties DEF DriveShape
  <2>2. \A link \in DriveLinksIn(raw) : link \in Range(raw.links) /\ DriveSourceAllowed(link)
    BY DEF DriveLinksIn
  <2>3. \A link \in DriveLinksIn(raw) : DriveTold(x, link, visit.path)
    BY <1>4, <2>1, <2>2 DEF Range
  <2>4. raw.name = "" BY <1>2 DEF DriveShape
  <2>5. NamedLike(visit.path, raw.name) BY <2>4 DEF NamedLike
  <2> HIDE DEF x
  <2>6. QED BY <2>3, <2>5, ToldUnder
<1> HIDE DEF x, below, into, nodes
<1>9. ReadsAll(into, node)
  <2>1. {node} \in SUBSET DriveNodes BY <1>1
  <2>2. \A n \in {node} : /\ RecordsIn(DriveTree[n]) \subseteq {node} \cup Awaited(into.branches)
                          /\ LinksTold(into.w, n)
    BY <1>3, <1>5, <1>6, <1>7, <1>8
  <2> HIDE DEF node, raw
  <2>3. QED BY <2>1, <2>2 DEF ReadsAll
<1>10. QED BY <1>3, <1>4, <1>6, <1>9 DEF into

(* The label a message adds to the path has the message's name.            *)
LEMMA DrivePathEffect ==
  ASSUME NEW path \in DrivePaths, NEW label \in DriveLabels
  PROVE  Append(path, label) \in DrivePaths /\ Last(Append(path, label)) = label
<1>1. /\ Append(path, label) \in Seq(DriveLabels) /\ Len(Append(path, label)) = Len(path) + 1
      /\ Append(path, label)[Len(path) + 1] = label
  BY AppendProperties DEF DrivePaths
<1>2. QED BY <1>1 DEF Last, DrivePaths

(* A list of at most one element that is not empty.                        *)
LEMMA OneElement ==
  ASSUME NEW S, NEW s \in Seq(S), s # <<>>, Len(s) <= 1
  PROVE  s[1] \in S /\ Range(s) = {s[1]}
<1>1. Len(s) \in Nat \ {0} /\ DOMAIN s = 1..Len(s) BY EmptySeq, LenProperties
<1>2. Len(s) = 1 /\ DOMAIN s = {1} BY <1>1
<1>3. QED BY <1>2, ElementOfSeq DEF Range

(* All lists of a message are read one after the other.                    *)
MessageLinks(w, links, annotations, matched, text, path) ==
  CollectPlainTextDriveUrls(
    CollectDriveEntries(
      CollectDriveLinks(CollectDriveLinks(w, links, path), annotations, path), matched, path),
    text, path)

(* Each link of each of the lists is told of under the one path.           *)
LEMMA MessageLinksEffect ==
  ASSUME driveInput \in DriveInputs, NEW w \in DriveWalks, NEW path \in DrivePaths,
         NEW links \in Seq(DriveLink), NEW annotations \in Seq(DriveLink),
         NEW matched \in Seq(DriveLink), NEW text \in Seq(DriveLink)
  PROVE  LET x == MessageLinks(w, links, annotations, matched, text, path)
         IN /\ x \in DriveWalks /\ DriveGrew(w, x)
            /\ \A link \in Range(links) \cup Range(annotations)
                             \cup Range(matched) \cup Range(text) :
                 DriveSourceAllowed(link) => DriveTold(x, link, path)
<1> DEFINE a == CollectDriveLinks(w, links, path)
           b == CollectDriveLinks(a, annotations, path)
           c == CollectDriveEntries(b, matched, path)
           d == CollectPlainTextDriveUrls(c, text, path)
<1>1. /\ a \in DriveWalks /\ DriveGrew(w, a)
      /\ \A i \in 1..Len(links) : DriveSourceAllowed(links[i]) => DriveTold(a, links[i], path)
  BY DriveLinksEffect
<1> HIDE DEF a
<1>2. /\ b \in DriveWalks /\ DriveGrew(a, b)
      /\ \A i \in 1..Len(annotations) :
           DriveSourceAllowed(annotations[i]) => DriveTold(b, annotations[i], path)
  BY <1>1, DriveLinksEffect
<1> HIDE DEF b
<1>3. /\ c \in DriveWalks /\ DriveGrew(b, c)
      /\ \A i \in 1..Len(matched) :
           DriveSourceAllowed(matched[i]) => DriveTold(c, matched[i], path)
  BY <1>2, DriveEntriesEffect
<1> HIDE DEF c
<1>4. /\ d \in DriveWalks /\ DriveGrew(c, d)
      /\ \A i \in 1..Len(text) : DriveSourceAllowed(text[i]) => DriveTold(d, text[i], path)
  BY <1>3, DriveTextEffect
<1> HIDE DEF d
<1>5. DriveGrew(b, d) BY <1>3, <1>4, DriveGrewOn
<1>6. DriveGrew(a, d) BY <1>2, <1>5, DriveGrewOn
<1>7. DriveGrew(w, d) BY <1>1, <1>6, DriveGrewOn
<1>8. /\ DOMAIN links = 1..Len(links) /\ DOMAIN annotations = 1..Len(annotations)
      /\ DOMAIN matched = 1..Len(matched) /\ DOMAIN text = 1..Len(text)
  BY LenProperties
<1>9. ASSUME NEW link \in Range(links), DriveSourceAllowed(link)
      PROVE  DriveTold(d, link, path)
  <2>1. PICK i \in 1..Len(links) : link = links[i] BY <1>8, <1>9 DEF Range
  <2>2. DriveTold(a, link, path) BY <1>1, <1>9, <2>1
  <2>3. QED BY <1>6, <2>2, DriveGrewOn
<1>10. ASSUME NEW link \in Range(annotations), DriveSourceAllowed(link)
       PROVE  DriveTold(d, link, path)
  BY <1>2, <1>5, <1>8, <1>10, DriveGrewOn, SMTT(30) DEF Range
<1>11. ASSUME NEW link \in Range(matched), DriveSourceAllowed(link)
       PROVE  DriveTold(d, link, path)
  <2>1. PICK i \in 1..Len(matched) : link = matched[i] BY <1>8, <1>11 DEF Range
  <2>2. DriveTold(c, link, path) BY <1>3, <1>11, <2>1
  <2>3. QED BY <1>4, <2>2, DriveGrewOn
<1>12. ASSUME NEW link \in Range(text), DriveSourceAllowed(link)
       PROVE  DriveTold(d, link, path)
  BY <1>4, <1>8, <1>12 DEF Range
<1>13. MessageLinks(w, links, annotations, matched, text, path) = d
  BY DEF MessageLinks, a, b, c, d
<1>14. QED BY <1>4, <1>7, <1>9, <1>10, <1>11, <1>12, <1>13

(* Texts have plain URLs alone.                                            *)
LEMMA PlainText ==
  ASSUME NEW text \in Seq({link \in DriveLink : link.source = "plain_url"})
  PROVE  /\ text \in Seq(DriveLink)
         /\ \A link \in Range(text) : link.source = "plain_url"
<1>1. /\ Len(text) \in Nat /\ DOMAIN text = 1..Len(text)
      /\ \A i \in 1..Len(text) : text[i] \in {link \in DriveLink : link.source = "plain_url"}
  BY LenProperties, ElementOfSeq
<1> DEFINE S == DriveLink
<1>2. \A i \in 1..Len(text) : text[i] \in S /\ text[i].source = "plain_url" BY <1>1
<1> HIDE DEF S
<1>3. text = [i \in 1..Len(text) |-> text[i]] BY <1>1
<1>4. text \in Seq(S) BY <1>1, <1>2, <1>3
<1>5. QED BY <1>1, <1>2, <1>4 DEF Range, S

(* A message is read together with the record that holds it, under the     *)
(* name of the message.                                                    *)
LEMMA DriveMessageEffect ==
  ASSUME driveInput \in DriveInputs, NEW w \in DriveWalks, NEW visit \in DriveVisits,
         visit.fresh \/ ~DriveTree[visit.node].wrapper
  PROVE  LET into == CollectFromMessage(w, visit) IN
         /\ into.w \in DriveWalks /\ DriveGrew(w, into.w)
         /\ into.branches \in Seq(DriveVisits) /\ ReadsAll(into, visit.node)
<1> DEFINE node     == visit.node
           raw      == DriveTree[node]
           held     == ~visit.fresh /\ raw.message # <<>>
           shown    == IF held THEN raw.message[1] ELSE node
           message  == DriveTree[shown]
           label    == [relationship |-> IF visit.relationship # "" THEN visit.relationship
                                         ELSE raw.relationship,
                        name |-> message.name,
                        number |-> IF message.name = "" THEN w.anonymous ELSE 0]
           path     == Append(visit.path, label)
           links    == IF held THEN raw.links \o message.links ELSE raw.links
           text     == IF "plain_url" \in driveInput.options.sources THEN message.text ELSE <<>>
           named    == [w EXCEPT !.anonymous = @ + 1]
           x        == MessageLinks(named, links, message.annotations, message.matched, text, path)
           below    == visit.depth + 1
           branches == IF held THEN BranchesOf(raw, path, below) \o BranchesOf(message, path, below)
                       ELSE BranchesOf(raw, path, below)
           into     == CollectFromMessage(w, visit)
<1>1. /\ node \in DriveNodes /\ visit.path \in DrivePaths /\ below \in Nat
      /\ visit.relationship \in DriveRelations /\ (visit.fresh => ~IsHolder(raw))
  BY DEF DriveVisits
<1>2. into = [w |-> x, branches |-> branches]
  <2>1. message = IF held THEN DriveTree[raw.message[1]] ELSE raw BY Zenon
  <2>2. into = LET msg == IF held THEN DriveTree[raw.message[1]] ELSE raw
                   lab == [relationship |-> IF visit.relationship # "" THEN visit.relationship
                                            ELSE raw.relationship,
                           name |-> msg.name,
                           number |-> IF msg.name = "" THEN w.anonymous ELSE 0]
                   way == Append(visit.path, lab)
                   all == IF held THEN raw.links \o msg.links ELSE raw.links
                   txt == IF "plain_url" \in driveInput.options.sources THEN msg.text ELSE <<>>
               IN [w |-> MessageLinks(named, all, msg.annotations, msg.matched, txt, way),
                   branches |-> IF held THEN BranchesOf(raw, way, below) \o BranchesOf(msg, way, below)
                                ELSE BranchesOf(raw, way, below)]
    BY Zenon DEF CollectFromMessage, MessageLinks
  <2>3. QED BY <2>1, <2>2, ZenonT(30)
<1>3. /\ held => raw.message[1] \in DriveNodes /\ Range(raw.message) = {raw.message[1]}
      /\ ~held => raw.message = <<>>
      /\ raw.context = <<>> /\ Range(raw.context) = {} /\ DriveShape(raw)
  <2>1. DriveShape(raw) BY <1>1, DriveRecordShape
  <2>2. raw.context = <<>> BY <1>1, <2>1 DEF DriveShape, IsHolder
  <2>3. Range(<<>>) = {} BY DEF Range
  <2>4. ~held => raw.message = <<>> BY <1>1 DEF IsHolder
  <2>5. ASSUME held
        PROVE  raw.message[1] \in DriveNodes /\ Range(raw.message) = {raw.message[1]}
    <3>1. raw.message \in Seq(DriveNodes) /\ Len(raw.message) <= 1 /\ raw.message # <<>>
      BY <2>1, <2>5 DEF DriveShape
    <3> HIDE DEF raw
    <3>2. QED BY <3>1, OneElement
  <2>6. QED BY <2>1, <2>2, <2>3, <2>4, <2>5
<1>4. shown \in DriveNodes BY <1>1, <1>3
<1>5. DriveShape(message) BY <1>4, DriveRecordShape
<1>6. /\ held => ~IsHolder(message) /\ raw.name = "" /\ raw.annotations = <<>>
                 /\ raw.matched = <<>> /\ raw.text = <<>>
      /\ ~held => message = raw
  <2>1. held => shown \in MessagesIn(raw) /\ IsHolder(raw) BY <1>3 DEF MessagesIn, IsHolder
  <2>2. held => ~IsHolder(message) BY <1>3, <2>1 DEF DriveShape
  <2>3. held => raw.name = "" /\ {raw.annotations, raw.matched, raw.text} = {<<>>}
    BY <1>3, <2>1 DEF DriveShape
  <2>4. QED BY <2>2, <2>3
<1> HIDE DEF held, shown
<1>7. label \in DriveLabels /\ label.name = message.name
  <2>1. message.name \in DriveNames /\ raw.relationship \in DriveRelations /\ w.anonymous \in Nat
    BY <1>3, <1>5 DEF DriveShape, DriveWalks
  <2> HIDE DEF raw, message
  <2>2. QED BY <1>1, <2>1 DEF DriveLabels
<1> HIDE DEF label
<1>8. path \in DrivePaths /\ Last(path).name = message.name BY <1>1, <1>7, DrivePathEffect
<1> HIDE DEF path
<1>9. named \in DriveWalks /\ DriveGrew(w, named)
  <2>1. /\ named.agenda = w.agenda /\ named.found = w.found /\ named.capped = w.capped
    BY DEF DriveWalks
  <2>2. named \in DriveWalks BY SMTT(30) DEF DriveWalks
  <2>3. QED BY <2>1, <2>2 DEF DriveGrew, Truncated
<1> HIDE DEF named
<1>10. /\ links \in Seq(DriveLink) /\ Range(raw.links) \subseteq Range(links)
       /\ Range(message.links) \subseteq Range(links)
  <2>1. raw.links \in Seq(DriveLink) /\ message.links \in Seq(DriveLink)
    BY <1>3, <1>5 DEF DriveShape
  <2>2. ~held => message = raw BY <1>6
  <2> HIDE DEF raw, message
  <2>3. /\ raw.links \o message.links \in Seq(DriveLink)
        /\ Range(raw.links) \cup Range(message.links) = Range(raw.links \o message.links)
    BY <2>1, ConcatProperties, RangeJoined
  <2>4. QED BY <2>1, <2>2, <2>3
<1>11. /\ text \in Seq(DriveLink)
       /\ \A link \in Range(message.text) : DriveSourceAllowed(link) => link \in Range(text)
  <2>1. message.text \in Seq({link \in DriveLink : link.source = "plain_url"})
    BY <1>5 DEF DriveShape
  <2> HIDE DEF message
  <2>2. /\ message.text \in Seq(DriveLink)
        /\ \A link \in Range(message.text) : link.source = "plain_url"
    BY <2>1, PlainText
  <2>3. <<>> \in Seq(DriveLink) BY EmptySeq
  <2>4. QED BY <2>2, <2>3 DEF DriveSourceAllowed
<1>12. message.annotations \in Seq(DriveLink) /\ message.matched \in Seq(DriveLink)
  BY <1>5 DEF DriveShape
<1> HIDE DEF links, text
<1>13. /\ x \in DriveWalks /\ DriveGrew(named, x)
       /\ \A link \in Range(links) \cup Range(message.annotations)
                        \cup Range(message.matched) \cup Range(text) :
            DriveSourceAllowed(link) => DriveTold(x, link, path)
  BY <1>8, <1>9, <1>10, <1>11, <1>12, MessageLinksEffect
<1> HIDE DEF x
<1>14. DriveGrew(w, x) BY <1>9, <1>13, DriveGrewOn
<1>15. LinksTold(x, shown)
  <2>1. \A link \in DriveLinksIn(message) :
          /\ DriveSourceAllowed(link)
          /\ link \in Range(message.links) \cup Range(message.annotations)
                        \cup Range(message.matched) \cup Range(message.text)
    BY DEF DriveLinksIn
  <2>2. \A link \in DriveLinksIn(message) : DriveTold(x, link, path)
    BY <1>10, <1>11, <1>13, <2>1
  <2>3. NamedLike(path, message.name) BY <1>8 DEF NamedLike
  <2>4. QED BY <2>2, <2>3, ToldUnder
<1>16. LinksTold(x, node)
  <2>1. CASE ~held
    <3>1. shown = node BY <2>1 DEF shown
    <3>2. QED BY <1>15, <3>1
  <2>2. CASE held
    <3>1. Range(<<>>) = {} BY DEF Range
    <3>2. \A link \in DriveLinksIn(raw) : DriveSourceAllowed(link) /\ link \in Range(raw.links)
      BY <1>6, <2>2, <3>1 DEF DriveLinksIn
    <3>3. \A link \in DriveLinksIn(raw) : DriveTold(x, link, path) BY <1>10, <1>13, <3>2
    <3>4. NamedLike(path, raw.name) BY <1>6, <2>2 DEF NamedLike
    <3>5. QED BY <3>3, <3>4, ToldUnder
  <2>3. QED BY <2>1, <2>2
<1>17. /\ BranchesOf(raw, path, below) \in Seq(DriveVisits)
       /\ Awaited(BranchesOf(raw, path, below)) = Beside(raw)
       /\ BranchesOf(message, path, below) \in Seq(DriveVisits)
       /\ Awaited(BranchesOf(message, path, below)) = Beside(message)
  BY <1>1, <1>4, <1>8, DriveBranchesEffect
<1>18. /\ branches \in Seq(DriveVisits) /\ Beside(raw) \subseteq Awaited(branches)
       /\ Beside(message) \subseteq Awaited(branches)
  <2> DEFINE p == BranchesOf(raw, path, below)
             q == BranchesOf(message, path, below)
  <2>1. branches = IF held THEN p \o q ELSE p OBVIOUS
  <2>2. ~held => Beside(message) = Beside(raw) BY <1>6
  <2> HIDE DEF p, q, branches, raw, message
  <2>3. p \o q \in Seq(DriveVisits) /\ Awaited(p \o q) = Awaited(p) \cup Awaited(q)
    BY <1>17, AwaitedOfJoined DEF p, q
  <2>4. QED BY <1>17, <2>1, <2>2, <2>3 DEF p, q
<1> HIDE DEF branches
<1>19. /\ RecordsIn(raw) \subseteq {node, shown} \cup Awaited(branches)
       /\ RecordsIn(message) \subseteq {node, shown} \cup Awaited(branches)
  <2>1. Range(<<>>) = {} BY DEF Range
  <2>2. Range(raw.message) \subseteq {shown} BY <1>3, <2>1 DEF shown
  <2>3. RecordsIn(raw) \subseteq Range(raw.message) \cup Range(raw.context) \cup Beside(raw)
    BY DEF RecordsIn, Beside
  <2>4. RecordsIn(raw) \subseteq {node, shown} \cup Awaited(branches)
    BY <1>3, <1>18, <2>2, <2>3
  <2>5. CASE ~held BY <1>6, <2>4, <2>5
  <2>6. CASE held
    <3>1. message.message = <<>> /\ message.context = <<>> BY <1>6, <2>6 DEF IsHolder
    <3>2. RecordsIn(message) \subseteq Range(message.message) \cup Range(message.context)
                                        \cup Beside(message)
      BY DEF RecordsIn, Beside
    <3>3. QED BY <1>18, <2>1, <2>4, <3>1, <3>2
  <2>7. QED BY <2>5, <2>6
<1> HIDE DEF into
<1>20. ReadsAll(into, node)
  <2>1. {node, shown} \in SUBSET DriveNodes /\ node \in {node, shown} BY <1>1, <1>4
  <2>2. \A n \in {node, shown} :
          /\ RecordsIn(DriveTree[n]) \subseteq {node, shown} \cup Awaited(into.branches)
          /\ LinksTold(into.w, n)
    BY <1>2, <1>15, <1>16, <1>19
  <2> HIDE DEF node, raw, message
  <2>3. QED BY <2>1, <2>2 DEF ReadsAll
<1>21. QED BY <1>2, <1>13, <1>14, <1>18, <1>20 DEF into, node

(* Unless a limit was hit: some records have been read, and whatever they  *)
(* lead to is among them or on the agenda; at first that is the root.      *)
DriveAccounted(w) ==
  Truncated(w) \/
    \E V \in SUBSET DriveNodes :
      /\ WalkRoot \in V \cup Awaited(w.agenda)
      /\ \A node \in V : /\ RecordsIn(DriveTree[node]) \subseteq V \cup Awaited(w.agenda)
                         /\ LinksTold(w, node)

DriveInv ==
  /\ driveInput \in DriveInputs /\ driveWalk \in DriveWalks /\ DriveAccounted(driveWalk)

(* One record is read, unless a limit is hit.                              *)
LEMMA DriveNodeEffect ==
  ASSUME driveInput \in DriveInputs, NEW w \in DriveWalks, NEW visit \in DriveVisits
  PROVE  LET x == CollectFromNode(w, visit) IN
         /\ x \in DriveWalks /\ (Truncated(w) => Truncated(x))
         /\ Truncated(x) \/ /\ Awaited(w.agenda) \subseteq Awaited(x.agenda)
                            /\ \A node : LinksTold(w, node) => LinksTold(x, node)
                            /\ ReadsAll([w |-> x, branches |-> x.agenda], visit.node)
<1> DEFINE x == CollectFromNode(w, visit)
           counted == [w EXCEPT !.nodes = @ + 1]
           into == CollectFromRecord(counted, visit)
           leave == IF visit.fresh THEN <<>> ELSE <<[visit EXCEPT !.leaves = TRUE]>>
           visited == [into.w EXCEPT !.agenda = into.branches \o leave \o @]
<1>1. \/ x = DriveCap(w, "nodes", 1) \/ x = DriveCap(w, "deep", 1) \/ x = visited
  BY DEF CollectFromNode
<1>2. CASE x = DriveCap(w, "nodes", 1)
  <2>1. x \in DriveWalks /\ Truncated(x) BY <1>2, DriveCapEffect DEF DriveLimitsHit
  <2>2. QED BY <2>1
<1>3. CASE x = DriveCap(w, "deep", 1)
  <2>1. x \in DriveWalks /\ Truncated(x) BY <1>3, DriveCapEffect DEF DriveLimitsHit
  <2>2. QED BY <2>1
<1>4. CASE x = visited
  <2>1. /\ counted \in DriveWalks /\ counted.agenda = w.agenda
        /\ counted.found = w.found /\ counted.capped = w.capped
    <3> HIDE DEF x, into, visited, leave
    <3>1. w.nodes + 1 \in Nat BY DEF DriveWalks
    <3>2. counted \in DriveWalks BY <3>1 DEF DriveWalks
    <3>3. QED BY <3>2 DEF DriveWalks
  <2>2. DriveGrew(w, counted) BY <2>1 DEF DriveGrew, Truncated
  <2> HIDE DEF counted
  <2>3. /\ into.w \in DriveWalks /\ DriveGrew(counted, into.w)
        /\ into.branches \in Seq(DriveVisits) /\ ReadsAll(into, visit.node)
    <3>1. CASE DriveTree[visit.node].wrapper /\ ~visit.fresh
      <4>1. into = CollectFromWrapper(counted, visit) BY <3>1 DEF CollectFromRecord
      <4>2. QED BY <2>1, <3>1, <4>1, DriveWrapperEffect
    <3>2. CASE ~(DriveTree[visit.node].wrapper /\ ~visit.fresh)
      <4>1. into = CollectFromMessage(counted, visit) BY <3>2 DEF CollectFromRecord
      <4>2. visit.fresh \in BOOLEAN BY DEF DriveVisits
      <4>3. visit.fresh \/ ~DriveTree[visit.node].wrapper BY <3>2, <4>2
      <4>4. QED BY <2>1, <4>1, <4>3, DriveMessageEffect
    <3>3. QED BY <3>1, <3>2
  <2> HIDE DEF into
  <2>4. DriveGrew(w, into.w) BY <2>2, <2>3, DriveGrewOn
  <2>5. leave \in Seq(DriveVisits) /\ Awaited(leave) = {}
    <3> DEFINE left == [visit EXCEPT !.leaves = TRUE]
               V == DriveVisits
    <3>1. left \in V /\ left.leaves BY DEF DriveVisits
    <3>2. leave = IF visit.fresh THEN <<>> ELSE <<left>> OBVIOUS
    <3> HIDE DEF left, V
    <3>3. leave \in Seq(V)
      <4>1. <<>> \in Seq(V) /\ <<left>> \in Seq(V) BY <3>1
      <4>2. QED BY <3>2, <4>1
    <3>4. \A i \in DOMAIN leave : leave[i].leaves BY <3>1, <3>2
    <3>5. QED BY <3>3, <3>4 DEF Awaited, V
  <2> HIDE DEF leave
  <2>6. w.agenda \in Seq(DriveVisits) /\ into.w.agenda = w.agenda
    BY <2>4 DEF DriveWalks, DriveGrew
  <2> DEFINE agenda == into.branches \o leave \o w.agenda
  <2>7. /\ agenda \in Seq(DriveVisits)
        /\ Awaited(agenda) = Awaited(into.branches) \cup Awaited(w.agenda)
    <3>1. /\ into.branches \o leave \in Seq(DriveVisits)
          /\ Awaited(into.branches \o leave) = Awaited(into.branches) \cup {}
      BY <2>3, <2>5, AwaitedOfJoined, ZenonT(30)
    <3>2. /\ agenda \in Seq(DriveVisits)
          /\ Awaited(agenda) = Awaited(into.branches \o leave) \cup Awaited(w.agenda)
      BY <2>6, <3>1, AwaitedOfJoined
    <3>3. QED BY <3>1, <3>2
  <2>8. x = [into.w EXCEPT !.agenda = agenda] BY <1>4, <2>6
  <2> HIDE DEF agenda
  <2>9. x \in DriveWalks /\ x.agenda = agenda /\ x.found = into.w.found /\ x.capped = into.w.capped
    BY <2>3, <2>7, <2>8 DEF DriveWalks
  <2> HIDE DEF x
  <2>10. \A node : LinksTold(into.w, node) => LinksTold(x, node)
    BY <2>9 DEF LinksTold, Truncated
  <2>11. \A node : LinksTold(w, node) => LinksTold(into.w, node)
    BY <2>4 DEF LinksTold, DriveGrew
  <2>12. ReadsAll([w |-> x, branches |-> x.agenda], visit.node)
    <3>1. PICK C \in SUBSET DriveNodes :
            /\ visit.node \in C
            /\ \A n \in C : /\ RecordsIn(DriveTree[n]) \subseteq C \cup Awaited(into.branches)
                            /\ LinksTold(into.w, n)
      BY <2>3 DEF ReadsAll
    <3>2. \A n \in C : /\ RecordsIn(DriveTree[n]) \subseteq C \cup Awaited(x.agenda)
                       /\ LinksTold(x, n)
      BY <2>7, <2>9, <2>10, <3>1
    <3>3. QED BY <3>1, <3>2 DEF ReadsAll
  <2>13. Truncated(w) => Truncated(x) BY <2>4, <2>9 DEF DriveGrew, Truncated
  <2>14. Awaited(w.agenda) \subseteq Awaited(x.agenda) BY <2>7, <2>9
  <2>15. QED BY <2>9, <2>10, <2>11, <2>12, <2>13, <2>14 DEF x
<1>5. QED BY <1>1, <1>2, <1>3, <1>4

(* An agenda awaits the first visit on it, unless that is a return.        *)
LEMMA AwaitedOfHead ==
  ASSUME NEW s \in Seq(DriveVisits), s # <<>>
  PROVE  /\ Head(s) \in DriveVisits /\ Tail(s) \in Seq(DriveVisits)
         /\ Awaited(s) = Awaited(Tail(s)) \cup IF Head(s).leaves THEN {} ELSE {Head(s).node}
<1> DEFINE V == DriveVisits
<1>1. s \in Seq(V) OBVIOUS
<1> HIDE DEF V
<1>2. Head(s) \in V /\ Tail(s) \in Seq(V) BY <1>1, HeadTailProperties
<1>3. s = <<Head(s)>> \o Tail(s) /\ <<Head(s)>> \in Seq(V) BY <1>1, <1>2
<1>4. Awaited(s) = Awaited(<<Head(s)>>) \cup Awaited(Tail(s))
  BY <1>2, <1>3, AwaitedOfJoined DEF V
<1>5. Awaited(<<Head(s)>>) = IF Head(s).leaves THEN {} ELSE {Head(s).node}
  BY DEF Awaited
<1>6. QED BY <1>2, <1>4, <1>5 DEF V

(* Every visit and every return keeps the account.                         *)
LEMMA DriveVisitEffect ==
  ASSUME DriveInv, VisitBranch
  PROVE  driveWalk' \in DriveWalks /\ DriveAccounted(driveWalk')
<1> DEFINE w == driveWalk
           visit == Head(w.agenda)
           rest == [w EXCEPT !.agenda = Tail(w.agenda)]
           x == driveWalk'
<1>1. /\ driveInput \in DriveInputs /\ w \in DriveWalks /\ DriveAccounted(w)
      /\ w.agenda \in Seq(DriveVisits) /\ w.agenda # <<>>
      /\ x = IF visit.leaves THEN rest ELSE CollectFromNode(rest, visit)
  BY DEF DriveInv, VisitBranch, DriveWalks
<1>2. /\ visit \in DriveVisits /\ Tail(w.agenda) \in Seq(DriveVisits)
      /\ Awaited(w.agenda) = Awaited(Tail(w.agenda)) \cup IF visit.leaves THEN {} ELSE {visit.node}
  BY <1>1, AwaitedOfHead
<1> HIDE DEF visit
<1>3. /\ rest \in DriveWalks /\ rest.agenda = Tail(w.agenda) /\ rest.found = w.found
      /\ rest.capped = w.capped
  BY <1>1, <1>2 DEF DriveWalks
<1> HIDE DEF rest, w
<1>4. \A node : LinksTold(w, node) => LinksTold(rest, node)
  BY <1>3 DEF LinksTold, Truncated
<1>5. Truncated(w) => Truncated(rest) BY <1>3 DEF Truncated
<1>6. CASE visit.leaves
  <2>1. x = rest /\ Awaited(rest.agenda) = Awaited(w.agenda) BY <1>1, <1>2, <1>3, <1>6
  <2> HIDE DEF x
  <2>2. DriveAccounted(rest) BY <1>1, <1>4, <1>5, <2>1 DEF DriveAccounted
  <2>3. QED BY <1>3, <2>1, <2>2 DEF x
<1>7. CASE ~visit.leaves
  <2>1. x = CollectFromNode(rest, visit) BY <1>1, <1>7
  <2> HIDE DEF x
  <2>2. /\ x \in DriveWalks
        /\ Truncated(x) \/ /\ Awaited(rest.agenda) \subseteq Awaited(x.agenda)
                           /\ \A node : LinksTold(rest, node) => LinksTold(x, node)
                           /\ ReadsAll([w |-> x, branches |-> x.agenda], visit.node)
    BY <1>1, <1>2, <1>3, <2>1, DriveNodeEffect
  <2>3. CASE Truncated(x) BY <2>2, <2>3 DEF DriveAccounted, x
  <2>4. CASE ~Truncated(x) /\ Truncated(w)
    <3>1. Truncated(rest) => Truncated(x) BY <1>3, <1>2, <2>1, DriveNodeEffect, <1>1
    <3>2. QED BY <1>5, <2>4, <3>1
  <2>5. CASE ~Truncated(x) /\ ~Truncated(w)
    <3>1. PICK V \in SUBSET DriveNodes :
            /\ WalkRoot \in V \cup Awaited(w.agenda)
            /\ \A node \in V : /\ RecordsIn(DriveTree[node]) \subseteq V \cup Awaited(w.agenda)
                               /\ LinksTold(w, node)
      BY <1>1, <2>5 DEF DriveAccounted
    <3>2. PICK C \in SUBSET DriveNodes :
            /\ visit.node \in C
            /\ \A n \in C : /\ RecordsIn(DriveTree[n]) \subseteq C \cup Awaited(x.agenda)
                            /\ LinksTold(x, n)
      BY <2>2, <2>5 DEF ReadsAll
    <3>3. Awaited(w.agenda) \subseteq C \cup Awaited(x.agenda)
      BY <1>2, <1>3, <1>7, <2>2, <2>5, <3>2
    <3>4. \A node \in V : LinksTold(x, node) BY <1>4, <2>2, <2>5, <3>1
    <3> DEFINE U == V \cup C
    <3>5. /\ U \in SUBSET DriveNodes /\ WalkRoot \in U \cup Awaited(x.agenda)
          /\ \A node \in U : /\ RecordsIn(DriveTree[node]) \subseteq U \cup Awaited(x.agenda)
                             /\ LinksTold(x, node)
      BY <3>1, <3>2, <3>3, <3>4
    <3> HIDE DEF U
    <3>6. DriveAccounted(x) BY <3>5 DEF DriveAccounted
    <3>7. QED BY <2>2, <3>6 DEF x
  <2>6. QED BY <2>3, <2>4, <2>5
<1>8. QED BY <1>6, <1>7

(* At first only the root is awaited.                                      *)
LEMMA DriveInitInv == DriveInit => DriveInv
<1> SUFFICES ASSUME DriveInit
             PROVE  DriveInv
  OBVIOUS
<1> DEFINE visit == DriveVisit(WalkRoot, FALSE, "", <<>>, 0)
           w == driveWalk
<1>1. /\ driveInput \in DriveInputs
      /\ w = [agenda |-> <<visit>>, found |-> <<>>, nodes |-> 0, scanned |-> 0, urls |-> 0,
              anonymous |-> 1, capped |-> [limit \in DriveLimitsHit |-> 0]]
  BY DEF DriveInit, DriveInitFrom
<1>2. WalkRoot \in DriveNodes BY <1>1, DriveRecordShape
<1>3. visit.node = WalkRoot /\ ~visit.leaves BY DEF DriveVisit
<1>4. visit \in DriveVisits
  <2>1. <<>> \in DrivePaths BY EmptySeq DEF DrivePaths
  <2>2. "" \in DriveRelations BY DEF DriveRelations
  <2>3. visit \in [node : DriveNodes, fresh : BOOLEAN, relationship : DriveRelations,
                   path : DrivePaths, depth : Nat, leaves : BOOLEAN]
    BY <1>2, <2>1, <2>2 DEF DriveVisit
  <2>4. ~visit.fresh BY DEF DriveVisit
  <2> HIDE DEF visit
  <2>5. QED BY <2>3, <2>4 DEF DriveVisits
<1> HIDE DEF visit, w
<1>5. w \in DriveWalks
  <2> DEFINE V == DriveVisits
             E == DriveEntries
  <2>1. DriveLimits.scans \in Nat /\ DriveLimits.urls \in Nat
    BY <1>1, DriveLimitShape DEF DriveLimitNames
  <2>2. visit \in V BY <1>4
  <2> HIDE DEF V, E
  <2>3. <<visit>> \in Seq(V) /\ <<>> \in Seq(E) BY <2>2, EmptySeq
  <2>4. [limit \in DriveLimitsHit |-> 0] \in [DriveLimitsHit -> Nat] OBVIOUS
  <2>5. QED BY <1>1, <2>1, <2>3, <2>4 DEF DriveWalks, V, E
<1>6. WalkRoot \in Awaited(w.agenda)
  <2>1. w.agenda = <<visit>> BY <1>1
  <2>2. 1 \in DOMAIN w.agenda /\ w.agenda[1] = visit BY <2>1
  <2>3. QED BY <1>3, <2>2 DEF Awaited
<1>7. DriveAccounted(w)
  <2>1. {} \in SUBSET DriveNodes OBVIOUS
  <2>2. QED BY <1>6, <2>1 DEF DriveAccounted
<1>8. QED BY <1>1, <1>5, <1>7 DEF DriveInv, w

(* What a plan is made from does not change while it is made.              *)
LEMMA SameDriveInput ==
  ASSUME driveInput' = driveInput
  PROVE  DriveWalks' = DriveWalks /\ \A w : DriveAccounted(w)' = DriveAccounted(w)
<1>1. WalkRoot' = WalkRoot BY DEF WalkRoot, Rewrapped
<1>2. DriveTree' = DriveTree BY <1>1 DEF DriveTree
<1>3. DriveNodes' = DriveNodes BY <1>2 DEF DriveNodes
<1>4. DriveVisits' = DriveVisits BY <1>2, <1>3 DEF DriveVisits
<1>5. DriveLimits' = DriveLimits BY DEF DriveLimits
<1>6. DriveWalks' = DriveWalks BY <1>4, <1>5 DEF DriveWalks
<1>7. \A raw : DriveLinksIn(raw)' = DriveLinksIn(raw) BY DEF DriveLinksIn, DriveSourceAllowed
<1>8. \A w, node : LinksTold(w, node)' = LinksTold(w, node) BY <1>2, <1>7 DEF LinksTold
<1>9. \A w : DriveAccounted(w)' = DriveAccounted(w)
  BY <1>1, <1>2, <1>3, <1>8 DEF DriveAccounted
<1>10. QED BY <1>6, <1>9

(* Every step keeps the account.                                           *)
LEMMA DriveStep == DriveInv /\ [DriveNext]_driveVars => DriveInv'
<1> SUFFICES ASSUME DriveInv, [DriveNext]_driveVars
             PROVE  DriveInv'
  OBVIOUS
<1>1. driveInput' = driveInput BY DEF DriveNext, VisitBranch, driveVars
<1>2. DriveWalks' = DriveWalks /\ DriveAccounted(driveWalk)' = DriveAccounted(driveWalk')
  <2>1. DriveWalks' = DriveWalks /\ \A w : DriveAccounted(w)' = DriveAccounted(w)
    BY <1>1, SameDriveInput
  <2>2. QED BY <2>1
<1>3. CASE VisitBranch
  <2>1. driveWalk' \in DriveWalks /\ DriveAccounted(driveWalk') BY <1>3, DriveVisitEffect
  <2>2. QED BY <1>1, <1>2, <2>1 DEF DriveInv
<1>4. CASE UNCHANGED driveVars
  <2>1. driveWalk' = driveWalk BY <1>4 DEF driveVars
  <2>2. QED BY <1>1, <1>2, <2>1 DEF DriveInv
<1>5. QED BY <1>3, <1>4 DEF DriveNext

(* What is in reach is in every set that has the root and all that the     *)
(* records in it lead to.                                                  *)
LEMMA DriveReach ==
  ASSUME NEW tree, IsFiniteSet(DOMAIN tree), NEW root, NEW V, root \in V,
         \A node \in V : RecordsIn(tree[node]) \subseteq V
  PROVE  ReachableRecords(tree, root) \subseteq V
<1> DEFINE n == Cardinality(DOMAIN tree)
           IsWithin(f) == f = [k \in 0..n |-> IF k = 0 THEN {root}
                                 ELSE f[k - 1] \cup UNION {RecordsIn(tree[node]) : node \in f[k - 1]}]
           within == CHOOSE f : IsWithin(f)
           X == SUBSET V
           F == [k \in 1..n |-> [s \in X |-> s \cup UNION {RecordsIn(tree[node]) : node \in s}]]
<1>1. n \in Nat /\ \A k \in 1..n : k - 1 \in 0..n BY FS_CardinalityType
<1>2. ReachableRecords(tree, root) = within[n] BY DEF ReachableRecords
<1> HIDE DEF n
<1>3. /\ F \in [1..n -> [X -> X]]
      /\ \A k \in 1..n, s \in X : F[k][s] = s \cup UNION {RecordsIn(tree[node]) : node \in s}
  OBVIOUS
<1>4. {root} \in X OBVIOUS
<1> HIDE DEF F, X
<1>5. IsWithin(within)
  <2>1. PICK g \in [0..n -> X] : LeadsOn(g, {root}, n, F) BY <1>1, <1>3, <1>4, Iterated
  <2>2. \A k \in 1..n : g[k] = g[k - 1] \cup UNION {RecordsIn(tree[node]) : node \in g[k - 1]}
    BY <1>1, <1>3, <2>1 DEF LeadsOn
  <2>3. \A k \in 0..n : k # 0 => k \in 1..n BY <1>1
  <2>4. IsWithin(g) BY <2>1, <2>2, <2>3 DEF LeadsOn
  <2>5. QED BY <2>4
<1> HIDE DEF within
<1>6. /\ within[0] = {root}
      /\ \A k \in 1..n :
           within[k] = within[k - 1] \cup UNION {RecordsIn(tree[node]) : node \in within[k - 1]}
  <2>1. \A k \in 0..n :
          within[k] = IF k = 0 THEN {root}
                      ELSE within[k - 1] \cup UNION {RecordsIn(tree[node]) : node \in within[k - 1]}
    BY <1>5, Zenon
  <2>2. 0 \in 0..n /\ \A k \in 1..n : k \in 0..n /\ k # 0 BY <1>1
  <2>3. QED BY <2>1, <2>2, Zenon
<1> DEFINE Inside == {k \in 0..n : within[k] \subseteq V}
<1>7. 0 \in Inside BY <1>1, <1>6
<1>8. ASSUME NEW k \in 1..n, k - 1 \in Inside
      PROVE  k \in Inside
  BY <1>1, <1>6, <1>8
<1> HIDE DEF Inside
<1>9. 0..n \subseteq Inside BY <1>1, <1>7, <1>8, UpTo
<1>10. n \in Inside BY <1>1, <1>9
<1>11. QED BY <1>2, <1>10 DEF Inside

(* When the agenda is empty, what was read holds the root and is closed.   *)
LEMMA DriveNoneOmitted == DriveInv => DriveLinksAccounted
<1> SUFFICES ASSUME DriveInv, driveWalk.agenda = <<>>, ~TraversalTruncated,
                    NEW node \in ReachableRecords(DriveTree, WalkRoot),
                    NEW link \in DriveLinksIn(DriveTree[node])
             PROVE  \E i \in DOMAIN driveWalk.found :
                      /\ FoundAs(i, link, DriveTree[node])
                      /\ DrivePlanStatus = "ready" => Retrievable(driveWalk.found[i].link)
  BY DEF DriveLinksAccounted
<1> DEFINE w == driveWalk
<1>1. driveInput \in DriveInputs /\ DriveAccounted(w) /\ ~Truncated(w) /\ Awaited(w.agenda) = {}
  BY DEF DriveInv, Truncated, TraversalTruncated, Awaited
<1>2. PICK V \in SUBSET DriveNodes :
        /\ WalkRoot \in V
        /\ \A n \in V : RecordsIn(DriveTree[n]) \subseteq V /\ LinksTold(w, n)
  BY <1>1 DEF DriveAccounted
<1>3. node \in V
  <2>1. IsFiniteSet(DOMAIN DriveTree) BY <1>1, DriveRecordShape DEF DriveNodes
  <2>2. ReachableRecords(DriveTree, WalkRoot) \subseteq V BY <1>2, <2>1, DriveReach
  <2>3. QED BY <2>2
<1>4. PICK i \in DOMAIN w.found :
        w.found[i].link.url = link.url /\ NamedLike(w.found[i].path, DriveTree[node].name)
  BY <1>1, <1>2, <1>3 DEF LinksTold
<1>5. FoundAs(i, link, DriveTree[node]) BY <1>4 DEF FoundAs, NamedLike
<1>6. ASSUME DrivePlanStatus = "ready"
      PROVE  Retrievable(w.found[i].link)
  <2>1. ParseDriveUrl(w.found[i].link.url).drive BY <1>4, Zenon DEF DriveLinksIn
  <2>2. w.found[i].link \in DriveCandidates BY <2>1 DEF DriveCandidates
  <2>3. {l \in DriveCandidates : ~Retrievable(l)} = {} BY <1>6 DEF DrivePlanStatus
  <2>4. QED BY <2>2, <2>3
<1>7. QED BY <1>5, <1>6

(* Of a tree of messages of any size and shape, under any budgets: a walk  *)
(* that says it is complete has found every link in reach, the one for     *)
(* Chat links and the one for Drive links, and tells of the messages it    *)
(* was found in; a plan that says it is ready can read what each of them   *)
(* points at; and no read of Chat leaves the space that a link names.      *)
THEOREM LinksKept == ChatSpec /\ DriveSpec => []LinksAccounted
<1>1. ChatSpec => []ChatLinksAccounted
  <2>1. ChatInit => ChatInv BY ChatAssumption, ChatInitInv
  <2>2. ChatInv /\ [ChatNext]_chatVars => ChatInv' BY ChatAssumption, ChatStep
  <2>3. ChatInv => ChatLinksAccounted
    BY ChatAssumption, NoneOmitted, NoneStray DEF ChatLinksAccounted
  <2>4. QED BY <2>1, <2>2, <2>3, PTL DEF ChatSpec
<1>2. DriveSpec => []DriveLinksAccounted
  <2>1. DriveInv => DriveLinksAccounted BY DriveNoneOmitted
  <2>2. QED BY <2>1, DriveInitInv, DriveStep, PTL DEF DriveSpec
<1>3. ChatLinksAccounted /\ DriveLinksAccounted => LinksAccounted BY DEF LinksAccounted
<1>4. QED BY <1>1, <1>2, <1>3, PTL
============================================================================
