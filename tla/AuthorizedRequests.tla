------------------------- MODULE AuthorizedRequests -------------------------
(***************************************************************************)
(* RetryTransport with the getAccessToken of a token store                 *)
(* (packages/node/src/token-store/index.ts, getAccessTokenFromStore):      *)
(* requests of one principal that share one stored token record, in one    *)
(* process or in several.  A call that finds no fresh access token         *)
(* refreshes the record it loaded and saves the refreshed one, under no    *)
(* lock that spans the three steps.                                        *)
(*                                                                         *)
(* External: the refresh callback and the authorization server behind it,  *)
(* which may rotate the refresh token (the grant) at every refresh and     *)
(* then refuses the former one; a failing store; sign-in and crashes.      *)
(***************************************************************************)
EXTENDS RetryTransport

CONSTANTS
  NoRecord,
  Rotates,        \* the server rotates refresh tokens
  IssueBound,     \* model bound: refresh tokens the server issues
  FaultBound      \* model bound: lost answers, failing saves, crashes

ASSUME TokenAssumption ==
  /\ Rotates \in BOOLEAN /\ IssueBound \in Nat /\ FaultBound \in Nat
  /\ NoRecord \notin [access : Nat, grant : Nat]

VARIABLES
  stored,     \* the principal's record in the store
  stage,      \* where the call stands in getAccessToken: "idle", "refreshing",
              \* "saving", or "gone" with its process
  loaded,     \* record
  refreshed,  \* refreshedRecord
  grants,     \* external: the refresh tokens the server accepts
  issued,     \* external: how many it has issued
  stranded,   \* history: the refresh tokens whose replacement never
              \* reached the store
  faults

tokenVars == <<stored, stage, loaded, refreshed, grants, issued, stranded, faults>>
authVars == <<vars, tokenVars>>

\* accessToken (0: absent) and refreshToken
Record == [access : Nat, grant : Nat]

AuthInit ==
  /\ Init
  /\ stored \in {NoRecord, [access |-> 0, grant |-> 1], [access |-> 1, grant |-> 1]}
  /\ stage = [c \in Calls |-> "idle"]
  /\ loaded = [c \in Calls |-> NoRecord]
  /\ refreshed = [c \in Calls |-> NoRecord]
  /\ grants = {1} /\ issued = 1 /\ stranded = {} /\ faults = 0

-----------------------------------------------------------------------------
Fault == faults < FaultBound /\ faults' = faults + 1

(* getAccessToken returns a lease, and the request is sent with it.        *)
LeaseIs(c, token) ==
  /\ lease' = [lease EXCEPT ![c] = token]
  /\ Goto(c, "send") /\ UNCHANGED <<delay, result>>

\* Mutant: the refresh after a 401 is outside the try block as well.
LeaseFails_Rejects(c) ==
  Return(c, "rejected") /\ UNCHANGED <<lease, delay>>

(* getAccessToken throws: outside the try block at first, inside it later. *)
LeaseFails(c) ==
  /\ IF pc[c] = "start" THEN Return(c, "rejected") /\ UNCHANGED delay
     ELSE Decide(c, attempts[c], "network_error", -1)
  /\ UNCHANGED lease

(* store.load and the freshness test; expiresAt may be missing, so a token *)
(* that reads as fresh may be any that was stored.                         *)
Load(c) ==
  /\ stage[c] = "idle" /\ pc[c] \in {"start", "refresh"}
  /\ \/ /\ stored # NoRecord /\ stored.access # 0 /\ pc[c] = "start"
        /\ LeaseIs(c, stored.access)
        /\ UNCHANGED <<stage, loaded>>
     \/ /\ stored # NoRecord
        /\ stage' = [stage EXCEPT ![c] = "refreshing"]
        /\ loaded' = [loaded EXCEPT ![c] = stored]
        /\ UNCHANGED <<lease, pc, delay, result>>
     \/ LeaseFails(c) /\ UNCHANGED <<stage, loaded>>
  /\ UNCHANGED <<validToken, attempts, applied, stored, refreshed,
                 grants, issued, stranded, faults>>

(* What a refresh does at the server: a new access token and, if it        *)
(* rotates, a new refresh token in place of the one it was given.          *)
Granted(c) ==
  /\ loaded[c].grant \in grants /\ issued < IssueBound
  /\ IF Rotates THEN /\ grants' = (grants \ {loaded[c].grant}) \cup {issued + 1}
                     /\ issued' = issued + 1
     ELSE UNCHANGED <<grants, issued>>

(* await refresh(record): refused, or granted and answered, or granted and *)
(* the answer lost.                                                        *)
AskForToken(c) ==
  /\ stage[c] = "refreshing"
  /\ \/ /\ Granted(c)
        /\ stage' = [stage EXCEPT ![c] = "saving"]
        /\ refreshed' = [refreshed EXCEPT ![c] =
             [access |-> validToken, grant |-> IF Rotates THEN issued + 1 ELSE loaded[c].grant]]
        /\ UNCHANGED <<stranded, faults, lease, pc, delay, result>>
     \/ /\ Granted(c) /\ Fault
        /\ stranded' = stranded \cup {loaded[c].grant}
        /\ stage' = [stage EXCEPT ![c] = "idle"]
        /\ LeaseFails(c) /\ UNCHANGED refreshed
     \/ /\ stage' = [stage EXCEPT ![c] = "idle"]
        /\ LeaseFails(c)
        /\ UNCHANGED <<grants, issued, stranded, faults, refreshed>>
  /\ UNCHANGED <<validToken, attempts, applied, stored, loaded>>

(* store.save replaces whatever is stored, whoever put it there: a map     *)
(* entry, the file rewritten under its lock, or a new secret version.      *)
StoreSaves(record) == stored' = record

(* The file cannot be written; or a request to Secret Manager fails, which *)
(* may have added the version all the same.                                *)
StoreSaveThrows(record) == Fault /\ stored' \in {stored, record}

\* Mutant: the lease is returned and the refreshed record kept nowhere.
Save_Skipped(c) ==
  /\ stage[c] = "saving"
  /\ stage' = [stage EXCEPT ![c] = "idle"]
  /\ LeaseIs(c, refreshed[c].access)
  /\ UNCHANGED <<stored, stranded, faults, validToken, attempts, applied,
                 loaded, refreshed, grants, issued>>

(* await store.save(refreshedRecord), and the lease is returned.           *)
Save(c) ==
  /\ stage[c] = "saving"
  /\ stage' = [stage EXCEPT ![c] = "idle"]
  /\ \/ /\ StoreSaves(refreshed[c])
        /\ LeaseIs(c, refreshed[c].access)
        /\ UNCHANGED <<stranded, faults>>
     \/ /\ StoreSaveThrows(refreshed[c])
        /\ stranded' = stranded \cup {loaded[c].grant}
        /\ LeaseFails(c)
  /\ UNCHANGED <<validToken, attempts, applied, loaded, refreshed, grants, issued>>

-----------------------------------------------------------------------------
SendWithLease(c) == stage[c] = "idle" /\ Send(c) /\ UNCHANGED tokenVars

WakeUp(c) == stage[c] = "idle" /\ Wake(c) /\ UNCHANGED tokenVars

TokenExpires == Expire /\ UNCHANGED tokenVars

(* store.delete, when the principal signs out, and a later sign-in.        *)
SignOut ==
  /\ stored # NoRecord /\ stored' = NoRecord
  /\ UNCHANGED <<vars, stage, loaded, refreshed, grants, issued, stranded, faults>>

SignIn ==
  /\ stored = NoRecord /\ issued < IssueBound
  /\ issued' = issued + 1 /\ grants' = grants \cup {issued + 1}
  /\ stored' = [access |-> validToken, grant |-> issued + 1]
  /\ UNCHANGED <<vars, stage, loaded, refreshed, stranded, faults>>

(* The process of a call dies.                                             *)
Crash(c) ==
  /\ pc[c] # "done" /\ stage[c] # "gone" /\ Fault
  /\ stage' = [stage EXCEPT ![c] = "gone"]
  /\ stranded' = IF stage[c] = "saving" THEN stranded \cup {loaded[c].grant} ELSE stranded
  /\ UNCHANGED <<vars, stored, loaded, refreshed, grants, issued>>

CallStep(c) ==
  Load(c) \/ AskForToken(c) \/ Save(c) \/ SendWithLease(c) \/ WakeUp(c)

AuthNext ==
  \/ \E c \in Calls : CallStep(c) \/ Crash(c)
  \/ TokenExpires \/ SignOut \/ SignIn

AuthSpec == AuthInit /\ [][AuthNext]_authVars

(* Answers, errors and timers arrive.                                      *)
FairAuthSpec == AuthSpec /\ \A c \in Calls : WF_authVars(CallStep(c))

-----------------------------------------------------------------------------
(* The shape of the state with the token store.                            *)
AuthTypeOK ==
  /\ stored \in Record \cup {NoRecord}
  /\ stage \in [Calls -> {"idle", "refreshing", "saving", "gone"}]
  /\ loaded \in [Calls -> Record \cup {NoRecord}]
  /\ refreshed \in [Calls -> Record \cup {NoRecord}]
  /\ issued \in Nat \ {0} /\ grants \subseteq 1..issued
  /\ stranded \subseteq 1..issued
  /\ faults \in Nat

(* The principal's way back is not lost: a stored refresh token that the   *)
(* server no longer accepts is either being replaced at this moment, or    *)
(* its replacement was lost in a crash, an answer or a failing save.  Two  *)
(* calls that refresh the same record never leave the spent one stored.    *)
GrantKept ==
  stored # NoRecord /\ stored.grant \notin grants =>
    \/ stored.grant \in stranded
    \/ \E c \in Calls : stage[c] = "saving" /\ loaded[c].grant = stored.grant

(* With the token store in place of its environment the transport still    *)
(* does what RetryTransport says: an exception of the store or of the      *)
(* refresh is retried or returned as the transport's own errors are.       *)
ImplementsTransport == Spec

(* Every request whose process lives ends, also when its token expires     *)
(* again and again and its refreshes fail.                                 *)
EveryCallEnds == \A c \in Calls : <>(pc[c] = "done" \/ stage[c] = "gone")
=============================================================================
