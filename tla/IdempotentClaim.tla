-------------------------- MODULE IdempotentClaim --------------------------
(***************************************************************************)
(* What every IdempotencyStore promises its callers (the interface of      *)
(* packages/node/src/transport/index.ts:38-58): a key is claimed by at   *)
(* most one call until the claim expires.  A claim may be recorded and its *)
(* caller never hear of it; it then holds all the same.                    *)
(***************************************************************************)
EXTENDS Naturals

CONSTANTS Keys, Callers

VARIABLES
  clock,
  expiry,   \* for each key the time its claim expires, 0 when there is none
  call,     \* for each caller [key, since] of the call it is in
  answer    \* for each caller the outcome of its last call, or "pending"

claimVars == <<clock, expiry, call, answer>>

Init ==
  /\ clock \in Nat
  /\ expiry = [k \in Keys |-> 0]
  /\ call \in [Callers -> [key : Keys, since : Nat]]
  /\ answer = [c \in Callers |-> "none"]

Tick ==
  /\ clock' > clock
  /\ UNCHANGED <<expiry, call, answer>>

Ask(c) ==
  /\ answer[c] # "pending"
  /\ \E k \in Keys : call' = [call EXCEPT ![c] = [key |-> k, since |-> clock]]
  /\ answer' = [answer EXCEPT ![c] = "pending"]
  /\ UNCHANGED <<clock, expiry>>

(* Claims of the keys outside K stay; those that have expired may go.      *)
OthersKept(K) ==
  \A j \in Keys \ K :
    \/ expiry'[j] = expiry[j]
    \/ expiry[j] <= clock /\ expiry'[j] = 0

(* The claim is recorded: only when no claim of the key is still valid.    *)
Record(k) ==
  /\ expiry[k] <= clock
  /\ expiry' \in [Keys -> Nat] /\ expiry'[k] # 0
  /\ OthersKept({k})

Grant(c) ==
  /\ answer[c] = "pending"
  /\ Record(call[c].key)
  /\ answer' = [answer EXCEPT ![c] = "claimed"]
  /\ UNCHANGED <<clock, call>>

GrantUnheard(c) ==
  /\ answer[c] = "pending"
  /\ Record(call[c].key)
  /\ answer' \in {answer, [answer EXCEPT ![c] = "error"]}
  /\ UNCHANGED <<clock, call>>

(* The claim that makes this call a duplicate was valid during the call,   *)
(* and still holds.                                                        *)
Refuse(c) ==
  LET k == call[c].key
  IN /\ answer[c] = "pending"
     /\ expiry[k] > call[c].since
     /\ expiry' \in [Keys -> Nat] /\ expiry'[k] = expiry[k]
     /\ OthersKept({k})
     /\ answer' = [answer EXCEPT ![c] = "duplicate"]
     /\ UNCHANGED <<clock, call>>

(* Calls fail, one or all at once, and expired claims may go in doing so.  *)
Fail(failed) ==
  /\ expiry' \in [Keys -> Nat] /\ OthersKept({})
  /\ answer' = [c \in Callers |-> IF c \in failed /\ answer[c] = "pending"
                                  THEN "error" ELSE answer[c]]
  /\ UNCHANGED <<clock, call>>

Next ==
  \/ Tick
  \/ \E c \in Callers : Ask(c) \/ Grant(c) \/ GrantUnheard(c) \/ Refuse(c)
  \/ \E failed \in SUBSET Callers : Fail(failed)

Spec == Init /\ [][Next]_claimVars
=============================================================================
