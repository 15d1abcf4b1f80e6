----------------------- MODULE RequestsAndSmokeProofs -----------------------
(***************************************************************************)
(* What is asked of Google.  By the library: for every set of calls, retry *)
(* policy and number of expiring tokens a request of RetryTransport that   *)
(* is not safe to replay is carried out at most once; for every kind of    *)
(* authorization server, token store and number of faults the requests     *)
(* with a token store implement RetryTransport, an unsafe one is carried   *)
(* out at most once, and the stored refresh token is not silently spent.   *)
(* By the smoke scripts: for every list of command lines and every number  *)
(* of faults a run writes what the plan of its dry run announced, and      *)
(* nothing else; the things of others stay as long as no command names     *)
(* them to be removed; and what a reported run leaves is accounted for.    *)
(***************************************************************************)
EXTENDS AuthorizedRequests, SmokeRuns, SequenceInduction, SequenceTheorems,
        FiniteSetTheorems, TLAPS

(* What is known of the counters and labels; the length of a delay, which  *)
(* holds a power, plays no part.                                           *)
Shape ==
  /\ validToken \in Nat
  /\ lease \in [Calls -> Nat]
  /\ pc \in [Calls -> {"start", "send", "refresh", "sleep", "done"}]
  /\ attempts \in [Calls -> Nat]
  /\ applied \in [Calls -> Nat]
  /\ result \in [Calls -> Results]

(* An unsafe request that may still be sent was never carried out: it is   *)
(* sent again only when its token was refused, and then the server did     *)
(* nothing.                                                                *)
FreshInv ==
  \A c \in Calls : ~ReplaySafe[c] =>
    /\ applied[c] <= 1
    /\ pc[c] # "done" => applied[c] = 0

IInv == Shape /\ FreshInv

(* An unsafe request is never given a delayed retry.                       *)
LEMMA UnsafeDecision ==
  ASSUME NEW c \in Calls, ~ReplaySafe[c], NEW attempt \in Nat,
         NEW answer \in {"retryable", "network_error", "refused"}
  PROVE  BuildRetryDecision(ReplaySafe[c], attempt, answer) = "fail"
BY TransportAssumption DEF BuildRetryDecision

(* Every decision leaves the call with a label and a result of its kind.   *)
LEMMA DecideShape ==
  ASSUME Shape, NEW c \in Calls, NEW attempt \in Nat, NEW after \in Int,
         NEW answer, Decide(c, attempt, answer, after)
  PROVE  /\ pc' \in [Calls -> {"start", "send", "refresh", "sleep", "done"}]
         /\ result' \in [Calls -> Results]
         /\ \A d \in Calls : d # c => pc'[d] = pc[d] /\ result'[d] = result[d]
BY DEF Decide, Shape, Goto, Return, Results

(* An unsafe request is done after any answer but a 401.                   *)
LEMMA DecideUnsafe ==
  ASSUME Shape, NEW c \in Calls, ~ReplaySafe[c], NEW attempt \in Nat, NEW after \in Int,
         NEW answer \in {"retryable", "network_error", "refused"},
         Decide(c, attempt, answer, after)
  PROVE  pc'[c] = "done"
<1>1. BuildRetryDecision(ReplaySafe[c], attempt, answer) = "fail" BY UnsafeDecision
<1>2. QED BY <1>1 DEF Decide, Shape, Goto, Return

LEMMA InitInv == Init => IInv
BY DEF Init, IInv, Shape, FreshInv, Results

(* A call's label, result and count change together; the others keep theirs. *)
LEMMA OneCallChanges ==
  ASSUME IInv, Shape', NEW c \in Calls,
         \A d \in Calls : d # c =>
           pc'[d] = pc[d] /\ result'[d] = result[d] /\ applied'[d] = applied[d],
         ~ReplaySafe[c] =>
           /\ applied'[c] <= 1
           /\ pc'[c] # "done" => applied'[c] = 0
  PROVE  IInv'
BY DEF IInv, FreshInv

LEMMA SendInv ==
  ASSUME IInv, NEW c \in Calls, Send(c)
  PROVE  IInv'
<1> DEFINE attempt == attempts[c] + 1
<1>1. /\ attempt \in Nat /\ -1 \in Int /\ RetryAfters \cup {-1} \subseteq Int
      /\ pc[c] = "send" /\ UNCHANGED <<validToken, lease>> /\ Shape
      /\ attempts' = [attempts EXCEPT ![c] = attempt]
  BY TransportAssumption DEF Send, IInv, Shape
<1>2. /\ attempts' \in [Calls -> Nat] /\ validToken' \in Nat /\ lease' \in [Calls -> Nat]
  BY <1>1 DEF Shape
<1>3. ~ReplaySafe[c] => applied[c] = 0 BY <1>1 DEF IInv, FreshInv
<1>4. CASE Applied(c) /\ Return(c, "ok")
  <2>1. Shape' BY <1>1, <1>2, <1>4 DEF Shape, Applied, Return, Goto, Results
  <2>2. /\ applied'[c] = applied[c] + 1 /\ pc'[c] = "done"
        /\ \A d \in Calls : d # c =>
             pc'[d] = pc[d] /\ result'[d] = result[d] /\ applied'[d] = applied[d]
    BY <1>1, <1>4 DEF Shape, Applied, Return, Goto
  <2>3. ~ReplaySafe[c] => applied'[c] <= 1 BY <1>3, <2>2
  <2>4. QED BY <2>1, <2>2, <2>3, OneCallChanges
<1>5. ASSUME Decide(c, attempt, "unauthorized", -1) /\ UNCHANGED applied
      PROVE  IInv'
  <2>1. Shape' BY <1>1, <1>2, <1>5, DecideShape DEF Shape
  <2>2. QED BY <1>1, <1>3, <1>5, <2>1, DecideShape, OneCallChanges
<1>6. ASSUME NEW answer \in {"retryable", "network_error", "refused"}, NEW after \in Int,
             Decide(c, attempt, answer, after), Applied(c) \/ UNCHANGED applied
      PROVE  IInv'
  <2>1. /\ applied' \in [Calls -> Nat]
        /\ \A d \in Calls : d # c => applied'[d] = applied[d]
        /\ applied'[c] \in {applied[c], applied[c] + 1}
    BY <1>1, <1>6 DEF Applied, Shape
  <2>2. /\ Shape'
        /\ \A d \in Calls : d # c => pc'[d] = pc[d] /\ result'[d] = result[d]
    BY <1>1, <1>2, <1>6, <2>1, DecideShape DEF Shape
  <2>3. ~ReplaySafe[c] => pc'[c] = "done" /\ applied'[c] <= 1
    BY <1>1, <1>3, <1>6, <2>1, DecideUnsafe
  <2>4. QED BY <2>1, <2>2, <2>3, OneCallChanges
<1>7. QED BY <1>1, <1>4, <1>5, <1>6 DEF Send

(* A refused refresh reads as a network error, so an unsafe request ends.  *)
LEMMA RefreshInv ==
  ASSUME IInv, NEW c \in Calls, Refresh(c)
  PROVE  IInv'
<1>1. /\ attempts[c] \in Nat /\ -1 \in Int /\ Shape /\ pc[c] = "refresh"
      /\ UNCHANGED <<validToken, attempts, applied>>
  BY DEF Refresh, IInv, Shape
<1>2. ~ReplaySafe[c] => applied[c] = 0 BY <1>1 DEF IInv, FreshInv
<1>3. CASE /\ \E token \in 1..validToken : lease' = [lease EXCEPT ![c] = token]
           /\ Goto(c, "send") /\ UNCHANGED result
  <2>1. Shape' BY <1>1, <1>3 DEF Shape, Goto
  <2>2. QED BY <1>1, <1>2, <1>3, <2>1, OneCallChanges DEF Goto, Shape
<1>4. CASE Decide(c, attempts[c], "network_error", -1) /\ UNCHANGED lease
  <2>1. Shape' BY <1>1, <1>4, DecideShape DEF Shape
  <2>2. QED BY <1>1, <1>2, <1>4, <2>1, DecideShape, OneCallChanges
<1>5. QED BY <1>3, <1>4 DEF Refresh

LEMMA NextInv == IInv /\ [Next]_vars => IInv'
<1> SUFFICES ASSUME IInv, [Next]_vars PROVE IInv' OBVIOUS
<1>1. CASE Expire
  BY <1>1 DEF Expire, IInv, Shape, FreshInv
<1>2. ASSUME NEW c \in Calls, GetAccessToken(c) PROVE IInv'
  <2>1. Shape /\ pc[c] = "start" /\ UNCHANGED applied /\ applied[c] \in Nat
    BY <1>2 DEF IInv, Shape, GetAccessToken
  <2>2. /\ lease' \in [Calls -> Nat]
        /\ pc' \in [Calls -> {"start", "send", "refresh", "sleep", "done"}]
        /\ result' \in [Calls -> Results]
    BY <1>2, <2>1 DEF GetAccessToken, Goto, Return, Shape, Results
  <2>3. Shape' BY <1>2, <2>1, <2>2 DEF Shape, GetAccessToken
  <2>4. ~ReplaySafe[c] => applied[c] = 0 BY <2>1 DEF IInv, FreshInv
  <2>5. \A d \in Calls : d # c => pc'[d] = pc[d] /\ result'[d] = result[d]
    BY <1>2, <2>1 DEF GetAccessToken, Goto, Return, Shape
  <2>6. QED BY <2>1, <2>3, <2>4, <2>5, OneCallChanges
<1>3. ASSUME NEW c \in Calls, Wake(c) PROVE IInv'
  <2>1. Shape' BY <1>3 DEF IInv, Shape, Wake, Goto
  <2>2. QED BY <1>3, <2>1, OneCallChanges DEF IInv, FreshInv, Wake, Goto, Shape
<1>4. CASE UNCHANGED vars
  BY <1>4 DEF vars, IInv, Shape, FreshInv
<1>5. QED BY <1>1, <1>2, <1>3, <1>4, SendInv, RefreshInv DEF Next, Step

LEMMA TransportInvariant == Spec => []IInv
BY InitInv, NextInv, PTL DEF Spec

(* A write that is not safe to replay is carried out at most once: neither *)
(* the refresh after a 401 nor a lost answer sends it a second time.       *)
THEOREM UnsafeOnce == Spec => []UnsafeAppliedOnce
<1>1. IInv => UnsafeAppliedOnce BY DEF IInv, FreshInv, UnsafeAppliedOnce
<1>2. QED BY <1>1, TransportInvariant, PTL

-----------------------------------------------------------------------------
(* With a token store *)

Saving(c) == stage[c] = "saving"

(* Access tokens are never those of the future, and a call between its     *)
(* load and its save holds the records it needs.                           *)
RecordInv ==
  /\ validToken >= 1
  /\ stored # NoRecord => stored.access <= validToken /\ stored.grant \in 1..issued
  /\ \A c \in Calls :
       /\ stage[c] \in {"refreshing", "saving"} =>
            /\ pc[c] \in {"start", "refresh"}
            /\ loaded[c] \in Record /\ loaded[c].grant \in 1..issued
       /\ Saving(c) =>
            /\ refreshed[c] \in Record
            /\ refreshed[c].access \in 1..validToken

(* A refresh token on its way to the store is still good, because nobody   *)
(* but the call that saves it has it.                                      *)
Unshared(c) ==
  /\ stored # NoRecord => stored.grant # refreshed[c].grant
  /\ \A d \in Calls :
       /\ stage[d] = "refreshing" => loaded[d].grant # refreshed[c].grant
       /\ Saving(d) /\ d # c => refreshed[d].grant # refreshed[c].grant

GrantInv ==
  /\ ~Rotates => grants = 1..issued
  /\ \A c \in Calls : Saving(c) =>
       /\ refreshed[c].grant \in grants
       /\ Rotates => Unshared(c)

AuthInv == AuthTypeOK /\ RecordInv /\ GrantInv /\ GrantKept

Both == IInv /\ AuthInv

-----------------------------------------------------------------------------
LEMMA AuthInitInv == AuthInit => Both
<1> SUFFICES ASSUME AuthInit PROVE Both OBVIOUS
<1>1. IInv BY InitInv DEF AuthInit
<1>2. AuthTypeOK /\ RecordInv
  BY TokenAssumption DEF AuthInit, Init, AuthTypeOK, RecordInv, Record, Saving
<1>3. GrantInv /\ GrantKept
  BY DEF AuthInit, GrantInv, GrantKept, Saving
<1>4. QED BY <1>1, <1>2, <1>3 DEF Both, AuthInv

(* getAccessToken ends a call's stage and leaves the other calls alone.    *)
LEMMA LeaseEffect ==
  ASSUME Shape, NEW c \in Calls, NEW token \in Nat, LeaseIs(c, token) \/ LeaseFails(c)
  PROVE  \A d \in Calls : d # c => pc'[d] = pc[d]
<1>1. attempts[c] \in Nat /\ -1 \in Int BY DEF Shape
<1>2. CASE LeaseIs(c, token) BY <1>2 DEF LeaseIs, Goto, Shape
<1>3. CASE LeaseFails(c) BY <1>1, <1>3, DecideShape DEF LeaseFails, Return, Goto, Shape
<1>4. QED BY <1>2, <1>3

(* What the transport sees of a getAccessToken that returns or throws.     *)
LEMMA LeaseSeen ==
  ASSUME NEW c \in Calls, pc[c] \in {"start", "refresh"}, NEW token \in 1..validToken,
         UNCHANGED <<validToken, attempts, applied>>,
         LeaseIs(c, token) \/ LeaseFails(c)
  PROVE  GetAccessToken(c) \/ Refresh(c)
<1>1. CASE LeaseIs(c, token) BY <1>1 DEF LeaseIs, GetAccessToken, Refresh
<1>2. CASE LeaseFails(c) BY <1>2 DEF LeaseFails, GetAccessToken, Refresh
<1>3. QED BY <1>1, <1>2

(* Every step of the composition is one of the transport or none.          *)
LEMMA StepImplements ==
  ASSUME Both, [AuthNext]_authVars
  PROVE  [Next]_vars
<1>1. ASSUME NEW c \in Calls, Load(c) PROVE [Next]_vars
  <2>1. /\ UNCHANGED <<validToken, attempts, applied>>
        /\ pc[c] \in {"start", "refresh"}
    BY <1>1 DEF Load
  <2>2. CASE stored # NoRecord /\ stored.access # 0 /\ LeaseIs(c, stored.access)
    <3>1. stored.access \in 1..validToken
      BY <2>2 DEF Both, AuthInv, AuthTypeOK, RecordInv, Record, IInv, Shape
    <3>2. QED BY <2>1, <2>2, <3>1, LeaseSeen DEF Next, Step
  <2>3. CASE UNCHANGED <<lease, pc, delay, result>>
    BY <2>1, <2>3 DEF vars
  <2>4. CASE LeaseFails(c)
    <3>1. 1 \in 1..validToken BY DEF Both, AuthInv, RecordInv, IInv, Shape
    <3>2. QED BY <2>1, <2>4, <3>1, LeaseSeen DEF Next, Step
  <2>5. QED BY <1>1, <2>2, <2>3, <2>4 DEF Load
<1>2. ASSUME NEW c \in Calls, AskForToken(c) PROVE [Next]_vars
  <2>1. /\ UNCHANGED <<validToken, attempts, applied>>
        /\ pc[c] \in {"start", "refresh"} /\ 1 \in 1..validToken
    BY <1>2 DEF AskForToken, Both, AuthInv, RecordInv, IInv, Shape
  <2>2. CASE UNCHANGED <<lease, pc, delay, result>>
    BY <2>1, <2>2 DEF vars
  <2>3. CASE LeaseFails(c)
    BY <2>1, <2>3, LeaseSeen DEF Next, Step
  <2>4. QED BY <1>2, <2>2, <2>3 DEF AskForToken
<1>3. ASSUME NEW c \in Calls, Save(c) PROVE [Next]_vars
  <2>1. /\ UNCHANGED <<validToken, attempts, applied>>
        /\ pc[c] \in {"start", "refresh"} /\ refreshed[c].access \in 1..validToken
    BY <1>3 DEF Save, Both, AuthInv, RecordInv, Saving
  <2>2. LeaseIs(c, refreshed[c].access) \/ LeaseFails(c)
    BY <1>3 DEF Save
  <2>3. QED BY <2>1, <2>2, LeaseSeen DEF Next, Step
<1>4. ASSUME NEW c \in Calls, SendWithLease(c) \/ WakeUp(c) \/ Crash(c) PROVE [Next]_vars
  BY <1>4 DEF SendWithLease, WakeUp, Crash, Next, Step
<1>5. CASE TokenExpires \/ SignOut \/ SignIn \/ UNCHANGED authVars
  BY <1>5 DEF TokenExpires, SignOut, SignIn, authVars, Next
<1>6. QED BY <1>1, <1>2, <1>3, <1>4, <1>5 DEF AuthNext, CallStep

-----------------------------------------------------------------------------
(* What the actions share: a call leaves getAccessToken, its process dies, *)
(* or nothing of the token store changes.                                  *)
LEMMA LoadInv ==
  ASSUME Both, NEW c \in Calls, Load(c)
  PROVE  AuthInv'
<1> USE DEF Both, AuthInv
<1>1. /\ pc[c] \in {"start", "refresh"} /\ stage[c] = "idle"
      /\ UNCHANGED <<validToken, stored, refreshed, grants, issued, stranded, faults>>
      /\ Shape /\ validToken \in Nat /\ 1 \in Nat
  BY DEF Load, IInv, Shape
<1>2. CASE /\ stored # NoRecord
           /\ stage' = [stage EXCEPT ![c] = "refreshing"]
           /\ loaded' = [loaded EXCEPT ![c] = stored]
           /\ UNCHANGED <<lease, pc, delay, result>>
  <2>1. AuthTypeOK' BY <1>1, <1>2 DEF AuthTypeOK
  <2>2. RecordInv' BY <1>1, <1>2 DEF RecordInv, AuthTypeOK, Saving
  <2>3. GrantInv' BY <1>1, <1>2 DEF GrantInv, AuthTypeOK, Saving, Unshared
  <2>4. GrantKept' BY <1>1, <1>2 DEF GrantKept, AuthTypeOK
  <2>5. QED BY <2>1, <2>2, <2>3, <2>4
<1>3. CASE /\ \/ stored # NoRecord /\ stored.access # 0 /\ LeaseIs(c, stored.access)
              \/ LeaseFails(c)
           /\ UNCHANGED <<stage, loaded>>
  <2>1. \A d \in Calls : d # c => pc'[d] = pc[d]
    <3>1. stored # NoRecord => stored.access \in Nat BY DEF AuthTypeOK, Record
    <3>2. 1 \in Nat OBVIOUS
    <3>3. QED BY <1>1, <1>3, <3>1, <3>2, LeaseEffect
  <2>2. AuthTypeOK' /\ GrantInv' /\ GrantKept'
    BY <1>1, <1>3 DEF AuthTypeOK, GrantInv, Saving, Unshared, GrantKept
  <2>3. RecordInv' BY <1>1, <1>3, <2>1 DEF RecordInv, Saving
  <2>4. QED BY <2>2, <2>3
<1>4. QED BY <1>1, <1>2, <1>3 DEF Load

LEMMA GrantedShape ==
  ASSUME AuthTypeOK, NEW c \in Calls, Granted(c)
  PROVE  /\ issued' \in Nat \ {0} /\ issued' >= issued
         /\ grants' \subseteq 1..issued'
         /\ 1..issued \subseteq 1..issued'
<1> DEFINE given == loaded[c].grant
<1>1. /\ issued \in Nat \ {0} /\ grants \subseteq 1..issued
      /\ \/ issued' = issued + 1 /\ grants' = (grants \ {given}) \cup {issued + 1}
         \/ issued' = issued /\ grants' = grants
  BY DEF Granted, AuthTypeOK
<1> HIDE DEF given
<1>2. issued' \in Nat \ {0} /\ issued' >= issued BY <1>1
<1>3. 1..issued \subseteq 1..issued' BY <1>1, <1>2
<1>4. issued + 1 = issued' => issued + 1 \in 1..issued' BY <1>1, <1>2
<1>5. grants' \subseteq 1..issued' BY <1>1, <1>3, <1>4
<1>6. QED BY <1>2, <1>3, <1>5

(* A refresh spends the token it was given; if that is the stored one, the *)
(* caller is now the one who replaces it, or the replacement is lost.      *)
LEMMA AskInv ==
  ASSUME Both, NEW c \in Calls, AskForToken(c)
  PROVE  AuthInv'
<1> USE DEF Both, AuthInv
<1> DEFINE g == loaded[c].grant
<1>1. /\ pc[c] \in {"start", "refresh"} /\ stage[c] = "refreshing"
      /\ UNCHANGED <<validToken, stored, loaded>>
      /\ Shape /\ validToken \in Nat /\ validToken >= 1 /\ 1 \in Nat
      /\ g \in 1..issued /\ loaded[c] \in Record /\ issued \in Nat \ {0}
  BY DEF AskForToken, IInv, Shape, RecordInv, AuthTypeOK
<1>2. CASE /\ Granted(c)
           /\ stage' = [stage EXCEPT ![c] = "saving"]
           /\ refreshed' = [refreshed EXCEPT ![c] =
                [access |-> validToken, grant |-> IF Rotates THEN issued + 1 ELSE g]]
           /\ UNCHANGED <<stranded, faults, lease, pc, delay, result>>
  <2>1. AuthTypeOK'
    <3>1. refreshed' \in [Calls -> Record \cup {NoRecord}]
      BY <1>1, <1>2 DEF AuthTypeOK, Record
    <3>2. stranded' \subseteq 1..issued' BY <1>2, GrantedShape DEF AuthTypeOK
    <3>3. QED BY <1>1, <1>2, <3>1, <3>2, GrantedShape DEF AuthTypeOK
  <2>2. RecordInv' BY <1>1, <1>2 DEF RecordInv, AuthTypeOK, Saving, Granted, Record
  <2>3. GrantInv'
    <3>1. CASE Rotates
      <4>1. /\ issued' = issued + 1 /\ grants' = (grants \ {g}) \cup {issued + 1}
            /\ refreshed'[c].grant = issued + 1
        BY <1>1, <1>2, <3>1 DEF Granted, AuthTypeOK
      <4>2. ASSUME NEW d \in Calls, d # c, Saving(d)
            PROVE  /\ refreshed'[d] = refreshed[d]
                   /\ refreshed[d].grant # g /\ refreshed[d].grant \in grants
                   /\ refreshed[d].grant # issued + 1
                   /\ Unshared(d)
        BY <1>1, <1>2, <3>1, <4>2 DEF GrantInv, Unshared, AuthTypeOK
      <4>3. \A d \in Calls : (Saving(d))' <=> d = c \/ Saving(d)
        BY <1>1, <1>2 DEF Saving, AuthTypeOK
      <4>4. \A d \in Calls : d # c /\ Saving(d) => (Unshared(d))'
        BY <1>1, <1>2, <4>1, <4>2, <4>3 DEF Unshared, AuthTypeOK, Saving
      <4>5. (Unshared(c))'
        BY <1>1, <1>2, <4>1, <4>2, <4>3 DEF Unshared, AuthTypeOK, RecordInv, Saving
      <4>6. QED BY <3>1, <4>1, <4>2, <4>3, <4>4, <4>5, <1>1 DEF GrantInv
    <3>2. CASE ~Rotates
      BY <1>1, <1>2, <3>2 DEF GrantInv, Granted, AuthTypeOK, Saving
    <3>3. QED BY <3>1, <3>2
  <2>4. GrantKept'
    BY <1>1, <1>2 DEF GrantKept, AuthTypeOK, Granted, RecordInv
  <2>5. QED BY <2>1, <2>2, <2>3, <2>4
<1>3. CASE /\ stage' = [stage EXCEPT ![c] = "idle"]
           /\ LeaseFails(c) /\ UNCHANGED refreshed
           /\ \/ Granted(c) /\ Fault /\ stranded' = stranded \cup {g}
              \/ UNCHANGED <<grants, issued, stranded, faults>>
  <2>1. \A d \in Calls : d # c => pc'[d] = pc[d]
    BY <1>1, <1>3, LeaseEffect
  <2>2. AuthTypeOK'
    <3>1. CASE Granted(c) /\ Fault /\ stranded' = stranded \cup {g}
      <4>1. stranded' \subseteq 1..issued' BY <1>1, <3>1, GrantedShape DEF AuthTypeOK
      <4>2. QED BY <1>1, <1>3, <3>1, <4>1, GrantedShape DEF AuthTypeOK, Fault
    <3>2. CASE UNCHANGED <<grants, issued, stranded, faults>>
      BY <1>1, <1>3, <3>2 DEF AuthTypeOK
    <3>3. QED BY <1>3, <3>1, <3>2
  <2>3. /\ issued' \in Nat /\ issued' >= issued
        /\ \A d \in Calls : (Saving(d))' <=> Saving(d)
    BY <1>1, <1>3 DEF Granted, AuthTypeOK, Saving
  <2>4. RecordInv' BY <1>1, <1>3, <2>1, <2>3 DEF RecordInv, AuthTypeOK, Saving
  <2>5. GrantInv'
    <3>1. \A d \in Calls : Saving(d) => refreshed[d].grant \in grants'
      <4>1. \A d \in Calls : Saving(d) /\ Rotates => refreshed[d].grant # g
        BY <1>1 DEF GrantInv, Unshared
      <4>2. \A d \in Calls : Saving(d) => refreshed[d].grant \in grants
        BY DEF GrantInv
      <4>3. grants \ (IF Rotates THEN {g} ELSE {}) \subseteq grants'
        BY <1>3 DEF Granted
      <4>4. QED BY <4>1, <4>2, <4>3
    <3>2. \A d \in Calls : Saving(d) /\ Rotates => (Unshared(d))'
      BY <1>1, <1>3, <2>3 DEF GrantInv, Unshared, AuthTypeOK, Saving
    <3>3. ~Rotates => grants' = 1..issued'
      BY <1>3 DEF GrantInv, Granted
    <3>4. QED BY <1>3, <2>3, <3>1, <3>2, <3>3 DEF GrantInv
  <2>6. GrantKept'
    BY <1>1, <1>3 DEF GrantKept, AuthTypeOK, Granted, RecordInv
  <2>7. QED BY <2>2, <2>4, <2>5, <2>6
<1>4. QED BY <1>1, <1>2, <1>3 DEF AskForToken

(* A save puts a good token into the store, or leaves the spent one there  *)
(* and the replacement is lost.                                            *)
LEMMA SaveInv ==
  ASSUME Both, NEW c \in Calls, Save(c)
  PROVE  AuthInv'
<1> USE DEF Both, AuthInv
<1>1. /\ stage[c] = "saving" /\ stage' = [stage EXCEPT ![c] = "idle"]
      /\ UNCHANGED <<validToken, loaded, refreshed, grants, issued>>
      /\ stored' \in {stored, refreshed[c]}
      /\ Shape /\ refreshed[c] \in Record /\ refreshed[c].access \in 1..validToken
      /\ refreshed[c].access \in Nat
      /\ loaded[c].grant \in 1..issued /\ refreshed[c].grant \in grants
      /\ \/ stored' = refreshed[c] /\ UNCHANGED <<stranded, faults>>
         \/ Fault /\ stranded' = stranded \cup {loaded[c].grant}
      /\ LeaseIs(c, refreshed[c].access) \/ LeaseFails(c)
  BY DEF Save, StoreSaves, StoreSaveThrows, IInv, Shape, RecordInv, AuthTypeOK, Saving,
         GrantInv, Record
<1>2. \A d \in Calls : d # c => pc'[d] = pc[d]
  BY <1>1, LeaseEffect
<1>3. AuthTypeOK'
  <2>1. /\ stage' \in [Calls -> {"idle", "refreshing", "saving", "gone"}]
        /\ stored' \in Record \cup {NoRecord} /\ faults' \in Nat
    BY <1>1 DEF AuthTypeOK, Fault
  <2>2. stranded' \subseteq 1..issued BY <1>1 DEF AuthTypeOK
  <2>3. QED BY <1>1, <2>1, <2>2 DEF AuthTypeOK
<1>4. \A d \in Calls : (Saving(d))' <=> Saving(d) /\ d # c
  BY <1>1 DEF Saving, AuthTypeOK
<1>5. RecordInv'
  <2>1. stored' # NoRecord => stored'.access <= validToken /\ stored'.grant \in 1..issued
    <3>1. CASE stored' = stored BY <1>1, <3>1 DEF RecordInv
    <3>2. CASE stored' = refreshed[c]
      <4>1. validToken \in Nat /\ grants \subseteq 1..issued BY DEF IInv, Shape, AuthTypeOK
      <4>2. QED BY <1>1, <3>2, <4>1
    <3>3. QED BY <1>1, <3>1, <3>2
  <2>2. QED BY <1>1, <1>2, <1>4, <2>1 DEF RecordInv, AuthTypeOK, Saving
<1>6. GrantInv'
  BY <1>1, <1>4 DEF GrantInv, Unshared, AuthTypeOK, Saving
<1>7. GrantKept'
  BY <1>1, <1>4 DEF GrantKept, AuthTypeOK, Saving
<1>8. QED BY <1>3, <1>5, <1>6, <1>7

(* A new sign-in brings a refresh token nobody has had before.             *)
LEMMA SignInInv ==
  ASSUME Both, SignIn
  PROVE  AuthInv'
<1> USE DEF Both, AuthInv
<1>1. /\ issued \in Nat \ {0} /\ issued' = issued + 1
      /\ grants' = grants \cup {issued'} /\ grants \subseteq 1..issued
      /\ stored' = [access |-> validToken, grant |-> issued']
      /\ validToken \in Nat /\ 1..issued \subseteq 1..issued'
      /\ issued' \in 1..issued' /\ issued' \notin 1..issued
      /\ UNCHANGED <<vars, stage, loaded, refreshed, stranded, faults>>
  BY DEF SignIn, AuthTypeOK, IInv, Shape
<1>2. AuthTypeOK'
  <2>1. stored' \in Record BY <1>1 DEF Record
  <2>2. QED BY <1>1, <2>1 DEF AuthTypeOK
<1>3. RecordInv'
  BY <1>1 DEF RecordInv, AuthTypeOK, Saving, vars
<1>4. GrantInv'
  BY <1>1 DEF GrantInv, Unshared, Saving, RecordInv
<1>5. GrantKept' BY <1>1 DEF GrantKept
<1>6. QED BY <1>2, <1>3, <1>4, <1>5

LEMMA CrashInv ==
  ASSUME Both, NEW c \in Calls, Crash(c)
  PROVE  AuthInv'
<1> USE DEF Both, AuthInv
<1>1. /\ stage' = [stage EXCEPT ![c] = "gone"]
      /\ UNCHANGED <<vars, stored, loaded, refreshed, grants, issued>>
      /\ stranded' = IF stage[c] = "saving" THEN stranded \cup {loaded[c].grant} ELSE stranded
      /\ stage[c] = "saving" => loaded[c].grant \in 1..issued
      /\ faults' = faults + 1
  BY DEF Crash, Fault, RecordInv
<1>2. \A d \in Calls : (Saving(d))' <=> Saving(d) /\ d # c
  BY <1>1 DEF Saving, AuthTypeOK
<1>3. AuthTypeOK'
  <2>1. /\ stage' \in [Calls -> {"idle", "refreshing", "saving", "gone"}] /\ faults' \in Nat
    BY <1>1 DEF AuthTypeOK
  <2>2. stranded' \subseteq 1..issued BY <1>1 DEF AuthTypeOK
  <2>3. QED BY <1>1, <2>1, <2>2 DEF AuthTypeOK
<1>4. RecordInv' BY <1>1, <1>2 DEF RecordInv, AuthTypeOK, Saving, vars
<1>5. GrantInv' BY <1>1, <1>2 DEF GrantInv, Unshared, AuthTypeOK, Saving
<1>6. GrantKept' BY <1>1, <1>2 DEF GrantKept, AuthTypeOK, Saving
<1>7. QED BY <1>3, <1>4, <1>5, <1>6

(* Sending, sleeping, expiry and sign-out: the labels of getAccessToken    *)
(* and the records under way stay.                                         *)
LEMMA OtherInv ==
  ASSUME Both, IInv', [Next]_vars,
         \/ \E c \in Calls : SendWithLease(c) \/ WakeUp(c)
         \/ TokenExpires \/ SignOut \/ UNCHANGED authVars
  PROVE  AuthInv'
<1> USE DEF Both, AuthInv
<1>1. /\ UNCHANGED <<stage, loaded, refreshed, grants, issued, stranded, faults>>
      /\ stored' = stored \/ stored' = NoRecord
      /\ validToken \in Nat /\ validToken' \in Nat /\ validToken' >= validToken
  BY DEF SendWithLease, WakeUp, TokenExpires, SignOut, authVars, tokenVars, vars,
         Send, Wake, Expire, IInv, Shape
<1>2. \A d \in Calls : stage[d] \in {"refreshing", "saving"} => pc'[d] = pc[d]
  <2>1. ASSUME NEW c \in Calls, SendWithLease(c) \/ WakeUp(c),
               NEW d \in Calls, stage[d] \in {"refreshing", "saving"}
        PROVE  pc'[d] = pc[d]
    <3>1. stage[c] = "idle" /\ c # d /\ (Send(c) \/ Wake(c))
      BY <2>1 DEF SendWithLease, WakeUp
    <3>2. CASE Wake(c) BY <3>1, <3>2 DEF Wake, Goto, IInv, Shape
    <3>3. CASE Send(c)
      <4>1. Shape /\ attempts[c] + 1 \in Nat /\ -1 \in Int /\ RetryAfters \cup {-1} \subseteq Int
        BY TransportAssumption DEF IInv, Shape
      <4>2. \/ Return(c, "ok")
            \/ \E answer \in {"unauthorized", "refused", "retryable", "network_error"},
                  after \in RetryAfters \cup {-1} : Decide(c, attempts[c] + 1, answer, after)
        BY <3>3 DEF Send
      <4>3. QED BY <3>1, <4>1, <4>2, DecideShape DEF Return, Goto, Shape
    <3>4. QED BY <3>1, <3>2, <3>3
  <2>2. CASE TokenExpires \/ SignOut \/ UNCHANGED authVars
    BY <2>2 DEF TokenExpires, Expire, SignOut, authVars, vars
  <2>3. QED BY <2>1, <2>2
<1>3. AuthTypeOK' BY <1>1 DEF AuthTypeOK
<1>4. RecordInv' BY <1>1, <1>2 DEF RecordInv, AuthTypeOK, Saving, Record
<1>5. GrantInv' BY <1>1 DEF GrantInv, Unshared, Saving
<1>6. GrantKept' BY <1>1 DEF GrantKept
<1>7. QED BY <1>3, <1>4, <1>5, <1>6

LEMMA AuthNextInv == Both /\ [AuthNext]_authVars => Both'
<1> SUFFICES ASSUME Both, [AuthNext]_authVars PROVE Both' OBVIOUS
<1>1. [Next]_vars BY StepImplements
<1>2. IInv' BY <1>1, NextInv DEF Both
<1>3. AuthInv'
  BY <1>1, <1>2, LoadInv, AskInv, SaveInv, SignInInv, CrashInv, OtherInv
  DEF AuthNext, CallStep
<1>4. QED BY <1>2, <1>3 DEF Both

LEMMA AuthInvariant == AuthSpec => []Both
BY AuthInitInv, AuthNextInv, PTL DEF AuthSpec

-----------------------------------------------------------------------------
(* The stored refresh token is never silently spent, whatever the calls    *)
(* that refresh it at once, the crashes and the sign-ins.                  *)
THEOREM NoGrantLost == AuthSpec => []GrantKept
BY AuthInvariant, PTL DEF Both, AuthInv

(* The records and stages keep their shape.                                *)
THEOREM AuthTypeCorrect == AuthSpec => []AuthTypeOK
BY AuthInvariant, PTL DEF Both, AuthInv

(* getAccessTokenFromStore does no more to the transport than the          *)
(* environment RetryTransport assumes.                                     *)
THEOREM TransportImplemented == AuthSpec => ImplementsTransport
<1>1. AuthInit => Init BY DEF AuthInit
<1>2. Both /\ [AuthNext]_authVars => [Next]_vars BY StepImplements
<1>3. QED BY <1>1, <1>2, AuthInvariant, PTL DEF AuthSpec, ImplementsTransport, Spec

(* So with a token store, too, an unsafe write is carried out only once.   *)
THEOREM UnsafeOnceWithStore == AuthSpec => []UnsafeAppliedOnce
BY TransportImplemented, UnsafeOnce, PTL DEF ImplementsTransport

-----------------------------------------------------------------------------
(***************************************************************************)
(* The smoke scripts.  The argument: each program is one for which there   *)
(* are a set of steps and a set of slots that the run may hear of, such    *)
(* that every step that writes and whose needs can be heard of is in the   *)
(* plan (Told).  A run never leaves its program's steps and hears of no    *)
(* other slot (PlanKept), so that all it notes was announced.              *)
(***************************************************************************)

(* A step of a run that hears of the slots of heard at most: if it writes  *)
(* at all, the plan says so.                                               *)
ToldStep(s, plan, heard) ==
  /\ s.learns \subseteq heard
  /\ s.does # "read" /\ s.needs \subseteq heard =>
       [does |-> s.does, on |-> Planned(s.on)] \in plan

ToldBy(p, steps, heard) ==
  /\ p.acts \in Seq([body : Seq(steps), cleanup : Seq(steps)]) /\ p.acts # <<>>
  /\ \A s \in steps : ToldStep(s, p.plan, heard)

Told(p) == \E steps, heard : ToldBy(p, steps, heard)

LEMMA GetsIs ==
  ASSUME NEW x
  PROVE  Gets(x).does = "read" /\ Gets(x).learns = {}
BY DEF Gets, Request

LEMMA PatchesIs ==
  ASSUME NEW x
  PROVE  /\ Patches(x).does = "change" /\ Patches(x).on = x
         /\ Patches(x).learns = {} /\ Patches(x).needs = {}
BY DEF Patches, Request

LEMMA CreatesIs ==
  ASSUME NEW x, NEW op
  PROVE  /\ Creates(x, op).does = "create" /\ Creates(x, op).on = x
         /\ Creates(x, op).learns = {x} /\ Creates(x, op).needs = {}
<1> DEFINE r == [does |-> "create", on |-> x, op |-> op, needs |-> {},
                 learns |-> {}, missingOk |-> FALSE]
<1>1. Creates(x, op) = [r EXCEPT !.learns = {x}] BY DEF Creates, Request
<1>2. QED BY <1>1

LEMMA DeletesIs ==
  ASSUME NEW x
  PROVE  /\ Deletes(x).does = "delete" /\ Deletes(x).on = x
         /\ Deletes(x).learns = {} /\ Deletes(x).needs = {x}
BY DEF Deletes, Request

(* The requests for some slots, with some operations, that are told.       *)
ToldOf(plan, heard, slots, ops) ==
  {s \in {Gets(x) : x \in slots} \cup {Patches(x) : x \in slots}
           \cup {Creates(x, op) : x \in slots, op \in ops} \cup {Deletes(x) : x \in slots} :
     ToldStep(s, plan, heard)}

LEMMA ToldRead ==
  ASSUME NEW plan, NEW heard, NEW slots, NEW ops, NEW x \in slots
  PROVE  Gets(x) \in ToldOf(plan, heard, slots, ops)
BY GetsIs DEF ToldOf, ToldStep

LEMMA ToldChange ==
  ASSUME NEW plan, NEW heard, NEW slots, NEW ops, NEW x \in slots,
         [does |-> "change", on |-> Planned(x)] \in plan
  PROVE  Patches(x) \in ToldOf(plan, heard, slots, ops)
BY PatchesIs DEF ToldOf, ToldStep

LEMMA ToldCreation ==
  ASSUME NEW plan, NEW heard, NEW slots, NEW ops, NEW x \in slots, NEW op \in ops,
         x \in heard, [does |-> "create", on |-> Planned(x)] \in plan
  PROVE  Creates(x, op) \in ToldOf(plan, heard, slots, ops)
BY CreatesIs DEF ToldOf, ToldStep

LEMMA ToldDeletion ==
  ASSUME NEW plan, NEW heard, NEW slots, NEW ops, NEW x \in slots,
         [does |-> "delete", on |-> Planned(x)] \in plan \/ x \notin heard
  PROVE  Deletes(x) \in ToldOf(plan, heard, slots, ops)
BY DeletesIs DEF ToldOf, ToldStep

(* Sequences of steps put together.                                        *)
LEMMA Joined ==
  ASSUME NEW S, NEW s \in Seq(S), NEW t \in Seq(S)
  PROVE  s \o t \in Seq(S)
BY ConcatProperties

LEMMA Chosen ==
  ASSUME NEW S, NEW b, NEW s, b => s \in Seq(S)
  PROVE  If(b, s) \in Seq(S)
BY DEF If

LEMMA ChosenOne ==
  ASSUME NEW S, NEW b, NEW x, b => x \in S
  PROVE  If(b, <<x>>) \in Seq(S)
<1>1. b => <<x>> \in Seq(S) OBVIOUS
<1>2. QED BY <1>1, Chosen

LEMMA ChosenTwo ==
  ASSUME NEW S, NEW b, NEW x, NEW y, b => x \in S /\ y \in S
  PROVE  If(b, <<x, y>>) \in Seq(S)
<1>1. b => <<x, y>> \in Seq(S) OBVIOUS
<1>2. QED BY <1>1, Chosen

LEMMA PlannedIs ==
  ASSUME NEW x, x # "reply1", x # "reply2"
  PROVE  Planned(x) = x
BY DEF Planned, Replies, Range

LEMMA ReplyPlanned ==
  ASSUME NEW i \in 1..2
  PROVE  Replies[i] \in {"reply1", "reply2"} /\ Planned(Replies[i]) = "reply"
BY DEF Planned, Replies, Range

(* A program of one act.                                                   *)
LEMMA OneAct ==
  ASSUME NEW plan, NEW heard, NEW steps, NEW traits, NEW kept,
         NEW body \in Seq(steps), NEW cleanup \in Seq(steps),
         \A s \in steps : ToldStep(s, plan, heard)
  PROVE  Told(Program(<<Act(body, cleanup)>>, plan, traits, kept))
<1> DEFINE a == Act(body, cleanup)
           p == Program(<<a>>, plan, traits, kept)
           S == [body : Seq(steps), cleanup : Seq(steps)]
<1>1. a \in S BY DEF Act
<1>2. p.acts = <<a>> /\ p.plan = plan BY DEF Program
<1> HIDE DEF a, S
<1>3. <<a>> \in Seq(S) /\ <<a>> # <<>> BY <1>1
<1>4. ToldBy(p, steps, heard) BY <1>2, <1>3 DEF ToldBy, S
<1>5. QED BY <1>4 DEF Told, a

(* The steps of chat-smoke.mjs, for the flags that are given.              *)
LEMMA ChatBodySteps ==
  ASSUME NEW c, c.count \in 1..2, NEW T,
         Gets("none") \in T, Gets("space") \in T,
         "spaceLifecycle" \in c.flags =>
           /\ Creates("lifecycleSpace", <<"spaces", "create">>) \in T
           /\ Gets("lifecycleSpace") \in T,
         "messages" \in c.flags =>
           /\ Creates("message", <<"spaces", "messages", "create">>) \in T
           /\ Patches("message") \in T,
         "threadReplies" \in c.flags =>
           /\ Creates("threadRoot", <<"spaces", "messages", "create", "threadRoot">>) \in T
           /\ \A i \in 1..c.count :
                /\ Creates(Replies[i], <<"spaces", "messages", "create", "threadReply">>) \in T
                /\ Patches(Replies[i]) \in T,
         "existingThread" \in c.flags =>
           /\ Creates("existingThreadReply",
                      <<"spaces", "messages", "create", "existingThreadReply">>) \in T
           /\ Patches("existingThreadReply") \in T
  PROVE  ChatBody(c) \in Seq(T)
<1>1. If("spaceLifecycle" \in c.flags,
         <<Creates("lifecycleSpace", <<"spaces", "create">>), Gets("lifecycleSpace")>>)
        \in Seq(T)
  BY ChosenTwo
<1>2. If("messages" \in c.flags,
         <<Creates("message", <<"spaces", "messages", "create">>), Patches("message")>>)
        \in Seq(T)
  BY ChosenTwo
<1>3. If("threadReplies" \in c.flags,
         <<Creates("threadRoot", <<"spaces", "messages", "create", "threadRoot">>)>>
         \o [i \in 1..c.count |->
               Creates(Replies[i], <<"spaces", "messages", "create", "threadReply">>)]
         \o <<Patches(Replies[c.count])>>) \in Seq(T)
  <2>1. ASSUME "threadReplies" \in c.flags
        PROVE  [i \in 1..c.count |->
                  Creates(Replies[i], <<"spaces", "messages", "create", "threadReply">>)]
                 \in Seq(T)
    BY <2>1
  <2>2. ASSUME "threadReplies" \in c.flags
        PROVE  <<Creates("threadRoot", <<"spaces", "messages", "create", "threadRoot">>)>>
               \o [i \in 1..c.count |->
                     Creates(Replies[i], <<"spaces", "messages", "create", "threadReply">>)]
               \o <<Patches(Replies[c.count])>> \in Seq(T)
    BY <2>1, <2>2, Joined
  <2>3. QED BY <2>2, Chosen
<1>4. If("existingThread" \in c.flags,
         <<Creates("existingThreadReply",
                  <<"spaces", "messages", "create", "existingThreadReply">>),
           Patches("existingThreadReply")>>) \in Seq(T)
  BY ChosenTwo
<1>5. <<Gets("none"), Gets("space")>> \in Seq(T) OBVIOUS
<1>6. QED BY <1>1, <1>2, <1>3, <1>4, <1>5, Joined DEF ChatBody

LEMMA ChatSlots ==
  ASSUME NEW c, c.count \in 1..2, NEW D,
         "messages" \in c.flags => "message" \in D,
         "threadReplies" \in c.flags =>
           "threadRoot" \in D /\ \A i \in 1..c.count : Replies[i] \in D,
         "existingThread" \in c.flags => "existingThreadReply" \in D
  PROVE  ChatCreated(c) \in Seq(D)
<1>1. If("messages" \in c.flags, <<"message">>) \in Seq(D) BY ChosenOne
<1>2. ASSUME "threadReplies" \in c.flags
      PROVE  <<"threadRoot">> \o SubSeq(Replies, 1, c.count) \in Seq(D)
  <2>1. SubSeq(Replies, 1, c.count) \in Seq(D) BY <1>2 DEF Replies
  <2>2. QED BY <1>2, <2>1, Joined
<1>3. If("threadReplies" \in c.flags, <<"threadRoot">> \o SubSeq(Replies, 1, c.count)) \in Seq(D)
  BY <1>2, Chosen
<1>4. If("existingThread" \in c.flags, <<"existingThreadReply">>) \in Seq(D) BY ChosenOne
<1>5. QED BY <1>1, <1>3, <1>4, Joined DEF ChatCreated

LEMMA ChatCleanupSteps ==
  ASSUME NEW c, NEW D, ChatCreated(c) \in Seq(D), NEW T,
         \A x \in D : Deletes(x) \in T, Deletes("lifecycleSpace") \in T
  PROVE  ChatCleanup(c) \in Seq(T)
<1> DEFINE names == ChatCreated(c)
           n == Len(names)
<1> HIDE DEF names
<1>1. names \in Seq(D) /\ n \in Nat /\ DOMAIN names = 1..n BY LenProperties DEF names
<1>2. \A i \in 1..n : Reverse(names)[i] \in D BY <1>1 DEF Reverse
<1>3. [i \in 1..n |-> Deletes(Reverse(names)[i])] \in Seq(T) BY <1>1, <1>2
<1>4. <<Deletes("lifecycleSpace")>> \in Seq(T) OBVIOUS
<1>5. QED BY <1>3, <1>4, Joined DEF ChatCleanup, names

(* chat-smoke.mjs: what a gate lets through is announced under that gate,  *)
(* a cleanup step without its creation is passed over.                     *)
LEMMA ChatTold ==
  ASSUME NEW c, ChatConfig(c), c.names = <<>>
  PROVE  Told(ChatProgram(c))
<1> DEFINE P == ChatPlan(c)
           H == Also("messages" \in c.flags, {"message"})
                \cup Also("threadReplies" \in c.flags, {"threadRoot", "reply1", "reply2"})
                \cup Also("existingThread" \in c.flags, {"existingThreadReply"})
                \cup Also("spaceLifecycle" \in c.flags, {"lifecycleSpace"})
           N == {"none", "space", "lifecycleSpace", "message", "threadRoot", "reply1", "reply2",
                 "existingThreadReply"}
           O == {<<"spaces", "create">>, <<"spaces", "messages", "create">>,
                 <<"spaces", "messages", "create", "threadRoot">>,
                 <<"spaces", "messages", "create", "threadReply">>,
                 <<"spaces", "messages", "create", "existingThreadReply">>}
           T == ToldOf(P, H, N, O)
<1>1. Len(Replies) = 2 /\ c.count \in 1..2 BY DEF ChatConfig, Replies
<1>2. ASSUME "messages" \in c.flags
      PROVE  /\ "message" \in H
             /\ \A d \in {"create", "change", "delete"} : [does |-> d, on |-> "message"] \in P
  BY <1>2 DEF ChatPlan, Also, Writes
<1>3. ASSUME "threadReplies" \in c.flags
      PROVE  /\ {"threadRoot", "reply1", "reply2"} \subseteq H
             /\ [does |-> "create", on |-> "threadRoot"] \in P
             /\ [does |-> "delete", on |-> "threadRoot"] \in P
             /\ \A d \in {"create", "change", "delete"} : [does |-> d, on |-> "reply"] \in P
  BY <1>3 DEF ChatPlan, Also, Writes
<1>4. ASSUME "existingThread" \in c.flags
      PROVE  /\ "existingThreadReply" \in H
             /\ \A d \in {"create", "change", "delete"} :
                  [does |-> d, on |-> "existingThreadReply"] \in P
  BY <1>4 DEF ChatPlan, Also, Writes
<1>5. ASSUME "spaceLifecycle" \in c.flags
      PROVE  /\ "lifecycleSpace" \in H
             /\ \A d \in {"create", "delete"} : [does |-> d, on |-> "lifecycleSpace"] \in P
  BY <1>5 DEF ChatPlan, Also, Writes
<1>6. "spaceLifecycle" \notin c.flags => "lifecycleSpace" \notin H BY DEF Also
<1>7. \A x \in {"message", "threadRoot", "existingThreadReply", "lifecycleSpace"} :
        Planned(x) = x
  BY PlannedIs
<1> HIDE DEF P, H
<1>9. Gets("none") \in T /\ Gets("space") \in T /\ Gets("lifecycleSpace") \in T BY ToldRead
<1>10. ChatBody(c) \in Seq(T)
  <2>1. "spaceLifecycle" \in c.flags => Creates("lifecycleSpace", <<"spaces", "create">>) \in T
    BY <1>5, <1>7, ToldCreation
  <2>2. "messages" \in c.flags => /\ Creates("message", <<"spaces", "messages", "create">>) \in T
                                 /\ Patches("message") \in T
    BY <1>2, <1>7, ToldCreation, ToldChange
  <2>3. ASSUME "threadReplies" \in c.flags
        PROVE  /\ Creates("threadRoot", <<"spaces", "messages", "create", "threadRoot">>) \in T
               /\ \A i \in 1..c.count :
                    /\ Creates(Replies[i], <<"spaces", "messages", "create", "threadReply">>)
                         \in T
                    /\ Patches(Replies[i]) \in T
    <3>1. Creates("threadRoot", <<"spaces", "messages", "create", "threadRoot">>) \in T
      BY <1>3, <1>7, <2>3, ToldCreation
    <3>2. ASSUME NEW i \in 1..c.count
          PROVE  /\ Creates(Replies[i], <<"spaces", "messages", "create", "threadReply">>) \in T
                 /\ Patches(Replies[i]) \in T
      <4>1. i \in 1..2 BY <1>1
      <4>2. QED BY <1>3, <2>3, <4>1, ReplyPlanned, ToldCreation, ToldChange
    <3>3. QED BY <3>1, <3>2
  <2>4. "existingThread" \in c.flags =>
          /\ Creates("existingThreadReply",
                     <<"spaces", "messages", "create", "existingThreadReply">>) \in T
          /\ Patches("existingThreadReply") \in T
    BY <1>4, <1>7, ToldCreation, ToldChange
  <2>5. c.count \in 1..2 BY <1>1
  <2> HIDE DEF T
  <2>6. QED BY <1>9, <2>1, <2>2, <2>3, <2>4, <2>5, ChatBodySteps
<1>11. ChatCleanup(c) \in Seq(T)
  <2> DEFINE D == {x \in N : Deletes(x) \in T}
  <2>1. "messages" \in c.flags => "message" \in D BY <1>2, <1>7, ToldDeletion
  <2>2. "threadReplies" \in c.flags => "threadRoot" \in D BY <1>3, <1>7, ToldDeletion
  <2>3. "threadReplies" \in c.flags => \A i \in 1..c.count : Replies[i] \in D
    <3>1. \A i \in 1..c.count : i \in 1..2 BY <1>1
    <3>2. QED BY <1>3, <3>1, ReplyPlanned, ToldDeletion
  <2>4. "existingThread" \in c.flags => "existingThreadReply" \in D
    BY <1>4, <1>7, ToldDeletion
  <2>5. Deletes("lifecycleSpace") \in T BY <1>5, <1>6, <1>7, ToldDeletion
  <2>6. \A x \in D : Deletes(x) \in T OBVIOUS
  <2> HIDE DEF D, T
  <2>7. c.count \in 1..2 BY <1>1
  <2>8. ChatCreated(c) \in Seq(D) BY <2>1, <2>2, <2>3, <2>4, <2>7, ChatSlots
  <2>9. QED BY <2>5, <2>6, <2>8, ChatCleanupSteps
<1>12. ChatProgram(c) = Program(<<Act(ChatBody(c), ChatCleanup(c))>>, P, {}, {})
  BY DEF ChatProgram, P
<1>13. \A s \in T : ToldStep(s, P, H) BY DEF ToldOf
<1>14. QED BY <1>10, <1>11, <1>12, <1>13, OneAct

LEMMA ReactionsTold ==
  ASSUME NEW c
  PROVE  Told(ReactionsProgram(c))
<1> DEFINE lifecycle == "listOnly" \notin c.flags
           P == ReactionsPlan(c)
           H == Also(lifecycle, {"message", "reaction"})
           N == {"none", "space", "message", "reaction"}
           O == {<<"spaces", "messages", "create">>,
                 <<"spaces", "messages", "reactions", "create">>}
           both == Request("read", "none", <<>>, {"reaction", "message"})
           T == ToldOf(P, H, N, O) \cup {both}
           body == If(lifecycle,
                      <<Gets("space"), Creates("message", <<"spaces", "messages", "create">>),
                        Creates("reaction", <<"spaces", "messages", "reactions", "create">>)>>)
                   \o <<Gets("message"), Gets("message")>>
           cleanup == If(lifecycle, <<Deletes("reaction"), both, Deletes("message")>>)
                      \o <<Check>>
<1>1. ASSUME lifecycle
      PROVE  /\ "message" \in H /\ "reaction" \in H
             /\ \A d \in {"create", "delete"}, x \in {"message", "reaction"} :
                  [does |-> d, on |-> x] \in P
  BY <1>1 DEF ReactionsPlan, Also, Writes
<1>2. Planned("message") = "message" /\ Planned("reaction") = "reaction" BY PlannedIs
<1> HIDE DEF P, H
<1>3. /\ Gets("none") \in T /\ Gets("space") \in T /\ Gets("message") \in T /\ both \in T
  BY ToldRead
<1>4. ASSUME lifecycle
      PROVE  /\ Creates("message", <<"spaces", "messages", "create">>) \in T
             /\ Creates("reaction", <<"spaces", "messages", "reactions", "create">>) \in T
             /\ Deletes("message") \in T /\ Deletes("reaction") \in T
  BY <1>1, <1>2, <1>4, ToldCreation, ToldDeletion
<1>5. \A s \in T : ToldStep(s, P, H)
  <2>1. both.does = "read" /\ both.learns = {} BY DEF Request
  <2>2. QED BY <2>1 DEF ToldOf, ToldStep
<1> HIDE DEF T
<1>6. body \in Seq(T)
  <2>1. lifecycle =>
          <<Gets("space"), Creates("message", <<"spaces", "messages", "create">>),
            Creates("reaction", <<"spaces", "messages", "reactions", "create">>)>> \in Seq(T)
    BY <1>3, <1>4
  <2>2. <<Gets("message"), Gets("message")>> \in Seq(T) BY <1>3
  <2>3. QED BY <2>1, <2>2, Chosen, Joined
<1>7. cleanup \in Seq(T)
  <2>1. lifecycle => <<Deletes("reaction"), both, Deletes("message")>> \in Seq(T)
    BY <1>3, <1>4
  <2>2. <<Check>> \in Seq(T) BY <1>3 DEF Check
  <2>3. QED BY <2>1, <2>2, Chosen, Joined
<1>8. ReactionsProgram(c) = Program(<<Act(body, cleanup)>>, P, {"hides"}, {})
  BY DEF ReactionsProgram, P
<1> HIDE DEF body, cleanup
<1>9. Told(Program(<<Act(body, cleanup)>>, P, {"hides"}, {}))
  BY <1>5, <1>6, <1>7, OneAct
<1>10. QED BY <1>8, <1>9

LEMMA CardActionTold ==
  ASSUME NEW c, NEW names, NEW found, "cleanupConfirmations" \notin c.flags,
         "cleanupFromEvidence" \notin c.flags
  PROVE  Told(CardActionProgram(c, names, found))
<1> DEFINE P == CardActionPlan(c)
           T == ToldOf(P, {"card"}, {"space", "card"}, {<<"card-action", "create">>})
<1>1. [does |-> "create", on |-> "card"] \in P BY DEF CardActionPlan, Writes
<1>2. Planned("card") = "card" BY PlannedIs
<1> HIDE DEF P
<1>3. Gets("space") \in T /\ Creates("card", <<"card-action", "create">>) \in T
  BY <1>1, <1>2, ToldRead, ToldCreation
<1>4. \A s \in T : ToldStep(s, P, {"card"}) BY DEF ToldOf
<1> HIDE DEF T
<1>5. <<Gets("space"), Creates("card", <<"card-action", "create">>)>> \in Seq(T) BY <1>3
<1>6. <<>> \in Seq(T) OBVIOUS
<1>7. QED BY <1>4, <1>5, <1>6, OneAct DEF CardActionProgram, P

LEMMA UploadedMediaTold == Told(UploadedMediaProgram)
<1> DEFINE P == UploadedMediaPlan
           H == {"attachment", "message"}
           T == ToldOf(P, H, {"none", "attachment", "message"},
                       {<<"media", "upload">>, <<"spaces", "messages", "create">>})
<1>1. [does |-> "create", on |-> "attachment"] \in P /\ [does |-> "create", on |-> "message"] \in P
  BY DEF UploadedMediaPlan, Writes
<1>2. Planned("attachment") = "attachment" /\ Planned("message") = "message" BY PlannedIs
<1> HIDE DEF P
<1>3. /\ Gets("message") \in T /\ Gets("attachment") \in T /\ Check \in T
      /\ Creates("attachment", <<"media", "upload">>) \in T
      /\ Creates("message", <<"spaces", "messages", "create">>) \in T
  BY <1>1, <1>2, ToldRead, ToldCreation DEF Check
<1>4. \A s \in T : ToldStep(s, P, H) BY DEF ToldOf
<1> HIDE DEF T
<1>5. <<Creates("attachment", <<"media", "upload">>),
        Creates("message", <<"spaces", "messages", "create">>),
        Gets("message"), Check, Gets("attachment"), Check>> \in Seq(T)
  BY <1>3
<1>6. <<>> \in Seq(T) OBVIOUS
<1>7. QED BY <1>4, <1>5, <1>6, OneAct DEF UploadedMediaProgram, P

LEMMA DriveTold ==
  ASSUME NEW c
  PROVE  Told(DriveProgram(c))
<1> DEFINE synthetic == "synthetic" \in c.flags
           away == synthetic /\ "cleanupFile" \in c.flags
           P == DrivePlan(c)
           H == Also(synthetic, {"file"})
           T == ToldOf(P, H, {"none", "file"}, {<<"drive", "files", "create", "synthetic">>})
           body == If(synthetic,
                      <<Creates("file", <<"drive", "files", "create", "synthetic">>)>>)
                   \o <<Gets("file"), Check, Gets("file"), Check>>
           cleanup == If(away, <<Deletes("file")>>)
<1>1. /\ synthetic => "file" \in H /\ [does |-> "create", on |-> "file"] \in P
      /\ away => [does |-> "delete", on |-> "file"] \in P
  BY DEF DrivePlan, Also, Writes
<1>2. Planned("file") = "file" BY PlannedIs
<1> HIDE DEF P, H
<1>3. /\ Gets("file") \in T /\ Check \in T
      /\ synthetic => Creates("file", <<"drive", "files", "create", "synthetic">>) \in T
      /\ away => Deletes("file") \in T
  BY <1>1, <1>2, ToldRead, ToldCreation, ToldDeletion DEF Check
<1>4. \A s \in T : ToldStep(s, P, H) BY DEF ToldOf
<1> HIDE DEF T
<1>5. body \in Seq(T)
  <2>1. <<Gets("file"), Check, Gets("file"), Check>> \in Seq(T) BY <1>3
  <2>2. QED BY <1>3, <2>1, ChosenOne, Joined
<1>6. cleanup \in Seq(T) BY <1>3, ChosenOne
<1>7. DriveProgram(c)
        = Program(<<Act(body, cleanup)>>, P, {"hides"}, IF away THEN {} ELSE {"file"})
  BY DEF DriveProgram, P
<1> HIDE DEF body, cleanup
<1>8. Told(Program(<<Act(body, cleanup)>>, P, {"hides"}, IF away THEN {} ELSE {"file"}))
  BY <1>4, <1>5, <1>6, OneAct
<1>9. QED BY <1>7, <1>8

(* The steps of chat-visual-smoke.mjs, for the flags that are given.       *)
LEMMA VisualSteps ==
  ASSUME NEW c, c.count \in Nat, NEW T,
         Creates("text", <<"visual", "text", "create">>) \in T,
         Creates("card", <<"visual", "card", "create">>) \in T,
         Creates("threadParent", <<"visual", "thread", "parent", "create">>) \in T,
         Creates("threadReply", <<"visual", "thread", "reply", "create">>) \in T,
         Creates("stream", <<"visual", "stream", "create">>) \in T, Patches("stream") \in T,
         "richCard" \in c.flags =>
           Creates("richCard", <<"visual", "richCard", "create">>) \in T,
         "carouselCard" \in c.flags =>
           Creates("carouselCard", <<"visual", "carouselCard", "create">>) \in T,
         "placeholder" \in c.flags =>
           /\ Creates("placeholder", <<"visual", "placeholder", "create">>) \in T
           /\ Patches("placeholder") \in T,
         "aiCards" \in c.flags =>
           \A a \in Range(AiCards) : Creates(a, <<"visual", "ai", a, "create">>) \in T
  PROVE  VisualCreates(c) \in Seq(T)
<1>1. VisualCard(c, "richCard") \in Seq(T) /\ VisualCard(c, "carouselCard") \in Seq(T)
  BY ChosenOne DEF VisualCard
<1>2. VisualPlaceholder(c) \in Seq(T) BY ChosenTwo DEF VisualPlaceholder
<1>3. AiCardCreates(c) \in Seq(T)
  <2>1. Len(AiCards) = 5 /\ \A i \in 1..5 : AiCards[i] \in Range(AiCards) BY DEF AiCards, Range
  <2>2. "aiCards" \in c.flags =>
          [i \in 1..Len(AiCards) |->
             Creates(AiCards[i], <<"visual", "ai", AiCards[i], "create">>)] \in Seq(T)
    BY <2>1
  <2>3. QED BY <2>2, Chosen DEF AiCardCreates
<1>4. [i \in 1..c.count |-> Patches("stream")] \in Seq(T)
  <2> DEFINE patch == Patches("stream")
  <2>1. c.count \in Nat /\ patch \in T OBVIOUS
  <2> HIDE DEF patch
  <2>2. [i \in 1..c.count |-> patch] \in Seq(T) BY <2>1
  <2>3. QED BY <2>2 DEF patch
<1>5. <<Creates("text", <<"visual", "text", "create">>),
        Creates("card", <<"visual", "card", "create">>)>> \in Seq(T)
  OBVIOUS
<1>6. <<Creates("threadParent", <<"visual", "thread", "parent", "create">>),
        Creates("threadReply", <<"visual", "thread", "reply", "create">>)>> \in Seq(T)
  OBVIOUS
<1>7. <<Creates("stream", <<"visual", "stream", "create">>)>> \in Seq(T) OBVIOUS
<1>8. QED BY <1>1, <1>2, <1>3, <1>4, <1>5, <1>6, <1>7, Joined DEF VisualCreates

LEMMA VisualTold ==
  ASSUME NEW c, NEW names, c.count \in Nat, "cleanupFromEvidence" \notin c.flags
  PROVE  Told(VisualProgram(c, names))
<1> DEFINE P == VisualPlan(c)
           A == Range(AiCards)
           N == {"space", "text", "card", "richCard", "carouselCard", "threadParent",
                 "threadReply", "placeholder", "stream"} \cup A
           O == {<<"visual", "text", "create">>, <<"visual", "card", "create">>,
                 <<"visual", "richCard", "create">>, <<"visual", "carouselCard", "create">>,
                 <<"visual", "thread", "parent", "create">>,
                 <<"visual", "thread", "reply", "create">>,
                 <<"visual", "placeholder", "create">>, <<"visual", "stream", "create">>}
                \cup {<<"visual", "ai", a, "create">> : a \in A}
           T == ToldOf(P, N, N, O)
<1>1. /\ \A x \in {"text", "card", "threadParent", "threadReply", "stream"} :
           [does |-> "create", on |-> x] \in P
      /\ [does |-> "change", on |-> "stream"] \in P
  BY DEF VisualPlan, Writes
<1>2. /\ \A x \in {"richCard", "carouselCard", "placeholder"} :
           x \in c.flags => [does |-> "create", on |-> x] \in P
      /\ "placeholder" \in c.flags => [does |-> "change", on |-> "placeholder"] \in P
  BY DEF VisualPlan, Writes
<1>3. "aiCards" \in c.flags => \A a \in A : [does |-> "create", on |-> a] \in P
  BY DEF VisualPlan, Writes, Also
<1>5. \A a \in A : Planned(a) = a BY PlannedIs DEF AiCards, Range
<1>6. /\ Planned("text") = "text" /\ Planned("card") = "card"
      /\ Planned("threadParent") = "threadParent" /\ Planned("threadReply") = "threadReply"
      /\ Planned("stream") = "stream" /\ Planned("richCard") = "richCard"
      /\ Planned("carouselCard") = "carouselCard" /\ Planned("placeholder") = "placeholder"
  BY PlannedIs
<1> HIDE DEF P, A
<1>7. /\ Gets("space") \in T
      /\ Creates("text", <<"visual", "text", "create">>) \in T
      /\ Creates("card", <<"visual", "card", "create">>) \in T
      /\ Creates("threadParent", <<"visual", "thread", "parent", "create">>) \in T
      /\ Creates("threadReply", <<"visual", "thread", "reply", "create">>) \in T
      /\ Creates("stream", <<"visual", "stream", "create">>) \in T
      /\ Patches("stream") \in T
  BY <1>1, <1>6, ToldRead, ToldCreation, ToldChange
<1>8. /\ "richCard" \in c.flags => Creates("richCard", <<"visual", "richCard", "create">>) \in T
      /\ "carouselCard" \in c.flags =>
           Creates("carouselCard", <<"visual", "carouselCard", "create">>) \in T
  BY <1>2, <1>6, ToldCreation
<1>9. "placeholder" \in c.flags =>
        /\ Creates("placeholder", <<"visual", "placeholder", "create">>) \in T
        /\ Patches("placeholder") \in T
  BY <1>2, <1>6, ToldCreation, ToldChange
<1>10. "aiCards" \in c.flags =>
         \A a \in A : Creates(a, <<"visual", "ai", a, "create">>) \in T
  BY <1>3, <1>5, ToldCreation
<1>11. \A s \in T : ToldStep(s, P, N) BY DEF ToldOf
<1> HIDE DEF T, N, O
<1>12. VisualCreates(c) \in Seq(T) BY <1>7, <1>8, <1>9, <1>10, VisualSteps DEF A
<1>13. <<Gets("space")>> \o VisualCreates(c) \in Seq(T) BY <1>7, <1>12, Joined
<1>14. <<>> \in Seq(T) OBVIOUS
<1>15. Told(Program(<<Act(<<Gets("space")>> \o VisualCreates(c), <<>>)>>, P, {"remembers"},
                    {"text", "card", "richCard", "carouselCard", "threadParent",
                     "threadReply", "placeholder", "stream"} \cup A))
  BY <1>11, <1>13, <1>14, OneAct
<1>16. QED BY <1>15 DEF VisualProgram, P, A

(* What only a run that is not validateOnly does is not in the plan.       *)
LEMMA SubscriptionTold ==
  ASSUME NEW c, "validateOnly" \in c.flags
  PROVE  Told(SubscriptionProgram(c))
<1> DEFINE P == SubscriptionPlan
           H == {"topic", "pullSubscription"}
           T == ToldOf(P, H, {"none", "topic", "pullSubscription", "subscription", "message"},
                       {<<"pubsub", "topics", "create">>, <<"pubsub", "subscriptions", "create">>})
           traits == {"hides", "swallows"} \cup Also("allowBlocked" \in c.flags, {"lenient"})
<1>1. /\ \A d \in {"create", "delete"}, x \in H : [does |-> d, on |-> x] \in P
      /\ [does |-> "change", on |-> "topic"] \in P
  BY DEF SubscriptionPlan, Writes
<1>2. Planned("topic") = "topic" /\ Planned("pullSubscription") = "pullSubscription"
  BY PlannedIs
<1> HIDE DEF P
<1>3. /\ Check \in T /\ Patches("topic") \in T
      /\ Creates("topic", <<"pubsub", "topics", "create">>) \in T
      /\ Creates("pullSubscription", <<"pubsub", "subscriptions", "create">>) \in T
  BY <1>1, <1>2, ToldRead, ToldChange, ToldCreation DEF Check
<1>4. /\ Deletes("topic") \in T /\ Deletes("pullSubscription") \in T
      /\ Deletes("message") \in T /\ Deletes("subscription") \in T
  BY <1>1, <1>2, ToldDeletion
<1>5. \A s \in T : ToldStep(s, P, H) BY DEF ToldOf
<1> HIDE DEF T
<1>6. SubscriptionBody(c) \in Seq(T)
  <2>1. <<Creates("topic", <<"pubsub", "topics", "create">>),
          Creates("pullSubscription", <<"pubsub", "subscriptions", "create">>),
          Patches("topic"), Check>> \in Seq(T)
    BY <1>3
  <2>2. \A steps : If("validateOnly" \notin c.flags, steps) = <<>> BY DEF If
  <2>3. <<>> \in Seq(T) OBVIOUS
  <2>4. QED BY <2>1, <2>2, <2>3, Joined DEF SubscriptionBody
<1>7. SubscriptionCleanup \in Seq(T) BY <1>4 DEF SubscriptionCleanup
<1> HIDE DEF traits
<1>8. Told(Program(<<Act(SubscriptionBody(c), SubscriptionCleanup)>>, P, traits, {}))
  BY <1>5, <1>6, <1>7, OneAct
<1>9. QED BY <1>8 DEF SubscriptionProgram, P, traits

LEMMA DisplaceIs ==
  ASSUME NEW x
  PROVE  /\ Displace(x).does = "displace" /\ Displace(x).on = x
         /\ Displace(x).learns = {x} /\ Displace(x).needs = {}
<1> DEFINE r == [does |-> "displace", on |-> x, op |-> <<>>, needs |-> {},
                 learns |-> {}, missingOk |-> FALSE]
<1>1. Displace(x) = [r EXCEPT !.learns = {x}] BY DEF Displace, Request
<1>2. QED BY <1>1

LEMMA RestoreIs ==
  ASSUME NEW x, NEW y
  PROVE  /\ Restore(x, y).does = "restore" /\ Restore(x, y).on = x
         /\ Restore(x, y).learns = {y} /\ Restore(x, y).needs = {x}
<1> DEFINE r == [does |-> "restore", on |-> x, op |-> <<>>, needs |-> {x},
                 learns |-> {}, missingOk |-> FALSE]
<1>1. Restore(x, y) = [r EXCEPT !.learns = {y}] BY DEF Restore, Request
<1>2. QED BY <1>1

LEMMA VerifyIs ==
  ASSUME NEW y
  PROVE  Verify(y).does = "read" /\ Verify(y).learns = {}
BY DEF Verify, Request

(* A setting that is changed and put back.                                 *)
LEMMA ToldAndBack ==
  ASSUME NEW plan, NEW heard, NEW x, NEW y, x \in heard, y \in heard, Planned(x) = x,
         [does |-> "displace", on |-> x] \in plan, [does |-> "restore", on |-> x] \in plan
  PROVE  /\ ToldStep(Displace(x), plan, heard) /\ ToldStep(Restore(x, y), plan, heard)
         /\ ToldStep(Verify(y), plan, heard)
BY DisplaceIs, RestoreIs, VerifyIs DEF ToldStep

LEMMA ActIs ==
  ASSUME NEW steps, NEW body \in Seq(steps), NEW cleanup \in Seq(steps)
  PROVE  Act(body, cleanup) \in [body : Seq(steps), cleanup : Seq(steps)]
BY DEF Act

LEMMA SeveralActs ==
  ASSUME NEW plan, NEW heard, NEW steps, NEW traits, NEW kept, NEW acts,
         acts \in Seq([body : Seq(steps), cleanup : Seq(steps)]), acts # <<>>,
         \A s \in steps : ToldStep(s, plan, heard)
  PROVE  Told(Program(acts, plan, traits, kept))
<1> DEFINE p == Program(acts, plan, traits, kept)
<1>1. p.acts = acts /\ p.plan = plan BY DEF Program
<1>2. ToldBy(p, steps, heard) BY <1>1 DEF ToldBy
<1>3. QED BY <1>2 DEF Told

LEMMA SectionsTold ==
  ASSUME NEW c
  PROVE  Told(SectionsProgram(c))
<1> DEFINE mutates == "mutations" \in c.flags
           P == SectionsPlan(c)
           H == {"section", "placement", "placementRestored"}
           create == Creates("section", <<"sections", "create", "temporary">>)
           T == {s \in {Gets("none"), Gets("space"), create, Patches("section"),
                        Displace("placement"), Restore("placement", "placementRestored"),
                        Verify("placementRestored"), Deletes("section")} : ToldStep(s, P, H)}
           S == [body : Seq(T), cleanup : Seq(T)]
           A == Act(<<Gets("none")>>, <<>>)
           acts == <<A, A>> \o If(mutates, <<SectionMutations>>)
           traits == {"hides", "goesOn"} \cup Also("allowBlocked" \in c.flags, {"lenient"})
<1>1. mutates =>
        /\ \A d \in {"create", "change", "delete"} : [does |-> d, on |-> "section"] \in P
        /\ \A d \in {"displace", "restore"} : [does |-> d, on |-> "placement"] \in P
  BY DEF SectionsPlan, Also, Writes
<1>2. Planned("section") = "section" /\ Planned("placement") = "placement" BY PlannedIs
<1> HIDE DEF P
<1>3. Gets("none") \in T /\ Gets("space") \in T BY GetsIs DEF ToldStep
<1>4. mutates => create \in T /\ Patches("section") \in T /\ Deletes("section") \in T
  BY <1>1, <1>2, CreatesIs, PatchesIs, DeletesIs DEF ToldStep
<1>5. mutates => /\ Displace("placement") \in T
                 /\ Restore("placement", "placementRestored") \in T
                 /\ Verify("placementRestored") \in T
  BY <1>1, <1>2, ToldAndBack
<1>6. \A s \in T : ToldStep(s, P, H) OBVIOUS
<1> HIDE DEF T
<1>7. A \in S
  <2>1. <<Gets("none")>> \in Seq(T) /\ <<>> \in Seq(T) BY <1>3
  <2>2. QED BY <2>1, ActIs
<1>8. mutates => SectionMutations \in S
  <2>1. mutates =>
          /\ <<Gets("space"), create, Patches("section"), Patches("section"),
               Displace("placement")>> \in Seq(T)
          /\ <<Restore("placement", "placementRestored"), Verify("placementRestored"),
               Deletes("section")>> \in Seq(T)
    BY <1>3, <1>4, <1>5
  <2>2. QED BY <2>1, ActIs DEF SectionMutations
<1> HIDE DEF S, A
<1>9. acts \in Seq(S) /\ acts # <<>>
  <2>1. <<A, A>> \in Seq(S) /\ Len(<<A, A>>) = 2 BY <1>7
  <2>2. If(mutates, <<SectionMutations>>) \in Seq(S) BY <1>8, ChosenOne
  <2>3. acts \in Seq(S) BY <2>1, <2>2, Joined
  <2>4. Len(acts) = 2 + Len(If(mutates, <<SectionMutations>>)) BY <2>1, <2>2, ConcatProperties
  <2>5. Len(If(mutates, <<SectionMutations>>)) \in Nat BY <2>2, LenProperties
  <2>6. acts # <<>> BY <2>4, <2>5
  <2>7. QED BY <2>3, <2>6
<1>10. SectionsProgram(c) = Program(acts, P, traits, {}) BY DEF SectionsProgram, P, A
<1> HIDE DEF acts, traits
<1>11. Told(Program(acts, P, traits, {})) BY <1>6, <1>9, SeveralActs DEF S
<1>12. QED BY <1>10, <1>11

LEMMA UserStateTold ==
  ASSUME NEW c, c.count \in Nat, c.count >= 1
  PROVE  Told(UserStateProgram(c))
<1> DEFINE moves == "notification" \in c.flags
           marks == "readState" \in c.flags
           P == UserStatePlan(c)
           H == {"notification", "notificationRestored"}
           T == {s \in {Gets("none"), Patches("space"), Displace("notification"),
                        Restore("notification", "notificationRestored"),
                        Verify("notificationRestored")} : ToldStep(s, P, H)}
           S == [body : Seq(T), cleanup : Seq(T)]
           A == Act(<<Gets("none")>>, <<>>)
           reads == [i \in 1..c.count |-> A]
           moved == If(moves, <<NotificationPatch>>)
           marked == If(marks, <<ReadStateUpdate>>)
           acts == reads \o moved \o marked
           traits == {"hides", "goesOn"} \cup Also("allowBlocked" \in c.flags, {"lenient"})
<1>1. /\ moves => \A d \in {"displace", "restore"} : [does |-> d, on |-> "notification"] \in P
      /\ marks => [does |-> "change", on |-> "space"] \in P
  BY DEF UserStatePlan, Also, Writes
<1>2. Planned("notification") = "notification" /\ Planned("space") = "space" BY PlannedIs
<1> HIDE DEF P
<1>3. Gets("none") \in T BY GetsIs DEF ToldStep
<1>4. marks => Patches("space") \in T BY <1>1, <1>2, PatchesIs DEF ToldStep
<1>5. moves => /\ Displace("notification") \in T
               /\ Restore("notification", "notificationRestored") \in T
               /\ Verify("notificationRestored") \in T
  BY <1>1, <1>2, ToldAndBack
<1>6. \A s \in T : ToldStep(s, P, H) OBVIOUS
<1> HIDE DEF T
<1>7. A \in S
  <2>1. <<Gets("none")>> \in Seq(T) /\ <<>> \in Seq(T) BY <1>3
  <2>2. QED BY <2>1, ActIs
<1>8. moves => NotificationPatch \in S
  <2>1. moves =>
          /\ <<Gets("none"), Displace("notification")>> \in Seq(T)
          /\ <<Restore("notification", "notificationRestored"),
               Verify("notificationRestored")>> \in Seq(T)
    BY <1>3, <1>5
  <2>2. QED BY <2>1, ActIs DEF NotificationPatch
<1>9. marks => ReadStateUpdate \in S
  <2>1. marks => <<Gets("none"), Patches("space"), Gets("none")>> \in Seq(T) BY <1>3, <1>4
  <2>2. <<>> \in Seq(T) OBVIOUS
  <2>3. QED BY <2>1, <2>2, ActIs DEF ReadStateUpdate
<1> HIDE DEF S, A
<1>10. reads \in Seq(S) /\ Len(reads) = c.count BY <1>7
<1>11. moved \in Seq(S) /\ marked \in Seq(S) BY <1>8, <1>9, ChosenOne
<1> HIDE DEF reads, moved, marked
<1>12. acts \in Seq(S) /\ acts # <<>>
  <2>1. reads \o moved \in Seq(S) /\ Len(reads \o moved) = Len(reads) + Len(moved)
    BY <1>10, <1>11, ConcatProperties
  <2>2. acts \in Seq(S) /\ Len(acts) = Len(reads \o moved) + Len(marked)
    BY <2>1, <1>11, ConcatProperties
  <2>3. Len(moved) \in Nat /\ Len(marked) \in Nat BY <1>11, LenProperties
  <2>4. acts # <<>> BY <1>10, <2>1, <2>2, <2>3
  <2>5. QED BY <2>2, <2>4
<1>13. UserStateProgram(c) = Program(acts, P, traits, {})
  BY DEF UserStateProgram, P, A, reads, moved, marked
<1> HIDE DEF acts, traits
<1>14. Told(Program(acts, P, traits, {})) BY <1>6, <1>12, SeveralActs DEF S
<1>15. QED BY <1>13, <1>14

(* The plan of a command that foretells its run covers what it does.       *)
LEMMA CommandTold ==
  ASSUME NEW c \in SmokeCommands \cup SmokeFollowUps, Foretold(c), NEW p \in ProgramsOf(c)
  PROVE  Told(p)
<1>1. c.count \in Nat /\ Allowed(c) BY SmokeAssumption
<1>2. /\ c.script # "sweep" /\ c.names = <<>>
      /\ "cleanupConfirmations" \notin c.flags /\ "cleanupFromEvidence" \notin c.flags
      /\ c.script = "subscription" => "validateOnly" \in c.flags
  BY DEF Foretold, Cleans
<1>3. CASE c.script = "chat"
  <2>1. ChatConfig(c) /\ p = ChatProgram(c) BY <1>1, <1>3 DEF Allowed, ProgramsOf
  <2>2. QED BY <1>2, <2>1, ChatTold DEF ChatConfig, Replies
<1>4. CASE c.script = "reactions" BY <1>4, ReactionsTold DEF ProgramsOf
<1>5. CASE c.script = "cardAction" BY <1>2, <1>5, CardActionTold DEF ProgramsOf
<1>6. CASE c.script = "visual" BY <1>1, <1>2, <1>6, VisualTold DEF ProgramsOf
<1>7. CASE c.script = "uploadedMedia" BY <1>7, UploadedMediaTold DEF ProgramsOf
<1>8. CASE c.script = "driveExport" BY <1>8, DriveTold DEF ProgramsOf
<1>9. CASE c.script = "subscription" BY <1>2, <1>9, SubscriptionTold DEF ProgramsOf
<1>10. CASE c.script = "sections" BY <1>10, SectionsTold DEF ProgramsOf
<1>11. CASE c.script = "userState"
  <2>1. UserStateConfig(c) /\ p = UserStateProgram(c) BY <1>1, <1>11 DEF Allowed, ProgramsOf
  <2>2. QED BY <1>1, <2>1, UserStateTold DEF UserStateConfig
<1>12. QED
  BY <1>1, <1>2, <1>3, <1>4, <1>5, <1>6, <1>7, <1>8, <1>9, <1>10, <1>11 DEF Allowed

(***************************************************************************)
(* A run under way: the steps it may take and the slots it may hear of     *)
(* keep to its plan, and so does what it noted.                            *)
(***************************************************************************)
Announced(notes, plan) ==
  \A o \in notes : o.does # "read" => [does |-> o.does, on |-> Planned(o.slot)] \in plan

PlanKept(steps, heard) ==
  /\ ToldBy(program, steps, heard)
  /\ DOMAIN known \subseteq heard
  /\ act \in 1..Len(program.acts) /\ next \in Nat \ {0}
  /\ \E notes : operations \in Seq(notes) /\ Announced(notes, program.plan)

PlanInv == Foretold(command) => \E steps, heard : PlanKept(steps, heard)

LEMMA FreshRun ==
  ASSUME NEW c \in SmokeCommands \cup SmokeFollowUps, Foretold(c), NEW p \in ProgramsOf(c)
  PROVE  /\ Told(p) /\ DOMAIN KnownAtFirst(c) = {}
         /\ \A steps, heard : ToldBy(p, steps, heard) => 1 \in 1..Len(p.acts)
<1>1. DOMAIN KnownAtFirst(c) = {} BY DEF Foretold, KnownAtFirst
<1>2. ASSUME NEW steps, NEW heard, ToldBy(p, steps, heard)
      PROVE  1 \in 1..Len(p.acts)
  <2> DEFINE S == [body : Seq(steps), cleanup : Seq(steps)]
  <2>1. p.acts \in Seq(S) /\ p.acts # <<>> BY <1>2 DEF ToldBy
  <2> HIDE DEF S
  <2>2. QED BY <2>1, EmptySeq, LenProperties
<1>3. QED BY <1>1, <1>2, CommandTold

LEMMA StepTaken ==
  ASSUME NEW steps, NEW heard, PlanKept(steps, heard), NEW s, Current(s)
  PROVE  s \in steps /\ s.needs \subseteq heard
<1> DEFINE S == [body : Seq(steps), cleanup : Seq(steps)]
<1>1. program.acts \in Seq(S) /\ act \in 1..Len(program.acts) /\ next \in Nat \ {0}
  BY DEF PlanKept, ToldBy
<1>2. program.acts[act] \in S BY <1>1, ElementOfSeq
<1>3. Steps \in Seq(steps) BY <1>2 DEF Current, UnderWay, Steps
<1>4. next \in 1..Len(Steps) /\ s = Steps[next] /\ s.needs \subseteq DOMAIN known
  BY <1>1, <1>3, LenProperties DEF Current
<1>5. QED BY <1>3, <1>4, ElementOfSeq DEF PlanKept

LEMMA Noting ==
  ASSUME NEW steps, NEW heard, PlanKept(steps, heard), NEW s, Current(s), NEW ok,
         Note(s, ok), program' = program
  PROVE  \E notes : operations' \in Seq(notes) /\ Announced(notes, program'.plan)
<1> DEFINE r == [does |-> s.does, slot |-> s.on, name |-> Target(s), op |-> s.op, ok |-> ok,
                 named |-> ok /\ ~Has("hides")]
<1>1. ToldStep(s, program.plan, heard) /\ s.needs \subseteq heard
  BY StepTaken DEF PlanKept, ToldBy
<1>2. PICK notes : operations \in Seq(notes) /\ Announced(notes, program.plan)
  BY DEF PlanKept
<1>3. operations' = Append(operations, r) BY DEF Note
<1>4. r.does = s.does /\ r.slot = s.on OBVIOUS
<1> HIDE DEF r
<1>5. Announced(notes \cup {r}, program.plan) BY <1>1, <1>2, <1>4 DEF Announced, ToldStep
<1>6. operations' \in Seq(notes \cup {r})
  <2>1. operations \in Seq(notes \cup {r}) BY <1>2
  <2>2. QED BY <1>3, <2>1, AppendProperties
<1>7. QED BY <1>5, <1>6

LEMMA NotNoting ==
  ASSUME NEW steps, NEW heard, PlanKept(steps, heard),
         UNCHANGED <<program, known, operations>>,
         act' \in 1..Len(program.acts), next' \in Nat \ {0}
  PROVE  PlanKept(steps, heard)'
BY DEF PlanKept

LEMMA FailedStep ==
  ASSUME NEW steps, NEW heard, PlanKept(steps, heard), NEW s, Current(s), AfterFailure(s)
  PROVE  PlanKept(steps, heard)'
<1>1. UNCHANGED <<program, act, known>> BY DEF AfterFailure
<1>2. next' \in Nat \ {0}
  <2>1. next \in Nat \ {0} BY DEF PlanKept
  <2>2. next' = 1 \/ next' = next + 1 BY DEF AfterFailure
  <2>3. QED BY <2>1, <2>2
<1>3. \E notes : operations' \in Seq(notes) /\ Announced(notes, program'.plan)
  BY <1>1, Noting DEF AfterFailure
<1>4. QED BY <1>1, <1>2, <1>3 DEF PlanKept

LEMMA PlanInvInit ==
  ASSUME SmokeInitFrom(SmokeCommands), SmokeAssumption
  PROVE  PlanInv
<1>1. SUFFICES ASSUME Foretold(command)
               PROVE  \E steps, heard : PlanKept(steps, heard)
  BY DEF PlanInv
<1>2. /\ command \in SmokeCommands /\ program \in ProgramsOf(command)
      /\ known = KnownAtFirst(command) /\ act = 1 /\ next = 1 /\ operations = <<>>
  BY DEF SmokeInitFrom
<1>3. PICK steps, heard : ToldBy(program, steps, heard) BY <1>1, <1>2, FreshRun DEF Told
<1>4. DOMAIN known \subseteq heard /\ act \in 1..Len(program.acts)
  BY <1>1, <1>2, <1>3, FreshRun
<1>5. operations \in Seq({}) /\ Announced({}, program.plan) BY <1>2 DEF Announced
<1>6. QED BY <1>2, <1>3, <1>4, <1>5 DEF PlanKept

LEMMA PlanInvStep ==
  ASSUME PlanInv, [SmokeNext]_smokeVars
  PROVE  PlanInv'
<1>1. SUFFICES ASSUME Foretold(command)'
               PROVE  \E steps, heard : PlanKept(steps, heard)'
  BY DEF PlanInv
<1>2. ASSUME NEW c \in SmokeFollowUps, FollowUp(c)
      PROVE  \E steps, heard : PlanKept(steps, heard)'
  <2>1. /\ command' = c /\ program' \in ProgramsOf(c) /\ known' = KnownAtFirst(c)
        /\ act' = 1 /\ next' = 1 /\ operations' = <<>>
    BY <1>2 DEF FollowUp
  <2>2. Foretold(c) BY <1>1, <2>1 DEF Foretold, Cleans
  <2>3. PICK steps, heard : ToldBy(program', steps, heard) BY <2>1, <2>2, FreshRun DEF Told
  <2>4. DOMAIN known' \subseteq heard /\ act' \in 1..Len(program'.acts)
    BY <2>1, <2>2, <2>3, FreshRun
  <2>5. operations' \in Seq({}) /\ Announced({}, program'.plan) BY <2>1 DEF Announced
  <2>6. PlanKept(steps, heard)' BY <2>1, <2>3, <2>4, <2>5 DEF PlanKept, ToldBy
  <2>7. QED BY <2>6
<1>3. ASSUME command' = command
      PROVE  \E steps, heard : PlanKept(steps, heard)
  <2>1. Foretold(command) BY <1>1, <1>3 DEF Foretold, Cleans
  <2>2. QED BY <2>1 DEF PlanInv
<1>4. ASSUME NEW s, Current(s), Succeed(s)
      PROVE  \E steps, heard : PlanKept(steps, heard)'
  <2>1. command' = command /\ UNCHANGED <<program, act>> /\ next' = next + 1
    BY <1>4 DEF Succeed
  <2>2. PICK steps, heard : PlanKept(steps, heard) BY <1>3, <2>1
  <2>3. ToldStep(s, program.plan, heard) BY <1>4, <2>2, StepTaken DEF PlanKept, ToldBy
  <2>4. DOMAIN known' \subseteq heard
    BY <1>4, <2>2, <2>3 DEF Succeed, Learned, PlanKept, ToldStep
  <2>5. \E notes : operations' \in Seq(notes) /\ Announced(notes, program'.plan)
    BY <1>4, <2>1, <2>2, Noting DEF Succeed
  <2>6. next' \in Nat \ {0} BY <2>1, <2>2 DEF PlanKept
  <2>7. PlanKept(steps, heard)' BY <2>1, <2>2, <2>4, <2>5, <2>6 DEF PlanKept
  <2>8. QED BY <2>7
<1>5. ASSUME NEW s, Current(s), AfterFailure(s)
      PROVE  \E steps, heard : PlanKept(steps, heard)'
  <2>1. command' = command BY <1>5 DEF AfterFailure
  <2>2. PICK steps, heard : PlanKept(steps, heard) BY <1>3, <2>1
  <2>3. PlanKept(steps, heard)' BY <1>5, <2>2, FailedStep
  <2>4. QED BY <2>3
<1>6. ASSUME command' = command, UNCHANGED <<program, known, operations>>,
             act' = act \/ (act < Len(program.acts) /\ act' = act + 1),
             next' = next \/ next' = 1 \/ next' = next + 1
      PROVE  \E steps, heard : PlanKept(steps, heard)'
  <2>1. PICK steps, heard : PlanKept(steps, heard) BY <1>3, <1>6
  <2>2. act \in 1..Len(program.acts) /\ next \in Nat \ {0} BY <2>1 DEF PlanKept
  <2>3. Len(program.acts) \in Nat
    <3> DEFINE S == [body : Seq(steps), cleanup : Seq(steps)]
    <3>1. program.acts \in Seq(S) BY <2>1 DEF PlanKept, ToldBy
    <3> HIDE DEF S
    <3>2. QED BY <3>1, LenProperties
  <2>4. act' \in 1..Len(program.acts) /\ next' \in Nat \ {0} BY <1>6, <2>2, <2>3
  <2>5. PlanKept(steps, heard)' BY <1>6, <2>1, <2>4, NotNoting
  <2>6. QED BY <2>5
<1>7. CASE \E s \in (IF UnderWay THEN Range(Steps) ELSE {}) :
             Current(s) /\ (Succeed(s) \/ Refuse(s) \/ LoseAnswer(s))
  BY <1>4, <1>5, <1>7 DEF Refuse, LoseAnswer
<1>8. CASE PassOver \/ EndBody \/ NextAct BY <1>6, <1>8 DEF PassOver, EndBody, NextAct
<1>9. CASE Report \/ Stop \/ SubmitDialog BY <1>6, <1>9 DEF Report, Stop, SubmitDialog
<1>10. CASE UNCHANGED smokeVars BY <1>6, <1>10 DEF smokeVars
<1>11. QED BY <1>2, <1>7, <1>8, <1>9, <1>10 DEF SmokeNext

(* A dry run's plan foretells what the run with the same arguments writes: *)
(* whatever is refused or lost, and whatever run follows on another.       *)
THEOREM WritesArePlanned == SmokeSpec => []NoUnplannedWrite
<1>1. SmokeInitFrom(SmokeCommands) => PlanInv BY SmokeAssumption, PlanInvInit
<1>2. PlanInv /\ [SmokeNext]_smokeVars => PlanInv' BY PlanInvStep
<1>3. PlanInv => NoUnplannedWrite
  <2>1. SUFFICES ASSUME NEW steps, NEW heard, PlanKept(steps, heard),
                        NEW o \in Range(operations), o.does # "read"
                 PROVE  [does |-> o.does, on |-> Planned(o.slot)] \in program.plan
    BY DEF PlanInv, NoUnplannedWrite
  <2>2. PICK notes : operations \in Seq(notes) /\ Announced(notes, program.plan)
    BY <2>1 DEF PlanKept
  <2>3. o \in notes BY <2>1, <2>2 DEF Range
  <2>4. QED BY <2>1, <2>2, <2>3 DEF Announced
<1>4. QED BY <1>1, <1>2, <1>3, PTL DEF SmokeSpec

(***************************************************************************)
(* What a run removes and what it leaves, seen from a set of names that    *)
(* are theirs: those of others, or none.  The argument has two halves.     *)
(* Each program is Orderly: whatever the body of an act creates or hears   *)
(* of is meant to stay or is cleared by the cleanup of the same act, no    *)
(* step is about something of theirs, and a program that was told of       *)
(* something of theirs removes nothing and hides its names.  And a run of  *)
(* an orderly program (RunInv) has for whatever it created and has a name  *)
(* for one of three accounts: it is meant to stay, its cleanup is still to *)
(* come, or its removal failed and that was noted; what it writes into the *)
(* evidence names nothing of theirs, so that the run that is given this    *)
(* evidence is told of nothing of theirs either.                           *)
(***************************************************************************)
SlotNames ==
  {"none", "space", "lifecycleSpace", "message", "threadRoot", "reply1", "reply2",
   "existingThreadReply", "reaction", "text", "card", "richCard", "carouselCard",
   "threadParent", "threadReply", "placeholder", "stream", "confirmation", "aiFeedback",
   "aiSources", "aiThinking", "aiToolStatus", "aiStreamingStatus", "attachment", "file",
   "topic", "pullSubscription", "subscription", "section", "placement", "placementRestored",
   "notification", "notificationRestored"}

Slots == SlotNames \cup UNION {Range(c.names) : c \in SmokeCommands \cup SmokeFollowUps}

Names(theirs) == Slots \ theirs

(* What a restoration leads to, and what the user of a card creates.       *)
NotMade == {"placementRestored", "notificationRestored", "confirmation"}

Clears(s, x) == Removes(s) /\ s.on = x /\ s.needs = {x}

ClearedBy(cleanup, x) == \E j \in 1..Len(cleanup) : Clears(cleanup[j], x)

(* Whether a run is told of something of theirs.                           *)
Foreign(given, theirs) == \E x \in DOMAIN given : given[x] \in theirs

(* What an act creates or hears of stays on purpose or is cleared by the   *)
(* cleanup of the same act.                                                *)
BodyStep(s, cleanup, kept, given, theirs) ==
  /\ s.on \in Names(theirs) /\ s.learns \subseteq Names(theirs)
  /\ \A x \in s.learns : x \in kept \/ ClearedBy(cleanup, x)
  /\ Makes(s) => /\ s.on \notin NotMade
                 /\ s.on \in kept \/ ClearedBy(cleanup, s.on)
                 /\ s.learns = {s.on} \/ (s.learns = {} /\ s.on \notin DOMAIN given)
  /\ Removes(s) => ~Foreign(given, theirs)

CleanupStep(s, given, theirs) ==
  /\ s.on \in Names(theirs) /\ s.learns \subseteq Names(theirs)
  /\ s.learns \subseteq NotMade /\ ~Makes(s)
  /\ Removes(s) => ~Foreign(given, theirs)

OrderlyActs(steps, kept, given, theirs) ==
  {a \in [body : Seq(steps), cleanup : Seq(steps)] :
     /\ \A i \in 1..Len(a.body) : BodyStep(a.body[i], a.cleanup, kept, given, theirs)
     /\ \A i \in 1..Len(a.cleanup) : CleanupStep(a.cleanup[i], given, theirs)}

Orderly(p, given, theirs) ==
  /\ \E steps : p.acts \in Seq(OrderlyActs(steps, p.kept, given, theirs))
  /\ p.acts # <<>>
  /\ Foreign(given, theirs) => "hides" \in p.traits

(* Nothing of theirs is named in the evidence.                             *)
Discreet(notes, theirs) ==
  \E N : notes \in Seq(N) /\ \A o \in N : o.named => o.name \in Names(theirs)

Evidence(file, theirs) == file.listed \in Seq(Names(theirs)) /\ Discreet(file.operations, theirs)

Archive(written, theirs) ==
  \E F : written \in Seq(F) /\ \A f \in F : Evidence(f, theirs)

Given == KnownAtFirst(command)

RunShape(theirs) ==
  /\ Orderly(program, Given, theirs)
  /\ phase \in {"body", "cleanup", "ended", "stopped"}
  /\ act \in 1..Len(program.acts) /\ next \in Nat \ {0}
  /\ failed \in BOOLEAN
  /\ Discreet(operations, theirs) /\ listed \in Seq(Names(theirs))
  /\ Archive(files, theirs)

KnownNames(theirs) ==
  \A x \in DOMAIN known :
    /\ known[x] \in Slots
    /\ \/ known[x] = x /\ x \notin theirs
       \/ x \in DOMAIN Given /\ known[x] = Given[x]

(* What a run has created it knows by its name, and lists if it lists.     *)
CreatedKnown ==
  \A x : Created(x) =>
    /\ x \notin NotMade
    /\ Has("remembers") => x \in Range(listed)
    /\ x \in DOMAIN known => known[x] = x

Lost(x) == FailedToRemove(x) /\ (failed \/ Has("swallows"))

(* The cleanup that clears x is still to come.                             *)
Owed(x) ==
  LET cleanup == program.acts[act].cleanup IN
  \/ phase = "body" /\ ClearedBy(cleanup, x)
  \/ phase = "cleanup" /\ \E j \in 1..Len(cleanup) : j >= next /\ Clears(cleanup[j], x)

Accounted(x) == x \in program.kept \/ Owed(x) \/ Lost(x)

LeftAccounted ==
  phase # "stopped" =>
    \A x \in DOMAIN known : Created(x) /\ x \in exists => Accounted(x)

Reported ==
  phase = "ended" => files # <<>> /\ (Last(files).ok => ~failed \/ Has("lenient"))

RunInv(theirs) ==
  /\ RunShape(theirs) /\ theirs \subseteq exists
  /\ KnownNames(theirs) /\ CreatedKnown /\ LeftAccounted /\ Reported

-----------------------------------------------------------------------------
LEMMA CurrentAct ==
  ASSUME NEW theirs, RunShape(theirs)
  PROVE  \E steps : program.acts[act] \in OrderlyActs(steps, program.kept, Given, theirs)
<1>1. PICK steps : program.acts \in Seq(OrderlyActs(steps, program.kept, Given, theirs))
  BY DEF RunShape, Orderly
<1> DEFINE A == OrderlyActs(steps, program.kept, Given, theirs)
<1>2. program.acts \in Seq(A) /\ act \in 1..Len(program.acts) BY <1>1 DEF RunShape
<1> HIDE DEF A
<1>3. program.acts[act] \in A BY <1>2, ElementOfSeq
<1>4. QED BY <1>3 DEF A

LEMMA CurrentStep ==
  ASSUME NEW theirs, RunShape(theirs), NEW s, Current(s)
  PROVE  LET a == program.acts[act] IN
         /\ s.needs \subseteq DOMAIN known
         /\ next \in 1..Len(Steps) /\ s = Steps[next]
         /\ phase = "body" => BodyStep(s, a.cleanup, program.kept, Given, theirs)
         /\ phase = "cleanup" => Steps = a.cleanup /\ CleanupStep(s, Given, theirs)
<1> DEFINE a == program.acts[act]
<1>1. PICK steps : a \in OrderlyActs(steps, program.kept, Given, theirs) BY CurrentAct
<1>2. /\ a.body \in Seq(steps) /\ a.cleanup \in Seq(steps)
      /\ \A i \in 1..Len(a.body) : BodyStep(a.body[i], a.cleanup, program.kept, Given, theirs)
      /\ \A i \in 1..Len(a.cleanup) : CleanupStep(a.cleanup[i], Given, theirs)
  BY <1>1 DEF OrderlyActs
<1>3. /\ phase = "body" => Steps = a.body
      /\ phase = "cleanup" => Steps = a.cleanup
  BY DEF Steps
<1>4. s.needs \subseteq DOMAIN known /\ next <= Len(Steps) /\ s = Steps[next] /\ UnderWay
  BY DEF Current
<1>5. next \in Nat \ {0} BY DEF RunShape
<1> HIDE DEF a
<1>6. Steps \in Seq(steps) BY <1>2, <1>3, <1>4 DEF UnderWay
<1>7. next \in 1..Len(Steps) BY <1>4, <1>5, <1>6, LenProperties
<1>8. QED BY <1>2, <1>3, <1>4, <1>7 DEF a

(* What a request is about is not theirs, unless the run was told of it;   *)
(* then it hides its names and removes nothing.                            *)
LEMMA TargetIs ==
  ASSUME NEW theirs, RunInv(theirs), NEW s, Current(s)
  PROVE  /\ s.on \in Names(theirs) /\ s.learns \subseteq Names(theirs)
         /\ Removes(s) => Target(s) \notin theirs
         /\ ~Has("hides") => Target(s) \in Names(theirs)
<1>1. /\ s.on \in Names(theirs) /\ s.learns \subseteq Names(theirs)
      /\ Removes(s) => ~Foreign(Given, theirs)
  BY CurrentStep DEF RunInv, BodyStep, CleanupStep, Current, UnderWay
<1>2. s.on \in Slots /\ s.on \notin theirs BY <1>1 DEF Names
<1>3. Foreign(Given, theirs) => Has("hides") BY DEF RunInv, RunShape, Orderly, Has
<1>4. ~Foreign(Given, theirs) => Target(s) \notin theirs
  BY <1>2 DEF RunInv, KnownNames, Target, Foreign
<1>5. Target(s) \in Slots BY <1>2 DEF RunInv, KnownNames, Target
<1>6. QED BY <1>1, <1>3, <1>4, <1>5 DEF Names

LEMMA Noted ==
  ASSUME NEW theirs, RunInv(theirs), NEW s, Current(s), NEW ok \in BOOLEAN, Note(s, ok)
  PROVE  LET o == [does |-> s.does, slot |-> s.on, name |-> Target(s), op |-> s.op, ok |-> ok,
                   named |-> ok /\ ~Has("hides")] IN
         /\ Discreet(operations', theirs)
         /\ Range(operations') = Range(operations) \cup {o}
<1> DEFINE o == [does |-> s.does, slot |-> s.on, name |-> Target(s), op |-> s.op, ok |-> ok,
                 named |-> ok /\ ~Has("hides")]
<1>1. o.named => ~Has("hides") OBVIOUS
<1>2. o.name = Target(s) OBVIOUS
<1>3. o.named => o.name \in Names(theirs) BY <1>1, <1>2, TargetIs
<1>4. operations' = Append(operations, o) BY DEF Note
<1>5. PICK N : operations \in Seq(N) /\ \A p \in N : p.named => p.name \in Names(theirs)
  BY DEF RunInv, RunShape, Discreet
<1> HIDE DEF o
<1> DEFINE M == N \cup {o}
<1>6. operations \in Seq(M) /\ o \in M /\ \A p \in M : p.named => p.name \in Names(theirs)
  BY <1>3, <1>5
<1> HIDE DEF M
<1>7. operations' \in Seq(M) BY <1>4, <1>6, AppendProperties
<1>8. Discreet(operations', theirs) BY <1>6, <1>7 DEF Discreet
<1>9. Range(operations') = Range(operations) \cup {o} BY <1>4, <1>6, RangeAppended
<1>10. QED BY <1>8, <1>9 DEF o

LEMMA CreatedAfter ==
  ASSUME NEW theirs, RunInv(theirs), NEW s, Current(s), NEW ok \in BOOLEAN, Note(s, ok),
         NEW x
  PROVE  /\ Created(x)' <=> Created(x) \/ (Makes(s) /\ ok /\ s.on = x)
         /\ FailedToRemove(x) => FailedToRemove(x)'
         /\ Removes(s) /\ ~ok /\ Target(s) = x => FailedToRemove(x)'
<1> DEFINE o == [does |-> s.does, slot |-> s.on, name |-> Target(s), op |-> s.op, ok |-> ok,
                 named |-> ok /\ ~Has("hides")]
<1>1. Range(operations') = Range(operations) \cup {o} BY Noted
<1>2. o.does = s.does /\ o.slot = s.on /\ o.name = Target(s) /\ o.ok = ok OBVIOUS
<1> HIDE DEF o
<1>3. Range(operations)' = Range(operations') BY DEF Range
<1>4. Created(x)' <=> Created(x) \/ (Makes(s) /\ ok /\ s.on = x)
  BY <1>1, <1>2, <1>3 DEF Created, Makes
<1>5. /\ FailedToRemove(x) => FailedToRemove(x)'
      /\ Removes(s) /\ ~ok /\ Target(s) = x => FailedToRemove(x)'
  BY <1>1, <1>2, <1>3 DEF FailedToRemove, Removes
<1>6. QED BY <1>4, <1>5

(* What a request that is carried out does to what there is.               *)
LEMMA Carried ==
  ASSUME NEW theirs, RunInv(theirs), NEW s, Current(s), CarriedOut(s) \/ UNCHANGED exists
  PROVE  /\ theirs \subseteq exists'
         /\ \A x \in exists' : x \in exists \/ (Makes(s) /\ x = s.on)
BY TargetIs DEF RunInv, CarriedOut

(* A resource whose cleanup is still to come when a step of the cleanup is *)
(* over: it comes later, or it was this step, which is about it.           *)
LEMMA CleanupOver ==
  ASSUME NEW theirs, RunInv(theirs), phase = "cleanup", NEW x, Owed(x),
         next \in 1..Len(Steps)
  PROVE  LET cleanup == program.acts[act].cleanup IN
         \/ Clears(Steps[next], x)
         \/ \E j \in 1..Len(cleanup) : j >= next + 1 /\ Clears(cleanup[j], x)
<1> DEFINE cleanup == program.acts[act].cleanup
<1>1. Steps = cleanup /\ next \in Nat BY DEF RunInv, RunShape, Steps
<1> HIDE DEF cleanup
<1>2. PICK j \in 1..Len(cleanup) : j >= next /\ Clears(cleanup[j], x)
  BY DEF Owed, cleanup
<1>3. Len(cleanup) \in Nat \/ 1..Len(cleanup) # {} BY <1>2
<1>4. j = next \/ j >= next + 1 BY <1>1, <1>2
<1>5. QED BY <1>1, <1>2, <1>4 DEF cleanup

LEMMA SucceedInv ==
  ASSUME NEW theirs, RunInv(theirs), NEW s, Current(s), Succeed(s)
  PROVE  RunInv(theirs)'
<1> DEFINE a == program.acts[act]
<1>1. /\ UNCHANGED <<command, program, phase, act, failed, files>> /\ next' = next + 1
      /\ known' = Learned(s) /\ CarriedOut(s) /\ Note(s, TRUE)
      /\ listed' = IF Makes(s) /\ Has("remembers") THEN Append(listed, s.on) ELSE listed
  BY DEF Succeed
<1>2. s.on \in Names(theirs) /\ s.learns \subseteq Names(theirs) BY TargetIs
<1>3. s.on \notin theirs /\ s.learns \subseteq Slots /\ s.learns \cap theirs = {}
  BY <1>2 DEF Names
<1>4. listed \in Seq(Names(theirs)) BY DEF RunInv, RunShape
<1>5. RunShape(theirs)'
  <2>1. Discreet(operations, theirs)' BY <1>1, Noted DEF Discreet
  <2>2. listed' \in Seq(Names(theirs)) BY <1>1, <1>2, <1>4, AppendProperties
  <2>3. next' \in Nat \ {0} BY <1>1 DEF RunInv, RunShape
  <2>4. QED BY <1>1, <2>1, <2>2, <2>3 DEF RunInv, RunShape, Given
<1>6. (theirs \subseteq exists)' BY <1>1, Carried
<1>7. DOMAIN known' = DOMAIN known \cup s.learns
      /\ \A x \in DOMAIN known' : known'[x] = IF x \in s.learns THEN x ELSE known[x]
  BY <1>1 DEF Learned
<1>8. KnownNames(theirs)' BY <1>1, <1>2, <1>3, <1>7 DEF RunInv, KnownNames, Given
<1>9. Makes(s) => /\ phase = "body" /\ s.on \notin NotMade
                  /\ s.learns = {s.on} \/ (s.learns = {} /\ s.on \notin DOMAIN Given)
                  /\ s.on \in program.kept \/ ClearedBy(a.cleanup, s.on)
  BY CurrentStep DEF RunInv, BodyStep, CleanupStep, Current, UnderWay
<1>10. \A x : Created(x)' <=> Created(x) \/ (Makes(s) /\ s.on = x)
  BY <1>1, CreatedAfter
<1>11. CreatedKnown'
  <2>1. SUFFICES ASSUME NEW x, Created(x)'
                 PROVE  /\ x \notin NotMade
                        /\ Has("remembers") => x \in Range(listed')
                        /\ x \in DOMAIN known' => known'[x] = x
    BY <1>1 DEF CreatedKnown, Has, Range
  <2>2. Has("remembers") => Range(listed) \subseteq Range(listed')
    <3>1. Range(Append(listed, s.on)) = Range(listed) \cup {s.on} BY <1>2, <1>4, RangeAppended
    <3>2. QED BY <1>1, <3>1
  <2>3. CASE Created(x)
    BY <1>7, <2>2, <2>3 DEF RunInv, CreatedKnown
  <2>4. CASE Makes(s) /\ s.on = x
    <3>1. Has("remembers") => x \in Range(listed')
      <4>1. Range(Append(listed, s.on)) = Range(listed) \cup {s.on} BY <1>2, <1>4, RangeAppended
      <4>2. QED BY <1>1, <2>4, <4>1
    <3>2. x \in DOMAIN known' => known'[x] = x
      BY <1>7, <1>9, <2>4 DEF RunInv, KnownNames
    <3>3. QED BY <1>9, <2>4, <3>1, <3>2
  <2>5. QED BY <1>10, <2>1, <2>3, <2>4
<1>12. LeftAccounted'
  <2>1. SUFFICES ASSUME NEW x \in DOMAIN known', Created(x)', x \in exists'
                 PROVE  Accounted(x)'
    BY DEF LeftAccounted
  <2>2. CASE phase = "body"
    <3>1. x \in program.kept \/ ClearedBy(a.cleanup, x) => Accounted(x)'
      BY <1>1, <2>2 DEF Accounted, Owed
    <3>2. CASE x \in s.learns
      BY <2>2, <3>1, <3>2, CurrentStep DEF RunInv, BodyStep
    <3>3. CASE Makes(s) /\ s.on = x
      BY <1>9, <3>1, <3>3
    <3>4. CASE x \notin s.learns /\ ~(Makes(s) /\ s.on = x)
      <4>1. x \in DOMAIN known /\ Created(x) /\ x \in exists
        BY <1>1, <1>7, <1>10, <2>1, <3>4, Carried
      <4>2. Accounted(x) BY <2>2, <4>1 DEF RunInv, LeftAccounted
      <4>3. Lost(x) => Lost(x)' BY <1>1, CreatedAfter DEF Lost, Has
      <4>4. Owed(x) => ClearedBy(a.cleanup, x) BY <2>2 DEF Owed
      <4>5. QED BY <1>1, <3>1, <4>2, <4>3, <4>4 DEF Accounted
    <3>5. QED BY <3>2, <3>3, <3>4
  <2>3. CASE phase = "cleanup"
    <3>1. ~Makes(s) /\ s.learns \subseteq NotMade BY <2>3, CurrentStep DEF RunInv, CleanupStep
    <3>2. x \notin NotMade /\ Created(x) BY <1>10, <1>11, <2>1, <3>1 DEF CreatedKnown
    <3>3. x \in DOMAIN known /\ x \in exists BY <1>1, <1>7, <2>1, <3>1, <3>2, Carried
    <3>4. Accounted(x) BY <2>3, <3>2, <3>3 DEF RunInv, LeftAccounted
    <3>5. Lost(x) => Lost(x)' BY <1>1, CreatedAfter DEF Lost, Has
    <3>6. ASSUME Owed(x)
          PROVE  Owed(x)'
      <4>1. s = Steps[next] /\ next \in 1..Len(Steps) BY CurrentStep DEF RunInv
      <4>2. ~Clears(s, x)
        <5>1. SUFFICES ASSUME Clears(s, x) PROVE FALSE OBVIOUS
        <5>2. Target(s) = x /\ Removes(s) /\ ~Makes(s)
          BY <3>1, <3>2, <3>3, <5>1 DEF Clears, Target, RunInv, CreatedKnown
        <5>3. exists' = exists \ {x} BY <1>1, <5>2 DEF CarriedOut
        <5>4. QED BY <2>1, <5>3
      <4>3. \E j \in 1..Len(a.cleanup) : j >= next + 1 /\ Clears(a.cleanup[j], x)
        BY <2>3, <3>6, <4>1, <4>2, CleanupOver
      <4>4. QED BY <1>1, <2>3, <4>3 DEF Owed, Clears, Removes
    <3>7. QED BY <1>1, <3>4, <3>5, <3>6 DEF Accounted
  <2>4. QED BY <2>2, <2>3 DEF Current, UnderWay
<1>13. Reported' BY <1>1 DEF Reported, Current, UnderWay
<1>14. QED BY <1>5, <1>6, <1>8, <1>11, <1>12, <1>13 DEF RunInv

(* A request that is refused, or whose answer is lost.                     *)
LEMMA FailInv ==
  ASSUME NEW theirs, RunInv(theirs), NEW s, Current(s), AfterFailure(s),
         CarriedOut(s) \/ UNCHANGED exists
  PROVE  RunInv(theirs)'
<1> DEFINE a == program.acts[act]
<1>1. /\ UNCHANGED <<command, program, act, known, listed, files>> /\ Note(s, FALSE)
      /\ failed' = (failed \/ phase = "body" \/ ~Has("swallows"))
      /\ phase' = "cleanup"
      /\ next' = IF phase = "body" THEN 1 ELSE next + 1
  BY DEF AfterFailure, Current, UnderWay
<1>2. RunShape(theirs)'
  <2>1. Discreet(operations, theirs)' BY <1>1, Noted DEF Discreet
  <2>2. next' \in Nat \ {0} BY <1>1 DEF RunInv, RunShape
  <2>3. failed' \in BOOLEAN BY <1>1 DEF RunInv, RunShape, Has
  <2>4. QED BY <1>1, <2>1, <2>2, <2>3 DEF RunInv, RunShape, Given
<1>3. (theirs \subseteq exists)' BY Carried
<1>4. KnownNames(theirs)' BY <1>1 DEF RunInv, KnownNames, Given
<1>5. \A x : Created(x)' <=> Created(x) BY <1>1, CreatedAfter
<1>6. CreatedKnown' BY <1>1, <1>5 DEF RunInv, CreatedKnown, Has
<1>7. \A x : Lost(x) => Lost(x)' BY <1>1, CreatedAfter DEF Lost, Has
<1>8. LeftAccounted'
  <2>1. SUFFICES ASSUME NEW x \in DOMAIN known', Created(x)', x \in exists'
                 PROVE  Accounted(x)'
    BY DEF LeftAccounted
  <2>2. x \in DOMAIN known /\ Created(x) /\ x \notin NotMade /\ known[x] = x
    BY <1>1, <1>5, <2>1 DEF RunInv, CreatedKnown
  <2>3. CASE phase = "body"
    <3>1. ClearedBy(a.cleanup, x) => Owed(x)'
      BY <1>1, <2>3 DEF Owed, ClearedBy, Clears, Removes
    <3>2. CASE Makes(s) /\ s.on = x
      <4>1. x \in program.kept \/ ClearedBy(a.cleanup, x)
        BY <2>3, <3>2, CurrentStep DEF RunInv, BodyStep
      <4>2. QED BY <1>1, <3>1, <4>1 DEF Accounted
    <3>3. CASE ~(Makes(s) /\ s.on = x)
      <4>1. Accounted(x)
        BY <2>1, <2>2, <2>3, <3>3, Carried DEF RunInv, LeftAccounted
      <4>2. Owed(x) => ClearedBy(a.cleanup, x) BY <2>3 DEF Owed
      <4>3. QED BY <1>1, <1>7, <3>1, <4>1, <4>2 DEF Accounted
    <3>4. QED BY <3>2, <3>3
  <2>4. CASE phase = "cleanup"
    <3>1. ~Makes(s) BY <2>4, CurrentStep DEF RunInv, CleanupStep
    <3>2. Accounted(x) BY <2>1, <2>2, <2>4, <3>1, Carried DEF RunInv, LeftAccounted
    <3>3. ASSUME Owed(x)
          PROVE  Accounted(x)'
      <4>1. s = Steps[next] /\ next \in 1..Len(Steps) BY CurrentStep DEF RunInv
      <4>2. CASE Clears(s, x)
        <5>1. Target(s) = x /\ Removes(s) BY <2>2, <4>2 DEF Clears, Target
        <5>2. FailedToRemove(x)' BY <1>1, <5>1, CreatedAfter
        <5>3. QED BY <1>1, <2>4, <5>2 DEF Accounted, Lost, Has
      <4>3. CASE ~Clears(s, x)
        <5>1. \E j \in 1..Len(a.cleanup) : j >= next + 1 /\ Clears(a.cleanup[j], x)
          BY <2>4, <3>3, <4>1, <4>3, CleanupOver
        <5>2. QED BY <1>1, <2>4, <5>1 DEF Accounted, Owed, Clears, Removes
      <4>4. QED BY <4>2, <4>3
    <3>4. QED BY <1>1, <1>7, <3>2, <3>3 DEF Accounted
  <2>5. QED BY <2>3, <2>4 DEF Current, UnderWay
<1>9. Reported' BY <1>1 DEF Reported
<1>10. QED BY <1>2, <1>3, <1>4, <1>6, <1>8, <1>9 DEF RunInv

(* What a step keeps that makes no request.                                *)
LEMMA Standstill ==
  ASSUME NEW theirs, RunInv(theirs),
         UNCHANGED <<command, program, known, failed, operations, listed>>,
         theirs \subseteq exists',
         act' \in 1..Len(program.acts), next' \in Nat \ {0},
         phase' \in {"body", "cleanup", "ended", "stopped"},
         Archive(files, theirs)', LeftAccounted', Reported'
  PROVE  RunInv(theirs)'
<1>1. RunShape(theirs)' BY DEF RunInv, RunShape, Given
<1>2. KnownNames(theirs)' BY DEF RunInv, KnownNames, Given
<1>3. CreatedKnown' BY DEF RunInv, CreatedKnown, Created, Has
<1>4. QED BY <1>1, <1>2, <1>3 DEF RunInv

LEMMA SameNotes ==
  ASSUME UNCHANGED <<program, failed, operations>>, NEW x
  PROVE  /\ Created(x)' <=> Created(x)
         /\ Lost(x)' <=> Lost(x)
BY DEF Created, Lost, FailedToRemove, Has

LEMMA PassOverInv ==
  ASSUME NEW theirs, RunInv(theirs), PassOver
  PROVE  RunInv(theirs)'
<1>1. /\ UNCHANGED <<command, program, phase, act, known, failed, operations, listed, files, exists>>
      /\ next' = next + 1 /\ UnderWay /\ next <= Len(Steps)
      /\ ~(Steps[next].needs \subseteq DOMAIN known)
  BY DEF PassOver
<1>2. next \in Nat \ {0} /\ act \in 1..Len(program.acts) BY DEF RunInv, RunShape
<1>3. LeftAccounted'
  <2>1. SUFFICES ASSUME NEW x \in DOMAIN known, Created(x), x \in exists
                 PROVE  Accounted(x)'
    BY <1>1, SameNotes DEF LeftAccounted
  <2>2. Accounted(x) BY <1>1, <2>1 DEF RunInv, LeftAccounted, UnderWay
  <2>3. ASSUME Owed(x), phase = "cleanup"
        PROVE  Owed(x)'
    <3>1. next \in 1..Len(Steps)
      <4>1. PICK steps : program.acts[act] \in OrderlyActs(steps, program.kept, Given, theirs)
        BY CurrentAct DEF RunInv
      <4>2. Steps \in Seq(steps) BY <2>3, <4>1 DEF OrderlyActs, Steps
      <4>3. QED BY <1>1, <1>2, <4>2, LenProperties
    <3>2. ~Clears(Steps[next], x) BY <1>1, <2>1 DEF Clears
    <3>3. \E j \in 1..Len(program.acts[act].cleanup) :
            j >= next + 1 /\ Clears(program.acts[act].cleanup[j], x)
      BY <2>3, <3>1, <3>2, CleanupOver
    <3>4. QED BY <1>1, <2>3, <3>3 DEF Owed, Clears, Removes
  <2>4. ASSUME Owed(x), phase = "body"
        PROVE  Owed(x)'
    BY <1>1, <2>4 DEF Owed, ClearedBy, Clears, Removes
  <2>5. QED BY <1>1, <2>2, <2>3, <2>4, SameNotes DEF Accounted, UnderWay
<1>4. Reported' BY <1>1 DEF RunInv, Reported, Has
<1>5. QED BY <1>1, <1>2, <1>3, <1>4, Standstill DEF RunInv, RunShape

LEMMA EndBodyInv ==
  ASSUME NEW theirs, RunInv(theirs), EndBody
  PROVE  RunInv(theirs)'
<1>1. /\ UNCHANGED <<command, program, act, known, failed, operations, listed, files, exists>>
      /\ next' = 1 /\ phase = "body" /\ phase' = "cleanup"
  BY DEF EndBody
<1>2. LeftAccounted'
  <2>1. SUFFICES ASSUME NEW x \in DOMAIN known, Created(x), x \in exists
                 PROVE  Accounted(x)'
    BY <1>1, SameNotes DEF LeftAccounted
  <2>2. Accounted(x) BY <1>1, <2>1 DEF RunInv, LeftAccounted
  <2>3. Owed(x) => Owed(x)' BY <1>1 DEF Owed, ClearedBy, Clears, Removes
  <2>4. QED BY <1>1, <2>2, <2>3, SameNotes DEF Accounted
<1>3. Reported' BY <1>1 DEF Reported
<1>4. QED BY <1>1, <1>2, <1>3, Standstill DEF RunInv, RunShape

(* At the end of a cleanup nothing is still to come.                       *)
LEMMA CleanupDone ==
  ASSUME NEW theirs, RunInv(theirs), phase = "cleanup", next > Len(Steps)
  PROVE  \A x \in DOMAIN known : Created(x) /\ x \in exists => x \in program.kept \/ Lost(x)
<1> DEFINE cleanup == program.acts[act].cleanup
<1>1. next \in Nat \ {0} BY DEF RunInv, RunShape
<1>2. PICK steps : program.acts[act] \in OrderlyActs(steps, program.kept, Given, theirs)
  BY CurrentAct DEF RunInv
<1>3. cleanup \in Seq(steps) BY <1>2 DEF OrderlyActs
<1>4. Len(cleanup) \in Nat /\ Steps = cleanup BY <1>3, LenProperties DEF Steps
<1>5. \A x : ~Owed(x) BY <1>1, <1>4 DEF Owed
<1>6. QED BY <1>5 DEF RunInv, LeftAccounted, Accounted

LEMMA NextActInv ==
  ASSUME NEW theirs, RunInv(theirs), NextAct
  PROVE  RunInv(theirs)'
<1>1. /\ UNCHANGED <<command, program, known, failed, operations, listed, files, exists>>
      /\ next' = 1 /\ phase = "cleanup" /\ phase' = "body" /\ act' = act + 1
      /\ next > Len(Steps) /\ act < Len(program.acts)
  BY DEF NextAct
<1>2. act' \in 1..Len(program.acts)
  <2>0. PICK steps : program.acts \in Seq(OrderlyActs(steps, program.kept, Given, theirs))
    BY DEF RunInv, RunShape, Orderly
  <2> DEFINE A == OrderlyActs(steps, program.kept, Given, theirs)
  <2>1. act \in 1..Len(program.acts) /\ program.acts \in Seq(A)
    BY <2>0 DEF RunInv, RunShape
  <2> HIDE DEF A
  <2>2. Len(program.acts) \in Nat BY <2>1, LenProperties
  <2>3. QED BY <1>1, <2>1, <2>2
<1>3. LeftAccounted'
  BY <1>1, CleanupDone, SameNotes DEF LeftAccounted, Accounted
<1>4. Reported' BY <1>1 DEF Reported
<1>5. QED BY <1>1, <1>2, <1>3, <1>4, Standstill DEF RunInv, RunShape

LEMMA ReportInv ==
  ASSUME NEW theirs, RunInv(theirs), Report
  PROVE  RunInv(theirs)'
<1>1. /\ UNCHANGED <<command, program, act, next, known, failed, operations, listed, exists>>
      /\ phase = "cleanup" /\ phase' = "ended" /\ next > Len(Steps)
  BY DEF Report
<1>2. PICK ok \in {~failed} \cup Also(Has("lenient"), {TRUE}) :
        files' = Append(files, [ok |-> ok, listed |-> listed, operations |-> operations])
  BY DEF Report
<1>3. ok \in BOOLEAN /\ (ok => ~failed \/ Has("lenient"))
  BY <1>2 DEF RunInv, RunShape, Also, Has
<1> DEFINE file == [ok |-> ok, listed |-> listed, operations |-> operations]
<1>4. file.ok = ok /\ file.listed = listed /\ file.operations = operations OBVIOUS
<1>5. Evidence(file, theirs) BY <1>4 DEF RunInv, RunShape, Evidence
<1>6. files' = Append(files, file) BY <1>2
<1>7. PICK F : files \in Seq(F) /\ \A f \in F : Evidence(f, theirs)
  BY DEF RunInv, RunShape, Archive
<1> HIDE DEF file
<1> DEFINE G == F \cup {file}
<1>8. files \in Seq(G) /\ file \in G /\ \A f \in G : Evidence(f, theirs) BY <1>5, <1>7
<1> HIDE DEF G
<1>9. /\ files' \in Seq(G) /\ Len(files') = Len(files) + 1 /\ Len(files) \in Nat
      /\ files'[Len(files) + 1] = file
  BY <1>6, <1>8, AppendProperties, LenProperties
<1>10. Archive(files, theirs)' BY <1>8, <1>9 DEF Archive
<1>11. files' # <<>> /\ Last(files') = file BY <1>9, EmptySeq DEF Last
<1>12. Reported' BY <1>1, <1>3, <1>4, <1>11 DEF Reported, Has
<1>13. LeftAccounted'
  BY <1>1, CleanupDone, SameNotes DEF LeftAccounted, Accounted
<1>14. QED BY <1>1, <1>10, <1>12, <1>13, Standstill DEF RunInv, RunShape

LEMMA StopInv ==
  ASSUME NEW theirs, RunInv(theirs), Stop
  PROVE  RunInv(theirs)'
<1>1. /\ UNCHANGED <<command, program, act, next, known, failed, operations, listed, files>>
      /\ phase' = "stopped"
  BY DEF Stop
<1>2. theirs \subseteq exists' BY Carried DEF Stop, RunInv
<1>3. LeftAccounted' /\ Reported' BY <1>1 DEF LeftAccounted, Reported
<1>4. QED BY <1>1, <1>2, <1>3, Standstill DEF RunInv, RunShape

LEMMA SubmitDialogInv ==
  ASSUME NEW theirs, RunInv(theirs), SubmitDialog
  PROVE  RunInv(theirs)'
<1>1. /\ UNCHANGED <<command, program, phase, act, next, known, failed, operations, listed, files>>
      /\ exists' = exists \cup {"confirmation"}
  BY DEF SubmitDialog
<1>2. LeftAccounted'
  <2>1. SUFFICES ASSUME phase # "stopped", NEW x \in DOMAIN known, Created(x), x \in exists'
                 PROVE  Accounted(x)'
    BY <1>1, SameNotes DEF LeftAccounted
  <2>2. x # "confirmation" BY <2>1 DEF RunInv, CreatedKnown, NotMade
  <2>3. Accounted(x) BY <1>1, <2>1, <2>2 DEF RunInv, LeftAccounted
  <2>4. Owed(x) => Owed(x)' BY <1>1 DEF Owed, ClearedBy, Clears, Removes
  <2>5. QED BY <1>1, <2>3, <2>4, SameNotes DEF Accounted
<1>3. Reported' BY <1>1 DEF RunInv, Reported, Has
<1>4. theirs \subseteq exists' BY <1>1 DEF RunInv
<1>5. QED BY <1>1, <1>2, <1>3, <1>4, Standstill DEF RunInv, RunShape

(* What a body may do.                                                     *)
LEMMA BodyRead ==
  ASSUME NEW cleanup, NEW kept, NEW given, NEW theirs, NEW x \in Names(theirs)
  PROVE  /\ BodyStep(Gets(x), cleanup, kept, given, theirs)
         /\ BodyStep(Patches(x), cleanup, kept, given, theirs)
<1>1. Gets(x).does = "read" /\ Gets(x).on = x /\ Gets(x).learns = {} BY DEF Gets, Request
<1>2. QED BY <1>1, PatchesIs DEF BodyStep, Makes, Removes

LEMMA BodyCreation ==
  ASSUME NEW cleanup, NEW kept, NEW given, NEW theirs, NEW x \in Names(theirs), x \notin NotMade,
         x \in kept \/ ClearedBy(cleanup, x), NEW op
  PROVE  /\ BodyStep(Creates(x, op), cleanup, kept, given, theirs)
         /\ BodyStep(Displace(x), cleanup, kept, given, theirs)
BY CreatesIs, DisplaceIs DEF BodyStep, Makes, Removes

LEMMA BodyDeletion ==
  ASSUME NEW cleanup, NEW kept, NEW given, NEW theirs, NEW x \in Names(theirs),
         ~Foreign(given, theirs)
  PROVE  /\ BodyStep(DeletesNamed(x), cleanup, kept, given, theirs)
         /\ BodyStep([DeletesNamed(x) EXCEPT !.missingOk = TRUE], cleanup, kept, given, theirs)
<1> DEFINE r == DeletesNamed(x)
           m == [r EXCEPT !.missingOk = TRUE]
<1>1. r.does = "delete" /\ r.on = x /\ r.learns = {} BY DEF DeletesNamed, Request
<1>2. m.does = "delete" /\ m.on = x /\ m.learns = {} BY DEF DeletesNamed, Request
<1> HIDE DEF r, m
<1>3. /\ BodyStep(r, cleanup, kept, given, theirs)
      /\ BodyStep(m, cleanup, kept, given, theirs)
  BY <1>1, <1>2 DEF BodyStep, Makes, Removes
<1>4. QED BY <1>3 DEF r, m

(* What a cleanup may do.                                                  *)
LEMMA CleanupRead ==
  ASSUME NEW given, NEW theirs, NEW x \in Names(theirs), NEW needs
  PROVE  CleanupStep(Request("read", x, <<>>, needs), given, theirs)
<1> DEFINE r == Request("read", x, <<>>, needs)
<1>1. r.does = "read" /\ r.on = x /\ r.learns = {} BY DEF Request
<1> HIDE DEF r
<1>2. CleanupStep(r, given, theirs) BY <1>1 DEF CleanupStep, Makes, Removes
<1>3. QED BY <1>2 DEF r

LEMMA CleanupDeletion ==
  ASSUME NEW given, NEW theirs, NEW x \in Names(theirs), ~Foreign(given, theirs)
  PROVE  /\ CleanupStep(Deletes(x), given, theirs)
         /\ \A y \in Names(theirs) \cap NotMade : CleanupStep(Restore(x, y), given, theirs)
BY DeletesIs, RestoreIs DEF CleanupStep, Makes, Removes

LEMMA Clearing ==
  ASSUME NEW x, NEW y
  PROVE  Clears(Deletes(x), x) /\ Clears(Restore(x, y), x)
BY DeletesIs, RestoreIs DEF Clears, Removes

(* The slots of the scripts are not theirs.                                *)
LEMMA SlotsAreOwn ==
  ASSUME NEW theirs, theirs \subseteq Others
  PROVE  SlotNames \subseteq Names(theirs)
BY DEF SlotNames, Slots, Names, Others

(* The acts of steps that may be taken.                                    *)
LEMMA ActOrderly ==
  ASSUME NEW steps, NEW kept, NEW given, NEW theirs,
         NEW body \in Seq(steps), NEW cleanup \in Seq(steps),
         \A i \in 1..Len(body) : BodyStep(body[i], cleanup, kept, given, theirs),
         \A i \in 1..Len(cleanup) : CleanupStep(cleanup[i], given, theirs)
  PROVE  Act(body, cleanup) \in OrderlyActs(steps, kept, given, theirs)
<1>1. Act(body, cleanup) = [body |-> body, cleanup |-> cleanup] BY DEF Act
<1>2. QED BY <1>1 DEF OrderlyActs

LEMMA StepsOf ==
  ASSUME NEW T, NEW s \in Seq(T), NEW i \in 1..Len(s)
  PROVE  s[i] \in T
BY ElementOfSeq

LEMMA OneOrderlyAct ==
  ASSUME NEW given, NEW theirs, NEW plan, NEW traits, NEW kept, NEW B, NEW C,
         NEW body \in Seq(B), NEW cleanup \in Seq(C),
         \A s \in B : BodyStep(s, cleanup, kept, given, theirs),
         \A s \in C : CleanupStep(s, given, theirs),
         Foreign(given, theirs) => "hides" \in traits
  PROVE  Orderly(Program(<<Act(body, cleanup)>>, plan, traits, kept), given, theirs)
<1> DEFINE steps == B \cup C
           A == OrderlyActs(steps, kept, given, theirs)
           a == Act(body, cleanup)
           p == Program(<<a>>, plan, traits, kept)
<1>1. body \in Seq(steps) /\ cleanup \in Seq(steps) OBVIOUS
<1> HIDE DEF steps
<1>2. a \in A BY <1>1, StepsOf, ActOrderly
<1>3. p.acts = <<a>> /\ p.kept = kept /\ p.traits = traits BY DEF Program
<1> HIDE DEF a, A
<1>4. <<a>> \in Seq(A) /\ <<a>> # <<>> BY <1>2
<1>5. Orderly(p, given, theirs) BY <1>3, <1>4 DEF Orderly, A
<1>6. QED BY <1>5 DEF a

(* An act without a cleanup.                                               *)
LEMMA OneOrderlyBody ==
  ASSUME NEW given, NEW theirs, NEW plan, NEW traits, NEW kept, NEW B, NEW body \in Seq(B),
         \A s \in B : BodyStep(s, <<>>, kept, given, theirs),
         Foreign(given, theirs) => "hides" \in traits
  PROVE  Orderly(Program(<<Act(body, <<>>)>>, plan, traits, kept), given, theirs)
<1> DEFINE none == <<>>
<1>1. none \in Seq({}) OBVIOUS
<1>2. none = <<>> OBVIOUS
<1> HIDE DEF none
<1>3. \A s \in B : BodyStep(s, none, kept, given, theirs) BY <1>2
<1>4. Orderly(Program(<<Act(body, none)>>, plan, traits, kept), given, theirs)
  BY <1>1, <1>3, OneOrderlyAct
<1>5. QED BY <1>4 DEF none

LEMMA SeveralOrderlyActs ==
  ASSUME NEW given, NEW theirs, NEW plan, NEW traits, NEW kept, NEW steps,
         NEW acts \in Seq(OrderlyActs(steps, kept, given, theirs)), acts # <<>>,
         Foreign(given, theirs) => "hides" \in traits
  PROVE  Orderly(Program(acts, plan, traits, kept), given, theirs)
<1> DEFINE p == Program(acts, plan, traits, kept)
<1>1. p.acts = acts /\ p.kept = kept /\ p.traits = traits BY DEF Program
<1>2. QED BY <1>1 DEF Orderly

(* The cleanup of chat-smoke.mjs removes all that was created.             *)
LEMMA ChatHas ==
  ASSUME NEW c, c.count \in 1..2
  PROVE  /\ ChatCreated(c) \in Seq(SlotNames)
         /\ "messages" \in c.flags => "message" \in Range(ChatCreated(c))
         /\ "threadReplies" \in c.flags =>
              /\ "threadRoot" \in Range(ChatCreated(c))
              /\ \A i \in 1..c.count : Replies[i] \in Range(ChatCreated(c))
         /\ "existingThread" \in c.flags => "existingThreadReply" \in Range(ChatCreated(c))
<1> DEFINE first == If("messages" \in c.flags, <<"message">>)
           replies == <<"threadRoot">> \o SubSeq(Replies, 1, c.count)
           second == If("threadReplies" \in c.flags, replies)
           third == If("existingThread" \in c.flags, <<"existingThreadReply">>)
           S == SlotNames
<1>1. \A i \in 1..2 : Replies[i] \in S BY ReplyPlanned DEF SlotNames
<1>2. "message" \in S /\ "threadRoot" \in S /\ "existingThreadReply" \in S BY DEF SlotNames
<1> HIDE DEF S
<1>3. first \in Seq(S) /\ third \in Seq(S) BY <1>2, ChosenOne
<1>4. replies \in Seq(S) /\ Range(replies) = {"threadRoot"} \cup {Replies[i] : i \in 1..c.count}
  <2> DEFINE some == SubSeq(Replies, 1, c.count)
  <2>1. some \in Seq(S) /\ Len(some) = c.count /\ \A i \in 1..c.count : some[i] = Replies[i]
    <3>1. Replies \in Seq(S) /\ Len(Replies) = 2 BY <1>1 DEF Replies
    <3>2. 1 \in Int /\ c.count \in Int /\ 1 <= c.count /\ \A i \in 1..c.count : Replies[i] \in S
      BY <1>1
    <3>3. /\ some \in Seq(S) /\ Len(some) = c.count - 1 + 1
          /\ \A i \in 1..(c.count - 1 + 1) : some[i] = Replies[1 + i - 1]
      BY <3>1, <3>2, SubSeqProperties
    <3> HIDE DEF some
    <3>4. c.count - 1 + 1 = c.count /\ \A i \in 1..c.count : 1 + i - 1 = i OBVIOUS
    <3>5. QED BY <3>3, <3>4
  <2> HIDE DEF some
  <2>2. Range(some) = {Replies[i] : i \in 1..c.count}
    <3>1. DOMAIN some = 1..c.count BY <2>1, LenProperties
    <3>2. QED BY <2>1, <3>1 DEF Range
  <2> DEFINE root == <<"threadRoot">>
  <2>3. root \in Seq(S) /\ Range(root) = {"threadRoot"} BY <1>2 DEF Range
  <2>4. replies = root \o some BY DEF some
  <2> HIDE DEF replies, root
  <2>5. replies \in Seq(S) BY <2>1, <2>3, <2>4, Joined
  <2>6. Range(root) \cup Range(some) = Range(replies)
    <3>1. Range(root) \cup Range(some) = Range(root \o some) BY <2>1, <2>3, RangeJoined
    <3>2. QED BY <3>1, <2>4
  <2>7. QED BY <2>2, <2>3, <2>5, <2>6
<1>5. second \in Seq(S) BY <1>4, Chosen
<1>6. /\ "messages" \in c.flags => "message" \in Range(first)
      /\ "threadReplies" \in c.flags => second = replies
      /\ "existingThread" \in c.flags => "existingThreadReply" \in Range(third)
  <2>1. "message" \in Range(<<"message">>) BY DEF Range
  <2>2. "existingThreadReply" \in Range(<<"existingThreadReply">>) BY DEF Range
  <2> HIDE DEF replies
  <2>3. QED BY <2>1, <2>2 DEF If
<1>7. ChatCreated(c) = first \o second \o third BY DEF ChatCreated
<1> HIDE DEF first, second, third, replies
<1>8. first \o second \in Seq(S) /\ Range(first) \cup Range(second) = Range(first \o second)
  BY <1>3, <1>5, Joined, RangeJoined
<1>9. /\ ChatCreated(c) \in Seq(S)
      /\ Range(first \o second) \cup Range(third) = Range(ChatCreated(c))
  <2> DEFINE both == first \o second
  <2>1. both \in Seq(S) /\ ChatCreated(c) = both \o third BY <1>7, <1>8
  <2> HIDE DEF both
  <2>2. ChatCreated(c) \in Seq(S) /\ Range(both) \cup Range(third) = Range(ChatCreated(c))
    BY <1>3, <2>1, Joined, RangeJoined
  <2>3. QED BY <2>2 DEF both
<1>10. QED BY <1>4, <1>6, <1>8, <1>9 DEF S

LEMMA ChatClears ==
  ASSUME NEW c, c.count \in 1..2, NEW x \in Range(ChatCreated(c)) \cup {"lifecycleSpace"}
  PROVE  ClearedBy(ChatCleanup(c), x)
<1> DEFINE names == ChatCreated(c)
           n == Len(names)
           first == [i \in 1..n |-> Deletes(Reverse(names)[i])]
           T == {Deletes(y) : y \in SlotNames}
<1>1. names \in Seq(SlotNames) BY ChatHas
<1> HIDE DEF names
<1>2. /\ n \in Nat /\ Reverse(names) \in Seq(SlotNames) /\ Len(Reverse(names)) = n
      /\ Range(Reverse(names)) = Range(names)
  BY <1>1, Reversed, LenProperties
<1>3. \A i \in 1..n : Reverse(names)[i] \in SlotNames BY <1>2, ElementOfSeq
<1>4. first \in Seq(T) /\ Len(first) = n BY <1>2, <1>3
<1>5. <<Deletes("lifecycleSpace")>> \in Seq(T) /\ Len(<<Deletes("lifecycleSpace")>>) = 1
  BY DEF SlotNames
<1>6. ChatCleanup(c) = first \o <<Deletes("lifecycleSpace")>> BY DEF ChatCleanup, names
<1>7. /\ Len(ChatCleanup(c)) = n + 1
      /\ \A i \in 1..n : ChatCleanup(c)[i] = first[i]
      /\ ChatCleanup(c)[n + 1] = Deletes("lifecycleSpace")
  <2> HIDE DEF first, T
  <2>1. QED BY <1>2, <1>4, <1>5, <1>6, ConcatProperties
<1>8. CASE x = "lifecycleSpace" BY <1>2, <1>7, <1>8, Clearing, SMTT(30) DEF ClearedBy
<1>9. CASE x \in Range(names)
  <2>1. DOMAIN Reverse(names) = 1..n BY <1>2, LenProperties
  <2>2. PICK i \in 1..n : Reverse(names)[i] = x BY <1>2, <1>9, <2>1 DEF Range
  <2>3. ChatCleanup(c)[i] = Deletes(x) BY <1>7, <2>2
  <2>4. i \in 1..Len(ChatCleanup(c)) BY <1>2, <1>7
  <2>5. QED BY <2>3, <2>4, Clearing DEF ClearedBy
<1>10. QED BY <1>8, <1>9 DEF names

LEMMA ChatOrderly ==
  ASSUME NEW c, c.count \in 1..2, NEW theirs, theirs \subseteq Others, NEW given,
         ~Foreign(given, theirs)
  PROVE  Orderly(Program(<<Act(ChatBody(c), ChatCleanup(c))>>, ChatPlan(c), {}, {}), given, theirs)
<1> DEFINE cleanup == ChatCleanup(c)
           U == {Gets(x) : x \in SlotNames} \cup {Patches(x) : x \in SlotNames}
                \cup {Creates("lifecycleSpace", <<"spaces", "create">>),
                      Creates("message", <<"spaces", "messages", "create">>),
                      Creates("threadRoot", <<"spaces", "messages", "create", "threadRoot">>),
                      Creates("existingThreadReply",
                              <<"spaces", "messages", "create", "existingThreadReply">>)}
                \cup {Creates(Replies[i], <<"spaces", "messages", "create", "threadReply">>) :
                        i \in 1..2}
           B == {s \in U : BodyStep(s, cleanup, {}, given, theirs)}
           C == {s \in {Deletes(x) : x \in SlotNames} : CleanupStep(s, given, theirs)}
<1>1. SlotNames \subseteq Names(theirs) BY SlotsAreOwn
<1>2. \A x \in SlotNames : Gets(x) \in B /\ Patches(x) \in B BY <1>1, BodyRead
<1>3. \A x \in SlotNames : Deletes(x) \in C BY <1>1, CleanupDeletion
<1>4. \A x \in Range(ChatCreated(c)) \cup {"lifecycleSpace"} : ClearedBy(cleanup, x)
  BY ChatClears
<1>5. \A x \in SlotNames \ NotMade : \A op :
        ClearedBy(cleanup, x) => BodyStep(Creates(x, op), cleanup, {}, given, theirs)
  BY <1>1, BodyCreation
<1>6. /\ {"none", "space", "lifecycleSpace", "message", "threadRoot", "existingThreadReply"}
           \subseteq SlotNames \ NotMade
      /\ \A i \in 1..2 : Replies[i] \in SlotNames \ NotMade
  BY ReplyPlanned DEF SlotNames, NotMade
<1> HIDE DEF cleanup
<1>7. Creates("lifecycleSpace", <<"spaces", "create">>) \in B BY <1>4, <1>5, <1>6
<1>8. "messages" \in c.flags => Creates("message", <<"spaces", "messages", "create">>) \in B
  BY <1>4, <1>5, <1>6, ChatHas
<1>9. "existingThread" \in c.flags =>
        Creates("existingThreadReply",
                <<"spaces", "messages", "create", "existingThreadReply">>) \in B
  BY <1>4, <1>5, <1>6, ChatHas
<1>10. "threadReplies" \in c.flags =>
         /\ Creates("threadRoot", <<"spaces", "messages", "create", "threadRoot">>) \in B
         /\ \A i \in 1..c.count :
              Creates(Replies[i], <<"spaces", "messages", "create", "threadReply">>) \in B
  <2>1. ASSUME "threadReplies" \in c.flags
        PROVE  Creates("threadRoot", <<"spaces", "messages", "create", "threadRoot">>) \in B
    BY <1>4, <1>5, <1>6, <2>1, ChatHas
  <2>2. ASSUME "threadReplies" \in c.flags, NEW i \in 1..c.count
        PROVE  Creates(Replies[i], <<"spaces", "messages", "create", "threadReply">>) \in B
    <3>1. i \in 1..2 OBVIOUS
    <3>2. ClearedBy(cleanup, Replies[i]) BY <1>4, <2>2, ChatHas
    <3>3. QED BY <1>5, <1>6, <3>1, <3>2
  <2>3. QED BY <2>1, <2>2
<1>11. \A i \in 1..c.count : i \in 1..2 OBVIOUS
<1>12. \A s \in B : BodyStep(s, cleanup, {}, given, theirs) OBVIOUS
<1>13. \A s \in C : CleanupStep(s, given, theirs) OBVIOUS
<1>14. Gets("none") \in B /\ Gets("space") \in B /\ Gets("lifecycleSpace") \in B
       /\ Patches("message") \in B /\ Patches("existingThreadReply") \in B
  BY <1>2, <1>6
<1>15. \A i \in 1..c.count : Patches(Replies[i]) \in B BY <1>2, <1>6, <1>11
<1> HIDE DEF B, C
<1>16. ChatBody(c) \in Seq(B)
  BY <1>7, <1>8, <1>9, <1>10, <1>14, <1>15, ChatBodySteps
<1>17. cleanup \in Seq(C)
  <2>1. ChatCreated(c) \in Seq(SlotNames) BY ChatHas
  <2>2. Deletes("lifecycleSpace") \in C BY <1>3, <1>6
  <2>3. QED BY <1>3, <2>1, <2>2, ChatCleanupSteps DEF cleanup
<1>18. QED BY <1>12, <1>13, <1>16, <1>17, OneOrderlyAct DEF cleanup

(* Removing what is named.                                                 *)
LEMMA NamedDeletions ==
  ASSUME NEW theirs, NEW given, ~Foreign(given, theirs), NEW kept, NEW cleanup,
         NEW names \in Seq(Names(theirs)), NEW B,
         \A x \in Names(theirs) : DeletesNamed(x) \in B
  PROVE  [i \in 1..Len(names) |-> DeletesNamed(names[i])] \in Seq(B)
<1>1. Len(names) \in Nat /\ \A i \in 1..Len(names) : names[i] \in Names(theirs)
  BY LenProperties, ElementOfSeq
<1>2. QED BY <1>1

(* The steps of a body that looks and removes what it is given.            *)
Removals(theirs) ==
  {Gets(x) : x \in Names(theirs)} \cup {DeletesNamed(x) : x \in Names(theirs)}
    \cup {[DeletesNamed(x) EXCEPT !.missingOk = TRUE] : x \in Names(theirs)}

LEMMA RemovalOrderly ==
  ASSUME NEW theirs, NEW given, ~Foreign(given, theirs), NEW plan,
         NEW body \in Seq(Removals(theirs))
  PROVE  Orderly(Program(<<Act(body, <<>>)>>, plan, {}, {}), given, theirs)
<1> DEFINE B == Removals(theirs)
<1>1. ASSUME NEW s \in B
      PROVE  BodyStep(s, <<>>, {}, given, theirs)
  <2> DEFINE none == <<>>
  <2> HIDE DEF none
  <2>1. \A x \in Names(theirs) :
          /\ BodyStep(Gets(x), none, {}, given, theirs)
          /\ BodyStep(DeletesNamed(x), none, {}, given, theirs)
          /\ BodyStep([DeletesNamed(x) EXCEPT !.missingOk = TRUE], none, {}, given, theirs)
    BY BodyRead, BodyDeletion
  <2>2. BodyStep(s, none, {}, given, theirs) BY <2>1 DEF Removals
  <2>3. QED BY <2>2 DEF none
<1>2. body \in Seq(B) OBVIOUS
<1> HIDE DEF B
<1>3. QED BY <1>1, <1>2, OneOrderlyBody

LEMMA ChatCleanupOrderly ==
  ASSUME NEW c, NEW theirs, theirs \subseteq Others, NEW given, ~Foreign(given, theirs),
         c.names \in Seq(Names(theirs))
  PROVE  Orderly(Program(<<Act(ChatCleanupResources(c), <<>>)>>, ChatPlan(c), {}, {}), given, theirs)
<1> DEFINE B == Removals(theirs)
           seqs == [i \in 1..Len(c.names) |->
                      IF c.names[i] = "lifecycleSpace"
                      THEN <<Gets(c.names[i]), DeletesNamed(c.names[i])>>
                      ELSE <<DeletesNamed(c.names[i])>>]
<1>1. "space" \in Names(theirs) BY SlotsAreOwn DEF SlotNames
<1>2. \A x \in Names(theirs) : Gets(x) \in B /\ DeletesNamed(x) \in B BY DEF Removals
<1>3. Len(c.names) \in Nat /\ \A i \in 1..Len(c.names) : c.names[i] \in Names(theirs)
  BY LenProperties, ElementOfSeq
<1> HIDE DEF B
<1>4. \A x \in Names(theirs) :
        <<Gets(x), DeletesNamed(x)>> \in Seq(B) /\ <<DeletesNamed(x)>> \in Seq(B)
  BY <1>2
<1>5. seqs \in Seq(Seq(B)) BY <1>3, <1>4
<1>6. <<Gets("space")>> \in Seq(B) BY <1>1, <1>2
<1>7. ChatCleanupResources(c) = <<Gets("space")>> \o FlattenSeq(seqs) BY DEF ChatCleanupResources
<1> HIDE DEF seqs
<1>8. FlattenSeq(seqs) \in Seq(B) BY <1>5, Flattened
<1>9. ChatCleanupResources(c) \in Seq(B) BY <1>6, <1>7, <1>8, Joined
<1>10. QED BY <1>9, RemovalOrderly DEF B

LEMMA ReactionsOrderly ==
  ASSUME NEW c, NEW theirs, theirs \subseteq Others, NEW given,
         "listOnly" \notin c.flags => ~Foreign(given, theirs)
  PROVE  Orderly(ReactionsProgram(c), given, theirs)
<1> DEFINE lifecycle == "listOnly" \notin c.flags
           both == Request("read", "none", <<>>, {"reaction", "message"})
           create == Creates("message", <<"spaces", "messages", "create">>)
           react == Creates("reaction", <<"spaces", "messages", "reactions", "create">>)
           body == If(lifecycle, <<Gets("space"), create, react>>)
                   \o <<Gets("message"), Gets("message")>>
           cleanup == If(lifecycle, <<Deletes("reaction"), both, Deletes("message")>>)
                      \o <<Check>>
           B == {s \in {Gets("space"), Gets("message"), create, react} :
                   BodyStep(s, cleanup, {}, given, theirs)}
           C == {s \in {Deletes("reaction"), both, Deletes("message"), Check} :
                   CleanupStep(s, given, theirs)}
<1>1. {"none", "space", "message", "reaction"} \subseteq Names(theirs)
  BY SlotsAreOwn DEF SlotNames
<1>2. Gets("space") \in B /\ Gets("message") \in B BY <1>1, BodyRead
<1>3. both \in C BY <1>1, CleanupRead
<1>4. Check \in C BY <1>1, CleanupRead DEF Check, Gets
<1>5. lifecycle => Deletes("reaction") \in C /\ Deletes("message") \in C
  BY <1>1, CleanupDeletion
<1>6. ASSUME lifecycle
      PROVE  ClearedBy(cleanup, "reaction") /\ ClearedBy(cleanup, "message")
  <2> DEFINE d == Deletes("reaction")
             e == Deletes("message")
             k == Check
             b == both
  <2>1. cleanup = <<d, b, e>> \o <<k>> BY <1>6 DEF If
  <2> HIDE DEF d, e, k, b, cleanup
  <2>2. Len(cleanup) = 4 /\ cleanup[1] = d /\ cleanup[3] = e BY <2>1
  <2>3. Clears(d, "reaction") /\ Clears(e, "message") BY Clearing DEF d, e
  <2>4. QED BY <2>2, <2>3 DEF ClearedBy
<1>7. lifecycle => create \in B /\ react \in B
  <2> HIDE DEF cleanup
  <2>1. "message" \notin NotMade /\ "reaction" \notin NotMade BY DEF NotMade
  <2>2. QED BY <1>1, <1>6, <2>1, BodyCreation
<1>8. \A s \in B : BodyStep(s, cleanup, {}, given, theirs) OBVIOUS
<1>9. \A s \in C : CleanupStep(s, given, theirs) OBVIOUS
<1>10. ReactionsProgram(c) = Program(<<Act(body, cleanup)>>, ReactionsPlan(c), {"hides"}, {})
  BY DEF ReactionsProgram
<1> HIDE DEF B, C, both, create, react
<1>11. body \in Seq(B)
  <2>1. lifecycle => <<Gets("space"), create, react>> \in Seq(B) BY <1>2, <1>7
  <2>2. <<Gets("message"), Gets("message")>> \in Seq(B) BY <1>2
  <2>3. QED BY <2>1, <2>2, Chosen, Joined
<1>12. cleanup \in Seq(C)
  <2>1. lifecycle => <<Deletes("reaction"), both, Deletes("message")>> \in Seq(C)
    BY <1>3, <1>5
  <2>2. <<Check>> \in Seq(C) BY <1>4
  <2>3. QED BY <2>1, <2>2, Chosen, Joined
<1> HIDE DEF body, cleanup
<1>13. "hides" \in {"hides"} OBVIOUS
<1>14. Orderly(Program(<<Act(body, cleanup)>>, ReactionsPlan(c), {"hides"}, {}), given, theirs)
  BY <1>8, <1>9, <1>11, <1>12, <1>13, OneOrderlyAct
<1>15. QED BY <1>10, <1>14

(* Removing what the evidence of a run lists.                              *)
LEMMA EvidenceCleanup ==
  ASSUME NEW theirs, theirs \subseteq Others, NEW given, ~Foreign(given, theirs), NEW plan,
         NEW names \in Seq(Names(theirs))
  PROVE  Orderly(Program(<<Act(<<Gets("space")>> \o CleanupFromEvidence(names), <<>>)>>, plan, {}, {}),
                 given, theirs)
<1> DEFINE B == Removals(theirs)
           last == Reverse(names)
<1>1. "space" \in Names(theirs) BY SlotsAreOwn DEF SlotNames
<1>2. Gets("space") \in B /\ \A x \in Names(theirs) : DeletesNamed(x) \in B
  BY <1>1 DEF Removals
<1>3. last \in Seq(Names(theirs)) BY Reversed
<1>4. CleanupFromEvidence(names) = [i \in 1..Len(last) |-> DeletesNamed(last[i])]
  BY DEF CleanupFromEvidence
<1> HIDE DEF B, last
<1>5. CleanupFromEvidence(names) \in Seq(B) BY <1>2, <1>3, <1>4, NamedDeletions
<1>6. <<Gets("space")>> \in Seq(B) BY <1>2
<1>7. <<Gets("space")>> \o CleanupFromEvidence(names) \in Seq(B) BY <1>5, <1>6, Joined
<1>8. QED BY <1>7, RemovalOrderly DEF B

LEMMA CardActionOrderly ==
  ASSUME NEW c, NEW theirs, theirs \subseteq Others, NEW given, ~Foreign(given, theirs),
         NEW names \in Seq(Names(theirs)), NEW found, found \subseteq {"confirmation"}
  PROVE  Orderly(CardActionProgram(c, names, found), given, theirs)
<1> DEFINE P == CardActionPlan(c)
<1>1. {"none", "space", "card", "confirmation"} \subseteq Names(theirs)
  BY SlotsAreOwn DEF SlotNames
<1>2. CASE "cleanupConfirmations" \in c.flags
  <2> DEFINE B == Removals(theirs)
             n == Cardinality(found)
             order == SetToSeq(found)
             look == Gets(IF found = {} THEN "confirmation" ELSE "space")
  <2>1. Gets("space") \in B /\ look \in B /\ DeletesNamed("confirmation") \in B
    BY <1>1 DEF Removals
  <2>2. IsFiniteSet(found)
    <3>1. IsFiniteSet({"confirmation"}) BY FS_Singleton
    <3>2. QED BY <3>1, FS_Subset
  <2>3. n \in Nat /\ \A i \in 1..n : order[i] = "confirmation" BY <2>2, InOrder
  <2>4. CleanupConfirmations(found)
          = <<Gets("space"), look>> \o [i \in 1..n |-> DeletesNamed(order[i])]
    BY DEF CleanupConfirmations
  <2> HIDE DEF B, n, order, look
  <2>5. [i \in 1..n |-> DeletesNamed(order[i])] \in Seq(B) BY <2>1, <2>3
  <2>6. <<Gets("space"), look>> \in Seq(B) BY <2>1
  <2>7. CleanupConfirmations(found) \in Seq(B) BY <2>4, <2>5, <2>6, Joined
  <2>8. CardActionProgram(c, names, found)
          = Program(<<Act(CleanupConfirmations(found), <<>>)>>, P, {}, {})
    BY <1>2 DEF CardActionProgram
  <2>9. QED BY <2>7, <2>8, RemovalOrderly DEF B
<1>3. CASE "cleanupConfirmations" \notin c.flags /\ "cleanupFromEvidence" \in c.flags
  <2>1. CardActionProgram(c, names, found)
          = Program(<<Act(<<Gets("space")>> \o CleanupFromEvidence(names), <<>>)>>, P, {}, {})
    BY <1>3 DEF CardActionProgram
  <2>2. QED BY <2>1, EvidenceCleanup
<1>4. CASE "cleanupConfirmations" \notin c.flags /\ "cleanupFromEvidence" \notin c.flags
  <2> DEFINE create == Creates("card", <<"card-action", "create">>)
             B == {s \in {Gets("space"), create} : BodyStep(s, <<>>, {"card"}, given, theirs)}
             body == <<Gets("space"), create>>
  <2>1. Gets("space") \in B BY <1>1, BodyRead
  <2>2. create \in B
    <3>1. "card" \notin NotMade BY DEF NotMade
    <3>2. QED BY <1>1, <3>1, BodyCreation
  <2>3. \A s \in B : BodyStep(s, <<>>, {"card"}, given, theirs) OBVIOUS
  <2>4. CardActionProgram(c, names, found)
          = Program(<<Act(body, <<>>)>>, P, {"remembers"}, {"card"})
    BY <1>4 DEF CardActionProgram
  <2> HIDE DEF B, create
  <2>5. body \in Seq(B) BY <2>1, <2>2
  <2> HIDE DEF body
  <2>6. QED BY <2>3, <2>4, <2>5, OneOrderlyBody
<1>5. QED BY <1>2, <1>3, <1>4

LEMMA VisualOrderly ==
  ASSUME NEW c, c.count \in Nat, NEW theirs, theirs \subseteq Others, NEW given,
         ~Foreign(given, theirs), NEW names \in Seq(Names(theirs))
  PROVE  Orderly(VisualProgram(c, names), given, theirs)
<1> DEFINE P == VisualPlan(c)
           A == Range(AiCards)
           K == {"text", "card", "richCard", "carouselCard", "threadParent",
                 "threadReply", "placeholder", "stream"} \cup A
           O == {<<"visual", "text", "create">>, <<"visual", "card", "create">>,
                 <<"visual", "richCard", "create">>, <<"visual", "carouselCard", "create">>,
                 <<"visual", "thread", "parent", "create">>,
                 <<"visual", "thread", "reply", "create">>,
                 <<"visual", "placeholder", "create">>, <<"visual", "stream", "create">>}
                \cup {<<"visual", "ai", a, "create">> : a \in A}
           B == {Gets("space")} \cup {Patches(x) : x \in K}
                \cup {Creates(x, op) : x \in K, op \in O}
           body == <<Gets("space")>> \o VisualCreates(c)
<1>1. CASE "cleanupFromEvidence" \in c.flags
  <2>1. VisualProgram(c, names)
          = Program(<<Act(<<Gets("space")>> \o CleanupFromEvidence(names), <<>>)>>, P, {}, {})
    BY <1>1 DEF VisualProgram, VisualCleanup
  <2>2. QED BY <2>1, EvidenceCleanup
<1>2. CASE "cleanupFromEvidence" \notin c.flags
  <2>1. K \subseteq Names(theirs) /\ "space" \in Names(theirs)
    <3>1. A \subseteq SlotNames BY DEF AiCards, Range, SlotNames
    <3>2. QED BY <3>1, SlotsAreOwn DEF SlotNames
  <2>2. \A x \in K : x \notin NotMade
    <3>1. \A x \in A : x \notin NotMade BY DEF AiCards, Range, NotMade
    <3>2. QED BY <3>1 DEF NotMade
  <2> HIDE DEF A
  <2>3. \A x \in K, op \in O : Creates(x, op) \in B
    <3> HIDE DEF K, O
    <3>1. QED OBVIOUS
  <2>4. /\ <<"visual", "text", "create">> \in O /\ <<"visual", "card", "create">> \in O
        /\ <<"visual", "richCard", "create">> \in O
        /\ <<"visual", "carouselCard", "create">> \in O
        /\ <<"visual", "thread", "parent", "create">> \in O
        /\ <<"visual", "thread", "reply", "create">> \in O
        /\ <<"visual", "placeholder", "create">> \in O
        /\ <<"visual", "stream", "create">> \in O
        /\ \A a \in A : <<"visual", "ai", a, "create">> \in O
    OBVIOUS
  <2>5. /\ "text" \in K /\ "card" \in K /\ "richCard" \in K /\ "carouselCard" \in K
        /\ "threadParent" \in K /\ "threadReply" \in K /\ "placeholder" \in K
        /\ "stream" \in K /\ A \subseteq K
    OBVIOUS
  <2>7. Patches("stream") \in B /\ Patches("placeholder") \in B /\ Gets("space") \in B
    OBVIOUS
  <2>8. ASSUME NEW s \in B
        PROVE  BodyStep(s, <<>>, K, given, theirs)
    <3> DEFINE none == <<>>
    <3> HIDE DEF none, K, O
    <3>1. BodyStep(Gets("space"), none, K, given, theirs) BY <2>1, BodyRead
    <3>2. \A x \in K : BodyStep(Patches(x), none, K, given, theirs) BY <2>1, BodyRead
    <3>3. ASSUME NEW x \in K, NEW op \in O
          PROVE  BodyStep(Creates(x, op), none, K, given, theirs)
      <4>1. x \in Names(theirs) /\ x \notin NotMade /\ x \in K BY <2>1, <2>2
      <4> HIDE DEF B, body, P
      <4>2. x \in K \/ ClearedBy(none, x) BY <4>1
      <4>3. QED BY <4>1, <4>2, BodyCreation
    <3>4. BodyStep(s, none, K, given, theirs) BY <3>1, <3>2, <3>3
    <3>5. QED BY <3>4 DEF none
  <2> HIDE DEF B, K, O
  <2>9. VisualCreates(c) \in Seq(B)
    <3>1. /\ Creates("text", <<"visual", "text", "create">>) \in B
          /\ Creates("card", <<"visual", "card", "create">>) \in B
          /\ Creates("richCard", <<"visual", "richCard", "create">>) \in B
          /\ Creates("carouselCard", <<"visual", "carouselCard", "create">>) \in B
      BY <2>3, <2>4, <2>5
    <3>2. /\ Creates("threadParent", <<"visual", "thread", "parent", "create">>) \in B
          /\ Creates("threadReply", <<"visual", "thread", "reply", "create">>) \in B
          /\ Creates("stream", <<"visual", "stream", "create">>) \in B
          /\ Creates("placeholder", <<"visual", "placeholder", "create">>) \in B
      BY <2>3, <2>4, <2>5
    <3>3. \A a \in A : Creates(a, <<"visual", "ai", a, "create">>) \in B
      BY <2>3, <2>4, <2>5
    <3>4. QED BY <2>7, <3>1, <3>2, <3>3, VisualSteps DEF A
  <2>10. body \in Seq(B)
    <3>1. <<Gets("space")>> \in Seq(B) BY <2>7
    <3>2. QED BY <2>9, <3>1, Joined
  <2>11. VisualProgram(c, names) = Program(<<Act(body, <<>>)>>, P, {"remembers"}, K)
    BY <1>2 DEF VisualProgram, A, K
  <2> HIDE DEF body
  <2>12. QED BY <2>8, <2>10, <2>11, OneOrderlyBody
<1>3. QED BY <1>1, <1>2

LEMMA UploadedMediaOrderly ==
  ASSUME NEW theirs, theirs \subseteq Others, NEW given, ~Foreign(given, theirs)
  PROVE  Orderly(UploadedMediaProgram, given, theirs)
<1> DEFINE K == {"attachment", "message"}
           upload == Creates("attachment", <<"media", "upload">>)
           create == Creates("message", <<"spaces", "messages", "create">>)
           B == {s \in {upload, create, Gets("message"), Check, Gets("attachment")} :
                   BodyStep(s, <<>>, K, given, theirs)}
           body == <<upload, create, Gets("message"), Check, Gets("attachment"), Check>>
<1>1. {"none", "attachment", "message"} \subseteq Names(theirs) BY SlotsAreOwn DEF SlotNames
<1>2. Gets("message") \in B /\ Gets("attachment") \in B /\ Check \in B
  BY <1>1, BodyRead DEF Check
<1>3. upload \in B /\ create \in B
  <2>1. "attachment" \notin NotMade /\ "message" \notin NotMade BY DEF NotMade
  <2>2. QED BY <1>1, <2>1, BodyCreation
<1>4. \A s \in B : BodyStep(s, <<>>, K, given, theirs) OBVIOUS
<1>5. UploadedMediaProgram = Program(<<Act(body, <<>>)>>, UploadedMediaPlan, {"hides"}, K)
  BY DEF UploadedMediaProgram
<1> HIDE DEF B, upload, create
<1>6. body \in Seq(B) BY <1>2, <1>3
<1> HIDE DEF body, K
<1>7. QED BY <1>4, <1>5, <1>6, OneOrderlyBody

LEMMA DriveOrderly ==
  ASSUME NEW c, NEW theirs, theirs \subseteq Others, NEW given,
         "synthetic" \in c.flags => ~Foreign(given, theirs)
  PROVE  Orderly(DriveProgram(c), given, theirs)
<1> DEFINE synthetic == "synthetic" \in c.flags
           away == synthetic /\ "cleanupFile" \in c.flags
           K == IF away THEN {} ELSE {"file"}
           create == Creates("file", <<"drive", "files", "create", "synthetic">>)
           cleanup == If(away, <<Deletes("file")>>)
           body == If(synthetic, <<create>>) \o <<Gets("file"), Check, Gets("file"), Check>>
           B == {s \in {create, Gets("file"), Check} : BodyStep(s, cleanup, K, given, theirs)}
           C == {s \in {Deletes("file")} : CleanupStep(s, given, theirs)}
<1>1. {"none", "file"} \subseteq Names(theirs) BY SlotsAreOwn DEF SlotNames
<1>2. Gets("file") \in B /\ Check \in B BY <1>1, BodyRead DEF Check
<1>3. away => Deletes("file") \in C BY <1>1, CleanupDeletion
<1>4. "file" \in K \/ ClearedBy(cleanup, "file")
  <2>1. CASE ~away BY <2>1
  <2>2. CASE away
    <3> DEFINE d == Deletes("file")
    <3>1. cleanup = <<d>> BY <2>2 DEF If
    <3>2. Clears(d, "file") BY Clearing
    <3> HIDE DEF d, cleanup
    <3>3. Len(cleanup) = 1 /\ cleanup[1] = d BY <3>1
    <3>4. QED BY <3>2, <3>3 DEF ClearedBy
  <2>3. QED BY <2>1, <2>2
<1>5. \A s \in B : BodyStep(s, cleanup, K, given, theirs) OBVIOUS
<1>6. \A s \in C : CleanupStep(s, given, theirs) OBVIOUS
<1>7. create \in B
  <2>1. "file" \notin NotMade BY DEF NotMade
  <2> HIDE DEF cleanup, K
  <2>2. QED BY <1>1, <1>4, <2>1, BodyCreation
<1>8. DriveProgram(c) = Program(<<Act(body, cleanup)>>, DrivePlan(c), {"hides"}, K)
  BY DEF DriveProgram
<1> HIDE DEF B, C, create
<1>9. body \in Seq(B)
  <2>1. <<Gets("file"), Check, Gets("file"), Check>> \in Seq(B) BY <1>2
  <2>2. QED BY <1>7, <2>1, ChosenOne, Joined
<1>10. cleanup \in Seq(C) BY <1>3, ChosenOne
<1> HIDE DEF body, cleanup, K
<1>11. "hides" \in {"hides"} OBVIOUS
<1>12. QED BY <1>5, <1>6, <1>8, <1>9, <1>10, <1>11, OneOrderlyAct

LEMMA SubscriptionOrderly ==
  ASSUME NEW c, c.count \in Nat, NEW theirs, theirs \subseteq Others, NEW given,
         ~Foreign(given, theirs), "subscription" \notin DOMAIN given
  PROVE  Orderly(SubscriptionProgram(c), given, theirs)
<1> DEFINE S == {"topic", "pullSubscription", "subscription", "message"}
           traits == {"hides", "swallows"} \cup Also("allowBlocked" \in c.flags, {"lenient"})
           topic == Creates("topic", <<"pubsub", "topics", "create">>)
           pull == Creates("pullSubscription", <<"pubsub", "subscriptions", "create">>)
           asked == [Creates("subscription", <<"workspaceEvents", "subscriptions", "create">>)
                       EXCEPT !.learns = {}]
           message == Creates("message", <<"chat", "messages", "create">>)
           cleanup == SubscriptionCleanup
           B == {s \in {topic, pull, asked, message, Patches("topic"), Check,
                        WaitForSubscription, Gets("pullSubscription")} :
                   BodyStep(s, cleanup, {}, given, theirs)}
           C == {s \in {Deletes(x) : x \in S} : CleanupStep(s, given, theirs)}
<1>1. S \cup {"none"} \subseteq Names(theirs) BY SlotsAreOwn DEF SlotNames
<1>2. \A x \in S : x \notin NotMade BY DEF NotMade
<1>3. \A x \in S : ClearedBy(cleanup, x)
  <2> DEFINE d == Deletes("message")
             e == Deletes("subscription")
             f == Deletes("pullSubscription")
             g == Deletes("topic")
  <2>1. cleanup = <<d, e, f, g>> BY DEF SubscriptionCleanup
  <2>2. /\ Clears(d, "message") /\ Clears(e, "subscription")
        /\ Clears(f, "pullSubscription") /\ Clears(g, "topic")
    BY Clearing
  <2> HIDE DEF d, e, f, g, cleanup
  <2>3. Len(cleanup) = 4 /\ cleanup[1] = d /\ cleanup[2] = e /\ cleanup[3] = f /\ cleanup[4] = g
    BY <2>1
  <2>4. QED BY <2>2, <2>3 DEF ClearedBy
<1>4. \A x \in S : Deletes(x) \in C BY <1>1, CleanupDeletion
<1> HIDE DEF cleanup
<1>5. \A x \in S : \A op : BodyStep(Creates(x, op), cleanup, {}, given, theirs)
  BY <1>1, <1>2, <1>3, BodyCreation
<1>6. topic \in B /\ pull \in B /\ message \in B BY <1>5
<1>7. Patches("topic") \in B /\ Check \in B /\ Gets("pullSubscription") \in B
  BY <1>1, BodyRead DEF Check
<1>8. WaitForSubscription \in B
  <2> DEFINE w == WaitForSubscription
  <2>1. w.does = "read" /\ w.on = "subscription" /\ w.learns = {"subscription"}
    BY DEF WaitForSubscription, Gets, Request
  <2> HIDE DEF w
  <2>2. BodyStep(w, cleanup, {}, given, theirs)
    BY <1>1, <1>3, <2>1 DEF BodyStep, Makes, Removes
  <2>3. QED BY <2>2 DEF w
<1>9. asked \in B
  <2> DEFINE r == Creates("subscription", <<"workspaceEvents", "subscriptions", "create">>)
             w == [r EXCEPT !.learns = {}]
  <2>1. w.does = "create" /\ w.on = "subscription" /\ w.learns = {}
    BY DEF Creates, Request
  <2> HIDE DEF w
  <2>2. BodyStep(w, cleanup, {}, given, theirs)
    BY <1>1, <1>2, <1>3, <2>1 DEF BodyStep, Makes, Removes
  <2>3. QED BY <2>2 DEF w
<1>10. \A s \in B : BodyStep(s, cleanup, {}, given, theirs) OBVIOUS
<1>11. \A s \in C : CleanupStep(s, given, theirs) OBVIOUS
<1>12. SubscriptionProgram(c)
         = Program(<<Act(SubscriptionBody(c), cleanup)>>, SubscriptionPlan, traits, {})
  BY DEF SubscriptionProgram, cleanup
<1>13. "hides" \in traits OBVIOUS
<1> HIDE DEF B, C, traits
<1>14. SubscriptionBody(c) \in Seq(B)
  <2> DEFINE pulls == [i \in 1..c.count |-> Gets("pullSubscription")]
  <2>1. <<topic, pull, Patches("topic"), Check>> \in Seq(B) BY <1>6, <1>7
  <2>2. <<asked, WaitForSubscription, message>> \in Seq(B) BY <1>6, <1>8, <1>9
  <2>3. pulls \in Seq(B)
    <3> DEFINE look == Gets("pullSubscription")
    <3>1. c.count \in Nat /\ look \in B BY <1>7
    <3> HIDE DEF look
    <3>2. [i \in 1..c.count |-> look] \in Seq(B) BY <3>1
    <3>3. QED BY <3>2 DEF look
  <2>4. <<Check>> \in Seq(B) BY <1>7
  <2> HIDE DEF pulls, topic, pull, asked, message
  <2>5. <<asked, WaitForSubscription, message>> \o pulls \o <<Check>> \in Seq(B)
    BY <2>2, <2>3, <2>4, Joined
  <2>6. SubscriptionBody(c)
          = <<topic, pull, Patches("topic"), Check>>
            \o If("validateOnly" \notin c.flags,
                  <<asked, WaitForSubscription, message>> \o pulls \o <<Check>>)
    BY DEF SubscriptionBody, pulls, topic, pull, asked, message
  <2>7. QED BY <2>1, <2>5, <2>6, Chosen, Joined
<1>15. cleanup \in Seq(C)
  <2>1. /\ Deletes("message") \in C /\ Deletes("subscription") \in C
        /\ Deletes("pullSubscription") \in C /\ Deletes("topic") \in C
    BY <1>4
  <2>2. QED BY <2>1 DEF cleanup, SubscriptionCleanup
<1>16. QED BY <1>10, <1>11, <1>12, <1>13, <1>14, <1>15, OneOrderlyAct

(* An act among several.                                                   *)
LEMMA ActAmong ==
  ASSUME NEW steps, NEW kept, NEW given, NEW theirs,
         NEW B, B \subseteq steps, NEW C, C \subseteq steps,
         NEW body \in Seq(B), NEW cleanup \in Seq(C),
         \A s \in B : BodyStep(s, cleanup, kept, given, theirs),
         \A s \in C : CleanupStep(s, given, theirs)
  PROVE  Act(body, cleanup) \in OrderlyActs(steps, kept, given, theirs)
<1>1. body \in Seq(steps) /\ cleanup \in Seq(steps) OBVIOUS
<1>2. QED BY <1>1, StepsOf, ActOrderly

(* An act that only reads or marks.                                        *)
LEMMA ReadingAct ==
  ASSUME NEW steps, NEW given, NEW theirs, NEW body \in Seq(steps),
         \A s \in steps : s \in {Gets("none"), Patches("space")},
         {"none", "space"} \subseteq Names(theirs), NEW more
  PROVE  Act(body, <<>>) \in OrderlyActs(steps \cup more, {}, given, theirs)
<1> DEFINE none == <<>>
           all == steps \cup more
<1>1. none \in Seq({}) OBVIOUS
<1>2. steps \subseteq all OBVIOUS
<1> HIDE DEF none, all
<1>3. \A s \in steps : BodyStep(s, none, {}, given, theirs) BY BodyRead
<1>4. Act(body, none) \in OrderlyActs(all, {}, given, theirs)
  BY <1>1, <1>2, <1>3, ActAmong
<1>5. QED BY <1>4 DEF none, all

LEMMA SectionsOrderly ==
  ASSUME NEW c, NEW theirs, theirs \subseteq Others, NEW given, ~Foreign(given, theirs)
  PROVE  Orderly(SectionsProgram(c), given, theirs)
<1> DEFINE mutates == "mutations" \in c.flags
           create == Creates("section", <<"sections", "create", "temporary">>)
           body == <<Gets("space"), create, Patches("section"), Patches("section"),
                     Displace("placement")>>
           cleanup == <<Restore("placement", "placementRestored"), Verify("placementRestored"),
                        Deletes("section")>>
           R == {Gets("none")}
           B == {s \in {Gets("space"), create, Patches("section"), Displace("placement")} :
                   BodyStep(s, cleanup, {}, given, theirs)}
           C == {s \in {Restore("placement", "placementRestored"), Verify("placementRestored"),
                        Deletes("section")} : CleanupStep(s, given, theirs)}
           steps == R \cup (B \cup C)
           S == OrderlyActs(steps, {}, given, theirs)
           A == Act(<<Gets("none")>>, <<>>)
           acts == <<A, A>> \o If(mutates, <<SectionMutations>>)
           traits == {"hides", "goesOn"} \cup Also("allowBlocked" \in c.flags, {"lenient"})
<1>1. {"none", "space", "section", "placement", "placementRestored"} \subseteq Names(theirs)
  BY SlotsAreOwn DEF SlotNames
<1>2. "section" \notin NotMade /\ "placement" \notin NotMade /\ "placementRestored" \in NotMade
  BY DEF NotMade
<1>3. ClearedBy(cleanup, "section") /\ ClearedBy(cleanup, "placement")
  <2> DEFINE d == Restore("placement", "placementRestored")
             e == Verify("placementRestored")
             f == Deletes("section")
             all == <<d, e, f>>
  <2>1. Clears(d, "placement") /\ Clears(f, "section") BY Clearing
  <2> HIDE DEF d, e, f
  <2>2. Len(all) = 3 /\ all[1] = d /\ all[3] = f OBVIOUS
  <2> HIDE DEF all
  <2>3. ClearedBy(all, "section") /\ ClearedBy(all, "placement") BY <2>1, <2>2 DEF ClearedBy
  <2>4. QED BY <2>3 DEF all, d, e, f
<1>4. /\ Restore("placement", "placementRestored") \in C /\ Deletes("section") \in C
      /\ Verify("placementRestored") \in C
  BY <1>1, <1>2, CleanupDeletion, CleanupRead DEF Verify
<1>5. cleanup \in Seq(C) /\ \A s \in C : CleanupStep(s, given, theirs)
  <2>1. \A s \in C : CleanupStep(s, given, theirs) OBVIOUS
  <2> HIDE DEF C
  <2>2. QED BY <1>4, <2>1
<1> HIDE DEF cleanup
<1>6. \A s \in B : BodyStep(s, cleanup, {}, given, theirs) OBVIOUS
<1>7. Gets("space") \in B /\ Patches("section") \in B BY <1>1, BodyRead
<1>8. create \in B /\ Displace("placement") \in B BY <1>1, <1>2, <1>3, BodyCreation
<1> HIDE DEF B, C, create
<1>9. body \in Seq(B) BY <1>7, <1>8
<1>10. SectionMutations = Act(body, cleanup) BY DEF SectionMutations, cleanup, create
<1> HIDE DEF body
<1>11. SectionMutations \in S
  <2>1. B \subseteq steps /\ C \subseteq steps OBVIOUS
  <2> HIDE DEF steps
  <2>2. QED BY <1>5, <1>6, <1>9, <1>10, <2>1, ActAmong
<1>12. A \in S
  <2> DEFINE none == Gets("none")
             more == B \cup C
  <2>1. <<none>> \in Seq({none}) /\ \A s \in {none} : s \in {none, Patches("space")} OBVIOUS
  <2> HIDE DEF more
  <2>2. Act(<<none>>, <<>>) \in OrderlyActs({none} \cup more, {}, given, theirs)
    BY <1>1, <2>1, ReadingAct
  <2>3. QED BY <2>2 DEF more
<1> HIDE DEF S, A
<1>13. acts \in Seq(S) /\ acts # <<>>
  <2>1. <<A, A>> \in Seq(S) /\ Len(<<A, A>>) = 2 BY <1>12
  <2>2. If(mutates, <<SectionMutations>>) \in Seq(S) BY <1>11, ChosenOne
  <2>3. acts \in Seq(S) BY <2>1, <2>2, Joined
  <2>4. Len(acts) = 2 + Len(If(mutates, <<SectionMutations>>)) BY <2>1, <2>2, ConcatProperties
  <2>5. Len(If(mutates, <<SectionMutations>>)) \in Nat BY <2>2, LenProperties
  <2>6. acts # <<>> BY <2>4, <2>5
  <2>7. QED BY <2>3, <2>6
<1>14. SectionsProgram(c) = Program(acts, SectionsPlan(c), traits, {}) BY DEF SectionsProgram, A
<1>15. "hides" \in traits OBVIOUS
<1> HIDE DEF acts, traits
<1>16. QED BY <1>13, <1>14, <1>15, SeveralOrderlyActs DEF S

LEMMA UserStateOrderly ==
  ASSUME NEW c, c.count \in Nat, c.count >= 1, NEW theirs, theirs \subseteq Others, NEW given,
         ~Foreign(given, theirs)
  PROVE  Orderly(UserStateProgram(c), given, theirs)
<1> DEFINE moves == "notification" \in c.flags
           marks == "readState" \in c.flags
           body == <<Gets("none"), Displace("notification")>>
           cleanup == <<Restore("notification", "notificationRestored"),
                        Verify("notificationRestored")>>
           B == {s \in {Gets("none"), Displace("notification")} :
                   BodyStep(s, cleanup, {}, given, theirs)}
           C == {s \in {Restore("notification", "notificationRestored"),
                        Verify("notificationRestored")} : CleanupStep(s, given, theirs)}
           R == {Gets("none"), Patches("space")}
           more == B \cup C
           steps == R \cup more
           S == OrderlyActs(steps, {}, given, theirs)
           A == Act(<<Gets("none")>>, <<>>)
           reads == [i \in 1..c.count |-> A]
           moved == If(moves, <<NotificationPatch>>)
           marked == If(marks, <<ReadStateUpdate>>)
           acts == reads \o moved \o marked
           traits == {"hides", "goesOn"} \cup Also("allowBlocked" \in c.flags, {"lenient"})
<1>1. {"none", "space", "notification", "notificationRestored"} \subseteq Names(theirs)
  BY SlotsAreOwn DEF SlotNames
<1>2. "notification" \notin NotMade /\ "notificationRestored" \in NotMade BY DEF NotMade
<1>3. ClearedBy(cleanup, "notification")
  <2> DEFINE d == Restore("notification", "notificationRestored")
             e == Verify("notificationRestored")
             all == <<d, e>>
  <2>1. Clears(d, "notification") BY Clearing
  <2> HIDE DEF d, e
  <2>2. Len(all) = 2 /\ all[1] = d OBVIOUS
  <2> HIDE DEF all
  <2>3. ClearedBy(all, "notification") BY <2>1, <2>2 DEF ClearedBy
  <2>4. QED BY <2>3 DEF all, d, e
<1>4. Restore("notification", "notificationRestored") \in C /\ Verify("notificationRestored") \in C
  BY <1>1, <1>2, CleanupDeletion, CleanupRead DEF Verify
<1>5. cleanup \in Seq(C) /\ \A s \in C : CleanupStep(s, given, theirs)
  <2>1. \A s \in C : CleanupStep(s, given, theirs) OBVIOUS
  <2> HIDE DEF C
  <2>2. QED BY <1>4, <2>1
<1> HIDE DEF cleanup
<1>6. \A s \in B : BodyStep(s, cleanup, {}, given, theirs) OBVIOUS
<1>7. Gets("none") \in B /\ Displace("notification") \in B
  BY <1>1, <1>2, <1>3, BodyRead, BodyCreation
<1>8. Gets("none") \in R /\ Patches("space") \in R
      /\ \A s \in R : s \in {Gets("none"), Patches("space")}
  OBVIOUS
<1> HIDE DEF B, C, R
<1>9. body \in Seq(B) BY <1>7
<1>10. NotificationPatch = Act(body, cleanup) BY DEF NotificationPatch, cleanup
<1> HIDE DEF body
<1>11. NotificationPatch \in S
  <2>1. B \subseteq steps /\ C \subseteq steps OBVIOUS
  <2> HIDE DEF steps
  <2>2. QED BY <1>5, <1>6, <1>9, <1>10, <2>1, ActAmong
<1> HIDE DEF more
<1>12. A \in S
  <2>1. <<Gets("none")>> \in Seq(R) BY <1>8
  <2>2. QED BY <1>1, <1>8, <2>1, ReadingAct
<1>13. ReadStateUpdate \in S
  <2>1. <<Gets("none"), Patches("space"), Gets("none")>> \in Seq(R) BY <1>8
  <2>2. QED BY <1>1, <1>8, <2>1, ReadingAct DEF ReadStateUpdate
<1> HIDE DEF S, A
<1>14. reads \in Seq(S) /\ Len(reads) = c.count BY <1>12
<1>15. moved \in Seq(S) /\ marked \in Seq(S) BY <1>11, <1>13, ChosenOne
<1> HIDE DEF reads, moved, marked
<1>16. acts \in Seq(S) /\ acts # <<>>
  <2>1. reads \o moved \in Seq(S) /\ Len(reads \o moved) = Len(reads) + Len(moved)
    BY <1>14, <1>15, ConcatProperties
  <2>2. acts \in Seq(S) /\ Len(acts) = Len(reads \o moved) + Len(marked)
    BY <2>1, <1>15, ConcatProperties
  <2>3. Len(moved) \in Nat /\ Len(marked) \in Nat BY <1>15, LenProperties
  <2>4. acts # <<>> BY <1>14, <2>1, <2>2, <2>3
  <2>5. QED BY <2>2, <2>4
<1>17. UserStateProgram(c) = Program(acts, UserStatePlan(c), traits, {})
  BY DEF UserStateProgram, A, reads, moved, marked
<1>18. "hides" \in traits OBVIOUS
<1> HIDE DEF acts, traits
<1>19. QED BY <1>16, <1>17, <1>18, SeveralOrderlyActs DEF S

LEMMA SweepOrderly ==
  ASSUME NEW theirs, theirs \subseteq Others, NEW given, ~Foreign(given, theirs),
         NEW names \in Seq(Names(theirs))
  PROVE  Orderly(Sweep(names), given, theirs)
<1> DEFINE B == Removals(theirs)
           gone(x) == [DeletesNamed(x) EXCEPT !.missingOk = TRUE]
           removals == [i \in 1..Len(names) |-> [DeletesNamed(names[i]) EXCEPT !.missingOk = TRUE]]
           body == <<Gets("space")>> \o removals
<1>1. "space" \in Names(theirs) BY SlotsAreOwn DEF SlotNames
<1>2. Gets("space") \in B /\ \A x \in Names(theirs) : gone(x) \in B BY <1>1 DEF Removals
<1>3. Len(names) \in Nat /\ \A i \in 1..Len(names) : names[i] \in Names(theirs)
  BY LenProperties, ElementOfSeq
<1>4. \A i \in 1..Len(names) : removals[i] = gone(names[i]) OBVIOUS
<1>5. removals = [i \in 1..Len(names) |-> gone(names[i])] OBVIOUS
<1> HIDE DEF B, gone
<1>6. removals \in Seq(B)
  <2> HIDE DEF removals
  <2>1. QED BY <1>2, <1>3, <1>5
<1>7. <<Gets("space")>> \in Seq(B) BY <1>2
<1>8. Sweep(names) = Program(<<Act(body, <<>>)>>, {}, {}, {}) BY DEF Sweep
<1> HIDE DEF removals
<1>9. body \in Seq(B) BY <1>6, <1>7, Joined
<1> HIDE DEF body
<1>10. QED BY <1>8, <1>9, RemovalOrderly DEF B

(* The elements of a sequence that are in a set.                           *)
LEMMA ThoseIs ==
  ASSUME NEW S, NEW s \in Seq(S), NEW T
  PROVE  Those(s, T) \in Seq(S \cap T)
<1> DEFINE n == Len(s)
           X == Seq(S \cap T)
           More(m, i) == IF s[i] \in T THEN Append(m, s[i]) ELSE m
           IsThose(f) == f = [i \in 0..n |->
                                IF i = 0 THEN <<>>
                                ELSE IF s[i] \in T THEN Append(f[i - 1], s[i]) ELSE f[i - 1]]
           those == CHOOSE f : IsThose(f)
           F == [i \in 1..n |-> [m \in X |-> More(m, i)]]
<1>1. n \in Nat /\ \A i \in 1..n : s[i] \in S BY LenProperties, ElementOfSeq
<1>2. ASSUME NEW i \in 1..n, NEW m \in X
      PROVE  More(m, i) \in X
  <2>1. s[i] \in T => s[i] \in S \cap T BY <1>1
  <2>2. QED BY <2>1, AppendProperties
<1>3. \A m, i : More(m, i) = IF s[i] \in T THEN Append(m, s[i]) ELSE m OBVIOUS
<1> HIDE DEF More
<1>4. F \in [1..n -> [X -> X]] /\ \A i \in 1..n, m \in X : F[i][m] = More(m, i) BY <1>2
<1>5. <<>> \in X OBVIOUS
<1> HIDE DEF F, X
<1>6. IsThose(those)
  <2>1. PICK g \in [0..n -> X] : LeadsOn(g, <<>>, n, F) BY <1>1, <1>4, <1>5, Iterated
  <2>2. \A i \in 1..n : i - 1 \in 0..n BY <1>1
  <2>3. \A i \in 1..n : g[i] = More(g[i - 1], i) BY <1>4, <2>1, <2>2 DEF LeadsOn
  <2>4. \A i \in 0..n : g[i] = IF i = 0 THEN <<>> ELSE More(g[i - 1], i)
    <3>1. \A i \in 0..n : i # 0 => i \in 1..n BY <1>1
    <3>2. QED BY <2>1, <2>3, <3>1 DEF LeadsOn
  <2>5. IsThose(g) BY <1>3, <2>1, <2>4
  <2>6. QED BY <2>5
<1>7. Those(s, T) = those[n] BY DEF Those, those
<1> HIDE DEF those
<1>8. those[0] = <<>> /\ \A i \in 1..n : those[i] = More(those[i - 1], i)
  <2>1. \A i \in 0..n : those[i] = IF i = 0 THEN <<>> ELSE More(those[i - 1], i)
    BY <1>3, <1>6
  <2>2. 0 \in 0..n /\ \A i \in 1..n : i \in 0..n /\ i # 0 BY <1>1
  <2>3. QED BY <2>1, <2>2
<1> DEFINE Q == {i \in 0..n : those[i] \in X}
<1>9. 0 \in Q BY <1>1, <1>5, <1>8
<1>10. \A i \in 1..n : i - 1 \in Q => i \in Q BY <1>1, <1>2, <1>8
<1> HIDE DEF Q
<1>11. 0..n \subseteq Q BY <1>1, <1>9, <1>10, UpTo
<1>12. n \in Q BY <1>1, <1>11
<1>13. those[n] \in X BY <1>12 DEF Q
<1>14. QED BY <1>7, <1>13 DEF X

LEMMA ThoseOf ==
  ASSUME NEW S, NEW s \in Seq(S), NEW T
  PROVE  Those(s, T) \in Seq(S)
<1>1. Those(s, T) \in Seq(S \cap T) BY ThoseIs
<1>2. QED BY <1>1

LEMMA CreatedInIs ==
  ASSUME NEW theirs, NEW file, Evidence(file, theirs)
  PROVE  CreatedIn(file) \in Seq(Names(theirs))
<1> DEFINE N == Names(theirs)
           T == {o \in Range(file.operations) : o.ok /\ NamesACreation(o.op) /\ o.named}
           created == Those(file.operations, T)
           all == file.listed \o [i \in 1..Len(created) |-> created[i].name]
<1>1. PICK M : file.operations \in Seq(M) /\ \A o \in M : o.named => o.name \in N
  BY DEF Evidence, Discreet
<1>2. \A o \in T : o.named OBVIOUS
<1> HIDE DEF T
<1>3. created \in Seq(M \cap T) BY <1>1, ThoseIs
<1>4. \A o \in M \cap T : o.name \in N BY <1>1, <1>2
<1> HIDE DEF created, N
<1>5. Len(created) \in Nat /\ \A i \in 1..Len(created) : created[i] \in M \cap T
  BY <1>3, LenProperties, ElementOfSeq
<1>6. [i \in 1..Len(created) |-> created[i].name] \in Seq(N) BY <1>4, <1>5
<1>7. file.listed \in Seq(N) BY DEF Evidence, N
<1>8. all \in Seq(N) BY <1>6, <1>7, Joined
<1>9. CreatedIn(file) = Messages(all) BY DEF CreatedIn, created, T
<1> HIDE DEF all
<1>10. Messages(all) \in Seq(N) BY <1>8, ThoseOf DEF Messages
<1>11. QED BY <1>9, <1>10 DEF N

LEMMA OnceIs ==
  ASSUME NEW S, NEW names \in Seq(S)
  PROVE  Once(names) \in Seq(S)
<1> DEFINE n == Len(names)
           all == [i \in 1..n |-> i]
           T == {i \in 1..n : \A j \in 1..(i - 1) : names[j] # names[i]}
           firsts == Those(all, T)
<1>1. n \in Nat /\ \A i \in 1..n : names[i] \in S BY LenProperties, ElementOfSeq
<1>2. all \in Seq(1..n) BY <1>1
<1>3. Once(names) = [k \in 1..Len(firsts) |-> names[firsts[k]]] BY DEF Once
<1> HIDE DEF all, T
<1>4. firsts \in Seq(1..n) BY <1>2, ThoseOf
<1> HIDE DEF firsts
<1>5. Len(firsts) \in Nat /\ \A k \in 1..Len(firsts) : firsts[k] \in 1..n
  BY <1>4, LenProperties, ElementOfSeq
<1>6. QED BY <1>1, <1>3, <1>5

LEMMA ArchiveHas ==
  ASSUME NEW theirs, Archive(files, theirs)
  PROVE  /\ Mentioned \in Seq(Names(theirs))
         /\ ListedBefore \in Seq(Names(theirs))
<1> DEFINE N == Names(theirs)
           n == Len(files)
           each == [i \in 1..n |-> CreatedIn(files[i])]
<1>1. PICK F : files \in Seq(F) /\ \A f \in F : Evidence(f, theirs) BY DEF Archive
<1>2. n \in Nat /\ \A i \in 1..n : files[i] \in F BY <1>1, LenProperties, ElementOfSeq
<1>3. \A i \in 1..n : Evidence(files[i], theirs) BY <1>1, <1>2
<1>4. \A i \in 1..n : CreatedIn(files[i]) \in Seq(N) BY <1>3, CreatedInIs
<1> HIDE DEF N
<1>5. each \in Seq(Seq(N)) BY <1>2, <1>4
<1>6. Mentioned = Once(FlattenSeq(each)) BY DEF Mentioned
<1> HIDE DEF each
<1>7. FlattenSeq(each) \in Seq(N) BY <1>5, Flattened
<1>8. Mentioned \in Seq(N) BY <1>6, <1>7, OnceIs
<1>9. ListedBefore \in Seq(N)
  <2>1. CASE files = <<>> BY <2>1 DEF ListedBefore
  <2>2. CASE files # <<>>
    <3>1. n # 0 BY <1>1, <2>2, EmptySeq
    <3>2. 1 \in 1..n BY <1>2, <3>1
    <3>3. files[1].listed \in Seq(N) BY <1>3, <3>2 DEF Evidence, N
    <3>4. QED BY <2>2, <3>3 DEF ListedBefore
  <2>3. QED BY <2>1, <2>2
<1>10. QED BY <1>8, <1>9 DEF N

(* What a sweep removes is what some file says was created.                *)
LEMMA CandidatesIs ==
  ASSUME NEW S, Mentioned \in Seq(S), NEW old \in 0..Len(Mentioned)
  PROVE  Candidates(old) \in Seq(S)
<1> DEFINE m == Mentioned
           mentioned == SubSeq(m, 1, old)
           deleted == UNION {DeletedIn(f) : f \in Range(files)}
           stale == Those(mentioned, Range(mentioned) \ deleted)
           k == IF Len(stale) < SweepLimit THEN Len(stale) ELSE SweepLimit
<1>1. Len(m) \in Nat /\ \A i \in 1..Len(m) : m[i] \in S BY LenProperties, ElementOfSeq
<1>2. mentioned \in Seq(S)
  <2>1. old \in Nat /\ \A i \in 1..old : m[i] \in S BY <1>1
  <2> HIDE DEF m
  <2>2. 1 \in Int /\ old \in Int BY <2>1
  <2>3. QED BY <2>1, <2>2, SubSeqProperties
<1>3. Candidates(old) = SubSeq(stale, 1, k) BY DEF Candidates
<1> HIDE DEF mentioned, deleted
<1>4. stale \in Seq(S) BY <1>2, ThoseOf
<1> HIDE DEF stale
<1>5. Len(stale) \in Nat /\ \A i \in 1..Len(stale) : stale[i] \in S
  BY <1>4, LenProperties, ElementOfSeq
<1>6. k \in Int /\ 1 \in Int /\ \A i \in 1..k : stale[i] \in S BY <1>5, SmokeAssumption
<1> HIDE DEF k
<1>7. SubSeq(stale, 1, k) \in Seq(S) BY <1>6, SubSeqProperties
<1>8. QED BY <1>3, <1>7

(* No command names something of theirs to be removed; a command that only *)
(* looks at what it is given may.                                          *)
OwnNames(theirs) ==
  \A c \in SmokeCommands \cup SmokeFollowUps :
    c.script = "chat" \/ (c.script = "reactions" /\ "listOnly" \notin c.flags) =>
      Range(c.names) \cap theirs = {}

LEMMA NamesGiven ==
  ASSUME NEW c \in SmokeCommands \cup SmokeFollowUps
  PROVE  /\ c.names \in Seq(Slots) /\ c.names \in Seq(Range(c.names))
         /\ c.names # <<>> => Head(c.names) \in Range(c.names)
         /\ Range(c.names) \subseteq Slots
<1>1. c.names \in Seq(STRING) BY SmokeAssumption
<1>2. Len(c.names) \in Nat /\ DOMAIN c.names = 1..Len(c.names) BY <1>1, LenProperties
<1>3. Range(c.names) \subseteq Slots BY DEF Slots
<1>4. \A i \in 1..Len(c.names) : c.names[i] \in Range(c.names) BY <1>2 DEF Range
<1>5. c.names \in Seq(Range(c.names)) BY <1>1, <1>2, <1>4
<1>6. c.names # <<>> => 1 \in 1..Len(c.names) BY <1>1, <1>2, EmptySeq
<1>7. QED BY <1>3, <1>4, <1>5, <1>6

LEMMA KnownBefore ==
  ASSUME NEW c \in SmokeCommands \cup SmokeFollowUps, NEW theirs, OwnNames(theirs)
  PROVE  LET given == KnownAtFirst(c) IN
         /\ \A x \in DOMAIN given : given[x] \in Slots
         /\ "subscription" \notin DOMAIN given
         /\ Foreign(given, theirs) =>
              \/ c.script = "reactions" /\ "listOnly" \in c.flags
              \/ c.script = "driveExport" /\ "synthetic" \notin c.flags
<1> DEFINE given == KnownAtFirst(c)
           h == Head(c.names)
<1>1. c.names # <<>> => h \in Range(c.names) /\ h \in Slots BY NamesGiven
<1>2. \/ DOMAIN given = {}
      \/ c.names # <<>> /\ c.script = "reactions" /\ given = [s \in {"message"} |-> h]
      \/ /\ c.names # <<>> /\ c.script = "driveExport" /\ "synthetic" \notin c.flags
         /\ given = [s \in {"file"} |-> h]
  BY DEF KnownAtFirst
<1> HIDE DEF given, h
<1>3. \A x \in DOMAIN given : c.names # <<>> /\ given[x] = h BY <1>2
<1>4. "subscription" \notin DOMAIN given BY <1>2
<1>5. c.script = "reactions" /\ "listOnly" \notin c.flags /\ c.names # <<>> => h \notin theirs
  BY <1>1 DEF OwnNames
<1>6. Foreign(given, theirs) =>
        \/ c.script = "reactions" /\ "listOnly" \in c.flags
        \/ c.script = "driveExport" /\ "synthetic" \notin c.flags
  BY <1>2, <1>3, <1>5 DEF Foreign
<1>7. QED BY <1>1, <1>3, <1>4, <1>6 DEF given

LEMMA CommandOrderly ==
  ASSUME NEW c \in SmokeCommands \cup SmokeFollowUps, NEW theirs, theirs \subseteq Others,
         OwnNames(theirs), Archive(files, theirs), NEW p \in ProgramsOf(c)
  PROVE  Orderly(p, KnownAtFirst(c), theirs)
<1> DEFINE given == KnownAtFirst(c)
<1>1. c.count \in Nat /\ Allowed(c) BY SmokeAssumption
<1>2. Foreign(given, theirs) =>
        \/ c.script = "reactions" /\ "listOnly" \in c.flags
        \/ c.script = "driveExport" /\ "synthetic" \notin c.flags
  BY KnownBefore
<1>3. "subscription" \notin DOMAIN given BY KnownBefore
<1>4. Mentioned \in Seq(Names(theirs)) /\ ListedBefore \in Seq(Names(theirs)) BY ArchiveHas
<1> HIDE DEF given
<1>5. CASE c.script = "chat"
  <2>1. ChatConfig(c) /\ p = ChatProgram(c) BY <1>1, <1>5 DEF Allowed, ProgramsOf
  <2>2. ~Foreign(given, theirs) BY <1>2, <1>5
  <2>3. CASE c.names # <<>>
    <3>1. c.names \in Seq(Range(c.names)) /\ Range(c.names) \subseteq Names(theirs)
      BY <1>5, NamesGiven DEF OwnNames, Names
    <3>2. c.names \in Seq(Names(theirs)) BY <3>1
    <3>3. p = Program(<<Act(ChatCleanupResources(c), <<>>)>>, ChatPlan(c), {}, {})
      BY <2>1, <2>3 DEF ChatProgram
    <3>4. QED BY <2>2, <3>2, <3>3, ChatCleanupOrderly DEF given
  <2>4. CASE c.names = <<>>
    <3>1. p = Program(<<Act(ChatBody(c), ChatCleanup(c))>>, ChatPlan(c), {}, {})
      BY <2>1, <2>4 DEF ChatProgram
    <3>2. c.count \in 1..2 BY <2>1 DEF ChatConfig, Replies
    <3>3. QED BY <2>2, <3>1, <3>2, ChatOrderly DEF given
  <2>5. QED BY <2>3, <2>4
<1>6. CASE c.script = "reactions"
  <2>1. p = ReactionsProgram(c) BY <1>6 DEF ProgramsOf
  <2>2. QED BY <1>2, <1>6, <2>1, ReactionsOrderly DEF given
<1>7. CASE c.script = "cardAction"
  <2>1. p = CardActionProgram(c, ListedBefore, {"confirmation"} \cap exists)
    BY <1>7 DEF ProgramsOf
  <2>2. ~Foreign(given, theirs) BY <1>2, <1>7
  <2>3. QED BY <1>4, <2>1, <2>2, CardActionOrderly DEF given
<1>8. CASE c.script = "visual"
  <2>1. p = VisualProgram(c, ListedBefore) BY <1>8 DEF ProgramsOf
  <2>2. ~Foreign(given, theirs) BY <1>2, <1>8
  <2>3. QED BY <1>1, <1>4, <2>1, <2>2, VisualOrderly DEF given
<1>9. CASE c.script = "uploadedMedia"
  <2>1. p = UploadedMediaProgram BY <1>9 DEF ProgramsOf
  <2>2. ~Foreign(given, theirs) BY <1>2, <1>9
  <2>3. QED BY <2>1, <2>2, UploadedMediaOrderly DEF given
<1>10. CASE c.script = "driveExport"
  <2>1. p = DriveProgram(c) BY <1>10 DEF ProgramsOf
  <2>2. "synthetic" \in c.flags => ~Foreign(given, theirs) BY <1>2, <1>10
  <2>3. QED BY <2>1, <2>2, DriveOrderly DEF given
<1>11. CASE c.script = "subscription"
  <2>1. p = SubscriptionProgram(c) BY <1>11 DEF ProgramsOf
  <2>2. ~Foreign(given, theirs) BY <1>2, <1>11
  <2>3. QED BY <1>1, <1>3, <2>1, <2>2, SubscriptionOrderly DEF given
<1>12. CASE c.script = "sections"
  <2>1. p = SectionsProgram(c) BY <1>12 DEF ProgramsOf
  <2>2. ~Foreign(given, theirs) BY <1>2, <1>12
  <2>3. QED BY <2>1, <2>2, SectionsOrderly DEF given
<1>13. CASE c.script = "userState"
  <2>1. UserStateConfig(c) /\ p = UserStateProgram(c) BY <1>1, <1>13 DEF Allowed, ProgramsOf
  <2>2. ~Foreign(given, theirs) BY <1>2, <1>13
  <2>3. QED BY <1>1, <2>1, <2>2, UserStateOrderly DEF given, UserStateConfig
<1>14. CASE c.script = "sweep"
  <2>1. PICK old \in 0..Len(Mentioned) : p = Sweep(Candidates(old)) BY <1>14 DEF ProgramsOf
  <2>2. ~Foreign(given, theirs) BY <1>2, <1>14
  <2>3. Candidates(old) \in Seq(Names(theirs)) BY <1>4, CandidatesIs
  <2>4. QED BY <2>1, <2>2, <2>3, SweepOrderly DEF given
<1>15. QED
  BY <1>1, <1>5, <1>6, <1>7, <1>8, <1>9, <1>10, <1>11, <1>12, <1>13, <1>14 DEF Allowed

(* A run that begins.                                                      *)
LEMMA FreshOrderlyRun ==
  ASSUME NEW theirs, NEW c \in SmokeCommands \cup SmokeFollowUps, OwnNames(theirs),
         NEW p, Orderly(p, KnownAtFirst(c), theirs)
  PROVE  /\ 1 \in 1..Len(p.acts)
         /\ \A x \in DOMAIN KnownAtFirst(c) : KnownAtFirst(c)[x] \in Slots
<1>1. PICK steps : p.acts \in Seq(OrderlyActs(steps, p.kept, KnownAtFirst(c), theirs))
  BY DEF Orderly
<1> DEFINE A == OrderlyActs(steps, p.kept, KnownAtFirst(c), theirs)
<1>2. p.acts \in Seq(A) /\ p.acts # <<>> BY <1>1 DEF Orderly
<1> HIDE DEF A
<1>3. 1 \in 1..Len(p.acts) BY <1>2, EmptySeq, LenProperties
<1>4. QED BY <1>3, KnownBefore

LEMMA RunInvInit ==
  ASSUME NEW theirs, theirs \subseteq Others, OwnNames(theirs), SmokeInitFrom(SmokeCommands)
  PROVE  RunInv(theirs)
<1> DEFINE none == <<>>
<1>1. /\ command \in SmokeCommands /\ program \in ProgramsOf(command)
      /\ known = Given /\ act = 1 /\ next = 1 /\ phase = "body" /\ failed = FALSE
      /\ operations = none /\ listed = none /\ files = none /\ exists = Others
  BY DEF SmokeInitFrom, Given
<1>2. none \in Seq({}) /\ none \in Seq(Names(theirs)) /\ Range(none) = {} BY DEF Range
<1> HIDE DEF none
<1>3. Archive(files, theirs) /\ Discreet(operations, theirs) BY <1>1, <1>2 DEF Archive, Discreet
<1>4. Orderly(program, Given, theirs) BY <1>1, <1>3, CommandOrderly DEF Given
<1>5. 1 \in 1..Len(program.acts) /\ \A x \in DOMAIN Given : Given[x] \in Slots
  BY <1>1, <1>4, FreshOrderlyRun DEF Given
<1>6. RunShape(theirs)
  <2>1. phase \in {"body", "cleanup", "ended", "stopped"} /\ failed \in BOOLEAN BY <1>1
  <2>2. act \in 1..Len(program.acts) BY <1>1, <1>5
  <2>3. next \in Nat \ {0} BY <1>1
  <2>4. listed \in Seq(Names(theirs)) BY <1>1, <1>2
  <2>5. QED BY <1>3, <1>4, <2>1, <2>2, <2>3, <2>4 DEF RunShape
<1>7. KnownNames(theirs) BY <1>1, <1>5 DEF KnownNames
<1>8. \A x : ~Created(x) BY <1>1, <1>2 DEF Created
<1>9. CreatedKnown /\ LeftAccounted BY <1>8 DEF CreatedKnown, LeftAccounted
<1>10. Reported BY <1>1 DEF Reported
<1>11. QED BY <1>1, <1>6, <1>7, <1>9, <1>10 DEF RunInv

LEMMA FollowUpInv ==
  ASSUME NEW theirs, theirs \subseteq Others, OwnNames(theirs), RunInv(theirs),
         NEW c \in SmokeFollowUps, FollowUp(c)
  PROVE  RunInv(theirs)'
<1> DEFINE none == <<>>
<1>1. /\ command' = c /\ program' \in ProgramsOf(c)
      /\ known' = KnownAtFirst(c) /\ act' = 1 /\ next' = 1 /\ phase' = "body" /\ failed' = FALSE
      /\ operations' = none /\ listed' = none /\ UNCHANGED <<files, exists>>
  BY DEF FollowUp
<1>2. none \in Seq({}) /\ none \in Seq(Names(theirs)) /\ Range(none) = {} BY DEF Range
<1> HIDE DEF none
<1>3. Archive(files, theirs) BY DEF RunInv, RunShape
<1>4. Orderly(program', KnownAtFirst(c), theirs) BY <1>1, <1>3, CommandOrderly
<1>5. /\ 1 \in 1..Len(program'.acts)
      /\ \A x \in DOMAIN KnownAtFirst(c) : KnownAtFirst(c)[x] \in Slots
  BY <1>4, FreshOrderlyRun
<1>6. Discreet(operations', theirs) BY <1>1, <1>2 DEF Discreet
<1>7. Given' = KnownAtFirst(c) BY <1>1 DEF Given
<1>8. RunShape(theirs)'
  <2>1. phase' \in {"body", "cleanup", "ended", "stopped"} /\ failed' \in BOOLEAN BY <1>1
  <2>2. act' \in 1..Len(program'.acts) BY <1>1, <1>5
  <2>3. next' \in Nat \ {0} BY <1>1
  <2>4. listed' \in Seq(Names(theirs)) BY <1>1, <1>2
  <2>5. Archive(files, theirs)' BY <1>1, <1>3 DEF Archive
  <2>6. Discreet(operations, theirs)' BY <1>6 DEF Discreet
  <2>7. Orderly(program, Given, theirs)' BY <1>4, <1>7
  <2>8. QED BY <2>1, <2>2, <2>3, <2>4, <2>5, <2>6, <2>7 DEF RunShape
<1>9. KnownNames(theirs)' BY <1>1, <1>5, <1>7 DEF KnownNames
<1>10. \A x : ~Created(x)' BY <1>1, <1>2 DEF Created
<1>11. CreatedKnown' /\ LeftAccounted' BY <1>10 DEF CreatedKnown, LeftAccounted
<1>12. Reported' BY <1>1 DEF Reported
<1>13. QED BY <1>1, <1>8, <1>9, <1>11, <1>12 DEF RunInv

LEMMA RunInvStep ==
  ASSUME NEW theirs, theirs \subseteq Others, OwnNames(theirs), RunInv(theirs),
         [SmokeNext]_smokeVars
  PROVE  RunInv(theirs)'
<1>1. CASE \E s \in (IF UnderWay THEN Range(Steps) ELSE {}) :
             Current(s) /\ (Succeed(s) \/ Refuse(s) \/ LoseAnswer(s))
  <2>1. PICK s : Current(s) /\ (Succeed(s) \/ Refuse(s) \/ LoseAnswer(s)) BY <1>1
  <2>2. CASE Succeed(s) BY <2>1, <2>2, SucceedInv
  <2>3. CASE Refuse(s) BY <2>1, <2>3, FailInv DEF Refuse
  <2>4. CASE LoseAnswer(s) BY <2>1, <2>4, FailInv DEF LoseAnswer
  <2>5. QED BY <2>1, <2>2, <2>3, <2>4
<1>2. CASE PassOver BY <1>2, PassOverInv
<1>3. CASE EndBody BY <1>3, EndBodyInv
<1>4. CASE NextAct BY <1>4, NextActInv
<1>5. CASE Report BY <1>5, ReportInv
<1>6. CASE Stop BY <1>6, StopInv
<1>7. CASE SubmitDialog BY <1>7, SubmitDialogInv
<1>8. ASSUME NEW c \in SmokeFollowUps, FollowUp(c)
      PROVE  RunInv(theirs)'
  BY <1>8, FollowUpInv
<1>9. CASE UNCHANGED smokeVars
  <2>1. UNCHANGED <<command, program, phase, act, next, known, failed, operations, listed,
                    files, exists>>
    BY <1>9 DEF smokeVars
  <2>2. \A x : Owed(x)' <=> Owed(x) BY <2>1 DEF Owed, ClearedBy, Clears, Removes
  <2>3. LeftAccounted' BY <2>1, <2>2, SameNotes DEF RunInv, LeftAccounted, Accounted
  <2>4. Reported' BY <2>1 DEF RunInv, Reported, Has
  <2>5. QED BY <2>1, <2>3, <2>4, Standstill DEF RunInv, RunShape
<1>10. QED BY <1>1, <1>2, <1>3, <1>4, <1>5, <1>6, <1>7, <1>8, <1>9 DEF SmokeNext

(* The things of others stay, whatever is refused, lost or interrupted and *)
(* whatever evidence a later command is given, as long as no command names *)
(* them to a script that removes what it is told of.                       *)
THEOREM OthersStay == OwnNames(Others) => (SmokeSpec => []DeletesOnlyItsOwn)
<1> SUFFICES ASSUME OwnNames(Others)
             PROVE  SmokeSpec => []DeletesOnlyItsOwn
  OBVIOUS
<1>1. SmokeInitFrom(SmokeCommands) => RunInv(Others) BY RunInvInit
<1>2. RunInv(Others) /\ [SmokeNext]_smokeVars => RunInv(Others)' BY RunInvStep
<1>3. RunInv(Others) => DeletesOnlyItsOwn BY DEF RunInv, DeletesOnlyItsOwn
<1>4. QED BY <1>1, <1>2, <1>3, PTL DEF SmokeSpec

(* What a reported run has left it meant to leave, and lists, or it noted  *)
(* the removal that failed and does not claim that all is well.            *)
THEOREM LeftoversKept == SmokeSpec => []LeftoversAccounted
<1>1. OwnNames({}) BY DEF OwnNames
<1>2. SmokeInitFrom(SmokeCommands) => RunInv({}) BY <1>1, RunInvInit
<1>3. RunInv({}) /\ [SmokeNext]_smokeVars => RunInv({})' BY <1>1, RunInvStep
<1>4. RunInv({}) => LeftoversAccounted
  <2>1. SUFFICES ASSUME RunInv({}), phase = "ended", NEW slot \in DOMAIN known,
                        Created(slot), known[slot] \in exists
                 PROVE  \/ /\ slot \in program.kept
                           /\ Has("remembers") => known[slot] \in Range(listed)
                        \/ /\ FailedToRemove(known[slot])
                           /\ Last(files).ok => Has("swallows") \/ Has("lenient")
    BY DEF LeftoversAccounted
  <2>2. known[slot] = slot /\ (Has("remembers") => slot \in Range(listed))
    BY <2>1 DEF RunInv, CreatedKnown
  <2>3. ~Owed(slot) BY <2>1 DEF Owed
  <2>4. slot \in program.kept \/ Lost(slot) BY <2>1, <2>2, <2>3 DEF RunInv, LeftAccounted, Accounted
  <2>5. Last(files).ok => ~failed \/ Has("lenient") BY <2>1 DEF RunInv, Reported
  <2>6. QED BY <2>2, <2>4, <2>5 DEF Lost
<1>5. QED BY <1>2, <1>3, <1>4, PTL DEF SmokeSpec
=============================================================================
