------------------------- MODULE StoreAndCacheProofs -------------------------
(***************************************************************************)
(* Proofs about FirestoreStore, for any processes, any number of attempts  *)
(* and any ttl.  A write is conditional on the updateTime of a document    *)
(* read earlier; it is safe because a document that still has that         *)
(* updateTime is the one that was read (VersionInv), and what the call     *)
(* concluded from the one it read therefore still holds (CallInv).         *)
(*                                                                         *)
(* Then about ArtifactCache, for any calls, keys, bytes, lifetimes and     *)
(* faults.  A get holds no lock and reads two files one after the other;   *)
(* what it returns is right because a blob is named by its bytes and is on *)
(* disk before any metadata name it (BlobInv), because a call that runs    *)
(* has seen every entry of its key (SeenInv), and because the entry of a   *)
(* put stays under the lock until put has read it back (PutInv).           *)
(*                                                                         *)
(* Then about IdentityCache, for any users, aliases and syncs: a map has   *)
(* an entry under the id of everybody who was put, a listing of it has a   *)
(* record of them, and who holds the lock has read them all (SyncInv).     *)
(***************************************************************************)
EXTENDS FirestoreStore, ArtifactCache, IdentityCache, SequenceInduction,
        FiniteSetTheorems, TLAPS

VersionInv ==
  /\ \A d \in document :
       d.updateTime <= updates /\ d.seenCount = deliveries /\ d.seenCount >= 1
  /\ \A c \in Claimers : \A e \in existing[c] :
       /\ e.updateTime <= updates /\ e.seenCount >= 1
       /\ \A d \in document : d.updateTime = e.updateTime => d = e
       /\ \A f \in existing[c] : f = e

CallInv ==
  \A c \in Claimers :
    /\ nowMs[c] <= clock
    /\ pc[c] \in {"delete", "update"} => existing[c] # {}
    /\ pc[c] = "delete" => \A e \in existing[c] : e.expires <= nowMs[c]
    /\ pc[c] = "update" => \A e \in existing[c] : e.expires > nowMs[c]

IInv == TypeOK /\ VersionInv /\ CallInv

(* Initially there is no document, and no call.                            *)
LEMMA InitInv == Init => IInv
BY FirestoreAssumption
   DEF Init, IInv, TypeOK, VersionInv, CallInv, PCs, Answers, Document

(* After a conflict the call starts over, or is answered "conflict".       *)
LEMMA RetryEffect ==
  ASSUME TypeOK, NEW c \in Claimers, RetryAfterConflict(c)
  PROVE  /\ pc' \in [Claimers -> PCs]
         /\ attempt' \in [Claimers -> 0..(MaxCasAttempts - 1)]
         /\ result' \in [Claimers -> [answer : Answers, seenCount : Nat]]
         /\ pc'[c] \in {"create", "idle"}
         /\ \A d \in Claimers : d # c => pc'[d] = pc[d]
         /\ \A d \in Claimers : result'[d] = result[d] \/ result'[d].answer = "conflict"
         /\ pc'[c] = "idle" => result'[c].answer = "conflict"
         /\ \A d \in Claimers : d # c => result'[d] = result[d]
<1>1. CASE attempt[c] + 1 < MaxCasAttempts
  <2>1. /\ attempt' = [attempt EXCEPT ![c] = @ + 1] /\ pc' = [pc EXCEPT ![c] = "create"]
        /\ result' = result
    BY <1>1 DEF RetryAfterConflict, Goto
  <2>2. attempt[c] + 1 \in 0..(MaxCasAttempts - 1)
    BY <1>1, FirestoreAssumption DEF TypeOK
  <2>3. QED BY <2>1, <2>2 DEF TypeOK, PCs
<1>2. CASE ~(attempt[c] + 1 < MaxCasAttempts)
  <2>1. /\ attempt' = attempt /\ pc' = [pc EXCEPT ![c] = "idle"]
        /\ result' = [result EXCEPT ![c] = [answer |-> "conflict", seenCount |-> 0]]
    BY <1>2 DEF RetryAfterConflict, Return, Goto
  <2>2. QED BY <2>1 DEF TypeOK, PCs, Answers
<1>3. QED BY <1>1, <1>2

(* A call that returns is idle, and its answer is the one it is given.     *)
LEMMA ReturnEffect ==
  ASSUME TypeOK, NEW c \in Claimers, NEW a \in Answers, NEW n \in Nat, Return(c, a, n)
  PROVE  /\ pc' \in [Claimers -> PCs]
         /\ attempt' \in [Claimers -> 0..(MaxCasAttempts - 1)]
         /\ result' \in [Claimers -> [answer : Answers, seenCount : Nat]]
         /\ pc'[c] = "idle"
         /\ \A d \in Claimers : d # c => pc'[d] = pc[d] /\ result'[d] = result[d]
         /\ result'[c].answer = a /\ result'[c].seenCount = n
BY DEF Return, Goto, TypeOK, PCs, Answers

(* A refused request ends the call with an error, and changes nothing.     *)
LEMMA RefusedInv ==
  ASSUME IInv, NEW c \in Claimers, Refused(c), UNCHANGED <<clock, nowMs, existing, calls>>
  PROVE  IInv'
<1>1. Return(c, "error", 0) /\ UNCHANGED <<document, updates, deliveries>> /\ faults' \in Nat
  BY FirestoreAssumption DEF Refused, Faulty, IInv, TypeOK
<1>2. "error" \in Answers /\ TypeOK /\ 0 \in Nat BY DEF Answers, IInv
<1> HIDE DEF Return
<1>3. /\ pc' \in [Claimers -> PCs] /\ attempt' \in [Claimers -> 0..(MaxCasAttempts - 1)]
      /\ result' \in [Claimers -> [answer : Answers, seenCount : Nat]]
      /\ pc'[c] = "idle" /\ result'[c].answer = "error"
      /\ \A d \in Claimers : d # c => pc'[d] = pc[d] /\ result'[d] = result[d]
  BY <1>1, <1>2, ReturnEffect
<1>4. TypeOK' BY <1>1, <1>3 DEF IInv, TypeOK
<1>5. VersionInv' BY <1>1, <1>3 DEF IInv, VersionInv
<1>6. CallInv' BY <1>3 DEF IInv, CallInv
<1>7. QED BY <1>4, <1>5, <1>6 DEF IInv

(* A new call has read nothing yet, and takes the time.                    *)
LEMMA ClaimInv ==
  ASSUME IInv, NEW c \in Claimers, Claim(c)
  PROVE  IInv'
<1>1. TypeOK' BY FirestoreAssumption DEF IInv, TypeOK, Claim, Goto, PCs, Answers
<1>2. VersionInv' BY DEF IInv, TypeOK, VersionInv, Claim
<1>3. CallInv' BY DEF IInv, TypeOK, CallInv, Claim, Goto
<1>4. QED BY <1>1, <1>2, <1>3 DEF IInv

(* A document that is created has an updateTime nobody has read.           *)
LEMMA StoredInv ==
  ASSUME IInv, NEW c \in Claimers, Stored(c), document = {}, NEW a \in {"claimed", "error"},
         NEW n \in Nat, Return(c, a, n), faults' \in Nat,
         UNCHANGED <<clock, nowMs, existing, calls>>
  PROVE  IInv'
<1>1. a \in Answers /\ TypeOK BY DEF Answers, IInv
<1>2. /\ document' \in SUBSET Document /\ updates' = updates + 1 /\ deliveries' = 1
      /\ \A d \in document' : d.updateTime = updates + 1 /\ d.seenCount = 1
      /\ \A d, e \in document' : d = e
      /\ updates \in Nat
  BY FirestoreAssumption DEF IInv, TypeOK, Stored, Document
<1>3. \A d \in Claimers : \A e \in existing[d] : e.updateTime \in Nat
  BY DEF IInv, TypeOK, Document
<1> HIDE DEF Return
<1>4. TypeOK' BY <1>1, <1>2, ReturnEffect DEF TypeOK
<1>5. VersionInv' BY <1>2, <1>3 DEF IInv, VersionInv
<1>6. CallInv' BY <1>1, ReturnEffect DEF IInv, CallInv
<1>7. QED BY <1>4, <1>5, <1>6 DEF IInv

LEMMA CreateInv ==
  ASSUME IInv, NEW c \in Claimers, Create(c)
  PROVE  IInv'
<1>1. CASE document = {} /\ Stored(c) /\ Return(c, "claimed", 1) /\ UNCHANGED faults
  BY <1>1, StoredInv DEF Create, IInv, TypeOK
<1>2. CASE document = {} /\ Stored(c) /\ Faulty /\ Return(c, "error", 0)
  <2>1. faults' \in Nat BY <1>2 DEF Faulty, IInv, TypeOK
  <2>2. QED BY <1>2, <2>1, StoredInv DEF Create
<1>3. CASE /\ document # {} /\ Goto(c, "read")
           /\ UNCHANGED <<document, updates, deliveries, result, attempt, faults>>
  BY <1>3 DEF Create, Goto, IInv, TypeOK, VersionInv, CallInv, PCs
<1>4. CASE Refused(c) BY <1>4, RefusedInv DEF Create
<1>5. QED BY <1>1, <1>2, <1>3, <1>4 DEF Create

(* What is read is the document of this moment, and what the call goes on  *)
(* to do depends on whether it has expired.                                *)
LEMMA ReadInv ==
  ASSUME IInv, NEW c \in Claimers, Read(c)
  PROVE  IInv'
<1>1. /\ existing' = [existing EXCEPT ![c] = document] /\ pc[c] = "read"
      /\ UNCHANGED <<clock, nowMs, calls, document, updates, deliveries>>
  BY DEF Read, Refused
<1>2. VersionInv' BY <1>1 DEF VersionInv, IInv, TypeOK
<1>3. existing' \in [Claimers -> SUBSET Document] BY <1>1 DEF IInv, TypeOK
<1>4. CASE document = {} /\ RetryAfterConflict(c) /\ UNCHANGED faults
  <2> HIDE DEF RetryAfterConflict
  <2>1. TypeOK' BY <1>1, <1>3, <1>4, RetryEffect DEF IInv, TypeOK
  <2>2. CallInv' BY <1>1, <1>4, RetryEffect DEF IInv, CallInv, TypeOK
  <2>3. QED BY <1>2, <2>1, <2>2 DEF IInv
<1>5. ASSUME NEW found \in document, found.expires <= nowMs[c], Goto(c, "delete"),
             UNCHANGED <<result, attempt, faults>>
      PROVE  IInv'
  <2>1. TypeOK' BY <1>1, <1>3, <1>5 DEF IInv, TypeOK, Goto, PCs
  <2>2. \A e \in document : e = found BY DEF IInv, TypeOK
  <2>3. CallInv' BY <1>1, <1>5, <2>2 DEF IInv, CallInv, TypeOK, Goto
  <2>4. QED BY <1>2, <2>1, <2>3 DEF IInv
<1>6. ASSUME NEW found \in document, ~(found.expires <= nowMs[c]), Goto(c, "update"),
             UNCHANGED <<result, attempt, faults>>
      PROVE  IInv'
  <2>1. TypeOK' BY <1>1, <1>3, <1>6 DEF IInv, TypeOK, Goto, PCs
  <2>2. \A e \in document : e = found BY DEF IInv, TypeOK
  <2>3. found.expires \in Nat /\ nowMs[c] \in Nat BY DEF IInv, TypeOK, Document
  <2>4. CallInv' BY <1>1, <1>6, <2>2, <2>3 DEF IInv, CallInv, TypeOK, Goto
  <2>5. QED BY <1>2, <2>1, <2>4 DEF IInv
<1>7. ASSUME NEW found \in document, c \notin Recording,
             Return(c, "duplicate", found.seenCount), UNCHANGED faults
      PROVE  IInv'
  <2>1. found.seenCount \in Nat /\ "duplicate" \in Answers /\ TypeOK
    BY DEF IInv, TypeOK, Document, Answers
  <2> HIDE DEF Return
  <2>2. TypeOK' BY <1>1, <1>3, <1>7, <2>1, ReturnEffect DEF TypeOK
  <2>3. CallInv' BY <1>1, <1>7, <2>1, ReturnEffect DEF IInv, CallInv, TypeOK
  <2>4. QED BY <1>2, <2>2, <2>3 DEF IInv
<1>8. CASE Refused(c)
  <2>1. Return(c, "error", 0) /\ faults' \in Nat /\ "error" \in Answers /\ TypeOK
    BY <1>8 DEF Refused, Faulty, IInv, TypeOK, Answers
  <2> HIDE DEF Return
  <2>2. TypeOK' BY <1>1, <1>3, <2>1, ReturnEffect DEF TypeOK
  <2>3. CallInv' BY <1>1, <2>1, ReturnEffect DEF IInv, CallInv, TypeOK
  <2>4. QED BY <1>2, <2>2, <2>3 DEF IInv
<1>9. QED BY <1>4, <1>5, <1>6, <1>7, <1>8 DEF Read

LEMMA DeleteInv ==
  ASSUME IInv, NEW c \in Claimers, Delete(c)
  PROVE  IInv'
<1>1. CASE Refused(c) BY <1>1, RefusedInv DEF Delete
<1>2. CASE ~Refused(c)
  <2>1. /\ document' \subseteq document
        /\ UNCHANGED <<clock, nowMs, existing, calls, updates, deliveries>>
        /\ faults' \in Nat
    BY <1>2 DEF Delete, Faulty, IInv, TypeOK
  <2>2. VersionInv' BY <2>1 DEF IInv, VersionInv
  <2>3. RetryAfterConflict(c) \/ Return(c, "error", 0) BY <1>2 DEF Delete
  <2>4. TypeOK /\ "error" \in Answers BY DEF IInv, Answers
  <2> HIDE DEF RetryAfterConflict, Return
  <2>5. TypeOK' BY <2>1, <2>3, <2>4, RetryEffect, ReturnEffect DEF TypeOK
  <2>6. CallInv' BY <2>1, <2>3, <2>4, RetryEffect, ReturnEffect DEF IInv, CallInv, TypeOK
  <2>7. QED BY <2>2, <2>5, <2>6 DEF IInv
<1>3. QED BY <1>1, <1>2

(* The document counted on is the one that was read.                       *)
LEMMA CountedEffect ==
  ASSUME IInv, NEW c \in Claimers, Unchanged(c), Counted(c)
  PROVE  \E d \in document :
           /\ document = {d} /\ existing[c] = {d} /\ d.seenCount = deliveries
           /\ document' = {[d EXCEPT !.seenCount = @ + 1, !.updateTime = updates + 1]}
           /\ [d EXCEPT !.seenCount = @ + 1, !.updateTime = updates + 1] \in Document
           /\ updates' = updates + 1 /\ deliveries' = deliveries + 1
<1>1. PICK d \in document, e \in existing[c] : d.updateTime = e.updateTime
  BY DEF Unchanged
<1>2. d = e /\ existing[c] = {d} /\ document = {d} /\ d.seenCount = deliveries
  BY <1>1 DEF IInv, VersionInv, TypeOK
<1>3. d \in Document BY DEF IInv, TypeOK
<1>4. updates \in Nat BY DEF IInv, TypeOK
<1>5. [d EXCEPT !.seenCount = @ + 1, !.updateTime = updates + 1] \in Document
  <2>1. d.seenCount + 1 \in Nat /\ updates + 1 \in Nat BY <1>3, <1>4 DEF Document
  <2>2. QED BY <1>3, <2>1 DEF Document
<1>6. /\ document' = {[d EXCEPT !.seenCount = @ + 1, !.updateTime = updates + 1]}
      /\ updates' = updates + 1 /\ deliveries' = deliveries + 1
  <2> DEFINE Plus(x) == [x EXCEPT !.seenCount = @ + 1, !.updateTime = updates + 1]
  <2>1. document' = {Plus(x) : x \in {d}} BY <1>2 DEF Counted
  <2> HIDE DEF Plus
  <2>2. {Plus(x) : x \in {d}} = {Plus(d)} OBVIOUS
  <2>3. document' = {Plus(d)} BY <2>1, <2>2
  <2>4. QED BY <2>3 DEF Plus, Counted
<1>7. QED BY <1>2, <1>5, <1>6

LEMMA CountedInv ==
  ASSUME IInv, NEW c \in Claimers, Unchanged(c), Counted(c), pc[c] = "update",
         NEW a \in {"duplicate", "error"}, NEW n \in Nat,
         Return(c, a, n), faults' \in Nat, UNCHANGED <<clock, nowMs, existing, calls>>
  PROVE  IInv'
<1>1. PICK d \in document :
        /\ document = {d} /\ existing[c] = {d} /\ d.seenCount = deliveries
        /\ document' = {[d EXCEPT !.seenCount = @ + 1, !.updateTime = updates + 1]}
        /\ [d EXCEPT !.seenCount = @ + 1, !.updateTime = updates + 1] \in Document
        /\ updates' = updates + 1 /\ deliveries' = deliveries + 1
  BY CountedEffect
<1>2. TypeOK /\ a \in Answers BY DEF IInv, Answers
<1>3. d \in Document BY DEF IInv, TypeOK
<1>4. \A e \in document' : e.seenCount = deliveries + 1 /\ e.updateTime = updates + 1
  BY <1>1, <1>3 DEF Document
<1>5. updates \in Nat /\ deliveries \in Nat BY DEF IInv, TypeOK
<1>6. \A b \in Claimers : \A e \in existing[b] : e.updateTime \in Nat
  BY DEF IInv, TypeOK, Document
<1> HIDE DEF Return
<1>7. TypeOK' BY <1>1, <1>2, <1>5, ReturnEffect DEF TypeOK
<1>8. VersionInv' BY <1>1, <1>4, <1>5, <1>6 DEF IInv, VersionInv
<1>9. CallInv' BY <1>2, ReturnEffect DEF IInv, CallInv
<1>10. QED BY <1>7, <1>8, <1>9 DEF IInv

LEMMA UpdateInv ==
  ASSUME IInv, NEW c \in Claimers, Update(c)
  PROVE  IInv'
<1>1. UNCHANGED <<clock, nowMs, existing, calls>> /\ pc[c] = "update" BY DEF Update
<1>2. ASSUME Unchanged(c), Counted(c), NEW found \in existing[c],
             Return(c, "duplicate", found.seenCount + 1), UNCHANGED faults
      PROVE  IInv'
  <2>1. found.seenCount \in Nat /\ faults \in Nat
    BY DEF IInv, VersionInv, TypeOK, Document
  <2>2. QED BY <1>1, <1>2, <2>1, CountedInv
<1>3. CASE Unchanged(c) /\ Counted(c) /\ Faulty /\ Return(c, "error", 0)
  <2>1. faults' \in Nat BY <1>3 DEF Faulty, IInv, TypeOK
  <2>2. QED BY <1>1, <1>3, <2>1, CountedInv
<1>4. CASE /\ RetryAfterConflict(c) \/ Return(c, "error", 0)
           /\ UNCHANGED <<document, updates, deliveries, faults>>
  <2>1. TypeOK /\ "error" \in Answers BY DEF IInv, Answers
  <2>2. VersionInv' BY <1>1, <1>4 DEF IInv, VersionInv
  <2> HIDE DEF RetryAfterConflict, Return
  <2>3. TypeOK' BY <1>1, <1>4, <2>1, RetryEffect, ReturnEffect DEF TypeOK
  <2>4. CASE RetryAfterConflict(c)
    BY <1>1, <1>4, <2>1, <2>2, <2>3, <2>4, RetryEffect DEF IInv, CallInv
  <2>5. CASE Return(c, "error", 0)
    BY <1>1, <1>4, <2>1, <2>2, <2>3, <2>5, ReturnEffect DEF IInv, CallInv
  <2>6. QED BY <1>4, <2>4, <2>5
<1>5. CASE Refused(c) BY <1>1, <1>5, RefusedInv
<1>6. QED BY <1>2, <1>3, <1>4, <1>5 DEF Update

(* Every step keeps the invariant.                                         *)
LEMMA NextInv == IInv /\ [Next]_vars => IInv'
<1> SUFFICES ASSUME IInv, [Next]_vars PROVE IInv'
  OBVIOUS
<1>1. CASE Tick BY <1>1, FirestoreAssumption DEF Tick, IInv, TypeOK, VersionInv, CallInv
<1>2. ASSUME NEW c \in Claimers, Claim(c) \/ Step(c) PROVE IInv'
  BY <1>2, ClaimInv, CreateInv, ReadInv, DeleteInv, UpdateInv DEF Step
<1>3. CASE UNCHANGED vars BY <1>3 DEF vars, IInv, TypeOK, VersionInv, CallInv
<1>4. QED BY <1>1, <1>2, <1>3 DEF Next

(* The invariant holds in every state of every behaviour.                  *)
THEOREM StoreInvariant == Spec => []IInv
BY InitInv, NextInv, PTL DEF Spec

-----------------------------------------------------------------------------
(* The state keeps its shape: no call goes beyond maxCasAttempts rounds.   *)
THEOREM TypeCorrect == Spec => []TypeOK
<1>1. IInv => TypeOK BY DEF IInv
<1>2. QED BY <1>1, StoreInvariant, PTL

(* No delivery goes uncounted, however many processes count at once.       *)
THEOREM Counting == Spec => []EveryDeliveryCounted
<1>1. IInv => EveryDeliveryCounted BY DEF IInv, VersionInv, EveryDeliveryCounted
<1>2. QED BY <1>1, StoreInvariant, PTL

-----------------------------------------------------------------------------
(* A document that is deleted or counted on is the one that was read: the  *)
(* deleted one has expired, the one counted on has not, and it keeps its   *)
(* times.                                                                  *)
LEMMA DeletedExpired ==
  ASSUME IInv, NEW c \in Claimers, pc[c] = "delete", Unchanged(c), NEW d \in document
  PROVE  d.expires <= clock
<1>1. PICK b \in document, e \in existing[c] : b.updateTime = e.updateTime
  BY DEF Unchanged
<1>2. d = b /\ b = e BY <1>1 DEF IInv, TypeOK, VersionInv
<1>3. e.expires <= nowMs[c] /\ nowMs[c] <= clock BY DEF IInv, CallInv
<1>4. d.expires \in Nat /\ nowMs[c] \in Nat /\ clock \in Nat
  BY DEF IInv, TypeOK, Document
<1>5. QED BY <1>2, <1>3, <1>4

LEMMA CountedLive ==
  ASSUME IInv, NEW c \in Claimers, pc[c] = "update", Unchanged(c), Counted(c)
  PROVE  \E d, e \in Document :
           /\ document = {d} /\ document' = {e} /\ d.expires > nowMs[c]
           /\ e.firstSeen = d.firstSeen /\ e.expires = d.expires
<1>1. PICK d \in document :
        /\ document = {d} /\ existing[c] = {d} /\ d.seenCount = deliveries
        /\ document' = {[d EXCEPT !.seenCount = @ + 1, !.updateTime = updates + 1]}
        /\ [d EXCEPT !.seenCount = @ + 1, !.updateTime = updates + 1] \in Document
        /\ updates' = updates + 1 /\ deliveries' = deliveries + 1
  BY CountedEffect
<1>2. d \in Document /\ d.expires > nowMs[c] BY <1>1 DEF IInv, TypeOK, CallInv
<1>3. PICK e \in Document : e = [d EXCEPT !.seenCount = @ + 1, !.updateTime = updates + 1]
  BY <1>1
<1>4. e.firstSeen = d.firstSeen /\ e.expires = d.expires BY <1>2, <1>3 DEF Document
<1>5. QED BY <1>1, <1>2, <1>3, <1>4

(* A claim that has not expired survives every step of every process,      *)
(* whatever that process read before.                                      *)
THEOREM LiveClaims == Spec => LiveClaimKept
<1> DEFINE Kept(d) == \E e \in document' : e.firstSeen = d.firstSeen /\ e.expires = d.expires
<1>1. ASSUME IInv, Next, NEW d \in document, d.expires > clock PROVE Kept(d)
  <2>1. CASE document' = document BY <1>1, <2>1
  <2>2. ASSUME NEW c \in Claimers, Create(c), document' # document PROVE Kept(d)
    BY <1>1, <2>2 DEF Create, Stored, Refused
  <2>3. ASSUME NEW c \in Claimers, Delete(c), document' # document PROVE Kept(d)
    <3>1. pc[c] = "delete" /\ Unchanged(c) BY <2>3 DEF Delete, Refused
    <3>2. d.expires <= clock BY <1>1, <3>1, DeletedExpired
    <3>3. d.expires \in Nat /\ clock \in Nat BY <1>1 DEF IInv, TypeOK, Document
    <3>4. QED BY <1>1, <3>2, <3>3
  <2>4. ASSUME NEW c \in Claimers, Update(c), document' # document PROVE Kept(d)
    <3>1. pc[c] = "update" /\ Unchanged(c) /\ Counted(c) BY <2>4 DEF Update, Refused
    <3>2. PICK b, e \in Document :
            /\ document = {b} /\ document' = {e} /\ b.expires > nowMs[c]
            /\ e.firstSeen = b.firstSeen /\ e.expires = b.expires
      BY <1>1, <3>1, CountedLive
    <3>3. QED BY <3>2
  <2>5. ASSUME NEW c \in Claimers, Claim(c) \/ Read(c) PROVE document' = document
    BY <2>5 DEF Claim, Read, Refused
  <2>6. CASE Tick BY <2>1, <2>6 DEF Tick
  <2>7. QED BY <1>1, <2>1, <2>2, <2>3, <2>4, <2>5, <2>6 DEF Next, Step
<1>2. ASSUME IInv, [Next]_vars
      PROVE  [\A d \in document : d.expires > clock =>
                \E e \in document' : e.firstSeen = d.firstSeen /\ e.expires = d.expires]_vars
  BY <1>1, <1>2
<1>3. QED BY <1>2, StoreInvariant, PTL DEF Spec, LiveClaimKept

-----------------------------------------------------------------------------
(* What the contract sees of the document.                                 *)
LEMMA ExpiryOf ==
  /\ document = {} => Expiry = 0
  /\ \A d : document = {d} => Expiry = d.expires
BY DEF Expiry

LEMMA ExpiryOfNext ==
  /\ document' = {} => Expiry' = 0
  /\ \A d : document' = {d} => Expiry' = d.expires
BY DEF Expiry

LEMMA ExpiryIsNat == TypeOK => Expiry \in Nat
<1> SUFFICES ASSUME TypeOK PROVE Expiry \in Nat
  OBVIOUS
<1>1. CASE document = {} BY <1>1 DEF Expiry
<1>2. CASE document # {}
  <2>1. PICK d \in document : document = {d} BY <1>2 DEF TypeOK
  <2>2. QED BY <2>1, ExpiryOf DEF TypeOK, Document
<1>3. QED BY <1>1, <1>2

LEMMA ExpiryIsNatNext == TypeOK' => Expiry' \in Nat
<1> SUFFICES ASSUME TypeOK' PROVE Expiry' \in Nat
  OBVIOUS
<1>1. CASE document' = {} BY <1>1 DEF Expiry
<1>2. CASE document' # {}
  <2>1. PICK d \in document' : document' = {d} BY <1>2 DEF TypeOK
  <2>2. QED BY <2>1, ExpiryOfNext DEF TypeOK, Document
<1>3. QED BY <1>1, <1>2

(* A step of a call that leaves a valid claim alone, and after which the   *)
(* call goes on or has failed, is a failure (of nobody, when it goes on).  *)
LEMMA FailStep ==
  ASSUME IInv, IInv', NEW c \in Claimers, pc[c] # "idle", UNCHANGED <<clock, nowMs>>,
         \A d \in Claimers : d # c => pc'[d] = pc[d] /\ result'[d] = result[d],
         pc'[c] = "idle" => result'[c].answer \in {"error", "conflict"},
         Expiry' = Expiry \/ (Expiry <= clock /\ Expiry' = 0)
  PROVE  Contract!Next
<1>1. Expiry' \in Nat BY ExpiryIsNatNext DEF IInv
<1>2. /\ [k \in {"key"} |-> Expiry'] \in [{"key"} -> Nat]
      /\ Contract!OthersKept({})
  BY <1>1 DEF Contract!OthersKept
<1>3. CASE pc'[c] # "idle"
  <2>1. \A d \in Claimers : AnswerTo(d)' = AnswerTo(d) BY <1>3 DEF AnswerTo
  <2>2. Contract!Fail({}) BY <1>2, <2>1 DEF Contract!Fail
  <2>3. QED BY <2>2 DEF Contract!Next
<1>4. CASE pc'[c] = "idle"
  <2>1. AnswerTo(c) = "pending" /\ AnswerTo(c)' = "error" BY <1>4 DEF AnswerTo
  <2>2. \A d \in Claimers : d # c => AnswerTo(d)' = AnswerTo(d) BY DEF AnswerTo
  <2>3. Contract!Fail({c}) BY <1>2, <2>1, <2>2 DEF Contract!Fail
  <2>4. QED BY <2>3 DEF Contract!Next
<1>5. QED BY <1>3, <1>4

(* A request that is refused, and a retry, are such steps.                 *)
LEMMA QuietStep ==
  ASSUME IInv, IInv', NEW c \in Claimers, pc[c] # "idle", UNCHANGED <<clock, nowMs>>,
         RetryAfterConflict(c) \/ Return(c, "error", 0),
         Expiry' = Expiry \/ (Expiry <= clock /\ Expiry' = 0)
  PROVE  Contract!Next
<1>1. TypeOK /\ "error" \in Answers BY DEF IInv, Answers
<1>2. /\ \A d \in Claimers : d # c => pc'[d] = pc[d] /\ result'[d] = result[d]
      /\ pc'[c] = "idle" => result'[c].answer \in {"error", "conflict"}
  <2> HIDE DEF RetryAfterConflict, Return
  <2>1. QED BY <1>1, RetryEffect, ReturnEffect
<1>3. QED BY <1>2, FailStep

(* A call that goes from one request to the next is invisible.             *)
LEMMA InnerStep ==
  ASSUME NEW c \in Claimers, pc[c] # "idle", NEW l \in PCs \ {"idle"}, Goto(c, l), TypeOK,
         UNCHANGED <<clock, nowMs, document, result>>
  PROVE  UNCHANGED Contract!claimVars
<1>1. \A d \in Claimers : (pc'[d] # "idle" <=> pc[d] # "idle") BY DEF Goto, TypeOK
<1>2. \A d \in Claimers : AnswerTo(d)' = AnswerTo(d) BY <1>1 DEF AnswerTo
<1>3. Expiry' = Expiry BY DEF Expiry
<1>4. QED BY <1>2, <1>3 DEF Contract!claimVars

(* A call that returns has an answer; the others have the one they had.    *)
LEMMA AnswerStep ==
  ASSUME IInv, NEW c \in Claimers, pc[c] # "idle", NEW a \in {"claimed", "duplicate"},
         NEW n \in Nat, Return(c, a, n)
  PROVE  /\ AnswerTo(c) = "pending"
         /\ [d \in Claimers |-> AnswerTo(d)'] =
               [[d \in Claimers |-> AnswerTo(d)] EXCEPT ![c] = a]
<1>1. TypeOK /\ a \in Answers BY DEF IInv, Answers
<1>2. /\ pc'[c] = "idle" /\ result'[c].answer = a
      /\ \A d \in Claimers : d # c => pc'[d] = pc[d] /\ result'[d] = result[d]
  <2> HIDE DEF Return
  <2>1. QED BY <1>1, ReturnEffect
<1>3. AnswerTo(c)' = a BY <1>2 DEF AnswerTo
<1>4. \A d \in Claimers : d # c => AnswerTo(d)' = AnswerTo(d) BY <1>2 DEF AnswerTo
<1>5. QED BY <1>3, <1>4 DEF AnswerTo

LEMMA TickRefines ==
  ASSUME IInv, Tick
  PROVE  Contract!Next
<1>1. clock' > clock BY DEF Tick, IInv, TypeOK
<1>2. UNCHANGED <<Expiry, nowMs, pc, result>> BY DEF Tick, Expiry
<1>3. Contract!Tick BY <1>1, <1>2 DEF Contract!Tick, AnswerTo
<1>4. QED BY <1>3 DEF Contract!Next

LEMMA ClaimRefines ==
  ASSUME IInv, NEW c \in Claimers, Claim(c)
  PROVE  Contract!Next
<1>1. /\ pc[c] = "idle" /\ pc'[c] = "create" /\ nowMs'[c] = clock
      /\ \A d \in Claimers : d # c =>
           pc'[d] = pc[d] /\ result'[d] = result[d] /\ nowMs'[d] = nowMs[d]
      /\ UNCHANGED <<clock, document>>
  BY DEF Claim, Goto, IInv, TypeOK
<1>2. Expiry' = Expiry BY <1>1 DEF Expiry
<1>3. result[c].answer \in Answers BY DEF IInv, TypeOK
<1>4. AnswerTo(c) # "pending" /\ AnswerTo(c)' = "pending" BY <1>1, <1>3 DEF AnswerTo, Answers
<1>5. \A d \in Claimers : d # c => AnswerTo(d)' = AnswerTo(d) BY <1>1 DEF AnswerTo
<1>6. Contract!Ask(c) BY <1>1, <1>2, <1>4, <1>5 DEF Contract!Ask
<1>7. QED BY <1>6 DEF Contract!Next

(* The claim is recorded when there is none.                               *)
LEMMA StoredRecords ==
  ASSUME IInv, IInv', NEW c \in Claimers, document = {}, Stored(c), UNCHANGED clock
  PROVE  Contract!Record("key")
<1>1. Expiry = 0 BY ExpiryOf
<1> DEFINE d == [firstSeen |-> nowMs[c], expires |-> nowMs[c] + Ttl,
                 seenCount |-> 1, updateTime |-> updates + 1]
<1>2. document' = {d} /\ d.expires = nowMs[c] + Ttl BY DEF Stored
<1> HIDE DEF d
<1>3. nowMs[c] \in Nat /\ clock \in Nat BY DEF IInv, TypeOK
<1>4. Expiry' # 0 /\ Expiry' \in Nat
  BY <1>2, <1>3, ExpiryOfNext, ExpiryIsNatNext, FirestoreAssumption DEF IInv
<1>5. QED BY <1>1, <1>3, <1>4 DEF Contract!Record, Contract!OthersKept

LEMMA CreateRefines ==
  ASSUME IInv, IInv', NEW c \in Claimers, Create(c)
  PROVE  [Contract!Next]_(Contract!claimVars)
<1>1. pc[c] = "create" /\ UNCHANGED <<clock, nowMs>> /\ TypeOK BY DEF Create, IInv
<1>2. CASE document = {} /\ Stored(c) /\ Return(c, "claimed", 1)
  <2>1. Contract!Record("key") BY <1>1, <1>2, StoredRecords
  <2>2. /\ AnswerTo(c) = "pending"
        /\ [d \in Claimers |-> AnswerTo(d)'] =
              [[d \in Claimers |-> AnswerTo(d)] EXCEPT ![c] = "claimed"]
    BY <1>1, <1>2, AnswerStep
  <2>3. Contract!Grant(c) BY <1>1, <2>1, <2>2 DEF Contract!Grant
  <2>4. QED BY <2>3 DEF Contract!Next
<1>3. CASE document = {} /\ Stored(c) /\ Return(c, "error", 0)
  <2>1. Contract!Record("key") BY <1>1, <1>3, StoredRecords
  <2>2. /\ AnswerTo(c) = "pending" /\ AnswerTo(c)' = "error"
        /\ \A d \in Claimers : d # c => AnswerTo(d)' = AnswerTo(d)
    BY <1>1, <1>3 DEF AnswerTo, Return, Goto, TypeOK
  <2>3. Contract!GrantUnheard(c) BY <1>1, <2>1, <2>2 DEF Contract!GrantUnheard
  <2>4. QED BY <2>3 DEF Contract!Next
<1>4. CASE Goto(c, "read") /\ UNCHANGED <<document, result>>
  BY <1>1, <1>4, InnerStep DEF PCs
<1>5. CASE Return(c, "error", 0) /\ document' = document
  <2>1. Expiry' = Expiry BY <1>5 DEF Expiry
  <2>2. QED BY <1>1, <1>5, <2>1, QuietStep
<1>6. QED BY <1>2, <1>3, <1>4, <1>5 DEF Create, Refused

(* A call told "duplicate" read a claim that was valid during the call.    *)
LEMMA RefuseStep ==
  ASSUME IInv, IInv', NEW c \in Claimers, pc[c] # "idle", UNCHANGED <<clock, nowMs>>,
         NEW n \in Nat, Return(c, "duplicate", n), Expiry' = Expiry, Expiry > nowMs[c]
  PROVE  Contract!Next
<1>1. /\ AnswerTo(c) = "pending"
      /\ [d \in Claimers |-> AnswerTo(d)'] =
            [[d \in Claimers |-> AnswerTo(d)] EXCEPT ![c] = "duplicate"]
  BY AnswerStep
<1>2. Expiry' \in Nat BY ExpiryIsNatNext DEF IInv
<1>3. Contract!Refuse(c) BY <1>1, <1>2 DEF Contract!Refuse, Contract!OthersKept
<1>4. QED BY <1>3 DEF Contract!Next

LEMMA ReadRefines ==
  ASSUME IInv, IInv', NEW c \in Claimers, Read(c)
  PROVE  [Contract!Next]_(Contract!claimVars)
<1>1. pc[c] = "read" /\ UNCHANGED <<clock, nowMs, document>> /\ TypeOK
  BY DEF Read, Refused, IInv
<1>2. Expiry' = Expiry BY <1>1 DEF Expiry
<1>3. CASE RetryAfterConflict(c) \/ Return(c, "error", 0)
  BY <1>1, <1>2, <1>3, QuietStep
<1>4. CASE (Goto(c, "delete") \/ Goto(c, "update")) /\ UNCHANGED result
  BY <1>1, <1>4, InnerStep DEF PCs
<1>5. ASSUME NEW found \in document, ~(found.expires <= nowMs[c]),
             Return(c, "duplicate", found.seenCount)
      PROVE  Contract!Next
  <2>1. found \in Document /\ document = {found} BY <1>1 DEF TypeOK
  <2>2. found.seenCount \in Nat /\ found.expires \in Nat /\ nowMs[c] \in Nat
    BY <1>1, <2>1 DEF TypeOK, Document
  <2>3. Expiry > nowMs[c] BY <1>5, <2>1, <2>2, ExpiryOf
  <2>4. QED BY <1>1, <1>2, <1>5, <2>2, <2>3, RefuseStep
<1>6. QED BY <1>3, <1>4, <1>5 DEF Read, Refused

LEMMA DeleteRefines ==
  ASSUME IInv, IInv', NEW c \in Claimers, Delete(c)
  PROVE  [Contract!Next]_(Contract!claimVars)
<1>1. /\ pc[c] = "delete" /\ UNCHANGED <<clock, nowMs>>
      /\ RetryAfterConflict(c) \/ Return(c, "error", 0)
      /\ document' = document \/ (Unchanged(c) /\ document' = {})
  BY DEF Delete, Refused
<1>2. CASE document' = document
  <2>1. Expiry' = Expiry BY <1>2 DEF Expiry
  <2>2. QED BY <1>1, <2>1, QuietStep
<1>3. CASE Unchanged(c) /\ document' = {}
  <2>1. PICK d \in document : document = {d} BY <1>3 DEF Unchanged, IInv, TypeOK
  <2>2. d.expires <= clock BY <1>1, <1>3, DeletedExpired
  <2>3. Expiry <= clock /\ Expiry' = 0 BY <1>3, <2>1, <2>2, ExpiryOf, ExpiryOfNext
  <2>4. QED BY <1>1, <2>3, QuietStep
<1>4. QED BY <1>1, <1>2, <1>3

LEMMA UpdateRefines ==
  ASSUME IInv, IInv', NEW c \in Claimers, Update(c)
  PROVE  [Contract!Next]_(Contract!claimVars)
<1>1. pc[c] = "update" /\ UNCHANGED <<clock, nowMs>> BY DEF Update
<1>2. ASSUME Unchanged(c), Counted(c)
      PROVE  Expiry' = Expiry /\ Expiry > nowMs[c]
  <2>1. PICK d, e \in Document :
          /\ document = {d} /\ document' = {e} /\ d.expires > nowMs[c]
          /\ e.firstSeen = d.firstSeen /\ e.expires = d.expires
    BY <1>1, <1>2, CountedLive
  <2>2. QED BY <2>1, ExpiryOf, ExpiryOfNext
<1>3. ASSUME Unchanged(c), Counted(c), NEW found \in existing[c],
             Return(c, "duplicate", found.seenCount + 1)
      PROVE  Contract!Next
  <2>1. found.seenCount + 1 \in Nat BY DEF IInv, TypeOK, Document
  <2>2. QED BY <1>1, <1>2, <1>3, <2>1, RefuseStep
<1>4. CASE Unchanged(c) /\ Counted(c) /\ Return(c, "error", 0)
  BY <1>1, <1>2, <1>4, QuietStep
<1>5. CASE (RetryAfterConflict(c) \/ Return(c, "error", 0)) /\ document' = document
  <2>1. Expiry' = Expiry BY <1>5 DEF Expiry
  <2>2. QED BY <1>1, <1>5, <2>1, QuietStep
<1>6. QED BY <1>3, <1>4, <1>5 DEF Update, Refused

(* The store is an IdempotentClaim, for any number of processes: whatever  *)
(* requests interleave, fail or lose their answers, a claim is granted to  *)
(* one call until it expires.                                              *)
THEOREM Implements == Spec => ImplementsClaim
<1>1. Init => Contract!Init
  <2> SUFFICES ASSUME Init PROVE Contract!Init
    OBVIOUS
  <2>1. Expiry = 0 BY ExpiryOf DEF Init
  <2>2. \A c \in Claimers : AnswerTo(c) = "none" BY DEF Init, AnswerTo
  <2>3. \A c \in Claimers : nowMs[c] \in Nat BY DEF Init
  <2>4. QED BY <2>1, <2>2, <2>3 DEF Init, Contract!Init
<1>2. ASSUME IInv, IInv', [Next]_vars PROVE [Contract!Next]_(Contract!claimVars)
  <2>1. CASE Tick BY <1>2, <2>1, TickRefines
  <2>2. ASSUME NEW c \in Claimers, Claim(c) \/ Step(c)
        PROVE  [Contract!Next]_(Contract!claimVars)
    BY <1>2, <2>2, ClaimRefines, CreateRefines, ReadRefines, DeleteRefines, UpdateRefines
       DEF Step
  <2>3. CASE UNCHANGED vars
    BY <2>3 DEF vars, Contract!claimVars, Expiry, AnswerTo
  <2>4. QED BY <1>2, <2>1, <2>2, <2>3 DEF Next
<1>3. QED BY <1>1, <1>2, StoreInvariant, PTL DEF Spec, ImplementsClaim, Contract!Spec

-----------------------------------------------------------------------------
(* The artifact cache.  A stored artifact has the bytes its metadata       *)
(* describe, and its blob is on disk before its metadata are.              *)
Bytes == {BytesOf[c] : c \in CacheCalls}

PutEntry(bytes, expires) ==
  [kind |-> "artifact", metadata |-> bytes, blob |-> bytes, expires |-> expires]

Entries ==
  {Missing} \cup {Negative(e) : e \in Nat} \cup {PutEntry(b, e) : b \in Bytes, e \in Nat}

CacheShape ==
  /\ cacheKind \in {"file", "memory"} /\ cacheClock \in Nat
  /\ operation \in [CacheCalls -> {"none", "put", "putNegative", "get"}]
  /\ at \in [CacheCalls -> {"start", "memory", "lock", "blob", "metadata", "read",
                            "bytes", "done", "gone"}]
  /\ since \in [CacheCalls -> Nat]
  /\ metadataFiles \in [CacheKeys -> Entries]
  /\ DOMAIN readEntry = CacheCalls /\ DOMAIN outcome = CacheCalls
  /\ DOMAIN during = CacheCalls

BlobInv ==
  /\ \A name \in DOMAIN blobs : blobs[name] = name
  /\ cacheKind = "file" =>
       \A k \in CacheKeys :
         metadataFiles[k].kind = "artifact" => metadataFiles[k].blob \in DOMAIN blobs

StageInv ==
  \A c \in CacheCalls :
    /\ at[c] = "memory" => cacheKind = "memory"
    /\ at[c] \in {"lock", "blob", "metadata", "read", "bytes"} => cacheKind = "file"
    /\ at[c] = "blob" => operation[c] = "put"
    /\ at[c] \in {"lock", "metadata"} => operation[c] \in {"put", "putNegative"}
    /\ at[c] \in {"read", "bytes"} => operation[c] \in {"put", "get"}
    /\ at[c] \in {"memory", "done"} => operation[c] # "none"

LockedInv ==
  \A c, d \in CacheCalls : Holds(c) /\ Holds(d) /\ KeyAt[c] = KeyAt[d] => c = d

(* A call that runs has seen what its key holds.                           *)
SeenInv ==
  \A c \in CacheCalls : Running(c) => EntryOf(metadataFiles[KeyAt[c]]) \in during[c]

(* What a put has written so far is what the files hold.                   *)
PutInv ==
  \A c \in CacheCalls :
    operation[c] = "put" =>
      /\ at[c] = "metadata" => BytesOf[c] \in DOMAIN blobs
      /\ at[c] = "read" => metadataFiles[KeyAt[c]] = PutEntry(BytesOf[c], since[c] + EntryTtl)
      /\ at[c] = "bytes" => readEntry[c] = PutEntry(BytesOf[c], since[c] + EntryTtl)

EntryReadInv ==
  \A c \in CacheCalls :
    at[c] = "bytes" =>
      /\ readEntry[c] \in Entries /\ readEntry[c].kind = "artifact"
      /\ readEntry[c].blob \in DOMAIN blobs
      /\ EntryOf(readEntry[c]) \in during[c]

(* GotAsPut, call by call.                                                 *)
Got(c) ==
  at[c] = "done" =>
    /\ operation[c] = "get" =>
         \/ outcome[c] \in during[c]
         \/ outcome[c] = Expired /\ \E entry \in during[c] : IsExpired(entry, since[c])
    /\ operation[c] = "put" =>
         outcome[c] \in {Failed, Artifact(BytesOf[c], BytesOf[c], since[c] + EntryTtl)}
    /\ operation[c] \notin {"get", "put"} =>
         outcome[c] \in {Failed, Negative(since[c] + EntryTtl)}

AllGot == \A c \in CacheCalls : Got(c)

CacheInv ==
  CacheShape /\ BlobInv /\ StageInv /\ LockedInv /\ SeenInv /\ PutInv /\ EntryReadInv /\ AllGot

LEMMA EntryIs ==
  \A e \in Entries :
    /\ e.kind = "missing" => e = Missing /\ EntryOf(e) = Missing
    /\ e.kind = "negative" => EntryOf(e) = e /\ e.expires \in Nat
    /\ e.kind = "artifact" => /\ e.blob = e.metadata /\ e.expires \in Nat
                              /\ EntryOf(e) = Artifact(e.metadata, e.metadata, e.expires)
    /\ e.kind \in {"missing", "negative", "artifact"}
    /\ \A t \in Nat : IsExpired(EntryOf(e), t) <=> IsExpired(e, t)
<1> SUFFICES ASSUME NEW e \in Entries
             PROVE  /\ e.kind = "missing" => e = Missing /\ EntryOf(e) = Missing
                    /\ e.kind = "negative" => EntryOf(e) = e /\ e.expires \in Nat
                    /\ e.kind = "artifact" =>
                         /\ e.blob = e.metadata /\ e.expires \in Nat
                         /\ EntryOf(e) = Artifact(e.metadata, e.metadata, e.expires)
                    /\ e.kind \in {"missing", "negative", "artifact"}
                    /\ \A t \in Nat : IsExpired(EntryOf(e), t) <=> IsExpired(e, t)
  OBVIOUS
<1>1. CASE e = Missing BY <1>1 DEF Missing, EntryOf, IsExpired
<1>2. CASE \E t \in Nat : e = Negative(t) BY <1>2 DEF Negative, EntryOf, IsExpired
<1>3. ASSUME NEW b \in Bytes, NEW t \in Nat, e = PutEntry(b, t)
      PROVE  /\ e.kind = "artifact" /\ e.blob = e.metadata /\ e.expires \in Nat
             /\ EntryOf(e) = Artifact(e.metadata, e.metadata, e.expires)
             /\ \A s \in Nat : IsExpired(EntryOf(e), s) <=> IsExpired(e, s)
  BY <1>3 DEF PutEntry, EntryOf, IsExpired, Artifact
<1>4. QED BY <1>1, <1>2, <1>3 DEF Entries

LEMMA CacheInitInv == CacheInit => CacheInv
<1> SUFFICES ASSUME CacheInit PROVE CacheInv
  OBVIOUS
<1> USE CacheAssumption DEF CacheInit
<1>1. CacheShape BY DEF CacheShape, Entries
<1>2. BlobInv BY DEF BlobInv, Missing
<1>3. \A c \in CacheCalls : at[c] = "start" /\ ~Holds(c) /\ ~Running(c)
  BY DEF Holds, Running
<1>4. QED
  BY <1>1, <1>2, <1>3
  DEF CacheInv, StageInv, LockedInv, SeenInv, PutInv, EntryReadInv, AllGot, Got

(* A key gets a new entry: the calls that run have seen that one, too.     *)
LEMMA ReplaceSeen ==
  ASSUME CacheInv, NEW k \in CacheKeys, NEW stored \in Entries, Replace(k, stored),
         \A c \in CacheCalls : Running(c)' => Running(c)
  PROVE  /\ SeenInv' /\ DOMAIN during' = CacheCalls
         /\ metadataFiles' \in [CacheKeys -> Entries] /\ metadataFiles'[k] = stored
         /\ \A j \in CacheKeys \ {k} : metadataFiles'[j] = metadataFiles[j]
         /\ \A c \in CacheCalls : during[c] \subseteq during'[c]
<1>1. metadataFiles \in [CacheKeys -> Entries] BY DEF CacheInv, CacheShape
<1>2. /\ metadataFiles' = [metadataFiles EXCEPT ![k] = stored]
      /\ during' = [c \in CacheCalls |->
                      IF Running(c) /\ KeyAt[c] = k THEN during[c] \cup {EntryOf(stored)}
                      ELSE during[c]]
  BY DEF Replace
<1>3. /\ metadataFiles' \in [CacheKeys -> Entries] /\ metadataFiles'[k] = stored
      /\ \A j \in CacheKeys \ {k} : metadataFiles'[j] = metadataFiles[j]
  BY <1>1, <1>2
<1>4. \A c \in CacheCalls : during[c] \subseteq during'[c] BY <1>2
<1>5. \A e : EntryOf(e)' = EntryOf(e) BY DEF EntryOf, Artifact
<1>6. SeenInv'
  <2> SUFFICES ASSUME NEW c \in CacheCalls, Running(c)'
               PROVE  EntryOf(metadataFiles'[KeyAt[c]]) \in during'[c]
    BY DEF SeenInv, EntryOf
  <2>1. Running(c) /\ KeyAt[c] \in CacheKeys BY CacheAssumption
  <2>2. CASE KeyAt[c] = k BY <1>2, <1>3, <2>1, <2>2
  <2>3. CASE KeyAt[c] # k BY <1>2, <1>3, <2>1, <2>3 DEF CacheInv, SeenInv
  <2>4. QED BY <2>2, <2>3
<1>7. QED BY <1>2, <1>3, <1>4, <1>6

(* What a call was answered stays right.                                   *)
LEMMA GotKept ==
  ASSUME NEW c \in CacheCalls, Got(c), at'[c] = "done" => at[c] = "done",
         operation'[c] = operation[c], since'[c] = since[c], outcome'[c] = outcome[c],
         during[c] \subseteq during'[c]
  PROVE  Got(c)'
BY DEF Got, IsExpired, Artifact, Negative, Failed, Expired

LEMMA CallKeeps ==
  ASSUME CacheInv, NEW c \in CacheCalls, Call(c)
  PROVE  CacheInv'
<1> USE DEF CacheInv
<1>1. PICK op \in {"put", "putNegative", "get"} :
        /\ operation' = [operation EXCEPT ![c] = op]
        /\ at' = [at EXCEPT ![c] = CASE cacheKind = "memory" -> "memory"
                                     [] cacheKind = "file" /\ op = "get" -> "read"
                                     [] OTHER -> "lock"]
  BY DEF Call
<1>2. /\ at[c] = "start"
      /\ since' = [since EXCEPT ![c] = cacheClock]
      /\ during' = [during EXCEPT ![c] = {EntryOf(metadataFiles[KeyAt[c]])}]
      /\ UNCHANGED <<cacheKind, cacheClock, metadataFiles, blobs, readEntry, outcome>>
  BY DEF Call
<1>3. PICK to \in {"memory", "read", "lock"} :
        /\ at' = [at EXCEPT ![c] = to]
        /\ to = "memory" => cacheKind = "memory"
        /\ to # "memory" => cacheKind = "file"
        /\ to = "read" => op = "get"
        /\ to = "lock" => op # "get"
  <2>1. CASE cacheKind = "memory" BY <1>1, <2>1
  <2>2. CASE cacheKind = "file" /\ op = "get" BY <1>1, <2>2
  <2>3. CASE cacheKind = "file" /\ op # "get" BY <1>1, <2>3
  <2>4. QED BY <2>1, <2>2, <2>3 DEF CacheShape
<1>4. CacheShape' BY <1>1, <1>2, <1>3 DEF CacheShape
<1>5. /\ at'[c] = to /\ operation'[c] = op
      /\ during'[c] = {EntryOf(metadataFiles[KeyAt[c]])}
      /\ \A d \in CacheCalls \ {c} :
           at'[d] = at[d] /\ operation'[d] = operation[d] /\ since'[d] = since[d]
           /\ during'[d] = during[d]
  BY <1>1, <1>2, <1>3 DEF CacheShape
<1>6. BlobInv' BY <1>2 DEF BlobInv
<1>7. StageInv' BY <1>2, <1>3, <1>5 DEF StageInv
<1>8. LockedInv'
  <2>1. ~Holds(c)' BY <1>3, <1>5 DEF Holds
  <2>2. \A d \in CacheCalls \ {c} : Holds(d)' = Holds(d) BY <1>5 DEF Holds
  <2>3. QED BY <2>1, <2>2 DEF LockedInv
<1>9. SeenInv' BY <1>2, <1>5 DEF SeenInv, Running, EntryOf, Artifact
<1>10. PutInv' BY <1>2, <1>3, <1>5 DEF PutInv, PutEntry
<1>11. EntryReadInv'
  BY <1>2, <1>3, <1>5, SMTT(30)
  DEF EntryReadInv, EntryOf, Artifact, Entries, Negative, PutEntry, Missing, Bytes
<1>12. AllGot'
  <2> SUFFICES ASSUME NEW d \in CacheCalls PROVE Got(d)'
    BY DEF AllGot
  <2>1. CASE d = c BY <1>5, <2>1 DEF Got
  <2>2. CASE d # c BY <1>2, <1>5, <2>2, GotKept DEF AllGot
  <2>3. QED BY <2>1, <2>2
<1>13. QED BY <1>4, <1>6, <1>7, <1>8, <1>9, <1>10, <1>11, <1>12

(* The lock of the key is free, so nobody else is about to write to it.    *)
LEMMA LockEntryKeeps ==
  ASSUME CacheInv, NEW c \in CacheCalls, LockEntry(c)
  PROVE  CacheInv'
<1> USE DEF CacheInv
<1>1. /\ at[c] = "lock" /\ \A d \in CacheCalls : KeyAt[d] = KeyAt[c] => ~Holds(d)
      /\ UNCHANGED <<cacheKind, cacheClock, operation, metadataFiles, blobs, readEntry,
                     outcome, during>>
  BY DEF LockEntry
<1>2. /\ operation[c] \in {"put", "putNegative"} /\ cacheKind = "file"
      /\ since[c] \in Nat /\ cacheClock \in Nat
  BY <1>1 DEF StageInv, CacheShape
<1>3. PICK to \in {"blob", "metadata"}, time \in Nat :
        /\ at' = [at EXCEPT ![c] = to] /\ since' = [since EXCEPT ![c] = time]
        /\ to = "blob" <=> operation[c] = "put"
  <2>1. CASE operation[c] = "put" BY <1>2, <2>1 DEF LockEntry
  <2>2. CASE operation[c] # "put" BY <1>2, <2>2 DEF LockEntry
  <2>3. QED BY <2>1, <2>2
<1>4. CacheShape' BY <1>1, <1>3 DEF CacheShape
<1>5. /\ at'[c] = to
      /\ \A d \in CacheCalls \ {c} : at'[d] = at[d] /\ since'[d] = since[d]
  BY <1>3 DEF CacheShape
<1>6. BlobInv' BY <1>1 DEF BlobInv
<1>7. StageInv' BY <1>1, <1>2, <1>3, <1>5 DEF StageInv
<1>8. LockedInv'
  <2>1. \A d \in CacheCalls \ {c} : Holds(d)' = Holds(d) BY <1>1, <1>5 DEF Holds
  <2>2. \A d \in CacheCalls \ {c} : KeyAt[d] = KeyAt[c] => ~Holds(d)' BY <1>1, <2>1
  <2>3. QED BY <2>1, <2>2 DEF LockedInv
<1>9. SeenInv' BY <1>1, <1>5 DEF SeenInv, Running, EntryOf, Artifact
<1>10. PutInv' BY <1>1, <1>3, <1>5 DEF PutInv, PutEntry
<1>11. EntryReadInv'
  BY <1>1, <1>3, <1>5
  DEF EntryReadInv, EntryOf, Artifact, Entries, Negative, PutEntry, Missing, Bytes
<1>12. AllGot'
  <2> SUFFICES ASSUME NEW d \in CacheCalls PROVE Got(d)'
    BY DEF AllGot
  <2>1. CASE d = c BY <1>5, <2>1 DEF Got
  <2>2. CASE d # c BY <1>1, <1>5, <2>2, GotKept DEF AllGot
  <2>3. QED BY <2>1, <2>2
<1>13. QED BY <1>4, <1>6, <1>7, <1>8, <1>9, <1>10, <1>11, <1>12

LEMMA WriteBlobKeeps ==
  ASSUME CacheInv, NEW c \in CacheCalls, WriteBlob(c)
  PROVE  CacheInv'
<1> USE DEF CacheInv
<1>1. /\ at[c] = "blob" /\ at' = [at EXCEPT ![c] = "metadata"]
      /\ blobs' = [name \in DOMAIN blobs \cup {BytesOf[c]} |->
                     IF name = BytesOf[c] THEN BytesOf[c] ELSE blobs[name]]
      /\ UNCHANGED <<cacheKind, cacheClock, operation, since, metadataFiles, readEntry,
                     outcome, during>>
  BY DEF WriteBlob, BlobName
<1>2. operation[c] = "put" /\ cacheKind = "file" BY <1>1 DEF StageInv
<1>3. CacheShape' BY <1>1 DEF CacheShape
<1>4. at'[c] = "metadata" /\ \A d \in CacheCalls \ {c} : at'[d] = at[d]
  BY <1>1 DEF CacheShape
<1>5. /\ DOMAIN blobs \subseteq DOMAIN blobs' /\ BytesOf[c] \in DOMAIN blobs'
      /\ \A name \in DOMAIN blobs' : blobs'[name] = name
  BY <1>1 DEF BlobInv
<1>6. BlobInv' BY <1>1, <1>5 DEF BlobInv
<1>7. StageInv' BY <1>1, <1>2, <1>4 DEF StageInv
<1>8. \A d \in CacheCalls : Holds(d)' = Holds(d) BY <1>1, <1>2, <1>4 DEF Holds
<1>9. LockedInv' BY <1>8 DEF LockedInv
<1>10. SeenInv' BY <1>1, <1>4 DEF SeenInv, Running, EntryOf, Artifact
<1>11. PutInv' BY <1>1, <1>4, <1>5 DEF PutInv, PutEntry
<1>12. EntryReadInv'
  BY <1>1, <1>4, <1>5
  DEF EntryReadInv, EntryOf, Artifact, Entries, Negative, PutEntry, Missing, Bytes
<1>13. AllGot'
  <2> SUFFICES ASSUME NEW d \in CacheCalls PROVE Got(d)'
    BY DEF AllGot
  <2>1. QED BY <1>1, <1>4, GotKept DEF AllGot
<1>14. QED BY <1>3, <1>6, <1>7, <1>9, <1>10, <1>11, <1>12, <1>13

(* Its own key is the writer's alone, so no other put loses its entry.     *)
LEMMA WriteMetadataKeeps ==
  ASSUME CacheInv, NEW c \in CacheCalls, WriteMetadata(c)
  PROVE  CacheInv'
<1> USE DEF CacheInv
<1> DEFINE k == KeyAt[c]
           expires == since[c] + EntryTtl
<1>1. /\ at[c] = "metadata" /\ cacheKind = "file" /\ k \in CacheKeys
      /\ UNCHANGED <<cacheKind, cacheClock, operation, since, blobs, readEntry>>
  BY CacheAssumption DEF WriteMetadata, StageInv
<1>2. expires \in Nat BY CacheAssumption DEF CacheShape
<1>3. PICK stored \in Entries :
        /\ Replace(k, stored)
        /\ \/ /\ operation[c] = "put" /\ stored = PutEntry(BytesOf[c], expires)
              /\ at' = [at EXCEPT ![c] = "read"] /\ UNCHANGED outcome
           \/ /\ operation[c] = "putNegative" /\ stored = Negative(expires)
              /\ at' = [at EXCEPT ![c] = "done"]
              /\ outcome' = [outcome EXCEPT ![c] = Negative(expires)]
  <2>1. PutEntry(BytesOf[c], expires) \in Entries /\ Negative(expires) \in Entries
    BY <1>2 DEF Entries, Bytes
  <2>2. QED BY <2>1 DEF WriteMetadata, BlobName, PutEntry, Ends
<1> HIDE DEF expires
<1>4. PICK to \in {"read", "done"} :
        at' = [at EXCEPT ![c] = to] /\ (to = "read" <=> operation[c] = "put")
  BY <1>3
<1>5. at'[c] = to /\ \A d \in CacheCalls \ {c} : at'[d] = at[d]
  BY <1>4 DEF CacheShape
<1>6. /\ DOMAIN outcome' = CacheCalls
      /\ \A d \in CacheCalls \ {c} : outcome'[d] = outcome[d]
      /\ to = "done" => outcome'[c] = Negative(expires)
  BY <1>3, <1>4 DEF CacheShape
<1>7. \A d \in CacheCalls : Running(d)' => Running(d) BY <1>1, <1>5 DEF Running
<1>8. /\ SeenInv' /\ DOMAIN during' = CacheCalls
      /\ metadataFiles' \in [CacheKeys -> Entries] /\ metadataFiles'[k] = stored
      /\ \A j \in CacheKeys \ {k} : metadataFiles'[j] = metadataFiles[j]
      /\ \A d \in CacheCalls : during[d] \subseteq during'[d]
  BY <1>1, <1>3, <1>7, ReplaceSeen
<1>9. CacheShape' BY <1>1, <1>4, <1>6, <1>8 DEF CacheShape
<1>10. BlobInv'
  <2>1. stored.kind = "artifact" => stored.blob \in DOMAIN blobs
    <3>1. CASE operation[c] = "put"
      <4>1. stored = PutEntry(BytesOf[c], expires) BY <1>3, <3>1
      <4>2. stored.blob = BytesOf[c] BY <4>1 DEF PutEntry
      <4>3. QED BY <1>1, <3>1, <4>2 DEF PutInv
    <3>2. CASE operation[c] # "put"
      <4>1. stored = Negative(expires) BY <1>3, <3>2
      <4>2. QED BY <4>1 DEF Negative
    <3>3. QED BY <3>1, <3>2
  <2>2. QED BY <1>1, <1>8, <2>1 DEF BlobInv
<1>11. StageInv' BY <1>1, <1>4, <1>5 DEF StageInv
<1>12. Holds(c) BY <1>1 DEF Holds, StageInv
<1>13. \A d \in CacheCalls : Holds(d)' => Holds(d)
  BY <1>1, <1>5, <1>12 DEF Holds
<1>14. LockedInv' BY <1>13 DEF LockedInv
<1>15. PutInv'
  <2> SUFFICES ASSUME NEW d \in CacheCalls, operation[d] = "put"
               PROVE  /\ at'[d] = "metadata" => BytesOf[d] \in DOMAIN blobs
                      /\ at'[d] = "read" =>
                           metadataFiles'[KeyAt[d]] = PutEntry(BytesOf[d], since[d] + EntryTtl)
                      /\ at'[d] = "bytes" =>
                           readEntry[d] = PutEntry(BytesOf[d], since[d] + EntryTtl)
    BY <1>1 DEF PutInv, PutEntry
  <2>1. CASE d = c
    <3>1. metadataFiles'[KeyAt[c]] = PutEntry(BytesOf[c], expires) BY <1>3, <1>8, <2>1
    <3>2. QED BY <1>5, <2>1, <3>1 DEF expires
  <2>2. CASE d # c
    <3>1. at[d] = "read" => KeyAt[d] # k
      BY <1>12, <2>2 DEF LockedInv, Holds
    <3>2. KeyAt[d] \in CacheKeys BY CacheAssumption
    <3>3. QED BY <1>5, <1>8, <2>2, <3>1, <3>2 DEF PutInv
  <2>3. QED BY <2>1, <2>2
<1>16. EntryReadInv'
  <2> SUFFICES ASSUME NEW d \in CacheCalls, at'[d] = "bytes"
               PROVE  /\ readEntry'[d] \in Entries /\ readEntry'[d].kind = "artifact"
                      /\ readEntry'[d].blob \in DOMAIN blobs'
                      /\ EntryOf(readEntry'[d]) \in during'[d]
    BY DEF EntryReadInv, EntryOf, Artifact, Entries, Negative, PutEntry, Missing, Bytes
  <2>1. at[d] = "bytes" BY <1>1, <1>5
  <2>2. readEntry' = readEntry /\ blobs' = blobs BY <1>1
  <2>3. during[d] \subseteq during'[d] BY <1>8
  <2>4. /\ readEntry[d] \in Entries /\ readEntry[d].kind = "artifact"
        /\ readEntry[d].blob \in DOMAIN blobs /\ EntryOf(readEntry[d]) \in during[d]
    BY <2>1 DEF EntryReadInv
  <2>5. QED BY <2>2, <2>3, <2>4
<1>17. AllGot'
  <2> SUFFICES ASSUME NEW d \in CacheCalls PROVE Got(d)'
    BY DEF AllGot
  <2>1. CASE d = c
    <3>1. CASE to = "read" BY <1>5, <2>1, <3>1 DEF Got
    <3>2. CASE to = "done"
      <4>1. operation[c] = "putNegative" BY <1>3, <1>4, <3>2
      <4>2. outcome'[c] = Negative(since[c] + EntryTtl) BY <1>6, <3>2 DEF expires
      <4>3. QED BY <1>1, <2>1, <4>1, <4>2 DEF Got, Negative
    <3>3. QED BY <3>1, <3>2
  <2>2. CASE d # c BY <1>1, <1>5, <1>6, <1>8, <2>2, GotKept DEF AllGot
  <2>3. QED BY <2>1, <2>2
<1>18. QED BY <1>8, <1>9, <1>10, <1>11, <1>14, <1>15, <1>16, <1>17

(* A call ends, or a get goes on to its bytes; nothing is written.         *)
LEMMA ReaderKeeps ==
  ASSUME CacheInv, NEW c \in CacheCalls, Running(c),
         NEW to \in {"bytes", "done"}, at' = [at EXCEPT ![c] = to],
         UNCHANGED <<cacheKind, cacheClock, operation, since, metadataFiles, blobs, during>>,
         DOMAIN readEntry' = CacheCalls, DOMAIN outcome' = CacheCalls,
         \A d \in CacheCalls \ {c} : readEntry'[d] = readEntry[d] /\ outcome'[d] = outcome[d],
         to = "done" => operation[c] # "none" /\ Got(c)',
         to = "bytes" =>
           /\ at[c] = "read"
           /\ readEntry'[c] = metadataFiles[KeyAt[c]] /\ readEntry'[c].kind = "artifact"
  PROVE  CacheInv'
<1> USE DEF CacheInv
<1>1. at'[c] = to /\ \A d \in CacheCalls \ {c} : at'[d] = at[d] BY DEF CacheShape
<1>2. CacheShape' BY DEF CacheShape
<1>3. BlobInv' BY DEF BlobInv
<1>4. StageInv' BY <1>1 DEF StageInv
<1>5. \A d \in CacheCalls : Holds(d)' => Holds(d) BY <1>1 DEF Holds
<1>6. LockedInv' BY <1>5 DEF LockedInv
<1>7. SeenInv' BY <1>1 DEF SeenInv, Running, EntryOf, Artifact
<1>8. PutInv' BY <1>1 DEF PutInv, PutEntry
<1>9. EntryReadInv'
  <2> SUFFICES ASSUME NEW d \in CacheCalls, at'[d] = "bytes"
               PROVE  /\ readEntry'[d] \in Entries /\ readEntry'[d].kind = "artifact"
                      /\ readEntry'[d].blob \in DOMAIN blobs
                      /\ EntryOf(readEntry'[d]) \in during[d]
    BY DEF EntryReadInv, EntryOf, Artifact, Entries, Negative, PutEntry, Missing, Bytes
  <2>1. CASE d = c
    <3>1. KeyAt[c] \in CacheKeys /\ at[c] = "read" BY <1>1, <2>1, CacheAssumption
    <3>2. metadataFiles[KeyAt[c]] \in Entries BY <3>1 DEF CacheShape
    <3>3. cacheKind = "file" BY <3>1 DEF StageInv
    <3>4. readEntry'[c] = metadataFiles[KeyAt[c]] /\ readEntry'[c].kind = "artifact"
      BY <1>1, <2>1
    <3>5. QED BY <2>1, <3>1, <3>2, <3>3, <3>4 DEF BlobInv, SeenInv
  <2>2. CASE d # c BY <1>1, <2>2 DEF EntryReadInv
  <2>3. QED BY <2>1, <2>2
<1>10. AllGot'
  <2> SUFFICES ASSUME NEW d \in CacheCalls PROVE Got(d)'
    BY DEF AllGot
  <2>1. CASE d = c /\ to = "done" BY <2>1
  <2>2. CASE d = c /\ to = "bytes" BY <1>1, <2>2 DEF Got
  <2>3. CASE d # c BY <1>1, <2>3, GotKept DEF AllGot
  <2>4. QED BY <2>1, <2>2, <2>3
<1>11. QED BY <1>2, <1>3, <1>4, <1>6, <1>7, <1>8, <1>9, <1>10

LEMMA WriteFailsKeeps ==
  ASSUME CacheInv, NEW c \in CacheCalls, WriteFails(c)
  PROVE  CacheInv'
<1>1. /\ at[c] \in {"blob", "metadata"} /\ at' = [at EXCEPT ![c] = "done"]
      /\ outcome' = [outcome EXCEPT ![c] = Failed]
      /\ UNCHANGED <<cacheKind, cacheClock, operation, since, metadataFiles, blobs,
                     readEntry, during>>
  BY DEF WriteFails, Ends
<1>2. operation[c] \in {"put", "putNegative"} /\ Running(c)
  BY <1>1 DEF CacheInv, StageInv, Running
<1>3. /\ DOMAIN outcome' = CacheCalls /\ outcome'[c] = Failed
      /\ \A d \in CacheCalls \ {c} : outcome'[d] = outcome[d]
      /\ DOMAIN readEntry' = CacheCalls
  BY <1>1 DEF CacheInv, CacheShape
<1>4. Got(c)' BY <1>1, <1>2, <1>3 DEF Got, Failed
<1>5. QED BY <1>1, <1>2, <1>3, <1>4, ReaderKeeps

LEMMA ReadMetadataKeeps ==
  ASSUME CacheInv, NEW c \in CacheCalls, ReadMetadata(c)
  PROVE  CacheInv'
<1> USE DEF CacheInv
<1> DEFINE stored == metadataFiles[KeyAt[c]]
<1>1. /\ at[c] = "read"
      /\ UNCHANGED <<cacheKind, cacheClock, operation, since, metadataFiles, blobs, during>>
  BY DEF ReadMetadata, unchangedByRead
<1>2. /\ operation[c] \in {"put", "get"} /\ Running(c) /\ KeyAt[c] \in CacheKeys
      /\ since[c] \in Nat /\ EntryTtl \in Nat \ {0}
  BY <1>1, CacheAssumption DEF StageInv, Running, CacheShape
<1>3. stored \in Entries /\ EntryOf(stored) \in during[c] BY <1>2 DEF CacheShape, SeenInv
<1>4. /\ stored.kind = "missing" => EntryOf(stored) = Missing
      /\ stored.kind = "negative" => EntryOf(stored) = stored
      /\ IsExpired(EntryOf(stored), since[c]) <=> IsExpired(stored, since[c])
  BY <1>2, <1>3, EntryIs
<1>5. operation[c] = "put" => stored.kind = "artifact" /\ ~IsExpired(stored, since[c])
  <2> SUFFICES ASSUME operation[c] = "put"
               PROVE  stored.kind = "artifact" /\ ~IsExpired(stored, since[c])
    OBVIOUS
  <2>1. stored = PutEntry(BytesOf[c], since[c] + EntryTtl) BY <1>1 DEF PutInv
  <2>2. stored.kind = "artifact" /\ stored.expires = since[c] + EntryTtl BY <2>1 DEF PutEntry
  <2>3. QED BY <1>2, <2>2 DEF IsExpired
<1> HIDE DEF stored
<1>6. ASSUME NEW answer, operation[c] = "get", at' = [at EXCEPT ![c] = "done"],
             outcome' = [outcome EXCEPT ![c] = answer], UNCHANGED readEntry,
             \/ answer = EntryOf(stored)
             \/ answer = Expired /\ IsExpired(EntryOf(stored), since[c])
      PROVE  CacheInv'
  <2>1. /\ DOMAIN outcome' = CacheCalls /\ outcome'[c] = answer
        /\ \A d \in CacheCalls \ {c} : outcome'[d] = outcome[d]
        /\ DOMAIN readEntry' = CacheCalls
    BY <1>6 DEF CacheShape
  <2>2. Got(c)'
    <3>1. CASE answer = EntryOf(stored) BY <1>1, <1>3, <1>6, <2>1, <3>1 DEF Got
    <3>2. CASE answer = Expired /\ IsExpired(EntryOf(stored), since[c])
      <4>1. \E entry \in during[c] : IsExpired(entry, since[c]) BY <1>3, <3>2
      <4>2. QED BY <1>1, <1>6, <2>1, <3>2, <4>1 DEF Got, Expired, IsExpired
    <3>3. QED BY <1>6, <3>1, <3>2
  <2>3. QED BY <1>1, <1>2, <1>6, <2>1, <2>2, ReaderKeeps
<1>7. CASE stored.kind = "missing" /\ Ends(c, Missing) /\ UNCHANGED readEntry
  BY <1>2, <1>4, <1>5, <1>6, <1>7 DEF Ends
<1>8. CASE IsExpired(stored, since[c]) /\ Ends(c, Expired) /\ UNCHANGED readEntry
  BY <1>2, <1>4, <1>5, <1>6, <1>8 DEF Ends
<1>9. CASE stored.kind = "negative" /\ Ends(c, stored) /\ UNCHANGED readEntry
  BY <1>2, <1>4, <1>5, <1>6, <1>9 DEF Ends
<1>10. CASE /\ stored.kind = "artifact"
            /\ readEntry' = [readEntry EXCEPT ![c] = stored]
            /\ at' = [at EXCEPT ![c] = "bytes"] /\ UNCHANGED outcome
  <2>1. /\ DOMAIN readEntry' = CacheCalls /\ readEntry'[c] = stored
        /\ \A d \in CacheCalls \ {c} : readEntry'[d] = readEntry[d]
        /\ DOMAIN outcome' = CacheCalls
    BY <1>10 DEF CacheShape
  <2>2. QED BY <1>1, <1>2, <1>10, <2>1, ReaderKeeps DEF stored
<1>11. QED BY <1>7, <1>8, <1>9, <1>10 DEF ReadMetadata, stored

(* A blob has the bytes of its name, whoever wrote it last.                *)
LEMMA ReadBlobKeeps ==
  ASSUME CacheInv, NEW c \in CacheCalls, ReadBlob(c)
  PROVE  CacheInv'
<1> USE DEF CacheInv
<1> DEFINE stored == readEntry[c]
<1>1. /\ at[c] = "bytes"
      /\ UNCHANGED <<cacheKind, cacheClock, operation, since, metadataFiles, blobs, during>>
      /\ readEntry' = [readEntry EXCEPT ![c] = Missing]
      /\ at' = [at EXCEPT ![c] = "done"]
      /\ outcome' = [outcome EXCEPT ![c] =
                       IF stored.blob \in DOMAIN blobs
                       THEN Artifact(stored.metadata, blobs[stored.blob], stored.expires)
                       ELSE Failed]
  BY DEF ReadBlob, unchangedByRead, Ends
<1>2. operation[c] \in {"put", "get"} /\ Running(c) BY <1>1 DEF StageInv, Running
<1>3. /\ stored \in Entries /\ stored.kind = "artifact" /\ stored.blob \in DOMAIN blobs
      /\ EntryOf(stored) \in during[c]
  BY <1>1 DEF EntryReadInv
<1>4. stored.blob = stored.metadata
      /\ EntryOf(stored) = Artifact(stored.metadata, stored.metadata, stored.expires)
  BY <1>3, EntryIs
<1>5. blobs[stored.blob] = stored.metadata BY <1>3, <1>4 DEF BlobInv
<1>6. outcome'[c] = EntryOf(stored) BY <1>1, <1>3, <1>4, <1>5 DEF CacheShape
<1>7. operation[c] = "put" =>
        EntryOf(stored) = Artifact(BytesOf[c], BytesOf[c], since[c] + EntryTtl)
  <2> SUFFICES ASSUME operation[c] = "put"
               PROVE  EntryOf(stored) = Artifact(BytesOf[c], BytesOf[c], since[c] + EntryTtl)
    OBVIOUS
  <2>1. stored = PutEntry(BytesOf[c], since[c] + EntryTtl) BY <1>1 DEF PutInv
  <2>2. QED BY <1>4, <2>1 DEF PutEntry
<1> HIDE DEF stored
<1>8. /\ DOMAIN outcome' = CacheCalls /\ DOMAIN readEntry' = CacheCalls
      /\ \A d \in CacheCalls \ {c} : readEntry'[d] = readEntry[d] /\ outcome'[d] = outcome[d]
  BY <1>1 DEF CacheShape
<1>9. Got(c)' BY <1>1, <1>2, <1>3, <1>6, <1>7 DEF Got, Artifact
<1>10. QED BY <1>1, <1>2, <1>8, <1>9, ReaderKeeps

(* In memory a call is one step.                                           *)
LEMMA MemoryEnds ==
  ASSUME CacheInv, NEW c \in CacheCalls, at[c] = "memory",
         NEW answer, at' = [at EXCEPT ![c] = "done"],
         outcome' = [outcome EXCEPT ![c] = answer],
         UNCHANGED <<cacheKind, cacheClock, operation, since, blobs, readEntry>>,
         NEW stored \in Entries, Replace(KeyAt[c], stored), Got(c)'
  PROVE  CacheInv'
<1> USE DEF CacheInv
<1>1. cacheKind = "memory" /\ KeyAt[c] \in CacheKeys BY CacheAssumption DEF StageInv
<1>2. at'[c] = "done" /\ \A d \in CacheCalls \ {c} : at'[d] = at[d] BY DEF CacheShape
<1>3. /\ DOMAIN outcome' = CacheCalls
      /\ \A d \in CacheCalls \ {c} : outcome'[d] = outcome[d]
  BY DEF CacheShape
<1>4. \A d \in CacheCalls : Running(d)' => Running(d) BY <1>2 DEF Running
<1>5. /\ SeenInv' /\ DOMAIN during' = CacheCalls
      /\ metadataFiles' \in [CacheKeys -> Entries]
      /\ \A d \in CacheCalls : during[d] \subseteq during'[d]
  BY <1>1, <1>4, ReplaceSeen
<1>6. CacheShape' BY <1>3, <1>5 DEF CacheShape
<1>7. BlobInv' BY <1>1 DEF BlobInv
<1>8. \A d \in CacheCalls : at'[d] \notin {"lock", "blob", "metadata", "read", "bytes"}
  BY <1>1, <1>2 DEF StageInv
<1>9. operation[c] # "none" BY DEF StageInv
<1>10. StageInv' BY <1>1, <1>2, <1>8, <1>9 DEF StageInv
<1>11. LockedInv' BY <1>8 DEF LockedInv, Holds
<1>12. PutInv' BY <1>8 DEF PutInv
<1>13. EntryReadInv' BY <1>8 DEF EntryReadInv
<1>14. AllGot'
  <2> SUFFICES ASSUME NEW d \in CacheCalls PROVE Got(d)'
    BY DEF AllGot
  <2>1. CASE d = c BY <2>1
  <2>2. CASE d # c BY <1>2, <1>3, <1>5, <2>2, GotKept DEF AllGot
  <2>3. QED BY <2>1, <2>2
<1>15. QED BY <1>5, <1>6, <1>7, <1>10, <1>11, <1>12, <1>13, <1>14

LEMMA InMemoryKeeps ==
  ASSUME CacheInv, NEW c \in CacheCalls, InMemory(c)
  PROVE  CacheInv'
<1> USE DEF CacheInv
<1> DEFINE k == KeyAt[c]
           stored == metadataFiles[k]
           expires == since[c] + EntryTtl
<1>1. /\ at[c] = "memory"
      /\ UNCHANGED <<cacheKind, cacheClock, operation, since, blobs, readEntry>>
  BY DEF InMemory
<1>2. /\ operation[c] # "none" /\ Running(c) /\ k \in CacheKeys
      /\ expires \in Nat /\ since[c] \in Nat
  BY <1>1, CacheAssumption DEF StageInv, Running, CacheShape
<1>3. stored \in Entries /\ EntryOf(stored) \in during[c] BY <1>2 DEF CacheShape, SeenInv
<1>4. IsExpired(EntryOf(stored), since[c]) <=> IsExpired(stored, since[c])
  BY <1>2, <1>3, EntryIs
<1>5. /\ Missing \in Entries /\ Negative(expires) \in Entries
      /\ PutEntry(BytesOf[c], expires) \in Entries
  BY <1>2 DEF Entries, Bytes
<1>6. EntryOf(PutEntry(BytesOf[c], expires)) = Artifact(BytesOf[c], BytesOf[c], expires)
  BY DEF EntryOf, PutEntry
<1> HIDE DEF stored
<1>7. CASE /\ operation[c] = "get" /\ IsExpired(stored, since[c])
           /\ Replace(k, Missing) /\ Ends(c, Expired)
  <2>1. /\ at' = [at EXCEPT ![c] = "done"] /\ outcome' = [outcome EXCEPT ![c] = Expired]
        /\ outcome'[c] = Expired /\ operation'[c] = "get" /\ since'[c] = since[c]
    BY <1>1, <1>7 DEF Ends, CacheShape
  <2>2. during[c] \subseteq during'[c] BY <1>7 DEF Replace
  <2>3. \E entry \in during'[c] : IsExpired(entry, since[c]) BY <1>3, <1>4, <1>7, <2>2
  <2>4. Got(c)' BY <2>1, <2>3 DEF Got, Expired, IsExpired
  <2>5. QED BY <1>1, <1>5, <1>7, <2>1, <2>4, MemoryEnds
<1>8. CASE /\ operation[c] = "get" /\ ~IsExpired(stored, since[c])
           /\ Ends(c, EntryOf(stored)) /\ UNCHANGED <<metadataFiles, during>>
  <2>1. /\ at' = [at EXCEPT ![c] = "done"]
        /\ outcome'[c] = EntryOf(stored) /\ operation'[c] = "get"
        /\ DOMAIN outcome' = CacheCalls
        /\ \A d \in CacheCalls \ {c} : outcome'[d] = outcome[d]
    BY <1>1, <1>8 DEF Ends, CacheShape
  <2>2. Got(c)' BY <1>3, <1>8, <2>1 DEF Got
  <2>3. DOMAIN readEntry' = CacheCalls BY <1>1 DEF CacheShape
  <2>4. QED BY <1>1, <1>2, <1>8, <2>1, <2>2, <2>3, ReaderKeeps
<1>9. CASE /\ operation[c] = "put" /\ Replace(k, PutEntry(BytesOf[c], expires))
           /\ Ends(c, EntryOf(PutEntry(BytesOf[c], expires)))
  <2>1. /\ at' = [at EXCEPT ![c] = "done"]
        /\ outcome' = [outcome EXCEPT ![c] = Artifact(BytesOf[c], BytesOf[c], expires)]
    BY <1>6, <1>9 DEF Ends
  <2>2. /\ outcome'[c] = Artifact(BytesOf[c], BytesOf[c], expires)
        /\ operation'[c] = "put" /\ since'[c] = since[c]
    BY <1>1, <1>9, <2>1 DEF CacheShape
  <2>3. Got(c)' BY <2>2 DEF Got, Artifact
  <2>4. QED BY <1>1, <1>5, <1>9, <2>1, <2>3, MemoryEnds
<1>10. CASE /\ operation[c] = "putNegative" /\ Replace(k, Negative(expires))
            /\ Ends(c, Negative(expires))
  <2>1. /\ at' = [at EXCEPT ![c] = "done"]
        /\ outcome' = [outcome EXCEPT ![c] = Negative(expires)]
    BY <1>10 DEF Ends
  <2>2. /\ outcome'[c] = Negative(expires)
        /\ operation'[c] = "putNegative" /\ since'[c] = since[c]
    BY <1>1, <1>10, <2>1 DEF CacheShape
  <2>3. Got(c)' BY <2>2 DEF Got, Negative
  <2>4. QED BY <1>1, <1>5, <1>10, <2>1, <2>3, MemoryEnds
<1>11. QED BY <1>7, <1>8, <1>9, <1>10 DEF InMemory, stored, PutEntry

LEMMA CacheCrashKeeps ==
  ASSUME CacheInv, CacheCrash
  PROVE  CacheInv'
<1> USE DEF CacheInv
<1>1. /\ at' = [c \in CacheCalls |-> IF Running(c) THEN "gone" ELSE at[c]]
      /\ metadataFiles' = IF cacheKind = "file" THEN metadataFiles
                          ELSE [k \in CacheKeys |-> Missing]
      /\ UNCHANGED <<cacheKind, cacheClock, operation, since, blobs, readEntry, outcome,
                     during>>
  BY DEF CacheCrash
<1>2. \A c \in CacheCalls :
        /\ at'[c] \in {"start", "done", "gone"}
        /\ at'[c] = "done" => at[c] = "done"
  BY <1>1 DEF Running
<1>3. metadataFiles' \in [CacheKeys -> Entries]
  BY <1>1 DEF CacheShape, Entries
<1>4. CacheShape' BY <1>1, <1>2, <1>3 DEF CacheShape
<1>5. BlobInv' BY <1>1 DEF BlobInv
<1>6. /\ StageInv' /\ LockedInv' /\ SeenInv' /\ PutInv' /\ EntryReadInv'
  BY <1>1, <1>2 DEF StageInv, LockedInv, Holds, SeenInv, Running, PutInv, EntryReadInv
<1>7. AllGot'
  <2> SUFFICES ASSUME NEW c \in CacheCalls PROVE Got(c)'
    BY DEF AllGot
  <2>1. QED BY <1>1, <1>2, GotKept DEF AllGot
<1>8. QED BY <1>4, <1>5, <1>6, <1>7

(* Every step of the cache keeps the invariant.                            *)
LEMMA CacheNextInv == CacheInv /\ [CacheNext]_cacheVars => CacheInv'
<1> SUFFICES ASSUME CacheInv, [CacheNext]_cacheVars PROVE CacheInv'
  OBVIOUS
<1>1. ASSUME NEW c \in CacheCalls,
             \/ Call(c) \/ LockEntry(c) \/ WriteBlob(c) \/ WriteMetadata(c) \/ WriteFails(c)
             \/ ReadMetadata(c) \/ ReadBlob(c) \/ InMemory(c)
      PROVE  CacheInv'
  BY <1>1, CallKeeps, LockEntryKeeps, WriteBlobKeeps, WriteMetadataKeeps, WriteFailsKeeps,
     ReadMetadataKeeps, ReadBlobKeeps, InMemoryKeeps
<1>2. ASSUME UNCHANGED <<cacheKind, operation, at, since, metadataFiles, blobs, readEntry,
                         outcome, during>>,
             cacheClock' \in Nat
      PROVE  CacheInv'
  <2> USE DEF CacheInv
  <2>1. CacheShape' BY <1>2 DEF CacheShape
  <2>2. BlobInv' /\ StageInv' BY <1>2 DEF BlobInv, StageInv
  <2>3. LockedInv' BY <1>2 DEF LockedInv, Holds
  <2>4. SeenInv' BY <1>2 DEF SeenInv, Running, EntryOf, Artifact
  <2>5. PutInv' BY <1>2 DEF PutInv, PutEntry
  <2>6. EntryReadInv'
    BY <1>2 DEF EntryReadInv, EntryOf, Artifact, Entries, Negative, PutEntry, Missing, Bytes
  <2>7. AllGot' BY <1>2, GotKept DEF AllGot
  <2>8. QED BY <2>1, <2>2, <2>3, <2>4, <2>5, <2>6, <2>7
<1>3. CASE CacheTick BY <1>2, <1>3 DEF CacheTick, CacheInv, CacheShape
<1>4. CASE UNCHANGED cacheVars BY <1>2, <1>4 DEF cacheVars, CacheInv, CacheShape
<1>5. QED BY <1>1, <1>3, <1>4, CacheCrashKeeps DEF CacheNext

LEMMA CacheInvGot == CacheInv => GotAsPut
BY DEF CacheInv, AllGot, Got, GotAsPut

(* What get returns is an entry its key had while the call ran, with the   *)
(* bytes put together with its metadata; what put returns is what it put:  *)
(* for any calls, keys, faults and lifetimes, on disk and in memory.       *)
THEOREM CacheGotAsPut == CacheSpec => []GotAsPut
<1>1. CacheInit => CacheInv BY CacheInitInv
<1>2. CacheInv /\ [CacheNext]_cacheVars => CacheInv' BY CacheNextInv
<1>3. CacheInv => GotAsPut BY CacheInvGot
<1>4. QED BY <1>1, <1>2, <1>3, PTL DEF CacheSpec

-----------------------------------------------------------------------------
(* The directory cache: for every set of users, aliases and syncs, whoever *)
(* was put into it stays.                                                  *)

AliasSets == {{}} \cup {AliasesOf[u] : u \in Users}

HumanIdentity == [id : Users, aliases : AliasSets, status : {"active", "suspended", "stale"}]

IdentityKeys == {"id", "email"} \X (Users \cup {AddressOf[u] : u \in Users} \cup UNION AliasSets)

(* What is found by an id is a record with that id.                        *)
Entry ==
  {e \in [key : IdentityKeys, record : HumanIdentity] :
     \A u \in Users : e.key = ById(u) => e.record.id = u}

Under(map) == {map[i].key : i \in 1..Len(map)}

(* Map.set puts the key into the map and takes no other one out of it.     *)
LEMMA SetKeyAdds ==
  ASSUME NEW E, NEW map \in Seq(E), NEW key, NEW record,
         [key |-> key, record |-> record] \in E
  PROVE  /\ SetKey(map, key, record) \in Seq(E)
         /\ Under(SetKey(map, key, record)) = Under(map) \cup {key}
<1> DEFINE e == [key |-> key, record |-> record]
           n == Len(map)
<1>1. n \in Nat /\ DOMAIN map = 1..n /\ \A i \in 1..n : map[i] \in E
  BY LenProperties, ElementOfSeq
<1>2. e.key = key /\ e \in E OBVIOUS
<1> HIDE DEF e
<1>3. CASE KeyedBy(map, key) = {}
  <2>1. SetKey(map, key, record) = Append(map, e) BY <1>3 DEF SetKey, e
  <2>2. /\ Append(map, e) \in Seq(E) /\ Len(Append(map, e)) = n + 1
        /\ \A i \in 1..n : Append(map, e)[i] = map[i]
        /\ Append(map, e)[n + 1] = e
    BY <1>2, AppendProperties
  <2>3. Under(Append(map, e)) = Under(map) \cup {key}
    <3>1. 1..(n + 1) = 1..n \cup {n + 1} BY <1>1
    <3>2. QED BY <1>2, <2>2, <3>1 DEF Under
  <2>4. QED BY <2>1, <2>2, <2>3
<1>4. CASE KeyedBy(map, key) # {}
  <2> DEFINE set == [i \in 1..n |-> IF map[i].key = key THEN e ELSE map[i]]
  <2>1. SetKey(map, key, record) = set BY <1>1, <1>4 DEF SetKey, e
  <2>2. set \in Seq(E) /\ Len(set) = n /\ \A i \in 1..n : set[i].key = map[i].key
    BY <1>1, <1>2
  <2>3. \E i \in 1..n : map[i].key = key BY <1>1, <1>4 DEF KeyedBy
  <2> HIDE DEF set
  <2>4. Under(set) = Under(map) \cup {key} BY <2>2, <2>3 DEF Under
  <2>5. QED BY <2>1, <2>2, <2>4
<1>5. QED BY <1>3, <1>4

LEMMA SetKeysAdds ==
  ASSUME NEW E, NEW map \in Seq(E), NEW keys, NEW K, keys \in Seq(K), NEW record,
         \A k \in K : [key |-> k, record |-> record] \in E
  PROVE  /\ SetKeys(map, keys, record) \in Seq(E)
         /\ Under(map) \subseteq Under(SetKeys(map, keys, record))
         /\ \A i \in 1..Len(keys) : keys[i] \in Under(SetKeys(map, keys, record))
<1> DEFINE n == Len(keys)
           IsSet(f) == f = [i \in 0..n |-> IF i = 0 THEN map
                                          ELSE SetKey(f[i - 1], keys[i], record)]
           set == CHOOSE f : IsSet(f)
           X == Seq(E)
           F == [i \in 1..n |-> [m \in X |-> SetKey(m, keys[i], record)]]
<1>1. n \in Nat /\ \A i \in 1..n : [key |-> keys[i], record |-> record] \in E
  BY LenProperties, ElementOfSeq
<1>2. \A i \in 1..n, m \in X : SetKey(m, keys[i], record) \in X
  BY <1>1, SetKeyAdds
<1>3. F \in [1..n -> [X -> X]] /\ \A i \in 1..n, m \in X : F[i][m] = SetKey(m, keys[i], record)
  BY <1>2
<1> HIDE DEF F
<1>4. IsSet(set)
  <2>1. map \in X OBVIOUS
  <2> HIDE DEF X
  <2>2. PICK g \in [0..n -> X] : LeadsOn(g, map, n, F) BY <1>1, <1>3, <2>1, Iterated
  <2>3. \A i \in 1..n : i - 1 \in 0..n BY <1>1
  <2>4. \A i \in 1..n : g[i] = SetKey(g[i - 1], keys[i], record)
    BY <1>3, <2>2, <2>3 DEF LeadsOn
  <2>5. \A i \in 0..n : g[i] = IF i = 0 THEN map ELSE SetKey(g[i - 1], keys[i], record)
    <3>1. \A i \in 0..n : i # 0 => i \in 1..n BY <1>1
    <3>2. QED BY <2>2, <2>4, <3>1 DEF LeadsOn
  <2>6. IsSet(g) BY <2>2, <2>5
  <2>7. QED BY <2>6
<1>5. SetKeys(map, keys, record) = set[n] BY DEF SetKeys, set
<1> HIDE DEF set
<1>6. set[0] = map /\ \A i \in 1..n : set[i] = SetKey(set[i - 1], keys[i], record)
  BY <1>1, <1>4
<1> DEFINE S == {i \in 0..n : /\ set[i] \in Seq(E)
                              /\ Under(map) \subseteq Under(set[i])
                              /\ \A j \in 1..i : keys[j] \in Under(set[i])}
<1>7. 0 \in S BY <1>1, <1>6
<1>8. ASSUME NEW i \in 1..n, i - 1 \in S
      PROVE  i \in S
  <2>1. set[i] \in Seq(E) /\ Under(set[i]) = Under(set[i - 1]) \cup {keys[i]}
    <3>1. set[i - 1] \in Seq(E) /\ [key |-> keys[i], record |-> record] \in E BY <1>1, <1>8
    <3>2. set[i] = SetKey(set[i - 1], keys[i], record) BY <1>6
    <3>3. QED BY <3>1, <3>2, SetKeyAdds
  <2>2. \A j \in 1..i : j = i \/ j \in 1..(i - 1) BY <1>1
  <2>3. /\ Under(map) \subseteq Under(set[i - 1])
        /\ \A j \in 1..(i - 1) : keys[j] \in Under(set[i - 1])
    BY <1>8
  <2>4. i \in 0..n BY <1>1
  <2>5. QED BY <2>1, <2>2, <2>3, <2>4
<1> HIDE DEF S
<1>9. 0..n \subseteq S BY <1>1, <1>7, <1>8, UpTo
<1>10. n \in S BY <1>1, <1>9
<1>11. QED BY <1>5, <1>10 DEF S

LEMMA KeysOfRecord ==
  ASSUME IdentityAssumption, NEW record \in HumanIdentity
  PROVE  LET keys == {k \in IdentityKeys : [key |-> k, record |-> record] \in Entry} IN
         /\ KeysOf(record) \in Seq(keys)
         /\ 1 \in 1..Len(KeysOf(record)) /\ KeysOf(record)[1] = ById(record.id)
<1> DEFINE keys == {k \in IdentityKeys : [key |-> k, record |-> record] \in Entry}
           A == record.aliases
           aliases == SetToSeq(A)
           given == [i \in 1..Len(aliases) |-> ByEmail(aliases[i])]
           first == <<ById(record.id), ByEmail(AddressOf[record.id])>>
<1>1. record.id \in Users /\ A \in AliasSets BY DEF HumanIdentity
<1>2. IsFiniteSet(A) BY <1>1, FS_EmptySet DEF AliasSets, IdentityAssumption
<1>3. \E f \in [1..Cardinality(A) -> A] : IsInjective(f)
  <2>1. ExistsBijection(1..Cardinality(A), A) BY <1>2, FS_CardinalityType
  <2>2. QED BY <2>1 DEF ExistsBijection, Bijection, Injection
<1>4. aliases \in [1..Cardinality(A) -> A] BY <1>3 DEF SetToSeq
<1>5. Cardinality(A) \in Nat BY <1>2, FS_CardinalityType
<1> HIDE DEF aliases
<1>6. Len(aliases) \in Nat /\ \A i \in 1..Len(aliases) : aliases[i] \in A
  <2>1. aliases \in Seq(A) BY <1>4, <1>5
  <2>2. QED BY <2>1, LenProperties, ElementOfSeq
<1>7. ById(record.id) \in keys BY <1>1 DEF Entry, IdentityKeys, ById
<1>8. \A a \in A \cup {AddressOf[record.id]} : ByEmail(a) \in keys
  <2>1. \A a, u : ByEmail(a) # ById(u) BY DEF ByEmail, ById
  <2>2. \A a \in A \cup {AddressOf[record.id]} : ByEmail(a) \in IdentityKeys
    BY <1>1 DEF IdentityKeys, ByEmail
  <2>3. QED BY <2>1, <2>2 DEF Entry
<1> HIDE DEF keys
<1>9. first \in Seq(keys) /\ Len(first) = 2 /\ first[1] = ById(record.id) BY <1>7, <1>8
<1>10. given \in Seq(keys) /\ Len(given) = Len(aliases) BY <1>6, <1>8
<1> HIDE DEF first, given
<1>11. /\ first \o given \in Seq(keys) /\ Len(first \o given) = 2 + Len(aliases)
       /\ (first \o given)[1] = ById(record.id)
  <2>1. first \o given \in Seq(keys) /\ Len(first \o given) = Len(first) + Len(given)
    BY <1>9, <1>10, ConcatProperties
  <2>2. (first \o given)[1] = first[1]
    <3>1. 1 \in 1..(Len(first) + Len(given)) /\ 1 <= Len(first) BY <1>6, <1>9, <1>10
    <3>2. QED BY <1>9, <1>10, <3>1, ConcatProperties
  <2>3. QED BY <1>9, <1>10, <2>1, <2>2
<1>12. KeysOf(record) = first \o given BY DEF KeysOf, first, given, aliases
<1>13. QED BY <1>6, <1>11, <1>12 DEF keys

(* #put: everybody who was in the map stays, and the records are found.    *)
LEMMA PutManyAdds ==
  ASSUME IdentityAssumption, NEW map \in Seq(Entry), NEW news \in Seq(HumanIdentity)
  PROVE  /\ PutMany(map, news) \in Seq(Entry)
         /\ Under(map) \subseteq Under(PutMany(map, news))
         /\ \A i \in 1..Len(news) : ById(news[i].id) \in Under(PutMany(map, news))
<1> DEFINE n == Len(news)
           X == Seq(Entry)
           Put(m, i) == SetKeys(m, KeysOf(news[i]), news[i])
           IsPut(f) == f = [i \in 0..n |-> IF i = 0 THEN map
                                          ELSE SetKeys(f[i - 1], KeysOf(news[i]), news[i])]
           put == CHOOSE f : IsPut(f)
           F == [i \in 1..n |-> [m \in X |-> Put(m, i)]]
<1>1. n \in Nat /\ \A i \in 1..n : news[i] \in HumanIdentity BY LenProperties, ElementOfSeq
<1>2. ASSUME NEW i \in 1..n, NEW m \in X
      PROVE  /\ Put(m, i) \in X
             /\ Under(m) \subseteq Under(Put(m, i))
             /\ ById(news[i].id) \in Under(Put(m, i))
  <2> DEFINE keys == {k \in IdentityKeys : [key |-> k, record |-> news[i]] \in Entry}
  <2>1. /\ KeysOf(news[i]) \in Seq(keys)
        /\ 1 \in 1..Len(KeysOf(news[i])) /\ KeysOf(news[i])[1] = ById(news[i].id)
    BY <1>1, KeysOfRecord
  <2>2. \A k \in keys : [key |-> k, record |-> news[i]] \in Entry OBVIOUS
  <2> HIDE DEF keys
  <2>3. QED BY <2>1, <2>2, SetKeysAdds
<1> HIDE DEF Put
<1>3. F \in [1..n -> [X -> X]] /\ \A i \in 1..n, m \in X : F[i][m] = Put(m, i) BY <1>2
<1> HIDE DEF F
<1>4. IsPut(put)
  <2>1. map \in X OBVIOUS
  <2> HIDE DEF X
  <2>2. PICK g \in [0..n -> X] : LeadsOn(g, map, n, F) BY <1>1, <1>3, <2>1, Iterated
  <2>3. \A i \in 1..n : i - 1 \in 0..n BY <1>1
  <2>4. \A i \in 1..n : g[i] = Put(g[i - 1], i) BY <1>3, <2>2, <2>3 DEF LeadsOn
  <2>5. \A i \in 0..n : g[i] = IF i = 0 THEN map ELSE Put(g[i - 1], i)
    <3>1. \A i \in 0..n : i # 0 => i \in 1..n BY <1>1
    <3>2. QED BY <2>2, <2>4, <3>1 DEF LeadsOn
  <2>6. IsPut(g) BY <2>2, <2>5 DEF Put
  <2>7. QED BY <2>6
<1>5. PutMany(map, news) = put[n] BY DEF PutMany, put
<1> HIDE DEF put
<1>6. put[0] = map /\ \A i \in 1..n : put[i] = Put(put[i - 1], i) BY <1>1, <1>4 DEF Put
<1> DEFINE S == {i \in 0..n : /\ put[i] \in X
                              /\ Under(map) \subseteq Under(put[i])
                              /\ \A j \in 1..i : ById(news[j].id) \in Under(put[i])}
<1>7. 0 \in S BY <1>1, <1>6
<1>8. ASSUME NEW i \in 1..n, i - 1 \in S
      PROVE  i \in S
  <2>1. /\ put[i] \in X /\ Under(put[i - 1]) \subseteq Under(put[i])
        /\ ById(news[i].id) \in Under(put[i])
    BY <1>2, <1>6, <1>8
  <2>2. \A j \in 1..i : j = i \/ j \in 1..(i - 1) BY <1>1
  <2>3. QED BY <1>1, <1>8, <2>1, <2>2
<1> HIDE DEF S
<1>9. 0..n \subseteq S BY <1>1, <1>7, <1>8, UpTo
<1>10. n \in S BY <1>1, <1>9
<1>11. QED BY <1>5, <1>10 DEF S

(* list(): of everybody who is found by an id there is a record.           *)
LEMMA ListHasAll ==
  ASSUME NEW map \in Seq(Entry)
  PROVE  /\ ListRecords(map) \in Seq(HumanIdentity)
         /\ \A u \in Users : ById(u) \in Under(map) =>
              \E i \in 1..Len(ListRecords(map)) : ListRecords(map)[i].id = u
<1> DEFINE n == Len(map)
           U == {e \in [key : Users, record : HumanIdentity] : e.record.id = e.key}
           X == Seq(U)
           Listed(m, i) == SetKey(m, map[i].record.id, map[i].record)
           IsUnique(f) == f = [i \in 0..n |-> IF i = 0 THEN <<>>
                                 ELSE SetKey(f[i - 1], map[i].record.id, map[i].record)]
           unique == CHOOSE f : IsUnique(f)
           F == [i \in 1..n |-> [m \in X |-> Listed(m, i)]]
<1>1. n \in Nat /\ \A i \in 1..n : map[i] \in Entry BY LenProperties, ElementOfSeq
<1>2. ASSUME NEW i \in 1..n, NEW m \in X
      PROVE  Listed(m, i) \in X /\ Under(Listed(m, i)) = Under(m) \cup {map[i].record.id}
  <2>1. [key |-> map[i].record.id, record |-> map[i].record] \in U
    BY <1>1 DEF Entry, HumanIdentity
  <2> HIDE DEF U
  <2>2. QED BY <2>1, SetKeyAdds
<1> HIDE DEF Listed
<1>3. F \in [1..n -> [X -> X]] /\ \A i \in 1..n, m \in X : F[i][m] = Listed(m, i) BY <1>2
<1> HIDE DEF F
<1>4. IsUnique(unique)
  <2>1. <<>> \in X OBVIOUS
  <2> HIDE DEF X
  <2>2. PICK g \in [0..n -> X] : LeadsOn(g, <<>>, n, F) BY <1>1, <1>3, <2>1, Iterated
  <2>3. \A i \in 1..n : i - 1 \in 0..n BY <1>1
  <2>4. \A i \in 1..n : g[i] = Listed(g[i - 1], i) BY <1>3, <2>2, <2>3 DEF LeadsOn
  <2>5. \A i \in 0..n : g[i] = IF i = 0 THEN <<>> ELSE Listed(g[i - 1], i)
    <3>1. \A i \in 0..n : i # 0 => i \in 1..n BY <1>1
    <3>2. QED BY <2>2, <2>4, <3>1 DEF LeadsOn
  <2>6. IsUnique(g) BY <2>2, <2>5 DEF Listed
  <2>7. QED BY <2>6
<1> DEFINE all == unique[n]
<1>5. ListRecords(map) = [k \in 1..Len(all) |-> all[k].record] BY DEF ListRecords, unique
<1> HIDE DEF unique
<1>6. unique[0] = <<>> /\ \A i \in 1..n : unique[i] = Listed(unique[i - 1], i)
  BY <1>1, <1>4 DEF Listed
<1> DEFINE S == {i \in 0..n : /\ unique[i] \in X
                              /\ \A j \in 1..i : map[j].record.id \in Under(unique[i])}
<1>7. 0 \in S
  <2>1. <<>> \in X OBVIOUS
  <2> HIDE DEF X
  <2>2. QED BY <1>1, <1>6, <2>1
<1>8. ASSUME NEW i \in 1..n, i - 1 \in S
      PROVE  i \in S
  <2>1. /\ unique[i] \in X
        /\ Under(unique[i]) = Under(unique[i - 1]) \cup {map[i].record.id}
    BY <1>2, <1>6, <1>8
  <2>2. \A j \in 1..i : j = i \/ j \in 1..(i - 1) BY <1>1
  <2>3. QED BY <1>1, <1>8, <2>1, <2>2
<1> HIDE DEF S
<1>9. 0..n \subseteq S BY <1>1, <1>7, <1>8, UpTo
<1>10. all \in X /\ \A j \in 1..n : map[j].record.id \in Under(all)
  <2>1. n \in S BY <1>1, <1>9
  <2>2. QED BY <2>1 DEF S
<1> HIDE DEF all
<1>11. Len(all) \in Nat /\ \A k \in 1..Len(all) : all[k] \in U
  BY <1>10, LenProperties, ElementOfSeq
<1>12. ListRecords(map) \in Seq(HumanIdentity) /\ Len(ListRecords(map)) = Len(all)
  BY <1>5, <1>11
<1>13. ASSUME NEW u \in Users, ById(u) \in Under(map)
       PROVE  \E k \in 1..Len(all) : ListRecords(map)[k].id = u
  <2>1. PICK j \in 1..n : map[j].key = ById(u) BY <1>13 DEF Under
  <2>2. map[j].record.id = u BY <1>1, <2>1 DEF Entry
  <2>3. PICK k \in 1..Len(all) : all[k].key = u BY <1>10, <2>1, <2>2 DEF Under
  <2>4. ListRecords(map)[k] = all[k].record BY <1>5
  <2>5. QED BY <1>11, <2>3, <2>4
<1>14. QED BY <1>12, <1>13

LEMMA MissingAreRecords ==
  ASSUME NEW s, NEW cached \in Seq(HumanIdentity)
  PROVE  MissingRecords(s, cached) \in Seq(HumanIdentity)
<1> DEFINE n == Len(cached)
           X == Seq(HumanIdentity)
           stale(i) == [cached[i] EXCEPT !.status = "stale"]
           More(m, i) == IF Missed(s, cached[i]) THEN Append(m, stale(i)) ELSE m
           IsMissing(f) == f = [i \in 0..n |->
                                  IF i = 0 THEN <<>>
                                  ELSE IF Missed(s, cached[i])
                                       THEN Append(f[i - 1],
                                                   [cached[i] EXCEPT !.status = "stale"])
                                       ELSE f[i - 1]]
           missing == CHOOSE f : IsMissing(f)
           F == [i \in 1..n |-> [m \in X |-> More(m, i)]]
<1>1. n \in Nat /\ \A i \in 1..n : cached[i] \in HumanIdentity
  BY LenProperties, ElementOfSeq
<1>2. ASSUME NEW i \in 1..n, NEW m \in X
      PROVE  More(m, i) \in X
  <2>1. stale(i) \in HumanIdentity BY <1>1 DEF HumanIdentity
  <2> HIDE DEF stale
  <2>2. QED BY <2>1, AppendProperties
<1>3. \A m, i : More(m, i) = IF Missed(s, cached[i])
                            THEN Append(m, [cached[i] EXCEPT !.status = "stale"]) ELSE m
  OBVIOUS
<1> HIDE DEF More
<1>4. F \in [1..n -> [X -> X]] /\ \A i \in 1..n, m \in X : F[i][m] = More(m, i) BY <1>2
<1> HIDE DEF F
<1>5. IsMissing(missing)
  <2>1. <<>> \in X OBVIOUS
  <2> HIDE DEF X
  <2>2. PICK g \in [0..n -> X] : LeadsOn(g, <<>>, n, F) BY <1>1, <1>4, <2>1, Iterated
  <2>3. \A i \in 1..n : i - 1 \in 0..n BY <1>1
  <2>4. \A i \in 1..n : g[i] = More(g[i - 1], i) BY <1>4, <2>2, <2>3 DEF LeadsOn
  <2>5. \A i \in 0..n : g[i] = IF i = 0 THEN <<>> ELSE More(g[i - 1], i)
    <3>1. \A i \in 0..n : i # 0 => i \in 1..n BY <1>1
    <3>2. QED BY <2>2, <2>4, <3>1 DEF LeadsOn
  <2>6. IsMissing(g) BY <1>3, <2>2, <2>5
  <2>7. QED BY <2>6
<1>6. MissingRecords(s, cached) = missing[n] BY DEF MissingRecords, missing
<1> HIDE DEF missing
<1>7. missing[0] = <<>> /\ \A i \in 1..n : missing[i] = More(missing[i - 1], i)
  <2>1. \A i \in 0..n : missing[i] = IF i = 0 THEN <<>> ELSE More(missing[i - 1], i)
    BY <1>3, <1>5
  <2>2. 0 \in 0..n /\ \A i \in 1..n : i \in 0..n /\ i # 0 BY <1>1
  <2>3. QED BY <2>1, <2>2
<1> DEFINE S == {i \in 0..n : missing[i] \in X}
<1>8. 0 \in S
  <2>1. <<>> \in X OBVIOUS
  <2> HIDE DEF X
  <2>2. QED BY <1>1, <1>7, <2>1
<1>9. \A i \in 1..n : i - 1 \in S => i \in S BY <1>2, <1>7
<1> HIDE DEF S
<1>10. 0..n \subseteq S BY <1>1, <1>8, <1>9, UpTo
<1>11. n \in S BY <1>1, <1>10
<1>12. QED BY <1>6, <1>11 DEF S
(***************************************************************************)
(* The file or the map has an entry under the id of everybody who was ever *)
(* put, and so has the map that a sync under the lock is about to write.   *)
(***************************************************************************)
SyncShape ==
  /\ identityKind \in {"memory", "file"}
  /\ IsFiniteSet(DOMAIN directory)
  /\ \A u \in DOMAIN directory : u \in Users /\ directory[u] \in HumanIdentity
  /\ syncing \in [Syncs -> Stages]
  /\ incoming \in [Syncs -> Seq(HumanIdentity)]
  /\ loaded \in [Syncs -> Seq(Entry)]
  /\ synced \subseteq Users

RecordsShape ==
  /\ identityKind = "memory" => records \in Seq(Entry)
  /\ identityKind = "file" => records \in Seq(HumanIdentity)

Finds(map, users) == \A u \in users : ById(u) \in Under(map)

WritersLock ==
  \A s \in Syncs : syncing[s] = "write" =>
    /\ identityKind = "file" /\ Finds(loaded[s], synced)
    /\ \A t \in Syncs : syncing[t] = "write" => t = s

SyncInv == SyncShape /\ RecordsShape /\ WritersLock /\ Finds(CurrentMap, synced)

LEMMA IdsAreUsers ==
  ASSUME NEW news \in Seq(HumanIdentity)
  PROVE  Ids(news) \subseteq Users /\ \A u \in Ids(news) : \E i \in 1..Len(news) : news[i].id = u
<1>1. DOMAIN news = 1..Len(news) /\ \A i \in 1..Len(news) : news[i] \in HumanIdentity
  BY LenProperties, ElementOfSeq
<1>2. QED BY <1>1 DEF Ids, ToSet, HumanIdentity

(* Whatever map one starts from, a put adds the records it is given.       *)
LEMMA PutFinds ==
  ASSUME IdentityAssumption, NEW map \in Seq(Entry), NEW news \in Seq(HumanIdentity),
         NEW users \in SUBSET Users, Finds(map, users)
  PROVE  /\ PutMany(map, news) \in Seq(Entry)
         /\ Finds(PutMany(map, news), users \cup Ids(news))
         /\ users \cup Ids(news) \subseteq Users
BY PutManyAdds, IdsAreUsers DEF Finds

(* What is written to the file finds the same people when it is read.      *)
LEMMA ReadBack ==
  ASSUME IdentityAssumption, NEW map \in Seq(Entry), NEW users \in SUBSET Users,
         Finds(map, users)
  PROVE  /\ ListRecords(map) \in Seq(HumanIdentity)
         /\ Finds(PutMany(<<>>, ListRecords(map)), users)
<1> DEFINE list == ListRecords(map)
<1>1. /\ list \in Seq(HumanIdentity)
      /\ \A u \in users : \E i \in 1..Len(list) : list[i].id = u
  BY ListHasAll DEF Finds
<1> HIDE DEF list
<1>2. <<>> \in Seq(Entry) OBVIOUS
<1>3. \A i \in 1..Len(list) : ById(list[i].id) \in Under(PutMany(<<>>, list))
  BY <1>1, <1>2, PutManyAdds
<1>4. QED BY <1>1, <1>3 DEF Finds, list

LEMMA CurrentMapIs ==
  ASSUME IdentityAssumption, SyncInv
  PROVE  CurrentMap \in Seq(Entry) /\ CurrentList \in Seq(HumanIdentity)
<1>1. <<>> \in Seq(Entry) OBVIOUS
<1>2. CurrentMap \in Seq(Entry)
  BY <1>1, PutManyAdds DEF CurrentMap, SyncInv, SyncShape, RecordsShape
<1>3. QED BY <1>2, ListHasAll DEF CurrentList

(* A step that touches neither what is kept nor who has the lock.          *)
LEMMA SyncMoves ==
  ASSUME SyncInv, SyncShape', UNCHANGED <<identityKind, records, loaded, synced>>,
         \A s \in Syncs : syncing'[s] = "write" => syncing[s] = "write"
  PROVE  SyncInv'
BY DEF SyncInv, RecordsShape, WritersLock, Finds, CurrentMap

LEMMA SyncInvInit ==
  ASSUME IdentityAssumption, IdentityInit
  PROVE  SyncInv
<1>1. <<>> \in Seq(HumanIdentity) /\ <<>> \in Seq(Entry) OBVIOUS
<1>2. DOMAIN directory = {} BY DEF IdentityInit
<1>3. SyncShape
  BY <1>1, <1>2, FS_EmptySet DEF IdentityInit, SyncShape, Stages, IdentityAssumption
<1>4. RecordsShape /\ WritersLock
  BY <1>1 DEF IdentityInit, RecordsShape, WritersLock
<1>5. Finds(CurrentMap, synced) BY DEF IdentityInit, Finds
<1>6. QED BY <1>3, <1>4, <1>5 DEF SyncInv

LEMMA DirectoryInv ==
  ASSUME IdentityAssumption, SyncInv, NEW u \in Users, DirectoryChanges(u)
  PROVE  SyncInv'
<1>1. UNCHANGED <<identityKind, records, syncing, incoming, loaded, synced>>
  BY DEF DirectoryChanges
<1>2. /\ IsFiniteSet(DOMAIN directory')
      /\ \A v \in DOMAIN directory' : v \in Users /\ directory'[v] \in HumanIdentity
  <2>1. CASE DirectoryLists(u)
    <3>1. PICK aliases \in AliasSets, status \in {"active", "suspended"} :
            directory' = [v \in DOMAIN directory \cup {u} |->
                            IF v = u THEN Record(u, aliases, status) ELSE directory[v]]
      BY <2>1 DEF DirectoryLists, AliasSets
    <3>2. Record(u, aliases, status) \in HumanIdentity BY DEF Record, HumanIdentity
    <3>3. IsFiniteSet(DOMAIN directory \cup {u}) BY FS_AddElement DEF SyncInv, SyncShape
    <3>4. QED BY <3>1, <3>2, <3>3 DEF SyncInv, SyncShape
  <2>2. CASE DirectoryDrops(u)
    <3>1. IsFiniteSet(DOMAIN directory \ {u}) BY FS_RemoveElement DEF SyncInv, SyncShape
    <3>2. QED BY <2>2, <3>1 DEF DirectoryDrops, SyncInv, SyncShape
  <2>3. QED BY <2>1, <2>2 DEF DirectoryChanges
<1>3. SyncShape' BY <1>1, <1>2 DEF SyncInv, SyncShape
<1>4. QED BY <1>1, <1>3, SyncMoves

LEMMA StartSyncInv ==
  ASSUME IdentityAssumption, SyncInv, NEW s \in Syncs, StartSync(s)
  PROVE  SyncInv'
<1>1. UNCHANGED <<identityKind, directory, records, loaded, synced>> BY DEF StartSync
<1>2. incoming' \in [Syncs -> Seq(HumanIdentity)]
  <2>1. PICK order \in SetToSeqs(DOMAIN directory) :
          incoming' = [incoming EXCEPT ![s] = [i \in DOMAIN order |-> directory[order[i]]]]
    BY DEF StartSync
  <2> DEFINE n == Cardinality(DOMAIN directory)
             news == [i \in DOMAIN order |-> directory[order[i]]]
  <2>2. n \in Nat BY FS_CardinalityType DEF SyncInv, SyncShape
  <2>3. order \in [1..n -> DOMAIN directory] BY DEF SetToSeqs
  <2>4. news \in [1..n -> HumanIdentity] BY <2>3 DEF SyncInv, SyncShape
  <2> HIDE DEF n, news
  <2>5. news \in Seq(HumanIdentity) BY <2>2, <2>4
  <2>6. QED BY <2>1, <2>5 DEF news, SyncInv, SyncShape
<1>3. /\ syncing' \in [Syncs -> Stages]
      /\ \A t \in Syncs : syncing'[t] = "write" => syncing[t] = "write"
  BY DEF StartSync, SyncInv, SyncShape, Stages
<1>4. SyncShape' BY <1>1, <1>2, <1>3 DEF SyncInv, SyncShape
<1>5. QED BY <1>1, <1>3, <1>4, SyncMoves

LEMMA ListExistingInv ==
  ASSUME IdentityAssumption, SyncInv, NEW s \in Syncs, ListExisting(s)
  PROVE  SyncInv'
<1>1. UNCHANGED <<identityKind, directory, records, loaded, synced>> BY DEF ListExisting
<1>2. incoming' \in [Syncs -> Seq(HumanIdentity)]
  <2> DEFINE missing == MissingRecords(s, CurrentList)
  <2>1. missing \in Seq(HumanIdentity) BY CurrentMapIs, MissingAreRecords
  <2>2. incoming[s] \in Seq(HumanIdentity) BY DEF SyncInv, SyncShape
  <2>3. incoming' = [incoming EXCEPT ![s] = incoming[s] \o missing]
    BY DEF ListExisting, SyncInv, SyncShape
  <2> HIDE DEF missing
  <2>4. incoming[s] \o missing \in Seq(HumanIdentity) BY <2>1, <2>2, ConcatProperties
  <2>5. QED BY <2>3, <2>4 DEF SyncInv, SyncShape
<1>3. /\ syncing' \in [Syncs -> Stages]
      /\ \A t \in Syncs : syncing'[t] = "write" => syncing[t] = "write"
  BY DEF ListExisting, SyncInv, SyncShape, Stages
<1>4. SyncShape' BY <1>1, <1>2, <1>3 DEF SyncInv, SyncShape
<1>5. QED BY <1>1, <1>3, <1>4, SyncMoves

LEMMA PutInMemoryInv ==
  ASSUME IdentityAssumption, SyncInv, NEW s \in Syncs, PutInMemory(s)
  PROVE  SyncInv'
<1>1. /\ identityKind = "memory" /\ UNCHANGED <<identityKind, directory, loaded>>
      /\ records' = PutMany(records, incoming[s])
      /\ synced' = synced \cup Ids(incoming[s])
      /\ incoming' = [incoming EXCEPT ![s] = <<>>]
      /\ syncing' = [syncing EXCEPT ![s] = "done"]
  BY DEF PutInMemory
<1>2. /\ records \in Seq(Entry) /\ incoming[s] \in Seq(HumanIdentity)
      /\ synced \in SUBSET Users /\ Finds(records, synced)
  BY <1>1 DEF SyncInv, SyncShape, RecordsShape, CurrentMap
<1>3. records' \in Seq(Entry) /\ Finds(records', synced') /\ synced' \subseteq Users
  BY <1>1, <1>2, PutFinds
<1>4. <<>> \in Seq(HumanIdentity) OBVIOUS
<1>5. SyncShape' BY <1>1, <1>3, <1>4 DEF SyncInv, SyncShape, Stages
<1>6. WritersLock' BY <1>1 DEF SyncInv, SyncShape, WritersLock
<1>7. QED BY <1>1, <1>3, <1>5, <1>6 DEF SyncInv, RecordsShape, CurrentMap

LEMMA LoadFileInv ==
  ASSUME IdentityAssumption, SyncInv, NEW s \in Syncs, LoadFile(s)
  PROVE  SyncInv'
<1>1. /\ identityKind = "file" /\ \A t \in Syncs : syncing[t] # "write"
      /\ UNCHANGED <<identityKind, directory, records, incoming, synced>>
      /\ syncing' = [syncing EXCEPT ![s] = "write"]
      /\ loaded' = [loaded EXCEPT ![s] = CurrentMap]
  BY DEF LoadFile
<1>2. CurrentMap \in Seq(Entry) BY CurrentMapIs
<1>3. SyncShape' BY <1>1, <1>2 DEF SyncInv, SyncShape, Stages
<1>4. WritersLock' BY <1>1 DEF SyncInv, SyncShape, WritersLock, Finds
<1>5. QED BY <1>1, <1>3, <1>4 DEF SyncInv, RecordsShape, CurrentMap, Finds

LEMMA WriteFileInv ==
  ASSUME IdentityAssumption, SyncInv, NEW s \in Syncs, WriteFile(s)
  PROVE  SyncInv'
<1>1. /\ syncing[s] = "write" /\ UNCHANGED <<identityKind, directory>>
      /\ loaded' = [loaded EXCEPT ![s] = <<>>] /\ incoming' = [incoming EXCEPT ![s] = <<>>]
  BY DEF WriteFile
<1>2. /\ identityKind = "file" /\ Finds(loaded[s], synced)
      /\ \A t \in Syncs : syncing[t] = "write" => t = s
  BY <1>1 DEF SyncInv, WritersLock
<1>3. /\ loaded[s] \in Seq(Entry) /\ incoming[s] \in Seq(HumanIdentity)
      /\ synced \in SUBSET Users
  BY DEF SyncInv, SyncShape
<1>4. <<>> \in Seq(HumanIdentity) /\ <<>> \in Seq(Entry) OBVIOUS
<1>5. /\ loaded' \in [Syncs -> Seq(Entry)] /\ incoming' \in [Syncs -> Seq(HumanIdentity)]
  BY <1>1, <1>4 DEF SyncInv, SyncShape
<1>6. CASE /\ records' = ListRecords(PutMany(loaded[s], incoming[s]))
           /\ synced' = synced \cup Ids(incoming[s])
           /\ syncing' = [syncing EXCEPT ![s] = "done"]
  <2> DEFINE put == PutMany(loaded[s], incoming[s])
  <2>1. put \in Seq(Entry) /\ Finds(put, synced') /\ synced' \in SUBSET Users
    BY <1>2, <1>3, <1>6, PutFinds
  <2>2. records' \in Seq(HumanIdentity) /\ Finds(PutMany(<<>>, records'), synced')
    BY <1>6, <2>1, ReadBack
  <2>3. SyncShape' BY <1>1, <1>5, <1>6, <2>1 DEF SyncInv, SyncShape, Stages
  <2>4. WritersLock' BY <1>2, <1>6 DEF SyncInv, SyncShape, WritersLock
  <2>5. QED BY <1>1, <1>2, <2>2, <2>3, <2>4 DEF SyncInv, RecordsShape, CurrentMap
<1>7. CASE syncing' = [syncing EXCEPT ![s] = "failed"] /\ UNCHANGED <<records, synced>>
  <2>1. SyncShape' BY <1>1, <1>5, <1>7 DEF SyncInv, SyncShape, Stages
  <2>2. WritersLock' BY <1>2, <1>7 DEF SyncInv, SyncShape, WritersLock
  <2>3. QED BY <1>1, <1>7, <2>1, <2>2 DEF SyncInv, RecordsShape, CurrentMap, Finds
<1>8. QED BY <1>6, <1>7 DEF WriteFile

LEMMA SyncInvStep ==
  ASSUME IdentityAssumption, SyncInv, [IdentityNext]_identityVars
  PROVE  SyncInv'
<1>1. CASE UNCHANGED identityVars
  BY <1>1 DEF identityVars, SyncInv, SyncShape, RecordsShape, WritersLock, Finds, CurrentMap
<1>2. QED
  BY <1>1, DirectoryInv, StartSyncInv, ListExistingInv, PutInMemoryInv, LoadFileInv,
     WriteFileInv DEF IdentityNext

(* Nobody is dropped: however many syncs overlap, whatever each of them    *)
(* was given and whichever writes fail, who was once put into the cache is *)
(* resolved by id from it.                                                 *)
THEOREM NobodyForgotten == IdentitySpec => []NeverForgotten
<1>1. IdentityInit => SyncInv BY IdentityAssumption, SyncInvInit
<1>2. SyncInv /\ [IdentityNext]_identityVars => SyncInv' BY IdentityAssumption, SyncInvStep
<1>3. SyncInv => NeverForgotten
  <2>1. SUFFICES ASSUME SyncInv, NEW u \in synced
                 PROVE  GetBy(ById(u)) # {}
    BY DEF NeverForgotten, ResolveHumanIdentity
  <2>2. PICK i \in 1..Len(CurrentMap) : CurrentMap[i].key = ById(u)
    BY <2>1 DEF SyncInv, Finds, Under
  <2>3. i \in DOMAIN CurrentMap BY <2>1, <2>2, IdentityAssumption, CurrentMapIs, LenProperties
  <2>4. QED BY <2>2, <2>3 DEF GetBy, Lookup, KeyedBy
<1>4. QED BY <1>1, <1>2, <1>3, PTL DEF IdentitySpec
=============================================================================
