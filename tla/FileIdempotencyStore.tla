------------------------ MODULE FileIdempotencyStore ------------------------
(***************************************************************************)
(* FileIdempotencyStore (packages/node/src/transport/index.ts:472-532): a  *)
(* claim reads the whole file, decides in memory (claimInMap, 412-442) and *)
(* replaces the file, all under withFileStateLock.  The process may crash  *)
(* at any await and be started again: the lock is forgotten, the file and  *)
(* its temporary copies stay.                                              *)
(***************************************************************************)
EXTENDS FileStateLock, FiniteSets, Functions

CONSTANTS
  Keys,
  KeyOf,       \* the key each call claims
  Ttl,         \* ttlMs
  MaxEntries,
  ClockBound,  \* model bound: the clock's last reading
  FaultBound   \* model bound: file operations that fail

ASSUME StoreAssumption ==
  /\ KeyOf \in [Calls -> Keys] /\ \E f \in Files : Files = {f}
  /\ Ttl \in Nat \ {0} /\ MaxEntries \in Nat \ {0}
  /\ ClockBound \in Nat /\ FaultBound \in Nat

VARIABLES
  clock,
  file,      \* key :> entry for the entries on disk
  step,      \* inside the lock: "read", "write", "rename", "return"
  entries,   \* what the call is about to write
  since,     \* when the call was made
  answer,    \* "none", "pending" or how the call ended
  decided,   \* claimInMap's verdict, answered once the file is replaced
  faults

storeVars == <<clock, file, step, entries, since, answer, decided, faults>>

vars == <<lockVars, storeVars>>

Entry == [expires : Nat, seenCount : Nat]

NoEntries == [k \in {} |-> {}]

StoreInit ==
  /\ Init
  /\ clock = 1 /\ file = NoEntries
  /\ step = [c \in Calls |-> "read"]
  /\ entries = [c \in Calls |-> NoEntries]
  /\ since = [c \in Calls |-> 0]
  /\ answer = [c \in Calls |-> "none"]
  /\ decided = [c \in Calls |-> "none"]
  /\ faults = 0

-----------------------------------------------------------------------------
PurgeExpired(stored, nowMs) ==
  Restrict(stored, {k \in DOMAIN stored : stored[k].expires > nowMs})

(* While there are too many, the entry that expires first goes; the sort   *)
(* leaves ties in the order of insertion, here any order.                  *)
EnforceMaxEntries(stored) ==
  {Restrict(stored, kept) : kept \in
     {kept \in SUBSET DOMAIN stored :
        /\ Cardinality(kept) = (IF Cardinality(DOMAIN stored) > MaxEntries
                                THEN MaxEntries ELSE Cardinality(DOMAIN stored))
        /\ \A k \in kept, gone \in DOMAIN stored \ kept :
             stored[k].expires >= stored[gone].expires}}

Extended(stored, k, entry) ==
  [j \in DOMAIN stored \cup {k} |-> IF j = k THEN entry ELSE stored[j]]

\* Mutant: an expired entry is not purged before the key is looked up.
ClaimInMap_Unpurged(stored, k, nowMs) ==
  IF k \in DOMAIN stored
  THEN {[verdict |-> "duplicate",
         entries |-> [stored EXCEPT ![k].seenCount = @ + 1]]}
  ELSE {[verdict |-> "claimed", entries |-> e] :
          e \in EnforceMaxEntries(
                  Extended(stored, k, [expires |-> nowMs + Ttl, seenCount |-> 1]))}

(* What claimInMap may decide, with the entries it leaves.                 *)
ClaimInMap(stored, k, nowMs) ==
  LET live == PurgeExpired(stored, nowMs)
  IN IF k \in DOMAIN live
     THEN {[verdict |-> "duplicate",
            entries |-> [live EXCEPT ![k].seenCount = @ + 1]]}
     ELSE {[verdict |-> "claimed", entries |-> e] :
             e \in EnforceMaxEntries(
                     Extended(live, k, [expires |-> nowMs + Ttl, seenCount |-> 1]))}

-----------------------------------------------------------------------------
Claim(c) ==
  /\ Enter(c)
  /\ since' = [since EXCEPT ![c] = clock]
  /\ answer' = [answer EXCEPT ![c] = "pending"]
  /\ UNCHANGED <<clock, file, step, entries, decided, faults>>

LockGranted(c) == Acquire(c) /\ UNCHANGED storeVars

At(c, label) == stage[c] = "inside" /\ step[c] = label

(* readFile and JSON.parse, then claimInMap at the time of reading.        *)
Read(c) ==
  /\ At(c, "read")
  /\ \E claim \in ClaimInMap(file, KeyOf[c], clock) :
       /\ entries' = [entries EXCEPT ![c] = claim.entries]
       /\ decided' = [decided EXCEPT ![c] = claim.verdict]
  /\ step' = [step EXCEPT ![c] = "write"]
  /\ UNCHANGED <<lockVars, clock, file, since, answer, faults>>

(* mkdir and writeFile of a temporary file of the call's own.              *)
WriteTemporary(c) ==
  /\ At(c, "write")
  /\ step' = [step EXCEPT ![c] = "rename"]
  /\ UNCHANGED <<lockVars, clock, file, entries, since, answer, decided, faults>>

Rename(c) ==
  /\ At(c, "rename")
  /\ file' = entries[c]
  /\ step' = [step EXCEPT ![c] = "return"]
  /\ UNCHANGED <<lockVars, clock, entries, since, answer, decided, faults>>

(* unlink of the temporary file and chmod, whose failures are ignored.     *)
Return(c) ==
  /\ At(c, "return")
  /\ Release(c)
  /\ answer' = [answer EXCEPT ![c] = decided[c]]
  /\ UNCHANGED <<clock, file, step, entries, since, decided, faults>>

(* A read, write or rename throws: the file stays as it was.               *)
Fail(c) ==
  /\ stage[c] = "inside" /\ step[c] # "return"
  /\ faults < FaultBound /\ faults' = faults + 1
  /\ Release(c)
  /\ answer' = [answer EXCEPT ![c] = "error"]
  /\ UNCHANGED <<clock, file, step, entries, since, decided>>

Tick ==
  /\ clock < ClockBound
  /\ clock' = clock + 1
  /\ UNCHANGED <<lockVars, file, step, entries, since, answer, decided, faults>>

(* The calls in progress are gone, and so is the map of locks.             *)
Crash ==
  /\ \E c \in Calls : Active(c)
  /\ faults < FaultBound /\ faults' = faults + 1
  /\ stage' = [c \in Calls |-> IF Active(c) THEN "done" ELSE stage[c]]
  /\ locks' = [f \in Files |-> None]
  /\ answer' = [c \in Calls |-> IF Active(c) THEN "error" ELSE answer[c]]
  /\ UNCHANGED <<previous, order, entered, clock, file, step, entries, since,
                 decided>>

Progress(c) ==
  LockGranted(c) \/ Read(c) \/ WriteTemporary(c) \/ Rename(c) \/ Return(c)

StoreNext ==
  \/ Tick \/ Crash
  \/ \E c \in Calls : Claim(c) \/ Progress(c) \/ Fail(c)

StoreSpec == StoreInit /\ [][StoreNext]_vars

(* The event loop and the file system go on, if only by failing.           *)
FairStoreSpec == StoreSpec /\ \A c \in Calls : WF_vars(Progress(c))

-----------------------------------------------------------------------------
(* The state's shape.  Never more than maxEntries entries are on disk.     *)
StoreTypeOK ==
  /\ TypeOK
  /\ clock \in Nat /\ faults \in Nat
  /\ DOMAIN file \subseteq Keys /\ Cardinality(DOMAIN file) <= MaxEntries
  /\ \A k \in DOMAIN file : file[k] \in Entry
  /\ step \in [Calls -> {"read", "write", "rename", "return"}]
  /\ \A c \in Calls : \A k \in DOMAIN entries[c] : entries[c][k] \in Entry
  /\ since \in [Calls -> Nat]
  /\ answer \in [Calls -> {"none", "pending", "claimed", "duplicate", "error"}]
  /\ decided \in [Calls -> {"none", "claimed", "duplicate"}]

(* A call is answered, for the contract, when the file is replaced.        *)
ExpiryOnDisk == [k \in Keys |-> IF k \in DOMAIN file THEN file[k].expires ELSE 0]

CallMade == [c \in Calls |-> [key |-> KeyOf[c], since |-> since[c]]]

AnswerGiven == [c \in Calls |-> IF step[c] = "return" THEN decided[c] ELSE answer[c]]

Contract ==
  INSTANCE IdempotentClaim WITH
    Callers <- Calls, expiry <- ExpiryOnDisk, call <- CallMade, answer <- AnswerGiven

(* As long as the keys in use do not outnumber maxEntries, the store is an *)
(* IdempotentClaim, also across crashes.                                   *)
ImplementsClaim == Contract!Spec

(* Calls on the store return, whatever call before them failed.            *)
EveryClaimReturns == \A c \in Calls : answer[c] = "pending" ~> answer[c] # "pending"
=============================================================================
