---------------------------- MODULE ArtifactCache ----------------------------
(***************************************************************************)
(* FileArtifactCache and InMemoryArtifactCache                             *)
(* (packages/node/src/cache/index.ts).  On disk an artifact is a blob,     *)
(* named by the hash of its bytes, and a metadata file, named by its key,  *)
(* that names the blob.  put and putNegative hold the lock of the metadata *)
(* file (FileStateLock, of which MutualExclusion is used); get holds none. *)
(*                                                                         *)
(* A file is replaced in one step, the rename of writeFileAtomically; a    *)
(* write may fail before it, and the process may die between any two steps.*)
(***************************************************************************)
EXTENDS Integers, FiniteSets, Functions

CONSTANTS
  CacheCalls,    \* calls on the cache
  CacheKeys,
  KeyAt,         \* the key of each call
  BytesOf,       \* the bytes a put brings
  CacheKinds,    \* a subset of {"file", "memory"}
  EntryTtl,
  CacheTimeBound,  \* model bound: ticks
  CacheFaults      \* model bound: writes that fail and crashes

ASSUME CacheAssumption ==
  /\ KeyAt \in [CacheCalls -> CacheKeys] /\ CacheKinds \subseteq {"file", "memory"}
  /\ EntryTtl \in Nat \ {0} /\ CacheTimeBound \in Nat /\ CacheFaults \in Nat

VARIABLES
  cacheKind,
  cacheClock,
  operation,     \* of each call: "put", "putNegative" or "get"
  at,            \* where the call is
  since,         \* nowMs: when it was called
  metadataFiles, \* by key; in memory: the entries
  blobs,         \* by name
  readEntry,     \* the metadata a get has read
  outcome,       \* of each call
  during,        \* history: the entries its key has had while a call ran
  cacheFaults

cacheVars == <<cacheKind, cacheClock, operation, at, since, metadataFiles, blobs,
               readEntry, outcome, during, cacheFaults>>

Pending == [kind |-> "pending"]

Missing == [kind |-> "missing"]

Expired == [kind |-> "expired"]

Failed == [kind |-> "failed"]

Negative(expires) == [kind |-> "negative", expires |-> expires]

\* A hit: the metadata describe the bytes they were put with.
Artifact(metadata, bytes, expires) ==
  [kind |-> "artifact", metadata |-> metadata, bytes |-> bytes, expires |-> expires]

CacheInit ==
  /\ cacheKind \in CacheKinds
  /\ cacheClock = 0
  /\ operation = [c \in CacheCalls |-> "none"]
  /\ at = [c \in CacheCalls |-> "start"]
  /\ since = [c \in CacheCalls |-> 0]
  /\ metadataFiles = [k \in CacheKeys |-> Missing]
  /\ blobs = << >>
  /\ readEntry = [c \in CacheCalls |-> Missing]
  /\ outcome = [c \in CacheCalls |-> Pending]
  /\ during = [c \in CacheCalls |-> {}]
  /\ cacheFaults = 0

-----------------------------------------------------------------------------
unchangedByRead == <<cacheKind, cacheClock, operation, since, metadataFiles, blobs,
                     during, cacheFaults>>

Ends(c, result) ==
  /\ at' = [at EXCEPT ![c] = "done"] /\ outcome' = [outcome EXCEPT ![c] = result]

(* The entry of a key, as a get that reads it at once returns it.          *)
EntryOf(stored) ==
  IF stored.kind = "artifact"
  THEN Artifact(stored.metadata, stored.metadata, stored.expires) ELSE stored

IsExpired(entry, nowMs) == entry.kind # "missing" /\ entry.expires <= nowMs

Running(c) == at[c] \notin {"start", "done", "gone"}

(* A key gets a new entry, which the calls that run have seen.             *)
Replace(k, stored) ==
  /\ metadataFiles' = [metadataFiles EXCEPT ![k] = stored]
  /\ during' = [c \in CacheCalls |->
                  IF Running(c) /\ KeyAt[c] = k THEN during[c] \cup {EntryOf(stored)}
                  ELSE during[c]]

(* A call starts: get at its first read, put and putNegative at the lock.  *)
Call(c) ==
  /\ at[c] = "start"
  /\ \E op \in {"put", "putNegative", "get"} :
       /\ operation' = [operation EXCEPT ![c] = op]
       /\ at' = [at EXCEPT ![c] = CASE cacheKind = "memory" -> "memory"
                                    [] cacheKind = "file" /\ op = "get" -> "read"
                                    [] OTHER -> "lock"]
  /\ since' = [since EXCEPT ![c] = cacheClock]
  /\ during' = [during EXCEPT ![c] = {EntryOf(metadataFiles[KeyAt[c]])}]
  /\ UNCHANGED <<cacheKind, cacheClock, metadataFiles, blobs, readEntry, outcome, cacheFaults>>

Holds(c) ==
  operation[c] # "get" /\ at[c] \in {"blob", "metadata", "read", "bytes"}

\* Mutant: nobody waits for the lock.
LockEntry_Unlocked(c) ==
  /\ at[c] = "lock"
  /\ at' = [at EXCEPT ![c] = IF operation[c] = "put" THEN "blob" ELSE "metadata"]
  /\ since' = [since EXCEPT ![c] = IF operation[c] = "put" THEN cacheClock ELSE @]
  /\ UNCHANGED <<cacheKind, cacheClock, operation, metadataFiles, blobs, readEntry,
                 outcome, during, cacheFaults>>

(* withFileStateLock; put reads the time inside it, and the entry of a      *)
(* putNegative has been built before.                                      *)
LockEntry(c) ==
  /\ at[c] = "lock" /\ \A d \in CacheCalls : KeyAt[d] = KeyAt[c] => ~Holds(d)
  /\ at' = [at EXCEPT ![c] = IF operation[c] = "put" THEN "blob" ELSE "metadata"]
  /\ since' = [since EXCEPT ![c] = IF operation[c] = "put" THEN cacheClock ELSE @]
  /\ UNCHANGED <<cacheKind, cacheClock, operation, metadataFiles, blobs, readEntry,
                 outcome, during, cacheFaults>>

\* Mutant: a blob has the name of its key.
BlobName_ByKey(c) == KeyAt[c]

\* hashBytes
BlobName(c) == BytesOf[c]

WriteBlob(c) ==
  /\ at[c] = "blob" /\ at' = [at EXCEPT ![c] = "metadata"]
  /\ blobs' = [name \in DOMAIN blobs \cup {BlobName(c)} |->
                 IF name = BlobName(c) THEN BytesOf[c] ELSE blobs[name]]
  /\ UNCHANGED <<cacheKind, cacheClock, operation, since, metadataFiles, readEntry,
                 outcome, during, cacheFaults>>

(* The metadata are written last; put then gets what it has put.           *)
WriteMetadata(c) ==
  LET expires == since[c] + EntryTtl
  IN /\ at[c] = "metadata"
     /\ \/ /\ operation[c] = "put"
           /\ Replace(KeyAt[c], [kind |-> "artifact", metadata |-> BytesOf[c],
                                 blob |-> BlobName(c), expires |-> expires])
           /\ at' = [at EXCEPT ![c] = "read"] /\ UNCHANGED outcome
        \/ /\ operation[c] = "putNegative"
           /\ Replace(KeyAt[c], Negative(expires)) /\ Ends(c, Negative(expires))
     /\ UNCHANGED <<cacheKind, cacheClock, operation, since, blobs, readEntry, cacheFaults>>

WriteFails(c) ==
  /\ at[c] \in {"blob", "metadata"} /\ cacheFaults < CacheFaults
  /\ cacheFaults' = cacheFaults + 1
  /\ Ends(c, Failed)
  /\ UNCHANGED <<cacheKind, cacheClock, operation, since, metadataFiles, blobs, readEntry,
                 during>>

(* get, up to its second await.                                            *)
ReadMetadata(c) ==
  LET stored == metadataFiles[KeyAt[c]]
  IN /\ at[c] = "read"
     /\ \/ stored.kind = "missing" /\ Ends(c, Missing) /\ UNCHANGED readEntry
        \/ IsExpired(stored, since[c]) /\ Ends(c, Expired) /\ UNCHANGED readEntry
        \/ /\ stored.kind = "negative" /\ ~IsExpired(stored, since[c])
           /\ Ends(c, stored) /\ UNCHANGED readEntry
        \/ /\ stored.kind = "artifact" /\ ~IsExpired(stored, since[c])
           /\ readEntry' = [readEntry EXCEPT ![c] = stored]
           /\ at' = [at EXCEPT ![c] = "bytes"] /\ UNCHANGED outcome
     /\ UNCHANGED unchangedByRead

(* The blob is read; if there is none, get throws.                         *)
ReadBlob(c) ==
  LET stored == readEntry[c]
  IN /\ at[c] = "bytes"
     /\ Ends(c, IF stored.blob \in DOMAIN blobs
                THEN Artifact(stored.metadata, blobs[stored.blob], stored.expires)
                ELSE Failed)
     /\ readEntry' = [readEntry EXCEPT ![c] = Missing]
     /\ UNCHANGED unchangedByRead

(* InMemoryArtifactCache: nothing is awaited, and an expired entry goes.   *)
InMemory(c) ==
  LET k == KeyAt[c]
      stored == metadataFiles[k]
      expires == since[c] + EntryTtl
  IN /\ at[c] = "memory"
     /\ \/ /\ operation[c] = "get" /\ IsExpired(stored, since[c])
           /\ Replace(k, Missing) /\ Ends(c, Expired)
        \/ /\ operation[c] = "get" /\ ~IsExpired(stored, since[c])
           /\ Ends(c, EntryOf(stored)) /\ UNCHANGED <<metadataFiles, during>>
        \/ /\ operation[c] = "put"
           /\ LET entry == [kind |-> "artifact", metadata |-> BytesOf[c],
                            blob |-> BytesOf[c], expires |-> expires]
              IN Replace(k, entry) /\ Ends(c, EntryOf(entry))
        \/ /\ operation[c] = "putNegative"
           /\ Replace(k, Negative(expires)) /\ Ends(c, Negative(expires))
     /\ UNCHANGED <<cacheKind, cacheClock, operation, since, blobs, readEntry, cacheFaults>>

CacheTick ==
  /\ cacheClock < CacheTimeBound /\ cacheClock' = cacheClock + 1
  /\ UNCHANGED <<cacheKind, operation, at, since, metadataFiles, blobs, readEntry, outcome,
                 during, cacheFaults>>

(* The process dies; the files stay, what was in memory does not.          *)
CacheCrash ==
  /\ cacheFaults < CacheFaults /\ cacheFaults' = cacheFaults + 1
  /\ at' = [c \in CacheCalls |-> IF Running(c) THEN "gone" ELSE at[c]]
  /\ metadataFiles' = IF cacheKind = "file" THEN metadataFiles
                      ELSE [k \in CacheKeys |-> Missing]
  /\ UNCHANGED <<cacheKind, cacheClock, operation, since, blobs, readEntry, outcome, during>>

CacheNext ==
  \/ \E c \in CacheCalls :
       \/ Call(c) \/ LockEntry(c) \/ WriteBlob(c) \/ WriteMetadata(c) \/ WriteFails(c)
       \/ ReadMetadata(c) \/ ReadBlob(c) \/ InMemory(c)
  \/ CacheTick \/ CacheCrash

CacheSpec == CacheInit /\ [][CacheNext]_cacheVars

-----------------------------------------------------------------------------
CacheTypeOK ==
  /\ at \in [CacheCalls -> {"start", "memory", "lock", "blob", "metadata", "read",
                            "bytes", "done", "gone"}]
  /\ since \in [CacheCalls -> Nat] /\ cacheClock \in Nat
  /\ \A c \in CacheCalls : outcome[c] = Pending <=> at[c] # "done"

(* What get returns is an entry the key had while the call ran, with the   *)
(* bytes that were put together with its metadata, and no get fails,       *)
(* however puts overlap with it or break off; and what put returns is what *)
(* it has put.                                                             *)
GotAsPut ==
  \A c \in CacheCalls :
    at[c] = "done" =>
      CASE operation[c] = "get" ->
             \/ outcome[c] \in during[c]
             \/ /\ outcome[c] = Expired
                /\ \E entry \in during[c] : IsExpired(entry, since[c])
        [] operation[c] = "put" ->
             outcome[c] \in {Failed, Artifact(BytesOf[c], BytesOf[c], since[c] + EntryTtl)}
        [] OTHER -> outcome[c] \in {Failed, Negative(since[c] + EntryTtl)}
=============================================================================
