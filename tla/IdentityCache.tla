---------------------------- MODULE IdentityCache ----------------------------
(***************************************************************************)
(* The directory cache of packages/node/src/identity/index.ts: records of  *)
(* people in a map by id and by address, kept in memory or in a file, and  *)
(* syncDirectoryUsersToCache, which puts a listing of the directory into   *)
(* it and marks as stale what the listing misses.                          *)
(*                                                                         *)
(* A Map keeps its insertion order, and list() and a reload depend on it:  *)
(* a map is a sequence of keyed records here.  External: the directory,    *)
(* and who calls the sync, with a listing that may be old by then.  The    *)
(* file is written under its lock (FileStateLock).                         *)
(***************************************************************************)
EXTENDS Integers, Sequences, FiniteSets, SequencesExt

CONSTANTS
  Users,
  AddressOf,       \* of each user, the primaryEmail
  AliasesOf,       \* of each user, the addresses the directory may list besides
  SyncBound,       \* model bound: calls of syncDirectoryUsersToCache
  IdentityKinds,   \* where records are kept: a subset of {"memory", "file"}
  AddressesLeave,  \* whether the directory takes an alias from a user
  DirectoryBound   \* model bound: changes of the directory

ASSUME IdentityAssumption ==
  /\ IdentityKinds \subseteq {"memory", "file"} /\ IdentityKinds # {}
  /\ \A u \in Users : IsFiniteSet(AliasesOf[u])
  /\ AddressesLeave \in BOOLEAN /\ DirectoryBound \in Nat /\ SyncBound \in Nat

Syncs == 1..SyncBound    \* in the order they start

VARIABLES
  identityKind,
  directory,      \* external: the users it lists, with aliases and status
  changes,        \* external: how many changes it has had
  records,        \* the map, or the records of the file
  syncing,        \* where a sync is: "idle", "list", "put", "write" or "done"
  listing,        \* the users it was given
  markMissingStale,
  incoming,       \* the records it is about to put
  loaded,         \* the map it has read inside the lock
  synced,         \* history: the users ever put
  alone           \* history: the last sync, if no other one overlapped it

identityVars == <<identityKind, directory, changes, records, syncing, listing,
                  markMissingStale, incoming, loaded, synced, alone>>

\* A record, as recordFromUser makes it of a directory user.
Record(user, aliases, status) == [id |-> user, aliases |-> aliases, status |-> status]

Stages == {"idle", "list", "put", "write", "done", "failed"}

IdentityInit ==
  /\ identityKind \in IdentityKinds
  /\ directory = [u \in {} |-> Record(u, {}, "active")] /\ changes = 0
  /\ records = <<>>
  /\ syncing = [s \in Syncs |-> "idle"]
  /\ listing = [s \in Syncs |-> directory]
  /\ markMissingStale = [s \in Syncs |-> FALSE]
  /\ incoming = [s \in Syncs |-> <<>>]
  /\ loaded = [s \in Syncs |-> <<>>]
  /\ synced = {} /\ alone = {}

-----------------------------------------------------------------------------
(* The map *)

KeyedBy(map, key) == {i \in DOMAIN map : map[i].key = key}

(* Map.set: a key that is there keeps its place.                           *)
SetKey(map, key, record) ==
  IF KeyedBy(map, key) = {} THEN Append(map, [key |-> key, record |-> record])
  ELSE [i \in DOMAIN map |-> IF map[i].key = key THEN [key |-> key, record |-> record]
                             ELSE map[i]]

Lookup(map, key) ==
  {map[i].record : i \in KeyedBy(map, key)}

\* A record under each of its keys, one after the other.
SetKeys(map, keys, record) ==
  LET set[i \in 0..Len(keys)] ==
        IF i = 0 THEN map ELSE SetKey(set[i - 1], keys[i], record)
  IN  set[Len(keys)]

ById(id) == <<"id", id>>
ByEmail(address) == <<"email", address>>

\* The order of two aliases of a user is of no account: any will do.
KeysOf(record) ==
  LET aliases == SetToSeq(record.aliases)
  IN  <<ById(record.id), ByEmail(AddressOf[record.id])>>
        \o [i \in 1..Len(aliases) |-> ByEmail(aliases[i])]

(* #put, for one record after the other.                                   *)
PutMany(map, newRecords) ==
  LET put[i \in 0..Len(newRecords)] ==
        IF i = 0 THEN map
        ELSE SetKeys(put[i - 1], KeysOf(newRecords[i]), newRecords[i])
  IN  put[Len(newRecords)]

(* list: a Map of one record for each id, the last one, at the place of    *)
(* the first.                                                              *)
ListRecords(map) ==
  LET unique[i \in 0..Len(map)] ==
        IF i = 0 THEN <<>> ELSE SetKey(unique[i - 1], map[i].record.id, map[i].record)
  IN  [n \in 1..Len(unique[Len(map)]) |-> unique[Len(map)][n].record]

(* getById and getByEmail read the file anew.                              *)
CurrentMap == IF identityKind = "file" THEN PutMany(<<>>, records) ELSE records

GetBy(key) == Lookup(CurrentMap, key)

CurrentList == ListRecords(CurrentMap)

(* resolveHumanIdentity: what Chat says of a person comes first, then the  *)
(* record by id, then the record by address.                               *)
ResolveHumanIdentity(ref) ==
  LET byId == GetBy(ById(ref.id))
      found == IF byId # {} THEN byId ELSE GetBy(ByEmail(ref.email))
      said == {field \in {"displayName", "email"} : ref[field] # "none"}
  IN CASE said = {"displayName", "email"} -> "chat_payload"
       [] said # {"displayName", "email"} /\ found # {} ->
            IF said = {} THEN "directory_cache" ELSE "chat_payload_and_directory_cache"
       [] said # {} /\ found = {} -> "chat_payload"
       [] OTHER -> "unresolved"

-----------------------------------------------------------------------------
(* The directory *)

(* A user joins or changes, or is taken out.                               *)
DirectoryLists(u) ==
  \E aliases \in (IF AddressesLeave THEN {{}, AliasesOf[u]} ELSE {AliasesOf[u]}),
     status \in {"active", "suspended"} :
    directory' = [v \in DOMAIN directory \cup {u} |->
                    IF v = u THEN Record(u, aliases, status) ELSE directory[v]]

DirectoryDrops(u) ==
  /\ u \in DOMAIN directory
  /\ directory' = [v \in DOMAIN directory \ {u} |-> directory[v]]

DirectoryChanges(u) ==
  /\ changes < DirectoryBound /\ changes' = changes + 1
  /\ DirectoryLists(u) \/ DirectoryDrops(u)
  /\ directory' # directory
  /\ UNCHANGED <<identityKind, records, syncing, listing, markMissingStale,
                 incoming, loaded, synced, alone>>

-----------------------------------------------------------------------------
(* syncDirectoryUsersToCache *)

InProgress == {s \in Syncs : syncing[s] \in {"list", "put", "write"}}

(* The caller has listed the directory; with markMissingStale the cache is *)
(* listed next.                                                            *)
StartSync(s) ==
  /\ syncing[s] = "idle" /\ \A t \in 1..(s - 1) : syncing[t] # "idle"
  /\ listing' = [listing EXCEPT ![s] = directory]
  /\ \E order \in SetToSeqs(DOMAIN directory) :
       incoming' = [incoming EXCEPT ![s] = [i \in DOMAIN order |-> directory[order[i]]]]
  /\ \E marks \in BOOLEAN :
       /\ markMissingStale' = [markMissingStale EXCEPT ![s] = marks]
       /\ syncing' = [syncing EXCEPT ![s] = IF marks THEN "list" ELSE "put"]
  /\ alone' = IF InProgress = {} THEN {s} ELSE {}
  /\ UNCHANGED <<identityKind, directory, changes, records, loaded, synced>>

IsListed(s, id) == id \in DOMAIN listing[s]

Missed(s, record) == ~IsListed(s, record.id) /\ record.status # "stale"

(* The records of a listing of the cache that a sync's own listing misses, *)
(* as it is about to put them.                                             *)
MissingRecords(s, cached) ==
  LET missing[i \in 0..Len(cached)] ==
        IF i = 0 THEN <<>>
        ELSE IF Missed(s, cached[i])
             THEN Append(missing[i - 1], [cached[i] EXCEPT !.status = "stale"])
             ELSE missing[i - 1]
  IN  missing[Len(cached)]

ListExisting(s) ==
  /\ syncing[s] = "list" /\ syncing' = [syncing EXCEPT ![s] = "put"]
  /\ incoming' = [incoming EXCEPT ![s] = @ \o MissingRecords(s, CurrentList)]
  /\ UNCHANGED <<identityKind, directory, changes, records, listing, markMissingStale,
                 loaded, synced, alone>>

Ids(newRecords) == {record.id : record \in ToSet(newRecords)}

PutInMemory(s) ==
  /\ identityKind = "memory"
  /\ syncing[s] = "put" /\ syncing' = [syncing EXCEPT ![s] = "done"]
  /\ records' = PutMany(records, incoming[s])
  /\ synced' = synced \cup Ids(incoming[s])
  /\ incoming' = [incoming EXCEPT ![s] = <<>>]
  /\ UNCHANGED <<identityKind, directory, changes, listing, markMissingStale, loaded, alone>>

\* Mutant: the file is read outside the lock.
LoadFile_Unlocked(s) ==
  /\ identityKind = "file"
  /\ syncing[s] = "put" /\ syncing' = [syncing EXCEPT ![s] = "write"]
  /\ loaded' = [loaded EXCEPT ![s] = CurrentMap]
  /\ UNCHANGED <<identityKind, directory, changes, records, listing, markMissingStale,
                 incoming, synced, alone>>

(* putMany of the file cache: withFileStateLock, and the load inside it.   *)
LoadFile(s) ==
  /\ identityKind = "file" /\ \A t \in Syncs : syncing[t] # "write"
  /\ syncing[s] = "put" /\ syncing' = [syncing EXCEPT ![s] = "write"]
  /\ loaded' = [loaded EXCEPT ![s] = CurrentMap]
  /\ UNCHANGED <<identityKind, directory, changes, records, listing, markMissingStale,
                 incoming, synced, alone>>

(* ... and its write, which may fail.                                      *)
WriteFile(s) ==
  /\ syncing[s] = "write"
  /\ loaded' = [loaded EXCEPT ![s] = <<>>] /\ incoming' = [incoming EXCEPT ![s] = <<>>]
  /\ \/ /\ records' = ListRecords(PutMany(loaded[s], incoming[s]))
        /\ synced' = synced \cup Ids(incoming[s])
        /\ syncing' = [syncing EXCEPT ![s] = "done"]
     \/ syncing' = [syncing EXCEPT ![s] = "failed"] /\ UNCHANGED <<records, synced>>
  /\ UNCHANGED <<identityKind, directory, changes, listing, markMissingStale, alone>>

IdentityNext ==
  \/ \E u \in Users : DirectoryChanges(u)
  \/ \E s \in Syncs :
       StartSync(s) \/ ListExisting(s) \/ PutInMemory(s) \/ LoadFile(s) \/ WriteFile(s)

IdentitySpec == IdentityInit /\ [][IdentityNext]_identityVars

-----------------------------------------------------------------------------
IdentityTypeOK ==
  /\ syncing \in [Syncs -> Stages]
  /\ \A s \in Syncs : Ids(incoming[s]) \subseteq Users /\ DOMAIN listing[s] \subseteq Users
  /\ synced \subseteq Users /\ Cardinality(alone) <= 1

(* "Directory sync never hard-deletes missing users": a person who was ever*)
(* put into the cache is resolved by id, however many syncs overlap.       *)
NeverForgotten ==
  \A u \in synced :
    ResolveHumanIdentity([id |-> u, email |-> "none", displayName |-> "none"])
      = "directory_cache"

(* After a sync that no other one overlapped, each person it was given is  *)
(* found as the directory listed them, and, when it marks the missing,     *)
(* everyone else is stale.                                                 *)
SyncTakesEffect ==
  \A s \in alone :
    syncing[s] = "done" =>
      /\ \A u \in DOMAIN listing[s] : GetBy(ById(u)) = {listing[s][u]}
      /\ markMissingStale[s] =>
           \A u \in synced \ DOMAIN listing[s] : \A record \in GetBy(ById(u)) : record.status = "stale"
=============================================================================
