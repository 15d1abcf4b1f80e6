--------------------------- MODULE ThreadFileLock ---------------------------
(***************************************************************************)
(* file_state_lock (packages/python/src/googlechatai/_file_state.py), the  *)
(* Python counterpart of FileStateLock: threads take turns at a file by a  *)
(* lock object, which the table of locks holds for as long as someone uses *)
(* it.  Unlike the promises of Node the threads interleave between any two *)
(* statements, the table apart, which has a guard; and nothing says who is *)
(* next.  No caller in the repository takes the lock of a file twice, so   *)
(* that the lock is an RLock does not matter.                              *)
(***************************************************************************)
EXTENDS Naturals, FiniteSets

CONSTANTS
  Threads,
  Paths,
  Objects,     \* the lock objects there can be at a time
  Nothing      \* no object, no thread, no path

ASSUME ThreadLockAssumption ==
  IsFiniteSet(Threads) /\ Nothing \notin Threads \cup Paths \cup Objects

VARIABLES
  lockEntry,   \* _locks: the object of each path
  lockUsers,   \* how many users an object counts
  lockOwner,   \* the thread that holds an object's lock
  threadAt,    \* how far each thread is with its call
  threadPath,  \* the path of the call
  threadRef    \* the object _lock_for gave it

threadLockVars == <<lockEntry, lockUsers, lockOwner, threadAt, threadPath, threadRef>>

ThreadLockInit ==
  /\ lockEntry = [p \in Paths |-> Nothing]
  /\ lockUsers = [o \in Objects |-> 0]
  /\ lockOwner = [o \in Objects |-> Nothing]
  /\ threadAt = [t \in Threads |-> "out"]
  /\ threadPath = [t \in Threads |-> Nothing]
  /\ threadRef = [t \in Threads |-> Nothing]

(* A new object is none that the table or a thread still refers to.        *)
Fresh(o) ==
  /\ \A p \in Paths : lockEntry[p] # o
  /\ \A t \in Threads : threadRef[t] # o

\* Mutant: a user of an object that is there already is not counted.
LockFor_Uncounted(t, p) ==
  /\ threadAt[t] = "out"
  /\ \E o \in Objects :
       /\ IF lockEntry[p] = Nothing THEN Fresh(o) ELSE o = lockEntry[p]
       /\ lockEntry' = [lockEntry EXCEPT ![p] = o]
       /\ lockUsers' = IF lockEntry[p] = Nothing THEN [lockUsers EXCEPT ![o] = 1] ELSE lockUsers
       /\ lockOwner' = IF lockEntry[p] = Nothing THEN [lockOwner EXCEPT ![o] = Nothing] ELSE lockOwner
       /\ threadRef' = [threadRef EXCEPT ![t] = o]
  /\ threadPath' = [threadPath EXCEPT ![t] = p]
  /\ threadAt' = [threadAt EXCEPT ![t] = "waiting"]

(* _lock_for, under the guard of the table.                                *)
LockFor(t, p) ==
  /\ threadAt[t] = "out"
  /\ \/ /\ lockEntry[p] # Nothing
        /\ lockUsers' = [lockUsers EXCEPT ![lockEntry[p]] = @ + 1]
        /\ threadRef' = [threadRef EXCEPT ![t] = lockEntry[p]]
        /\ UNCHANGED <<lockEntry, lockOwner>>
     \/ /\ lockEntry[p] = Nothing
        /\ \E o \in Objects :
             /\ Fresh(o)
             /\ lockEntry' = [lockEntry EXCEPT ![p] = o]
             /\ lockUsers' = [lockUsers EXCEPT ![o] = 1]
             /\ lockOwner' = [lockOwner EXCEPT ![o] = Nothing]
             /\ threadRef' = [threadRef EXCEPT ![t] = o]
  /\ threadPath' = [threadPath EXCEPT ![t] = p]
  /\ threadAt' = [threadAt EXCEPT ![t] = "waiting"]

AcquireLock(t) ==
  /\ threadAt[t] = "waiting" /\ lockOwner[threadRef[t]] = Nothing
  /\ lockOwner' = [lockOwner EXCEPT ![threadRef[t]] = t]
  /\ threadAt' = [threadAt EXCEPT ![t] = "inside"]
  /\ UNCHANGED <<lockEntry, lockUsers, threadPath, threadRef>>

(* The operation has returned, or raised.                                  *)
ReleaseLock(t) ==
  /\ threadAt[t] = "inside"
  /\ lockOwner' = [lockOwner EXCEPT ![threadRef[t]] = Nothing]
  /\ threadAt' = [threadAt EXCEPT ![t] = "leaving"]
  /\ UNCHANGED <<lockEntry, lockUsers, threadPath, threadRef>>

\* Mutant: the entry is deleted though another thread waits for the object.
LeaveLock_Unchecked(t) ==
  /\ threadAt[t] = "leaving"
  /\ lockUsers' = [lockUsers EXCEPT ![threadRef[t]] = @ - 1]
  /\ lockEntry' = [lockEntry EXCEPT ![threadPath[t]] = Nothing]
  /\ threadAt' = [threadAt EXCEPT ![t] = "out"]
  /\ threadRef' = [threadRef EXCEPT ![t] = Nothing]
  /\ threadPath' = [threadPath EXCEPT ![t] = Nothing]
  /\ UNCHANGED lockOwner

(* Under the guard again; the last user deletes the entry.                 *)
LeaveLock(t) ==
  LET object == threadRef[t]  path == threadPath[t]
  IN /\ threadAt[t] = "leaving"
     /\ lockUsers' = [lockUsers EXCEPT ![object] = @ - 1]
     /\ lockEntry' = IF lockUsers[object] = 1 /\ lockEntry[path] = object
                     THEN [lockEntry EXCEPT ![path] = Nothing] ELSE lockEntry
     /\ threadAt' = [threadAt EXCEPT ![t] = "out"]
     /\ threadRef' = [threadRef EXCEPT ![t] = Nothing]
     /\ threadPath' = [threadPath EXCEPT ![t] = Nothing]
     /\ UNCHANGED lockOwner

ThreadLockNext ==
  \E t \in Threads :
    \/ \E p \in Paths : LockFor(t, p)
    \/ AcquireLock(t) \/ ReleaseLock(t) \/ LeaveLock(t)

ThreadLockSpec == ThreadLockInit /\ [][ThreadLockNext]_threadLockVars

-----------------------------------------------------------------------------
(* No two threads are at one file at once, also when one comes just as the *)
(* last user of the file's lock deletes its entry; and a file that nobody  *)
(* uses has none.                                                          *)
OneThreadPerFile ==
  /\ \A t, u \in Threads :
       threadAt[t] = "inside" /\ threadAt[u] = "inside" /\ threadPath[t] = threadPath[u] => t = u
  /\ \A p \in Paths : lockEntry[p] # Nothing =>
       \E t \in Threads : threadAt[t] # "out" /\ threadPath[t] = p
=============================================================================
