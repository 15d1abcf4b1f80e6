---------------------------- MODULE FileStateLock ----------------------------
(***************************************************************************)
(* withFileStateLock (packages/node/src/internal/file-state.ts:10-34): the *)
(* chain of promises by which the calls of one process take turns at a     *)
(* file.  A call appends its own promise to the chain of its file and      *)
(* waits for the one before it; the map forgets a file when the call that  *)
(* ends is the last of the chain.                                          *)
(*                                                                         *)
(* A member of Calls is one invocation, so it runs once.  Its tail promise *)
(* settles when it has released: by then the one before it has settled.    *)
(***************************************************************************)
EXTENDS Naturals

CONSTANTS
  Calls,
  Files,
  FileOf,   \* the file each call is about: path.resolve(filePath)
  None

ASSUME LockAssumption == FileOf \in [Calls -> Files] /\ None \notin Calls

VARIABLES
  locks,      \* for each file the last call of its chain, None when absent
  previous,   \* for each call the call it waits for, None when there is none
  stage,      \* how far each call is
  order,      \* history: the turn in which a call entered
  entered     \* history: how many calls have entered

lockVars == <<locks, previous, stage, order, entered>>

Stages == {"new", "waiting", "inside", "done"}

Init ==
  /\ locks = [f \in Files |-> None]
  /\ previous = [c \in Calls |-> None]
  /\ stage = [c \in Calls |-> "new"]
  /\ order = [c \in Calls |-> 0]
  /\ entered = 0

(* Up to the first await: nothing runs in between.                         *)
Enter(c) ==
  /\ stage[c] = "new"
  /\ stage' = [stage EXCEPT ![c] = "waiting"]
  /\ previous' = [previous EXCEPT ![c] = locks[FileOf[c]]]
  /\ locks' = [locks EXCEPT ![FileOf[c]] = c]
  /\ entered' = entered + 1
  /\ order' = [order EXCEPT ![c] = entered + 1]

Settled(p) == p # None => stage[p] = "done"

\* Mutant: a call that was not the first of its chain is never let in.
Acquire_First(c) ==
  /\ stage[c] = "waiting" /\ previous[c] = None
  /\ stage' = [stage EXCEPT ![c] = "inside"]
  /\ UNCHANGED <<locks, previous, order, entered>>

(* `await previous` returns, and the operation starts.                     *)
Acquire(c) ==
  /\ stage[c] = "waiting"
  /\ Settled(previous[c])
  /\ stage' = [stage EXCEPT ![c] = "inside"]
  /\ UNCHANGED <<locks, previous, order, entered>>

\* Mutant: the file's entry is deleted though another call has joined.
Release_Unchecked(c) ==
  /\ stage[c] = "inside"
  /\ stage' = [stage EXCEPT ![c] = "done"]
  /\ locks' = [locks EXCEPT ![FileOf[c]] = None]
  /\ UNCHANGED <<previous, order, entered>>

(* The `finally` block, whether the operation returned or threw.           *)
Release(c) ==
  /\ stage[c] = "inside"
  /\ stage' = [stage EXCEPT ![c] = "done"]
  /\ locks' = [locks EXCEPT ![FileOf[c]] = IF @ = c THEN None ELSE @]
  /\ UNCHANGED <<previous, order, entered>>

Step(c) == Acquire(c) \/ Release(c)

Next == \E c \in Calls : Enter(c) \/ Step(c)

Spec == Init /\ [][Next]_lockVars

-----------------------------------------------------------------------------
TypeOK ==
  /\ locks \in [Files -> Calls \cup {None}]
  /\ previous \in [Calls -> Calls \cup {None}]
  /\ stage \in [Calls -> Stages]
  /\ order \in [Calls -> Nat]
  /\ entered \in Nat

Active(c) == stage[c] \in {"waiting", "inside"}

(* Two operations on one file never overlap: the read-modify-write of a    *)
(* file store is atomic within the process.                                *)
MutualExclusion ==
  \A c, d \in Calls :
    stage[c] = "inside" /\ stage[d] = "inside" /\ FileOf[c] = FileOf[d] => c = d

(* Calls on one file run in the order in which they arrived.               *)
FirstComeFirstServed ==
  \A c, d \in Calls :
    /\ FileOf[c] = FileOf[d]
    /\ stage[c] \in {"inside", "done"} /\ stage[d] = "waiting"
    => order[c] < order[d]

(* The map does not grow with the files ever used: a file nobody is        *)
(* waiting for has no entry, and the entry of one in use is not lost.      *)
EntryIffInUse ==
  \A f \in Files :
    locks[f] # None <=> \E c \in Calls : FileOf[c] = f /\ Active(c)
=============================================================================
