------------------------- MODULE FileStateLockProofs -------------------------
(***************************************************************************)
(* Proofs about the two locks of a file, Node's chain of promises and the  *)
(* threads' table of locks, for any callers and files.  FileStateLock: the *)
(* inductive invariant says what the chain of promises knows: a waiting    *)
(* call points at the one that entered just before it, the map at the one  *)
(* that entered last, and whoever was let in has nobody unfinished before  *)
(* it.  ThreadFileLock: an object counts the threads that refer to it, and *)
(* whoever is past _lock_for refers to the object of the table.            *)
(* FileIdempotencyStore: inside the lock the file stays as it was read, so *)
(* that a rename is a decision of IdempotentClaim.                         *)
(***************************************************************************)
EXTENDS FileIdempotencyStore, ThreadFileLock, FiniteSetTheorems, TLAPS

Entered(c) == stage[c] # "new"

(* d entered before c, for the same file.                                  *)
Before(d, c) == FileOf[d] = FileOf[c] /\ Entered(d) /\ order[d] < order[c]

OrderInv ==
  /\ \A c \in Calls : order[c] <= entered
  /\ \A c, d \in Calls : Entered(c) /\ Entered(d) /\ order[c] = order[d] => c = d

ChainInv ==
  \A c \in Calls : stage[c] = "waiting" =>
    /\ previous[c] = None => \A d \in Calls : Before(d, c) => stage[d] = "done"
    /\ previous[c] # None =>
         /\ Before(previous[c], c)
         /\ \A d \in Calls : Before(d, c) => d = previous[c] \/ Before(d, previous[c])

TurnInv ==
  \A c, d \in Calls :
    stage[c] \in {"inside", "done"} /\ Before(d, c) => stage[d] = "done"

TailInv ==
  \A f \in Files :
    /\ locks[f] = None => \A c \in Calls : FileOf[c] = f => stage[c] \in {"new", "done"}
    /\ locks[f] # None =>
         /\ FileOf[locks[f]] = f /\ Active(locks[f])
         /\ \A c \in Calls : FileOf[c] = f /\ Entered(c) => order[c] <= order[locks[f]]

IInv == TypeOK /\ OrderInv /\ ChainInv /\ TurnInv /\ TailInv

(* The initial state satisfies the invariant: nobody has entered.          *)
LEMMA InitInv == Init => IInv
BY LockAssumption DEF Init, IInv, TypeOK, OrderInv, ChainInv, TurnInv, TailInv,
   Entered, Before, Active, Stages

(* A call that enters is the last of its chain, and knows the one before.  *)
LEMMA EnterInv ==
  ASSUME IInv, NEW c \in Calls, Enter(c)
  PROVE  IInv'
<1> USE LockAssumption DEF IInv, Entered, Before
<1>1. TypeOK'
  <2>1. FileOf[c] \in Files /\ locks[FileOf[c]] \in Calls \cup {None} BY DEF TypeOK
  <2>2. locks' \in [Files -> Calls \cup {None}] BY <2>1 DEF TypeOK, Enter
  <2>3. previous' \in [Calls -> Calls \cup {None}] BY <2>1 DEF TypeOK, Enter
  <2>4. stage' \in [Calls -> Stages] BY DEF TypeOK, Enter, Stages
  <2>5. order' \in [Calls -> Nat] /\ entered' \in Nat BY DEF TypeOK, Enter
  <2>6. QED BY <2>2, <2>3, <2>4, <2>5 DEF TypeOK
<1>2. /\ \A d \in Calls : d # c => /\ stage'[d] = stage[d] /\ order'[d] = order[d]
                                   /\ previous'[d] = previous[d]
      /\ stage'[c] = "waiting" /\ order'[c] = entered + 1
      /\ previous'[c] = locks[FileOf[c]] /\ entered' = entered + 1
      /\ \A f \in Files : locks'[f] = IF f = FileOf[c] THEN c ELSE locks[f]
      /\ stage[c] = "new"
  BY DEF TypeOK, Enter
<1>3. \A d \in Calls : order[d] \in Nat /\ order[d] < entered + 1
  BY DEF TypeOK, OrderInv
<1>4. OrderInv' BY <1>1, <1>2, <1>3 DEF OrderInv, TypeOK
<1>5. ChainInv'
  <2> SUFFICES ASSUME NEW d \in Calls, stage'[d] = "waiting"
               PROVE  /\ previous'[d] = None =>
                           \A e \in Calls : Before(e, d)' => stage'[e] = "done"
                      /\ previous'[d] # None =>
                           /\ Before(previous[d], d)'
                           /\ \A e \in Calls :
                                Before(e, d)' => e = previous'[d] \/ Before(e, previous[d])'
    BY DEF ChainInv
  <2>1. CASE d # c
    <3>1. ASSUME NEW e \in Calls, Before(e, d)' PROVE e # c /\ Before(e, d)
      <4>1. order'[e] < order[d] /\ stage'[e] # "new" BY <1>2, <2>1, <3>1
      <4>2. e # c BY <1>2, <1>3, <4>1
      <4>3. QED BY <1>2, <3>1, <4>1, <4>2
    <3>2. previous[d] # None => previous[d] \in Calls \ {c}
      BY <1>2, <2>1 DEF ChainInv, TypeOK
    <3>3. QED BY <1>2, <1>3, <2>1, <3>1, <3>2 DEF ChainInv
  <2>2. CASE d = c
    <3>1. ASSUME NEW e \in Calls, Before(e, c)'
          PROVE  e # c /\ Entered(e) /\ FileOf[e] = FileOf[c]
      <4>1. order'[e] < entered + 1 /\ stage'[e] # "new" /\ FileOf[e] = FileOf[c]
        BY <1>2, <3>1
      <4>2. e # c BY <1>2, <4>1 DEF TypeOK
      <4>3. QED BY <1>2, <4>1, <4>2
    <3>2. CASE locks[FileOf[c]] = None
      BY <1>2, <2>2, <3>1, <3>2 DEF TailInv
    <3>3. CASE locks[FileOf[c]] # None
      <4>1. PICK t \in Calls :
              t = locks[FileOf[c]] /\ t # c /\ FileOf[t] = FileOf[c] /\ Entered(t)
        BY <1>2, <3>3 DEF TailInv, TypeOK, Active
      <4>2. \A e \in Calls : FileOf[e] = FileOf[c] /\ Entered(e) => order[e] <= order[t]
        BY <3>3, <4>1 DEF TailInv
      <4>3. \A e \in Calls : FileOf[e] = FileOf[c] /\ Entered(e) /\ e # t => order[e] < order[t]
        BY <4>1, <4>2, <1>3 DEF OrderInv
      <4>4. Before(t, c)'
        <5>1. order'[t] < order'[c] /\ stage'[t] # "new" BY <1>2, <1>3, <4>1
        <5>2. QED BY <4>1, <5>1
      <4>5. \A e \in Calls : Before(e, c)' => e = t \/ Before(e, t)'
        BY <1>2, <3>1, <4>1, <4>3
      <4>6. QED BY <1>2, <2>2, <3>3, <4>1, <4>4, <4>5
    <3>4. QED BY <3>2, <3>3
  <2>3. QED BY <2>1, <2>2
<1>6. TurnInv'
  <2> SUFFICES ASSUME NEW a \in Calls, NEW d \in Calls,
                      stage'[a] \in {"inside", "done"}, Before(d, a)'
               PROVE  stage'[d] = "done"
    BY DEF TurnInv
  <2>1. a # c BY <1>2
  <2>2. d # c BY <1>2, <1>3, <2>1
  <2>3. QED BY <1>2, <2>1, <2>2 DEF TurnInv
<1>7. TailInv' BY <1>1, <1>2, <1>3 DEF TailInv, Active, TypeOK
<1>8. QED BY <1>1, <1>4, <1>5, <1>6, <1>7

(* A call is let in when everybody before it is done: its predecessor is,  *)
(* and so is everybody before the predecessor.                             *)
LEMMA AcquireInv ==
  ASSUME IInv, NEW c \in Calls, Acquire(c)
  PROVE  IInv'
<1> USE LockAssumption DEF IInv, Entered, Before
<1>1. TypeOK' BY DEF TypeOK, Acquire, Stages
<1>2. /\ \A d \in Calls : stage'[d] = IF d = c THEN "inside" ELSE stage[d]
      /\ order' = order /\ previous' = previous /\ locks' = locks /\ entered' = entered
      /\ stage[c] = "waiting"
  BY DEF TypeOK, Acquire
<1>3. OrderInv' BY <1>2 DEF OrderInv
<1>4. \A d \in Calls : Before(d, c) => stage[d] = "done"
  <2>1. CASE previous[c] = None BY <1>2, <2>1 DEF ChainInv
  <2>2. CASE previous[c] # None
    <3>1. previous[c] \in Calls /\ stage[previous[c]] = "done"
      BY <2>2 DEF Acquire, Settled, TypeOK
    <3>2. QED BY <1>2, <2>2, <3>1 DEF ChainInv, TurnInv
  <2>3. QED BY <2>1, <2>2
<1>5. ChainInv' BY <1>2 DEF ChainInv, TypeOK
<1>6. TurnInv' BY <1>2, <1>4 DEF TurnInv
<1>7. TailInv' BY <1>2 DEF TailInv, Active, TypeOK
<1>8. QED BY <1>1, <1>3, <1>5, <1>6, <1>7

(* A call that ends deletes the entry of its file only when it is the last *)
(* of the chain, and then everybody else is done.                          *)
LEMMA ReleaseInv ==
  ASSUME IInv, NEW c \in Calls, Release(c)
  PROVE  IInv'
<1> USE LockAssumption DEF IInv, Entered, Before
<1>1. TypeOK' BY DEF TypeOK, Release, Stages
<1>2. /\ \A d \in Calls : stage'[d] = IF d = c THEN "done" ELSE stage[d]
      /\ order' = order /\ previous' = previous /\ entered' = entered
      /\ \A f \in Files : locks'[f] = IF f = FileOf[c] /\ locks[f] = c THEN None ELSE locks[f]
      /\ stage[c] = "inside"
  BY DEF TypeOK, Release
<1>3. OrderInv' BY <1>2 DEF OrderInv
<1>4. ChainInv' BY <1>2 DEF ChainInv, TypeOK
<1>5. TurnInv' BY <1>2 DEF TurnInv
<1>6. TailInv'
  <2> SUFFICES ASSUME NEW f \in Files
               PROVE  /\ locks'[f] = None =>
                           \A d \in Calls : FileOf[d] = f => stage'[d] \in {"new", "done"}
                      /\ locks'[f] # None =>
                           /\ FileOf[locks'[f]] = f /\ Active(locks[f])'
                           /\ \A d \in Calls : FileOf[d] = f /\ stage'[d] # "new" =>
                                order'[d] <= order'[locks'[f]]
    BY DEF TailInv
  <2>1. CASE f = FileOf[c] /\ locks[f] = c
    <3>1. \A d \in Calls : FileOf[d] = f /\ Entered(d) /\ d # c => Before(d, c)
      BY <1>2, <2>1 DEF TailInv, OrderInv, TypeOK
    <3>2. QED BY <1>2, <2>1, <3>1 DEF TurnInv
  <2>2. CASE f = FileOf[c] /\ locks[f] # c
    <3>1. locks[f] # None BY <1>2, <2>2 DEF TailInv
    <3>2. QED BY <1>2, <2>2, <3>1 DEF TailInv, Active, TypeOK
  <2>3. CASE f # FileOf[c]
    BY <1>2, <2>3 DEF TailInv, Active, TypeOK
  <2>4. QED BY <2>1, <2>2, <2>3
<1>7. QED BY <1>1, <1>3, <1>4, <1>5, <1>6

(* Every step keeps the invariant.                                         *)
LEMMA NextInv == IInv /\ [Next]_lockVars => IInv'
<1> SUFFICES ASSUME IInv, [Next]_lockVars PROVE IInv'
  OBVIOUS
<1>1. ASSUME NEW c \in Calls, Enter(c) PROVE IInv'
  BY <1>1, EnterInv
<1>2. ASSUME NEW c \in Calls, Step(c) PROVE IInv'
  BY <1>2, AcquireInv, ReleaseInv DEF Step
<1>3. CASE UNCHANGED lockVars
  BY <1>3 DEF lockVars, IInv, TypeOK, OrderInv, ChainInv, TurnInv, TailInv,
     Entered, Before, Active
<1>4. QED BY <1>1, <1>2, <1>3 DEF Next

(* The invariant holds in every state of every behaviour.                  *)
THEOREM LockInvariant == Spec => []IInv
BY InitInv, NextInv, PTL DEF Spec

-----------------------------------------------------------------------------
(* Two operations on one file never overlap, for any number of calls and   *)
(* files: of two that are inside, the earlier one would have to be done.   *)
THEOREM Exclusive == Spec => []MutualExclusion
<1>1. IInv => MutualExclusion
  <2> SUFFICES ASSUME IInv, NEW c \in Calls, NEW d \in Calls,
                      stage[c] = "inside", stage[d] = "inside", FileOf[c] = FileOf[d]
               PROVE  c = d
    BY DEF MutualExclusion
  <2>1. ~Before(c, d) /\ ~Before(d, c) BY DEF IInv, TurnInv
  <2>2. order[c] = order[d] BY <2>1 DEF Before, Entered, IInv, TypeOK
  <2>3. QED BY <2>2 DEF IInv, OrderInv, Entered
<1>2. QED BY <1>1, LockInvariant, PTL

(* Calls on one file are let in in the order in which they arrived.        *)
THEOREM InOrder == Spec => []FirstComeFirstServed
<1>1. IInv => FirstComeFirstServed
  <2> SUFFICES ASSUME IInv, NEW c \in Calls, NEW d \in Calls, FileOf[c] = FileOf[d],
                      stage[c] \in {"inside", "done"}, stage[d] = "waiting"
               PROVE  order[c] < order[d]
    BY DEF FirstComeFirstServed
  <2>1. ~Before(d, c) BY DEF IInv, TurnInv
  <2>2. c # d /\ Entered(c) /\ Entered(d) BY DEF Entered
  <2>3. order[c] # order[d] BY <2>2 DEF IInv, OrderInv
  <2>4. QED BY <2>1, <2>2, <2>3 DEF Before, IInv, TypeOK
<1>2. QED BY <1>1, LockInvariant, PTL

(* The map of chains has an entry for a file exactly while it is in use.   *)
THEOREM NoEntryLeaks == Spec => []EntryIffInUse
<1>1. IInv => EntryIffInUse
  BY LockAssumption DEF IInv, TailInv, EntryIffInUse, TypeOK, Active
<1>2. QED BY <1>1, LockInvariant, PTL

-----------------------------------------------------------------------------
UsersOf(o) == {t \in Threads : threadRef[t] = o}

ThreadTypeOK ==
  /\ lockEntry \in [Paths -> Objects \cup {Nothing}]
  /\ lockUsers \in [Objects -> Nat]
  /\ lockOwner \in [Objects -> Threads \cup {Nothing}]
  /\ threadAt \in [Threads -> {"out", "waiting", "inside", "leaving"}]
  /\ threadPath \in [Threads -> Paths \cup {Nothing}]
  /\ threadRef \in [Threads -> Objects \cup {Nothing}]

(* Past _lock_for the table's object is the one the thread was given.      *)
RefInv ==
  \A t \in Threads :
    /\ threadAt[t] = "out" => threadRef[t] = Nothing
    /\ threadAt[t] # "out" =>
         /\ threadPath[t] \in Paths /\ threadRef[t] \in Objects
         /\ lockEntry[threadPath[t]] = threadRef[t]

CountInv == \A o \in Objects : lockUsers[o] = Cardinality(UsersOf(o))

EntryInv ==
  /\ \A p, q \in Paths : lockEntry[p] = lockEntry[q] /\ lockEntry[p] # Nothing => p = q
  /\ \A p \in Paths : lockEntry[p] # Nothing => \E t \in Threads : threadRef[t] = lockEntry[p]

OwnerInv == \A t \in Threads : threadAt[t] = "inside" => lockOwner[threadRef[t]] = t

ThreadIInv == ThreadTypeOK /\ RefInv /\ CountInv /\ EntryInv /\ OwnerInv

(* Nobody refers to anything at first.                                     *)
LEMMA ThreadInitInv == ThreadLockInit => ThreadIInv
<1> SUFFICES ASSUME ThreadLockInit PROVE ThreadIInv
  OBVIOUS
<1> USE ThreadLockAssumption DEF ThreadLockInit
<1>1. CountInv
  <2>1. \A o \in Objects : UsersOf(o) = {} BY DEF UsersOf
  <2>2. QED BY <2>1, FS_EmptySet DEF CountInv
<1>2. QED BY <1>1 DEF ThreadIInv, ThreadTypeOK, RefInv, EntryInv, OwnerInv

(* What a set of threads loses or gains by one of them, it counts.         *)
LEMMA UsersFinite == \A o : IsFiniteSet(UsersOf(o)) /\ Cardinality(UsersOf(o)) \in Nat
BY ThreadLockAssumption, FS_Subset, FS_CardinalityType DEF UsersOf

(* A thread that takes a reference joins the users of the file's object,   *)
(* or is the first user of a new one.                                      *)
LEMMA LockForInv ==
  ASSUME ThreadIInv, NEW t \in Threads, NEW p \in Paths, LockFor(t, p)
  PROVE  ThreadIInv'
<1> USE ThreadLockAssumption DEF ThreadIInv, ThreadTypeOK
<1>1. PICK o \in Objects :
        /\ lockEntry' = [lockEntry EXCEPT ![p] = o]
        /\ threadRef' = [threadRef EXCEPT ![t] = o]
        /\ \/ /\ lockEntry[p] = o
              /\ lockUsers' = [lockUsers EXCEPT ![o] = @ + 1] /\ lockOwner' = lockOwner
           \/ /\ lockEntry[p] = Nothing /\ Fresh(o)
              /\ lockUsers' = [lockUsers EXCEPT ![o] = 1]
              /\ lockOwner' = [lockOwner EXCEPT ![o] = Nothing]
  <2>1. CASE lockEntry[p] # Nothing
    <3>1. lockEntry[p] \in Objects BY <2>1
    <3>2. lockEntry' = [lockEntry EXCEPT ![p] = lockEntry[p]] BY <2>1 DEF LockFor
    <3>3. QED BY <2>1, <3>1, <3>2 DEF LockFor
  <2>2. CASE lockEntry[p] = Nothing BY <2>2 DEF LockFor
  <2>3. QED BY <2>1, <2>2
<1>2. /\ threadAt[t] = "out" /\ threadRef[t] = Nothing
      /\ threadPath' = [threadPath EXCEPT ![t] = p]
      /\ threadAt' = [threadAt EXCEPT ![t] = "waiting"]
  BY DEF LockFor, RefInv
<1>3. ThreadTypeOK' BY <1>1, <1>2
<1>4. \A u \in Threads : threadAt[u] # "out" /\ threadPath[u] = p => threadRef[u] = o
  BY <1>1 DEF RefInv
<1>5. RefInv' BY <1>1, <1>2, <1>4 DEF RefInv
<1>6. CountInv'
  <2> SUFFICES ASSUME NEW x \in Objects PROVE lockUsers'[x] = Cardinality(UsersOf(x)')
    BY DEF CountInv
  <2>1. CASE x # o
    <3>1. UsersOf(x)' = UsersOf(x) BY <1>1, <1>2, <2>1 DEF UsersOf
    <3>2. QED BY <1>1, <2>1, <3>1 DEF CountInv
  <2>2. CASE x = o
    <3>1. UsersOf(o)' = UsersOf(o) \cup {t} /\ t \notin UsersOf(o)
      BY <1>1, <1>2 DEF UsersOf
    <3>2. Cardinality(UsersOf(o)') = Cardinality(UsersOf(o)) + 1
      BY <3>1, UsersFinite, FS_AddElement
    <3>3. Fresh(o) => UsersOf(o) = {} BY DEF Fresh, UsersOf
    <3>4. Fresh(o) => Cardinality(UsersOf(o)) = 0 BY <3>3, FS_EmptySet
    <3>5. lockUsers[o] = Cardinality(UsersOf(o)) BY DEF CountInv
    <3>6. QED BY <1>1, <2>2, <3>2, <3>4, <3>5
  <2>3. QED BY <2>1, <2>2
<1>7. EntryInv'
  <2>1. \A q \in Paths : q # p => lockEntry[q] # o BY <1>1 DEF EntryInv, Fresh
  <2>2. \A q, r \in Paths : lockEntry'[q] = lockEntry'[r] /\ lockEntry'[q] # Nothing => q = r
    BY <1>1, <2>1 DEF EntryInv
  <2>3. ASSUME NEW q \in Paths, lockEntry'[q] # Nothing
        PROVE  \E u \in Threads : threadRef'[u] = lockEntry'[q]
    <3>1. CASE q = p BY <1>1, <3>1
    <3>2. CASE q # p
      <4>1. PICK u \in Threads : threadRef[u] = lockEntry[q] BY <1>1, <2>3, <3>2 DEF EntryInv
      <4>2. u # t BY <1>1, <1>2, <2>3, <3>2, <4>1
      <4>3. QED BY <1>1, <3>2, <4>1, <4>2
    <3>3. QED BY <3>1, <3>2
  <2>4. QED BY <2>2, <2>3 DEF EntryInv
<1>8. OwnerInv' BY <1>1, <1>2 DEF OwnerInv, Fresh, RefInv
<1>9. QED BY <1>3, <1>5, <1>6, <1>7, <1>8

(* A lock is taken only when nobody holds it.                              *)
LEMMA AcquireLockInv ==
  ASSUME ThreadIInv, NEW t \in Threads, AcquireLock(t)
  PROVE  ThreadIInv'
<1> USE ThreadLockAssumption DEF ThreadIInv, ThreadTypeOK, AcquireLock
<1>1. threadRef[t] \in Objects BY DEF RefInv
<1>2. ThreadTypeOK' BY <1>1
<1>3. RefInv' BY DEF RefInv
<1>4. CountInv' BY DEF CountInv, UsersOf
<1>5. EntryInv' BY DEF EntryInv
<1>6. OwnerInv' BY <1>1 DEF OwnerInv, RefInv
<1>7. QED BY <1>2, <1>3, <1>4, <1>5, <1>6

(* A lock is given up by its owner alone.                                  *)
LEMMA ReleaseLockInv ==
  ASSUME ThreadIInv, NEW t \in Threads, ReleaseLock(t)
  PROVE  ThreadIInv'
<1> USE ThreadLockAssumption DEF ThreadIInv, ThreadTypeOK, ReleaseLock
<1>1. threadRef[t] \in Objects BY DEF RefInv
<1>2. ThreadTypeOK' BY <1>1
<1>3. RefInv' BY DEF RefInv
<1>4. CountInv' BY DEF CountInv, UsersOf
<1>5. EntryInv' BY DEF EntryInv
<1>6. OwnerInv' BY <1>1 DEF OwnerInv, RefInv
<1>7. QED BY <1>2, <1>3, <1>4, <1>5, <1>6

(* The entry is deleted exactly when the thread that leaves was the only   *)
(* one that referred to it.                                                *)
LEMMA LeaveLockInv ==
  ASSUME ThreadIInv, NEW t \in Threads, LeaveLock(t)
  PROVE  ThreadIInv'
<1> USE ThreadLockAssumption DEF ThreadIInv, ThreadTypeOK
<1>1. PICK o \in Objects, p \in Paths :
        /\ o = threadRef[t] /\ p = threadPath[t]
        /\ lockEntry[p] = o /\ threadAt[t] = "leaving"
  BY DEF RefInv, LeaveLock
<1>2. /\ lockUsers' = [lockUsers EXCEPT ![o] = @ - 1] /\ lockOwner' = lockOwner
      /\ lockEntry' = IF lockUsers[o] = 1 THEN [lockEntry EXCEPT ![p] = Nothing] ELSE lockEntry
      /\ threadAt' = [threadAt EXCEPT ![t] = "out"]
      /\ threadRef' = [threadRef EXCEPT ![t] = Nothing]
      /\ threadPath' = [threadPath EXCEPT ![t] = Nothing]
  BY <1>1 DEF LeaveLock
<1>3. /\ t \in UsersOf(o) /\ UsersOf(o)' = UsersOf(o) \ {t}
      /\ \A x \in Objects : x # o => UsersOf(x)' = UsersOf(x)
  BY <1>1, <1>2 DEF UsersOf
<1>4. /\ lockUsers[o] = Cardinality(UsersOf(o)) /\ IsFiniteSet(UsersOf(o)')
      /\ Cardinality(UsersOf(o)') = Cardinality(UsersOf(o)) - 1
      /\ Cardinality(UsersOf(o)') \in Nat
  BY <1>1, <1>3, UsersFinite, FS_RemoveElement, FS_CardinalityType DEF CountInv
<1>5. lockUsers[o] = 1 <=> UsersOf(o)' = {}
  BY <1>4, UsersFinite, FS_EmptySet
<1>6. ThreadTypeOK' BY <1>1, <1>2, <1>4
<1>7. RefInv'
  <2>1. ASSUME NEW u \in Threads, u # t, threadAt[u] # "out", threadPath[u] = p
        PROVE  lockUsers[o] # 1
    <3>1. u \in UsersOf(o)' BY <1>1, <1>3, <2>1 DEF RefInv, UsersOf
    <3>2. QED BY <1>5, <3>1
  <2>2. QED BY <1>1, <1>2, <2>1 DEF RefInv
<1>8. CountInv'
  <2> SUFFICES ASSUME NEW x \in Objects PROVE lockUsers'[x] = Cardinality(UsersOf(x)')
    BY DEF CountInv
  <2>1. CASE x = o BY <1>2, <1>4, <2>1
  <2>2. CASE x # o BY <1>2, <1>3, <2>2 DEF CountInv
  <2>3. QED BY <2>1, <2>2
<1>9. EntryInv'
  <2>1. \A q, r \in Paths : lockEntry'[q] = lockEntry'[r] /\ lockEntry'[q] # Nothing => q = r
    BY <1>1, <1>2 DEF EntryInv
  <2>2. ASSUME NEW q \in Paths, lockEntry'[q] # Nothing
        PROVE  \E u \in Threads : threadRef'[u] = lockEntry'[q]
    <3>1. CASE q = p
      <4>1. lockUsers[o] # 1 BY <1>1, <1>2, <2>2, <3>1
      <4>2. PICK u \in Threads : u \in UsersOf(o)' BY <1>5, <4>1 DEF UsersOf
      <4>3. QED BY <1>1, <1>2, <3>1, <4>1, <4>2 DEF UsersOf
    <3>2. CASE q # p
      <4>1. lockEntry'[q] = lockEntry[q] /\ lockEntry[q] # o
        BY <1>1, <1>2, <2>2, <3>2 DEF EntryInv
      <4>2. PICK u \in Threads : threadRef[u] = lockEntry[q] BY <2>2, <4>1 DEF EntryInv
      <4>3. u # t BY <1>1, <4>1, <4>2
      <4>4. QED BY <1>2, <4>1, <4>2, <4>3
    <3>3. QED BY <3>1, <3>2
  <2>3. QED BY <2>1, <2>2 DEF EntryInv
<1>10. OwnerInv' BY <1>1, <1>2 DEF OwnerInv
<1>11. QED BY <1>6, <1>7, <1>8, <1>9, <1>10

(* However threads interleave, no two are at one file at once, and a file  *)
(* that nobody uses has no entry in the table of locks.                    *)
THEOREM ThreadsTakeTurns == ThreadLockSpec => []OneThreadPerFile
<1>1. ThreadIInv /\ [ThreadLockNext]_threadLockVars => ThreadIInv'
  <2> SUFFICES ASSUME ThreadIInv, [ThreadLockNext]_threadLockVars PROVE ThreadIInv'
    OBVIOUS
  <2>1. ASSUME NEW t \in Threads, NEW p \in Paths, LockFor(t, p) PROVE ThreadIInv'
    BY <2>1, LockForInv
  <2>2. ASSUME NEW t \in Threads, AcquireLock(t) \/ ReleaseLock(t) \/ LeaveLock(t)
        PROVE  ThreadIInv'
    BY <2>2, AcquireLockInv, ReleaseLockInv, LeaveLockInv
  <2>3. CASE UNCHANGED threadLockVars
    BY <2>3 DEF threadLockVars, ThreadIInv, ThreadTypeOK, RefInv, CountInv, UsersOf,
       EntryInv, OwnerInv
  <2>4. QED BY <2>1, <2>2, <2>3 DEF ThreadLockNext
<1>2. ThreadIInv => OneThreadPerFile
  <2> SUFFICES ASSUME ThreadIInv PROVE OneThreadPerFile
    OBVIOUS
  <2> USE ThreadLockAssumption DEF ThreadIInv, ThreadTypeOK
  <2>1. \A t, u \in Threads :
          threadAt[t] = "inside" /\ threadAt[u] = "inside" /\ threadPath[t] = threadPath[u]
            => t = u
    BY DEF RefInv, OwnerInv
  <2>2. \A p \in Paths : lockEntry[p] # Nothing =>
          \E t \in Threads : threadAt[t] # "out" /\ threadPath[t] = p
    BY DEF RefInv, EntryInv
  <2>3. QED BY <2>1, <2>2 DEF OneThreadPerFile
<1>3. QED BY <1>1, <1>2, ThreadInitInv, PTL DEF ThreadLockSpec

-----------------------------------------------------------------------------
(* The file store: the lock with what happens inside it, and crashes.      *)

(* A crash ends every call that has entered, and forgets the chains.       *)
LEMMA CrashLockInv ==
  ASSUME IInv, Crash
  PROVE  IInv'
<1>1. /\ \A c \in Calls : stage'[c] = IF Active(c) THEN "done" ELSE stage[c]
      /\ \A f \in Files : locks'[f] = None
      /\ UNCHANGED <<previous, order, entered>>
  BY DEF Crash
<1>2. \A c \in Calls : stage'[c] \in {"new", "done"} /\ (stage'[c] # "new" <=> stage[c] # "new")
  BY <1>1 DEF IInv, TypeOK, Stages, Active
<1>3. TypeOK' BY <1>1, <1>2 DEF Crash, IInv, TypeOK, Stages
<1>4. OrderInv' BY <1>1, <1>2 DEF IInv, OrderInv, Entered
<1>5. ChainInv' /\ TurnInv' BY <1>2 DEF ChainInv, TurnInv, Before, Entered
<1>6. TailInv' BY <1>1, <1>2 DEF TailInv
<1>7. QED BY <1>3, <1>4, <1>5, <1>6 DEF IInv

LEMMA StoreLockNext == IInv /\ [StoreNext]_vars => IInv'
<1> SUFFICES ASSUME IInv, [StoreNext]_vars PROVE IInv'
  OBVIOUS
<1>1. ASSUME NEW c \in Calls, Claim(c) \/ Progress(c) \/ Fail(c)
      PROVE  [Next]_lockVars
  BY <1>1 DEF Claim, Progress, LockGranted, Read, WriteTemporary, Rename, Return, Fail,
              Next, Step
<1>2. CASE Tick \/ UNCHANGED vars
  <2>1. UNCHANGED lockVars BY <1>2 DEF Tick, vars
  <2>2. QED BY <2>1, NextInv
<1>3. QED BY <1>1, <1>2, NextInv, CrashLockInv DEF StoreNext

LEMMA StoreLockInvariant == StoreSpec => []IInv
<1>1. StoreInit => IInv BY InitInv DEF StoreInit
<1>2. QED BY <1>1, StoreLockNext, PTL DEF StoreSpec

(* Claims on the file are decided in the order in which they were made,    *)
(* whichever of them fail and whenever the process crashes.                *)
THEOREM ClaimsInOrder == StoreSpec => []FirstComeFirstServed
<1>1. IInv => FirstComeFirstServed
  <2> SUFFICES ASSUME IInv, NEW c \in Calls, NEW d \in Calls, FileOf[c] = FileOf[d],
                      stage[c] \in {"inside", "done"}, stage[d] = "waiting"
               PROVE  order[c] < order[d]
    BY DEF FirstComeFirstServed
  <2>1. ~Before(d, c) BY DEF IInv, TurnInv
  <2>2. c # d /\ Entered(c) /\ Entered(d) BY DEF Entered
  <2>3. order[c] # order[d] BY <2>2 DEF IInv, OrderInv
  <2>4. QED BY <2>1, <2>2, <2>3 DEF Before, IInv, TypeOK
<1>2. QED BY <1>1, StoreLockInvariant, PTL

-----------------------------------------------------------------------------
(* The keys in use do not outnumber maxEntries.                            *)
KeysFit == IsFiniteSet(Keys) /\ Cardinality(Keys) <= MaxEntries

IsMap(stored) ==
  /\ DOMAIN stored \subseteq Keys
  /\ stored = [k \in DOMAIN stored |-> stored[k]]
  /\ \A k \in DOMAIN stored : stored[k] \in Entry

Valid(stored, k, nowMs) == k \in DOMAIN stored /\ stored[k].expires > nowMs

(* Then no entry has to go.                                                *)
LEMMA NothingEvicted ==
  ASSUME KeysFit, NEW stored, IsMap(stored), NEW left \in EnforceMaxEntries(stored)
  PROVE  left = stored
<1>1. /\ IsFiniteSet(DOMAIN stored) /\ Cardinality(DOMAIN stored) <= Cardinality(Keys)
      /\ Cardinality(DOMAIN stored) \in Nat /\ Cardinality(Keys) \in Nat
  BY FS_Subset, FS_CardinalityType DEF KeysFit, IsMap
<1>2. Cardinality(DOMAIN stored) <= MaxEntries BY <1>1, StoreAssumption DEF KeysFit
<1>3. PICK kept \in SUBSET DOMAIN stored :
        /\ left = Restrict(stored, kept)
        /\ Cardinality(kept) = Cardinality(DOMAIN stored)
  BY <1>1, <1>2, StoreAssumption DEF EnforceMaxEntries
<1>4. kept = DOMAIN stored BY <1>1, <1>3, FS_Subset
<1>5. QED BY <1>3, <1>4 DEF Restrict, IsMap

LEMMA PurgedMap ==
  ASSUME NEW stored, IsMap(stored), NEW nowMs \in Nat
  PROVE  /\ IsMap(PurgeExpired(stored, nowMs))
         /\ \A k : k \in DOMAIN PurgeExpired(stored, nowMs) <=> Valid(stored, k, nowMs)
         /\ \A k \in DOMAIN PurgeExpired(stored, nowMs) :
              PurgeExpired(stored, nowMs)[k] = stored[k]
BY DEF PurgeExpired, Restrict, IsMap, Valid

(* What a claim does to the map: the entries that are still valid stay, and *)
(* the key's own is new if it had none.                                    *)
LEMMA ClaimEffect ==
  ASSUME KeysFit, NEW stored, IsMap(stored), NEW k \in Keys, NEW nowMs \in Nat,
         NEW claim \in ClaimInMap(stored, k, nowMs)
  PROVE  /\ IsMap(claim.entries)
         /\ \A j \in Keys \ {k} :
              /\ j \in DOMAIN claim.entries <=> Valid(stored, j, nowMs)
              /\ j \in DOMAIN claim.entries => claim.entries[j].expires = stored[j].expires
         /\ k \in DOMAIN claim.entries
         /\ \/ /\ claim.verdict = "duplicate" /\ Valid(stored, k, nowMs)
               /\ claim.entries[k].expires = stored[k].expires
            \/ /\ claim.verdict = "claimed" /\ ~Valid(stored, k, nowMs)
               /\ claim.entries[k].expires = nowMs + Ttl
<1> DEFINE live == PurgeExpired(stored, nowMs)
           entry == [expires |-> nowMs + Ttl, seenCount |-> 1]
<1>1. /\ IsMap(live)
      /\ \A j : j \in DOMAIN live <=> Valid(stored, j, nowMs)
      /\ \A j \in DOMAIN live : live[j] = stored[j]
  BY PurgedMap
<1>2. CASE k \in DOMAIN live
  <2>1. claim = [verdict |-> "duplicate", entries |-> [live EXCEPT ![k].seenCount = @ + 1]]
    BY <1>2 DEF ClaimInMap
  <2> HIDE DEF live
  <2> DEFINE counted == [live[k] EXCEPT !.seenCount = @ + 1]
  <2>2. live[k] \in Entry BY <1>1, <1>2 DEF IsMap
  <2>3. counted \in Entry /\ counted.expires = live[k].expires BY <2>2 DEF Entry
  <2>4. claim.entries = [live EXCEPT ![k] = counted] BY <2>1
  <2> HIDE DEF counted
  <2>5. /\ DOMAIN claim.entries = DOMAIN live /\ claim.entries[k] = counted
        /\ \A j \in DOMAIN live \ {k} : claim.entries[j] = live[j]
        /\ claim.entries = [j \in DOMAIN claim.entries |-> claim.entries[j]]
    BY <1>1, <1>2, <2>4 DEF IsMap
  <2>6. IsMap(claim.entries) BY <1>1, <2>3, <2>5 DEF IsMap
  <2>7. claim.verdict = "duplicate" BY <2>1
  <2>8. QED BY <1>1, <1>2, <2>3, <2>5, <2>6, <2>7
<1>3. CASE k \notin DOMAIN live
  <2>1. PICK e \in EnforceMaxEntries(Extended(live, k, entry)) :
          claim = [verdict |-> "claimed", entries |-> e]
    BY <1>3 DEF ClaimInMap
  <2> HIDE DEF live
  <2>2. entry \in Entry /\ entry.expires = nowMs + Ttl BY StoreAssumption DEF Entry
  <2> HIDE DEF entry
  <2>3. /\ DOMAIN Extended(live, k, entry) = DOMAIN live \cup {k}
        /\ Extended(live, k, entry)[k] = entry
        /\ \A j \in DOMAIN live : Extended(live, k, entry)[j] = live[j]
        /\ Extended(live, k, entry) = [j \in DOMAIN Extended(live, k, entry)
                                        |-> Extended(live, k, entry)[j]]
    BY <1>3 DEF Extended
  <2>4. IsMap(Extended(live, k, entry)) BY <1>1, <2>2, <2>3 DEF IsMap
  <2>5. claim.entries = Extended(live, k, entry) BY <2>1, <2>4, NothingEvicted
  <2>6. claim.verdict = "claimed" BY <2>1
  <2>7. QED BY <1>1, <1>3, <2>2, <2>3, <2>4, <2>5, <2>6
<1>4. QED BY <1>2, <1>3

-----------------------------------------------------------------------------
StoreShape ==
  /\ clock \in Nat /\ IsMap(file)
  /\ step \in [Calls -> {"read", "write", "rename", "return"}]
  /\ entries = [c \in Calls |-> entries[c]]
  /\ since \in [Calls -> Nat]
  /\ answer \in [Calls -> {"none", "pending", "claimed", "duplicate", "error"}]
  /\ decided \in [Calls -> {"none", "claimed", "duplicate"}]

(* A call begins with its read and waits for its answer while it is active.*)
StepInv ==
  \A c \in Calls :
    /\ stage[c] \in {"new", "waiting"} => step[c] = "read"
    /\ stage[c] = "new" => answer[c] = "none"
    /\ Active(c) => answer[c] = "pending"
    /\ since[c] <= clock

(* What a call is about to write follows from the file as it still is, at  *)
(* a time during the call.                                                 *)
ReadInv ==
  \A c \in Calls : stage[c] = "inside" /\ step[c] \in {"write", "rename"} =>
    \E nowMs \in Nat : \E claim \in ClaimInMap(file, KeyOf[c], nowMs) :
      /\ since[c] <= nowMs /\ nowMs <= clock
      /\ entries[c] = claim.entries /\ decided[c] = claim.verdict

StoreInv == IInv /\ StoreShape /\ StepInv /\ ReadInv

(* There is one file, so nobody else is inside.                            *)
LEMMA OneInside ==
  ASSUME IInv, NEW c \in Calls, NEW d \in Calls, stage[c] = "inside", stage[d] = "inside"
  PROVE  c = d
<1>1. FileOf[c] \in Files /\ FileOf[d] \in Files BY LockAssumption
<1>2. FileOf[c] = FileOf[d]
  <2>1. PICK f : Files = {f} BY StoreAssumption
  <2>2. QED BY <1>1, <2>1
<1>3. ~Before(c, d) /\ ~Before(d, c) BY DEF IInv, TurnInv
<1>4. order[c] = order[d] BY <1>2, <1>3 DEF Before, Entered, IInv, TypeOK
<1>5. QED BY <1>4 DEF IInv, OrderInv, Entered

LEMMA StoreInitInv == StoreInit => StoreInv
<1> SUFFICES ASSUME StoreInit PROVE StoreInv
  OBVIOUS
<1>1. IInv BY InitInv DEF StoreInit
<1>2. StoreShape BY DEF StoreInit, StoreShape, IsMap, NoEntries
<1>3. StepInv
  <2>1. \A c \in Calls : /\ stage[c] = "new" /\ step[c] = "read" /\ answer[c] = "none"
                         /\ since[c] = 0 /\ clock = 1
    BY DEF StoreInit, Init
  <2>2. \A c \in Calls : since[c] <= clock
    <3>1. 0 <= 1 OBVIOUS
    <3>2. QED BY <2>1, <3>1
  <2>3. \A c \in Calls : ~Active(c) BY <2>1 DEF Active
  <2>4. QED BY <2>1, <2>2, <2>3 DEF StepInv
<1>4. ReadInv
  <2>1. \A c \in Calls : step[c] \notin {"write", "rename"} BY DEF StoreInit
  <2>2. QED BY <2>1 DEF ReadInv
<1>5. QED BY <1>1, <1>2, <1>3, <1>4 DEF StoreInv

(* Another call is unaffected as long as the file stays.                   *)
LEMMA ReadKept ==
  ASSUME ReadInv, UNCHANGED file, clock' \in Nat, clock \in Nat, clock <= clock', NEW c \in Calls,
         stage'[c] = "inside" /\ step'[c] \in {"write", "rename"} =>
           /\ stage[c] = "inside" /\ step[c] \in {"write", "rename"}
           /\ since'[c] = since[c] /\ entries'[c] = entries[c] /\ decided'[c] = decided[c]
  PROVE  stage'[c] = "inside" /\ step'[c] \in {"write", "rename"} =>
           \E nowMs \in Nat : \E claim \in ClaimInMap(file, KeyOf[c], nowMs) :
             /\ since'[c] <= nowMs /\ nowMs <= clock'
             /\ entries'[c] = claim.entries /\ decided'[c] = claim.verdict
BY DEF ReadInv

LEMMA ClaimKeeps ==
  ASSUME StoreInv, NEW c \in Calls, Claim(c)
  PROVE  StoreShape' /\ StepInv' /\ ReadInv'
<1> USE DEF StoreInv
<1>1. /\ stage[c] = "new" /\ stage' = [stage EXCEPT ![c] = "waiting"]
      /\ since' = [since EXCEPT ![c] = clock] /\ answer' = [answer EXCEPT ![c] = "pending"]
      /\ UNCHANGED <<clock, file, step, entries, decided>>
  BY DEF Claim, Enter
<1>2. StoreShape' BY <1>1 DEF StoreShape, IsMap
<1>3. StepInv' BY <1>1 DEF StepInv, Active, StoreShape, IInv, TypeOK
<1>4. clock' \in Nat /\ clock \in Nat /\ clock <= clock' BY <1>1 DEF StoreShape
<1>5. ReadInv'
  <2>1. ASSUME NEW d \in Calls, stage'[d] = "inside"
        PROVE  d # c /\ stage[d] = "inside" /\ since'[d] = since[d]
    BY <1>1, <2>1 DEF IInv, TypeOK, StoreShape
  <2>2. QED BY <1>1, <1>4, <2>1, ReadKept DEF ReadInv, ClaimInMap
<1>6. QED BY <1>2, <1>3, <1>5

LEMMA ProgressKeeps ==
  ASSUME KeysFit, StoreInv, NEW c \in Calls, Progress(c) \/ Fail(c)
  PROVE  StoreShape' /\ StepInv' /\ ReadInv'
<1> USE DEF StoreInv
<1>1. /\ clock' = clock /\ since' = since /\ clock \in Nat /\ clock <= clock
      /\ \A d \in Calls : d # c =>
           /\ stage'[d] = stage[d] /\ step'[d] = step[d] /\ answer'[d] = answer[d]
           /\ entries'[d] = entries[d] /\ decided'[d] = decided[d]
  BY DEF Progress, LockGranted, Acquire, Read, WriteTemporary, Rename, Return, Release, Fail,
         lockVars, storeVars, StoreShape, IInv, TypeOK
<1>2. CASE LockGranted(c)
  <2>1. /\ stage[c] = "waiting" /\ stage' = [stage EXCEPT ![c] = "inside"] /\ step[c] = "read"
        /\ UNCHANGED <<file, step, entries, answer, decided>>
    BY <1>2 DEF LockGranted, Acquire, storeVars, StepInv
  <2>2. StoreShape' BY <1>1, <2>1 DEF StoreShape, IsMap
  <2>3. StepInv' BY <1>1, <2>1 DEF StepInv, Active, IInv, TypeOK
  <2>4. ReadInv' BY <1>1, <2>1, ReadKept, ZenonT(30) DEF ReadInv, ClaimInMap
  <2>5. QED BY <2>2, <2>3, <2>4
<1>3. CASE Read(c)
  <2>1. PICK claim \in ClaimInMap(file, KeyOf[c], clock) :
          /\ entries' = [entries EXCEPT ![c] = claim.entries]
          /\ decided' = [decided EXCEPT ![c] = claim.verdict]
    BY <1>3 DEF Read
  <2>2. /\ stage[c] = "inside" /\ step[c] = "read" /\ step' = [step EXCEPT ![c] = "write"]
        /\ UNCHANGED <<stage, file, answer>>
    BY <1>3 DEF Read, At, lockVars
  <2>3. claim.verdict \in {"claimed", "duplicate"} /\ KeyOf[c] \in Keys
    <3>1. KeyOf[c] \in Keys /\ IsMap(file) BY StoreAssumption DEF StoreShape
    <3>2. QED BY <1>1, <2>1, <3>1, ClaimEffect
  <2>4. StoreShape' BY <1>1, <2>1, <2>2, <2>3 DEF StoreShape, IsMap
  <2>5. StepInv' BY <1>1, <2>2 DEF StepInv, Active, StoreShape
  <2>6. /\ since'[c] <= clock /\ clock <= clock'
        /\ entries'[c] = claim.entries /\ decided'[c] = claim.verdict
    BY <1>1, <2>1 DEF StepInv, StoreShape
  <2>7. ReadInv'
    <3> SUFFICES ASSUME NEW d \in Calls, stage'[d] = "inside" /\ step'[d] \in {"write", "rename"}
                 PROVE  \E nowMs \in Nat : \E e \in ClaimInMap(file', KeyOf[d], nowMs) :
                          /\ since'[d] <= nowMs /\ nowMs <= clock'
                          /\ entries'[d] = e.entries /\ decided'[d] = e.verdict
      BY DEF ReadInv, ClaimInMap, PurgeExpired, EnforceMaxEntries, Extended
    <3>1. CASE d = c BY <1>1, <2>1, <2>2, <2>6, <3>1
    <3>2. CASE d # c BY <1>1, <2>2, <3>2, ReadKept
    <3>3. QED BY <3>1, <3>2
  <2>8. QED BY <2>4, <2>5, <2>7
<1>4. CASE WriteTemporary(c)
  <2>1. /\ stage[c] = "inside" /\ step[c] = "write" /\ step' = [step EXCEPT ![c] = "rename"]
        /\ UNCHANGED <<stage, file, entries, answer, decided>>
    BY <1>4 DEF WriteTemporary, At, lockVars
  <2>2. StoreShape' BY <1>1, <2>1 DEF StoreShape, IsMap
  <2>3. StepInv' BY <1>1, <2>1 DEF StepInv, Active, StoreShape
  <2>4. ReadInv' BY <1>1, <2>1, ReadKept, ZenonT(30) DEF ReadInv, ClaimInMap
  <2>5. QED BY <2>2, <2>3, <2>4
<1>5. CASE Rename(c)
  <2>1. /\ stage[c] = "inside" /\ step[c] = "rename" /\ step' = [step EXCEPT ![c] = "return"]
        /\ file' = entries[c] /\ UNCHANGED <<stage, entries, answer, decided>>
    BY <1>5 DEF Rename, At, lockVars
  <2>2. IsMap(file')
    <3>1. PICK nowMs \in Nat : \E claim \in ClaimInMap(file, KeyOf[c], nowMs) :
            entries[c] = claim.entries
      BY <2>1 DEF ReadInv
    <3>2. KeyOf[c] \in Keys /\ IsMap(file) BY StoreAssumption DEF StoreShape
    <3>3. QED BY <2>1, <3>1, <3>2, ClaimEffect
  <2>3. StoreShape' BY <1>1, <2>1, <2>2 DEF StoreShape, IsMap
  <2>4. StepInv' BY <1>1, <2>1 DEF StepInv, Active, StoreShape
  <2>5. ReadInv' BY <1>1, <2>1, OneInside DEF ReadInv, StoreShape
  <2>6. QED BY <2>3, <2>4, <2>5
<1>6. CASE Return(c) \/ Fail(c)
  <2>1. /\ stage[c] = "inside" /\ stage' = [stage EXCEPT ![c] = "done"]
        /\ UNCHANGED <<file, step, entries, decided>>
        /\ \/ answer' = [answer EXCEPT ![c] = decided[c]]
           \/ answer' = [answer EXCEPT ![c] = "error"]
    BY <1>6 DEF Return, Fail, Release
  <2>2. StoreShape' BY <1>1, <2>1 DEF StoreShape, IsMap
  <2>3. StepInv' BY <1>1, <2>1 DEF StepInv, Active, StoreShape, IInv, TypeOK
  <2>4. ReadInv'
    <3>1. stage'[c] # "inside" BY <2>1 DEF IInv, TypeOK
    <3>2. QED BY <1>1, <2>1, <3>1, ReadKept, ZenonT(30) DEF ReadInv, ClaimInMap
  <2>5. QED BY <2>2, <2>3, <2>4
<1>7. QED BY <1>2, <1>3, <1>4, <1>5, <1>6 DEF Progress

LEMMA StoreNextInv ==
  ASSUME KeysFit
  PROVE  StoreInv /\ [StoreNext]_vars => StoreInv'
<1> SUFFICES ASSUME StoreInv, [StoreNext]_vars PROVE StoreInv'
  OBVIOUS
<1>1. IInv' BY StoreLockNext DEF StoreInv
<1>2. CASE Tick \/ UNCHANGED vars
  <2>1. /\ UNCHANGED <<stage, file, step, entries, since, answer, decided>>
        /\ clock \in Nat /\ clock' \in Nat /\ clock <= clock'
    BY <1>2 DEF Tick, vars, lockVars, storeVars, StoreInv, StoreShape
  <2>2. StoreShape' BY <2>1 DEF StoreInv, StoreShape, IsMap
  <2>3. StepInv' BY <2>1 DEF StoreInv, StoreShape, StepInv, Active
  <2>4. ReadInv' BY <2>1, ReadKept DEF StoreInv, ReadInv, ClaimInMap
  <2>5. QED BY <1>1, <2>2, <2>3, <2>4 DEF StoreInv
<1>3. CASE Crash
  <2>1. /\ stage' = [c \in Calls |-> IF Active(c) THEN "done" ELSE stage[c]]
        /\ answer' = [c \in Calls |-> IF Active(c) THEN "error" ELSE answer[c]]
        /\ UNCHANGED <<clock, file, step, entries, since, decided>>
    BY <1>3 DEF Crash
  <2>2. StoreShape' BY <2>1 DEF StoreInv, StoreShape, IsMap
  <2>3. StepInv' BY <2>1 DEF StoreInv, StepInv, Active
  <2>4. ReadInv' BY <2>1 DEF ReadInv, Active
  <2>5. QED BY <1>1, <2>2, <2>3, <2>4 DEF StoreInv
<1>4. QED BY <1>1, <1>2, <1>3, ClaimKeeps, ProgressKeeps DEF StoreNext, StoreInv

LEMMA StoreInvariant ==
  ASSUME KeysFit
  PROVE  StoreSpec => []StoreInv
BY StoreInitInv, StoreNextInv, PTL DEF StoreSpec

-----------------------------------------------------------------------------
(* The store as an IdempotentClaim.                                        *)

LEMMA ExpiryOnDiskOf ==
  ASSUME NEW k \in Keys
  PROVE  ExpiryOnDisk[k] = IF k \in DOMAIN file THEN file[k].expires ELSE 0
BY DEF ExpiryOnDisk

(* A call between two steps, or one that has been answered, is unchanged.  *)
LEMMA StoreStutters ==
  ASSUME UNCHANGED <<clock, file, since>>,
         \A c \in Calls : \/ UNCHANGED <<step[c], decided[c], answer[c]>>
                          \/ /\ step[c] # "return" /\ step'[c] # "return"
                             /\ UNCHANGED answer[c]
                          \/ /\ step[c] = "return" /\ step'[c] = "return"
                             /\ UNCHANGED decided[c]
  PROVE  UNCHANGED Contract!claimVars
<1>1. AnswerGiven' = AnswerGiven BY DEF AnswerGiven
<1>2. ExpiryOnDisk' = ExpiryOnDisk /\ CallMade' = CallMade BY DEF ExpiryOnDisk, CallMade
<1>3. QED BY <1>1, <1>2 DEF Contract!claimVars

(* Claims that hold stay while the file does, and the expiries are times.  *)
LEMMA FileKept ==
  ASSUME StoreShape, UNCHANGED file
  PROVE  /\ ExpiryOnDisk' = ExpiryOnDisk /\ ExpiryOnDisk' \in [Keys -> Nat]
         /\ Contract!OthersKept({})
<1>1. ExpiryOnDisk' = ExpiryOnDisk BY DEF ExpiryOnDisk
<1>2. \A k \in DOMAIN file : file[k].expires \in Nat BY DEF StoreShape, IsMap, Entry
<1>3. ExpiryOnDisk \in [Keys -> Nat] BY <1>2 DEF ExpiryOnDisk
<1>4. QED BY <1>1, <1>3 DEF Contract!OthersKept

(* Making a call is asking.                                                *)
LEMMA ClaimAsks ==
  ASSUME StoreInv, NEW c \in Calls, Claim(c)
  PROVE  Contract!Ask(c)
<1> USE DEF StoreInv
<1>1. /\ stage[c] = "new" /\ since' = [since EXCEPT ![c] = clock]
      /\ answer' = [answer EXCEPT ![c] = "pending"]
      /\ UNCHANGED <<clock, file, step, decided>>
  BY DEF Claim, Enter
<1>2. step[c] = "read" /\ answer[c] = "none" BY <1>1 DEF StepInv
<1>3. AnswerGiven[c] # "pending" /\ AnswerGiven' = [AnswerGiven EXCEPT ![c] = "pending"]
  BY <1>1, <1>2 DEF AnswerGiven, StoreShape
<1>4. CallMade' = [CallMade EXCEPT ![c] = [key |-> KeyOf[c], since |-> clock]]
  BY <1>1 DEF CallMade, StoreShape
<1>5. ExpiryOnDisk' = ExpiryOnDisk BY <1>1 DEF ExpiryOnDisk
<1>6. KeyOf[c] \in Keys BY StoreAssumption
<1>7. QED BY <1>1, <1>3, <1>4, <1>5, <1>6 DEF Contract!Ask

(* Replacing the file is where the claim is granted or refused.            *)
LEMMA RenameAnswers ==
  ASSUME KeysFit, StoreInv, StoreInv', NEW c \in Calls, Rename(c)
  PROVE  Contract!Grant(c) \/ Contract!Refuse(c)
<1> USE DEF StoreInv
<1> DEFINE k == KeyOf[c]
<1>1. /\ stage[c] = "inside" /\ step[c] = "rename" /\ step' = [step EXCEPT ![c] = "return"]
      /\ file' = entries[c] /\ UNCHANGED <<clock, since, answer, decided>>
  BY DEF Rename, At, lockVars
<1>2. PICK nowMs \in Nat : \E claim \in ClaimInMap(file, k, nowMs) :
        /\ since[c] <= nowMs /\ nowMs <= clock
        /\ file' = claim.entries /\ decided[c] = claim.verdict
  BY <1>1 DEF ReadInv
<1>3. k \in Keys /\ IsMap(file) BY StoreAssumption DEF StoreShape
<1>4. /\ \A j \in Keys \ {k} :
           /\ j \in DOMAIN file' <=> Valid(file, j, nowMs)
           /\ j \in DOMAIN file' => file'[j].expires = file[j].expires
      /\ k \in DOMAIN file'
      /\ \/ /\ decided[c] = "duplicate" /\ Valid(file, k, nowMs)
            /\ file'[k].expires = file[k].expires
         \/ /\ decided[c] = "claimed" /\ ~Valid(file, k, nowMs)
            /\ file'[k].expires = nowMs + Ttl
  BY <1>2, <1>3, ClaimEffect
<1>5. /\ clock \in Nat /\ since[c] \in Nat
      /\ \A j \in DOMAIN file : file[j].expires \in Nat
      /\ \A j \in DOMAIN file' : file'[j].expires \in Nat
  BY DEF StoreShape, IsMap, Entry
<1>6. ExpiryOnDisk' \in [Keys -> Nat] BY <1>5 DEF ExpiryOnDisk
<1>7. /\ \A j \in Keys : ExpiryOnDisk[j] = IF j \in DOMAIN file THEN file[j].expires ELSE 0
      /\ \A j \in Keys :
           ExpiryOnDisk'[j] = IF j \in DOMAIN file' THEN file'[j].expires ELSE 0
  BY DEF ExpiryOnDisk
<1>8. Contract!OthersKept({k})
  <2>1. ASSUME NEW j \in Keys \ {k}
        PROVE  ExpiryOnDisk'[j] = ExpiryOnDisk[j] \/ (ExpiryOnDisk[j] <= clock /\ ExpiryOnDisk'[j] = 0)
    <3>1. CASE Valid(file, j, nowMs) BY <1>4, <1>7, <3>1 DEF Valid
    <3>2. CASE ~Valid(file, j, nowMs) /\ j \in DOMAIN file
      BY <1>2, <1>4, <1>5, <1>7, <3>2 DEF Valid
    <3>3. CASE j \notin DOMAIN file BY <1>4, <1>7, <3>3 DEF Valid
    <3>4. QED BY <3>1, <3>2, <3>3
  <2>2. QED BY <2>1 DEF Contract!OthersKept
<1>9. /\ AnswerGiven[c] = "pending" /\ AnswerGiven' = [AnswerGiven EXCEPT ![c] = decided[c]]
      /\ CallMade' = CallMade /\ CallMade[c].key = k /\ CallMade[c].since = since[c]
  BY <1>1, ZenonT(30) DEF AnswerGiven, CallMade, StepInv, Active, StoreShape
<1>10. CASE decided[c] = "claimed"
  <2>1. ExpiryOnDisk[k] <= clock BY <1>2, <1>3, <1>4, <1>5, <1>7, <1>10 DEF Valid
  <2>2. ExpiryOnDisk'[k] # 0 BY <1>2, <1>3, <1>4, <1>7, <1>10, StoreAssumption
  <2>3. Contract!Record(k) BY <1>6, <1>8, <2>1, <2>2 DEF Contract!Record
  <2>4. QED BY <1>1, <1>9, <1>10, <2>3 DEF Contract!Grant
<1>11. CASE decided[c] = "duplicate"
  <2>1. ExpiryOnDisk[k] > since[c] BY <1>2, <1>3, <1>4, <1>5, <1>7, <1>11 DEF Valid
  <2>2. ExpiryOnDisk'[k] = ExpiryOnDisk[k] BY <1>3, <1>4, <1>7, <1>11 DEF Valid
  <2>3. QED BY <1>1, <1>6, <1>8, <1>9, <1>11, <2>1, <2>2 DEF Contract!Refuse
<1>12. QED BY <1>4, <1>10, <1>11

(* A call that fails, or is ended by a crash before its file is in place,  *)
(* fails; one whose file is in place has been answered.                    *)
LEMMA FailuresFail ==
  ASSUME StoreInv, (\E c \in Calls : Fail(c)) \/ Crash
  PROVE  \E failed \in SUBSET Calls : Contract!Fail(failed)
<1> USE DEF StoreInv
<1>1. /\ UNCHANGED <<clock, file, step, since, decided>>
      /\ \E failed \in SUBSET {c \in Calls : Active(c)} :
           answer' = [c \in Calls |-> IF c \in failed THEN "error" ELSE answer[c]]
  <2>1. CASE Crash
    <3>1. answer' = [c \in Calls |-> IF c \in {d \in Calls : Active(d)}
                                     THEN "error" ELSE answer[c]]
      BY <2>1 DEF Crash
    <3>2. QED BY <2>1, <3>1 DEF Crash
  <2>2. CASE \E c \in Calls : Fail(c)
    <3>1. PICK c \in Calls : Fail(c) BY <2>2
    <3>2. answer' = [d \in Calls |-> IF d \in {c} THEN "error" ELSE answer[d]]
      BY <3>1 DEF Fail, StoreShape
    <3>3. Active(c) BY <3>1 DEF Fail, Active
    <3>4. QED BY <3>1, <3>2, <3>3 DEF Fail
  <2>3. QED BY <2>1, <2>2
<1>2. PICK failed \in SUBSET {c \in Calls : Active(c)} :
        answer' = [c \in Calls |-> IF c \in failed THEN "error" ELSE answer[c]]
  BY <1>1
<1> DEFINE lost == {c \in failed : step[c] # "return"}
<1>3. \A c \in Calls : decided[c] # "pending" BY DEF StoreShape
<1>4. \A c \in failed : answer[c] = "pending" BY DEF StepInv
<1>5. AnswerGiven' = [c \in Calls |-> IF c \in lost /\ AnswerGiven[c] = "pending"
                                      THEN "error" ELSE AnswerGiven[c]]
  BY <1>1, <1>2, <1>3, <1>4 DEF AnswerGiven
<1>6. CallMade' = CallMade BY <1>1 DEF CallMade
<1>7. Contract!Fail(lost) BY <1>1, <1>5, <1>6, FileKept DEF Contract!Fail
<1>8. QED BY <1>7

LEMMA StepRefines ==
  ASSUME KeysFit, StoreInv, StoreInv', [StoreNext]_vars
  PROVE  [Contract!Next]_(Contract!claimVars)
<1>1. CASE Tick
  <2>1. clock' > clock /\ UNCHANGED <<file, step, since, answer, decided>>
    BY <1>1 DEF Tick, StoreInv, StoreShape
  <2>2. UNCHANGED <<ExpiryOnDisk, CallMade, AnswerGiven>>
    BY <2>1 DEF ExpiryOnDisk, CallMade, AnswerGiven
  <2>3. Contract!Tick BY <2>1, <2>2 DEF Contract!Tick
  <2>4. QED BY <2>3 DEF Contract!Next
<1>2. CASE Crash BY <1>2, FailuresFail DEF Contract!Next
<1>3. ASSUME NEW c \in Calls, Claim(c) PROVE Contract!Next
  BY <1>3, ClaimAsks DEF Contract!Next
<1>4. ASSUME NEW c \in Calls, Fail(c) PROVE Contract!Next
  BY <1>4, FailuresFail DEF Contract!Next
<1>5. ASSUME NEW c \in Calls, Rename(c) PROVE Contract!Next
  BY <1>5, RenameAnswers DEF Contract!Next
<1>6. ASSUME NEW c \in Calls, LockGranted(c) \/ Read(c) \/ WriteTemporary(c) \/ Return(c)
      PROVE  UNCHANGED Contract!claimVars
  <2>1. CASE LockGranted(c) BY <2>1, StoreStutters DEF LockGranted, storeVars
  <2>2. CASE Read(c) \/ WriteTemporary(c)
    <3>1. /\ UNCHANGED <<clock, file, since, answer>>
          /\ step[c] # "return" /\ step'[c] # "return"
          /\ \A d \in Calls \ {c} : UNCHANGED <<step[d], decided[d]>>
      BY <2>2 DEF Read, WriteTemporary, At, StoreInv, StoreShape
    <3>2. QED BY <3>1, StoreStutters
  <2>3. CASE Return(c)
    <3>1. /\ UNCHANGED <<clock, file, since, step, decided>> /\ step[c] = "return"
          /\ \A d \in Calls \ {c} : UNCHANGED answer[d]
      BY <2>3 DEF Return, At, StoreInv, StoreShape
    <3>2. QED BY <3>1, StoreStutters
  <2>4. QED BY <1>6, <2>1, <2>2, <2>3
<1>7. CASE UNCHANGED vars BY <1>7, StoreStutters DEF vars, storeVars
<1>8. QED BY <1>1, <1>2, <1>3, <1>4, <1>5, <1>6, <1>7 DEF StoreNext, Progress

(* While the keys in use do not outnumber maxEntries, the file store is an *)
(* IdempotentClaim, whatever files fail and whenever the process crashes:  *)
(* a key is granted to one call until the claim expires.                   *)
THEOREM StoreImplements ==
  ASSUME KeysFit
  PROVE  StoreSpec => ImplementsClaim
<1>1. StoreInit => Contract!Init
  <2> SUFFICES ASSUME StoreInit PROVE Contract!Init
    OBVIOUS
  <2>1. clock \in Nat /\ ExpiryOnDisk = [k \in Keys |-> 0]
    BY DEF StoreInit, NoEntries, ExpiryOnDisk
  <2>2. CallMade \in [Calls -> [key : Keys, since : Nat]]
    BY StoreAssumption DEF StoreInit, CallMade
  <2>3. AnswerGiven = [c \in Calls |-> "none"] BY DEF StoreInit, AnswerGiven
  <2>4. QED BY <2>1, <2>2, <2>3 DEF Contract!Init
<1>2. QED
  BY <1>1, StepRefines, StoreInvariant, PTL DEF StoreSpec, ImplementsClaim, Contract!Spec
=============================================================================
