--------------------------- MODULE KeyLockProofs ---------------------------
(***************************************************************************)
(* Proofs about KeyLock, for any number of goroutines, keys and lock       *)
(* objects.                                                                *)
(*                                                                         *)
(* The argument: the count of a listed lock is exactly the number of       *)
(* goroutines between add() and done(), so Clean never drops a lock that   *)
(* somebody waits for or holds; hence all users of a key use one object,   *)
(* whose mutex admits one of them.  A goroutine that has counted itself    *)
(* out may still hold the mutex of an object that is no longer listed, and *)
(* that is harmless: nobody else refers to the object.                     *)
(***************************************************************************)
EXTENDS KeyLock, FiniteSetTheorems, TLAPS

\* The initial state.
LEMMA InitInv == Init => IndInv
  <1> SUFFICES ASSUME Init PROVE IndInv
    OBVIOUS
  <1>1. TypeOK BY DEF Init, TypeOK, PCs
  <1>2. UsedIsListed /\ ReleaseOwn /\ CountExact /\ ListedOnce
    BY KeyLockAssumption DEF Init, UsedIsListed, ReleaseOwn, CountExact, ListedOnce
  <1> QED BY <1>1, <1>2 DEF Init, IndInv, HolderKnown, NoObjYet

\* Steps keep the types; a goroutine past the lookup has an object.
LEMMA StepType ==
  ASSUME IndInv, [Next]_vars
  PROVE  TypeOK'
  <1> USE DEF IndInv, TypeOK, PCs, Goto, Join
  <1>1. ASSUME NEW p \in Procs, NEW k \in Keys, Lock(p, k) PROVE TypeOK'
    BY <1>1 DEF Lock
  <1>2. ASSUME NEW p \in Procs, LockSteps(p) PROVE TypeOK'
    <2>1. CASE LockFound(p) BY <2>1 DEF LockFound
    <2>2. CASE LockMissing(p) BY <2>2 DEF LockMissing
    <2>3. CASE CreateFound(p) BY <2>3 DEF CreateFound
    <2>4. ASSUME NEW o \in Objs, CreateNew(p, o) PROVE TypeOK'
      BY <2>4 DEF CreateNew
    <2>5. CASE Acquire(p) BY <2>5 DEF Acquire, UsedIsListed
    <2> QED BY <1>2, <2>1, <2>2, <2>3, <2>4, <2>5 DEF LockSteps
  <1>3. ASSUME NEW p \in Procs, UnlockSteps(p) PROVE TypeOK'
    <2>1. CASE Unlock(p) BY <2>1 DEF Unlock
    <2>2. CASE Release(p) BY <2>2 DEF Release
    <2> QED BY <1>3, <2>1, <2>2 DEF UnlockSteps
  <1>4. CASE Clean BY <1>4 DEF Clean
  <1>5. CASE StartCleanLoop \/ StopCleanLoop \/ CleanLoopExit \/ UNCHANGED vars
    BY <1>5 DEF StartCleanLoop, StopCleanLoop, CleanLoopExit, vars
  <1> QED BY <1>1, <1>2, <1>3, <1>4, <1>5 DEF Next

\* Counting: users are finite, and a count of 0 means no users.
LEMMA UsersFinite ==
  ASSUME NEW o
  PROVE  /\ IsFiniteSet(Users(o)) /\ Cardinality(Users(o)) \in Nat
         /\ Cardinality(Users(o)) = 0 <=> Users(o) = {}
  <1>1. IsFiniteSet(Users(o))
    BY FS_Subset, KeyLockAssumption DEF Users
  <1> QED BY <1>1, FS_CardinalityType, FS_EmptySet

\* A goroutine that joins a listed lock: what LockFound and CreateFound share.
LEMMA JoinStep ==
  ASSUME IndInv, NEW p \in Procs, pc[p] \in {"lookup", "create"},
         locks[key[p]] # None, pc' = [pc EXCEPT ![p] = "acquire"],
         Join(p, locks[key[p]]), UNCHANGED <<locks, holder, key>>, TypeOK'
  PROVE  IndInv'
  <1>0. PICK o \in Objs : o = locks[key[p]]
    BY DEF IndInv, TypeOK
  <1>1. obj[p] = None /\ count' = [count EXCEPT ![o] = count[o] + 1]
        /\ obj' = [obj EXCEPT ![p] = o]
    BY <1>0 DEF IndInv, TypeOK, Join, NoObjYet
  <1>2. CountExact'
    <2>1. Users(o)' = Users(o) \cup {p} /\ p \notin Users(o)
      BY <1>1 DEF Users, IndInv, TypeOK
    <2>2. Cardinality(Users(o)') = Cardinality(Users(o)) + 1
      BY <2>1, UsersFinite, FS_AddElement
    <2>3. ASSUME NEW x \in Objs, \E k \in Keys : locks[k] = x
          PROVE  count'[x] = Cardinality(Users(x)')
      <3>1. count[x] = Cardinality(Users(x))
        BY <2>3 DEF IndInv, CountExact
      <3>2. CASE x = o
        BY <1>1, <2>2, <3>1, <3>2 DEF IndInv, TypeOK
      <3>3. CASE x # o
        <4>1. Users(x)' = Users(x)
          BY <1>1, <3>3 DEF Users, IndInv, TypeOK
        <4> QED BY <1>1, <3>1, <3>3, <4>1 DEF IndInv, TypeOK
      <3> QED BY <3>2, <3>3
    <2> QED BY <2>3 DEF CountExact
  <1>3. UsedIsListed' /\ ReleaseOwn' /\ ListedOnce'
    BY <1>0, <1>1, KeyLockAssumption DEF IndInv, TypeOK, UsedIsListed, ReleaseOwn, ListedOnce
  <1>4. HolderKnown' /\ NoObjYet'
    BY <1>1, KeyLockAssumption DEF IndInv, TypeOK, HolderKnown, NoObjYet
  <1> QED BY <1>2, <1>3, <1>4 DEF IndInv

\* A new lock has one user, the goroutine that created it.
LEMMA CreateStep ==
  ASSUME IndInv, TypeOK', NEW p \in Procs, NEW o \in Objs, CreateNew(p, o)
  PROVE  IndInv'
  <1>1. /\ pc[p] = "create" /\ pc' = [pc EXCEPT ![p] = "acquire"] /\ obj[p] = None
        /\ obj' = [obj EXCEPT ![p] = o] /\ key' = key
        /\ locks' = [locks EXCEPT ![key[p]] = o] /\ locks[key[p]] = None
        /\ count' = [count EXCEPT ![o] = 1] /\ holder' = [holder EXCEPT ![o] = None]
        /\ Fresh(o)
    BY DEF CreateNew, Goto, IndInv, NoObjYet
  <1>2. CountExact'
    <2>1. Users(o)' = {} \cup {p}
      BY <1>1 DEF Users, Fresh, IndInv, TypeOK
    <2>2. Cardinality(Users(o)') = 1
      <3>1. IsFiniteSet({}) /\ Cardinality({}) = 0 /\ p \notin {}
        BY FS_EmptySet
      <3>2. Cardinality({} \cup {p}) = 0 + 1
        BY <3>1, FS_AddElement
      <3> QED BY <2>1, <3>2
    <2>3. ASSUME NEW x \in Objs, \E k \in Keys : locks'[k] = x
          PROVE  count'[x] = Cardinality(Users(x)')
      <3>1. CASE x = o
        BY <1>1, <2>2, <3>1 DEF IndInv, TypeOK
      <3>2. CASE x # o
        <4>1. Users(x)' = Users(x)
          BY <1>1, <3>2, KeyLockAssumption DEF Users, IndInv, TypeOK
        <4>2. \E k \in Keys : locks[k] = x
          BY <1>1, <2>3, <3>2 DEF IndInv, TypeOK
        <4> QED BY <1>1, <3>2, <4>1, <4>2 DEF IndInv, TypeOK, CountExact
      <3> QED BY <3>1, <3>2
    <2> QED BY <2>3 DEF CountExact
  <1>3. UsedIsListed'
    BY <1>1, KeyLockAssumption DEF IndInv, TypeOK, UsedIsListed
  <1>4. ReleaseOwn'
    BY <1>1, KeyLockAssumption DEF IndInv, TypeOK, ReleaseOwn, Fresh
  <1>5. ListedOnce'
    BY <1>1, KeyLockAssumption DEF IndInv, TypeOK, ListedOnce, Fresh
  <1>6. HolderKnown' /\ NoObjYet'
    BY <1>1, KeyLockAssumption DEF IndInv, TypeOK, HolderKnown, NoObjYet
  <1> QED BY <1>2, <1>3, <1>4, <1>5, <1>6 DEF IndInv

\* A goroutine that takes the inner mutex stays counted in.
LEMMA AcquireStep ==
  ASSUME IndInv, TypeOK', NEW p \in Procs, Acquire(p)
  PROVE  IndInv'
  <1>1. /\ pc[p] = "acquire" /\ pc' = [pc EXCEPT ![p] = "locked"]
        /\ obj[p] \in Objs /\ holder[obj[p]] = None
        /\ holder' = [holder EXCEPT ![obj[p]] = p]
        /\ locks' = locks /\ count' = count /\ key' = key /\ obj' = obj
    BY DEF Acquire, Goto, IndInv, TypeOK, UsedIsListed
  <1>2. \A x \in Objs : Users(x)' = Users(x)
    BY <1>1 DEF Users, IndInv, TypeOK
  <1>3. CountExact'
    BY <1>1, <1>2 DEF IndInv, CountExact
  <1>4. UsedIsListed' /\ ListedOnce' /\ NoObjYet'
    BY <1>1 DEF IndInv, TypeOK, UsedIsListed, ListedOnce, NoObjYet
  <1>5. ReleaseOwn'
    BY <1>1, KeyLockAssumption DEF IndInv, TypeOK, ReleaseOwn
  <1>6. HolderKnown'
    BY <1>1, KeyLockAssumption DEF IndInv, TypeOK, HolderKnown
  <1> QED BY <1>3, <1>4, <1>5, <1>6 DEF IndInv

\* Unlock finds the lock it holds and leaves its users.
LEMMA UnlockStep ==
  ASSUME IndInv, TypeOK', NEW p \in Procs, Unlock(p)
  PROVE  IndInv'
  <1>0. PICK o \in Objs : o = obj[p]
    BY DEF Unlock, Goto, IndInv, TypeOK, UsedIsListed
  <1>1. pc[p] = "locked" /\ locks[key[p]] = o /\ o # None
    BY <1>0 DEF Unlock, Goto, IndInv, TypeOK, UsedIsListed
  <1>2. /\ pc' = [pc EXCEPT ![p] = "release"] /\ count' = [count EXCEPT ![o] = count[o] - 1]
        /\ obj' = obj /\ locks' = locks /\ holder' = holder /\ key' = key
    BY <1>0, <1>1 DEF Unlock, Goto, IndInv, TypeOK
  <1>3. CountExact'
    <2>1. Users(o)' = Users(o) \ {p} /\ p \in Users(o)
      BY <1>0, <1>1, <1>2 DEF Users, IndInv, TypeOK
    <2>2. Cardinality(Users(o)') = Cardinality(Users(o)) - 1
      BY <2>1, UsersFinite, FS_RemoveElement
    <2>3. ASSUME NEW x \in Objs, \E k \in Keys : locks[k] = x
          PROVE  count'[x] = Cardinality(Users(x)')
      <3>1. count[x] = Cardinality(Users(x))
        BY <2>3 DEF IndInv, CountExact
      <3>2. CASE x = o
        BY <1>1, <1>2, <2>2, <3>1, <3>2 DEF IndInv, TypeOK
      <3>3. CASE x # o
        <4>1. Users(x)' = Users(x)
          BY <1>0, <1>2, <3>3 DEF Users, IndInv, TypeOK
        <4> QED BY <1>2, <3>1, <3>3, <4>1 DEF IndInv, TypeOK
      <3> QED BY <3>2, <3>3
    <2> QED BY <1>2, <2>3 DEF CountExact
  <1>4. UsedIsListed' /\ ListedOnce' /\ NoObjYet' /\ ReleaseOwn' /\ HolderKnown'
    BY <1>1, <1>2 DEF IndInv, TypeOK, UsedIsListed, ListedOnce, NoObjYet, ReleaseOwn, HolderKnown
  <1> QED BY <1>3, <1>4 DEF IndInv

\* Giving the inner mutex back touches no user's lock: the goroutine itself
\* held it.
LEMMA ReleaseStep ==
  ASSUME IndInv, TypeOK', NEW p \in Procs, Release(p)
  PROVE  IndInv'
  <1>1. /\ pc[p] = "release" /\ pc' = [pc EXCEPT ![p] = "idle"]
        /\ obj[p] \in Objs /\ holder[obj[p]] = p
        /\ holder' = [holder EXCEPT ![obj[p]] = None] /\ obj' = [obj EXCEPT ![p] = None]
        /\ locks' = locks /\ count' = count /\ key' = key
    BY DEF Release, Goto, IndInv, TypeOK, ReleaseOwn
  <1>2. \A x \in Objs : Users(x)' = Users(x)
    BY <1>1 DEF Users, IndInv, TypeOK
  <1>3. CountExact'
    BY <1>1, <1>2 DEF IndInv, CountExact
  <1>4. UsedIsListed' /\ ListedOnce' /\ NoObjYet'
    BY <1>1 DEF IndInv, TypeOK, UsedIsListed, ListedOnce, NoObjYet
  <1>5. ReleaseOwn' /\ HolderKnown'
    BY <1>1, KeyLockAssumption DEF IndInv, TypeOK, ReleaseOwn, HolderKnown
  <1> QED BY <1>3, <1>4, <1>5 DEF IndInv

\* Clean drops only locks without users.
LEMMA CleanStep ==
  ASSUME IndInv, TypeOK', Clean
  PROVE  IndInv'
  <1>1. /\ UNCHANGED <<count, holder, pc, key, obj>>
        /\ \A k \in Keys : locks'[k] = IF locks[k] # None /\ count[locks[k]] = 0
                                       THEN None ELSE locks[k]
    BY DEF Clean
  <1>2. \A x \in Objs : Users(x)' = Users(x)
    BY <1>1 DEF Users
  <1>3. CountExact'
    BY <1>1, <1>2, KeyLockAssumption DEF IndInv, CountExact
  <1>4. ASSUME NEW p \in Procs, pc[p] \in {"acquire", "locked"}
        PROVE  locks'[key[p]] = obj[p] /\ obj[p] # None
    <2>1. locks[key[p]] = obj[p] /\ obj[p] # None /\ obj[p] \in Objs /\ key[p] \in Keys
      BY <1>4 DEF IndInv, UsedIsListed, TypeOK
    <2>2. p \in Users(obj[p])
      BY <1>4 DEF Users
    <2>3. count[obj[p]] # 0
      BY <2>1, <2>2, UsersFinite DEF IndInv, CountExact
    <2> QED BY <1>1, <2>1, <2>3
  <1>5. UsedIsListed'
    BY <1>1, <1>4 DEF UsedIsListed
  <1>6. ListedOnce'
    BY <1>1 DEF IndInv, ListedOnce
  <1>7. ReleaseOwn' /\ HolderKnown' /\ NoObjYet'
    BY <1>1 DEF IndInv, ReleaseOwn, HolderKnown, NoObjYet
  <1> QED BY <1>3, <1>5, <1>6, <1>7 DEF IndInv

\* Steps that change neither a lock nor a user.
LEMMA QuietStep ==
  ASSUME IndInv, TypeOK', UNCHANGED <<locks, count, holder, obj>>,
         \/ UNCHANGED <<pc, key>>
         \/ \E p \in Procs : LockMissing(p) \/ \E k \in Keys : Lock(p, k)
  PROVE  IndInv'
  <1>1. \A q \in Procs :
          \/ pc'[q] = pc[q] /\ key'[q] = key[q]
          \/ pc[q] \in {"idle", "lookup"} /\ pc'[q] \in {"lookup", "create"}
    BY DEF LockMissing, Lock, Goto, IndInv, TypeOK
  <1>2. \A x \in Objs : Users(x)' = Users(x)
    BY <1>1 DEF Users
  <1>3. CountExact'
    BY <1>2 DEF IndInv, CountExact
  <1>4. UsedIsListed' /\ ListedOnce' /\ NoObjYet' /\ ReleaseOwn'
    BY <1>1 DEF IndInv, TypeOK, UsedIsListed, ListedOnce, NoObjYet, ReleaseOwn
  <1>5. HolderKnown'
    BY <1>1 DEF IndInv, TypeOK, HolderKnown
  <1> QED BY <1>3, <1>4, <1>5 DEF IndInv

-----------------------------------------------------------------------------
\* The inductive invariant of the table of locks.
THEOREM Inductive == Spec => []IndInv
  <1>1. IndInv /\ [Next]_vars => IndInv'
    <2> SUFFICES ASSUME IndInv, [Next]_vars PROVE IndInv'
      OBVIOUS
    <2>1. TypeOK' BY StepType
    <2>2. ASSUME NEW p \in Procs, LockSteps(p) PROVE IndInv'
      <3>1. CASE LockFound(p) BY <2>1, <3>1, JoinStep DEF LockFound, Goto
      <3>2. CASE LockMissing(p) BY <2>1, <3>2, QuietStep DEF LockMissing
      <3>3. CASE CreateFound(p) BY <2>1, <3>3, JoinStep DEF CreateFound, Goto
      <3>4. ASSUME NEW o \in Objs, CreateNew(p, o) PROVE IndInv'
        BY <2>1, <3>4, CreateStep
      <3>5. CASE Acquire(p) BY <2>1, <3>5, AcquireStep
      <3> QED BY <2>2, <3>1, <3>2, <3>3, <3>4, <3>5 DEF LockSteps
    <2>3. ASSUME NEW p \in Procs, UnlockSteps(p) PROVE IndInv'
      BY <2>1, <2>3, UnlockStep, ReleaseStep DEF UnlockSteps
    <2>4. ASSUME NEW p \in Procs, NEW k \in Keys, Lock(p, k) PROVE IndInv'
      BY <2>1, <2>4, QuietStep DEF Lock
    <2>5. CASE Clean BY <2>1, <2>5, CleanStep
    <2>6. CASE StartCleanLoop \/ StopCleanLoop \/ CleanLoopExit \/ UNCHANGED vars
      BY <2>1, <2>6, QuietStep DEF StartCleanLoop, StopCleanLoop, CleanLoopExit, vars
    <2> QED BY <2>2, <2>3, <2>4, <2>5, <2>6 DEF Next
  <1> QED BY <1>1, InitInv, PTL DEF Spec

\* Between Lock and Unlock of a key there is one goroutine at most, with the
\* clean loop running or not.
THEOREM KeyLockMutualExclusion == Spec => []MutualExclusion
  <1>1. IndInv => MutualExclusion
    BY DEF IndInv, MutualExclusion, UsedIsListed, ReleaseOwn
  <1> QED BY <1>1, Inductive, PTL

\* Unlock gives back the mutex that its goroutine took.
THEOREM KeyLockReleaseOwn == Spec => []ReleaseOwn
  BY Inductive, PTL DEF IndInv

\* The lock that a goroutine waits for or holds is never cleaned away.
THEOREM KeyLockUsedIsListed == Spec => []UsedIsListed
  BY Inductive, PTL DEF IndInv

\* Moving one goroutine changes its mode only.
LEMMA ModeUpdate ==
  ASSUME NEW p \in Procs, NEW c, TypeOK, pc' = [pc EXCEPT ![p] = c]
  PROVE  [q \in Procs |-> ModeOf(pc[q])]'
           = [[q \in Procs |-> ModeOf(pc[q])] EXCEPT ![p] = ModeOf(c)]
  BY DEF TypeOK

\* The table of locks implements a mutex per key.
THEOREM KeyLockImplements == Spec => ImplementsKeyedMutex
  <1> DEFINE md == [p \in Procs |-> ModeOf(pc[p])]
  <1>1. Init => Abstract!MInit
    BY DEF Init, Abstract!MInit, ModeOf
  <1>2. IndInv /\ [Next]_vars => [Abstract!MNext]_(Abstract!mvars)
    <2> SUFFICES ASSUME IndInv, [Next]_vars
                 PROVE  Abstract!MNext \/ UNCHANGED <<md, key>>
      BY DEF Abstract!mvars
    <2>t. TypeOK
      BY DEF IndInv
    <2>1. ASSUME NEW p \in Procs, NEW k \in Keys, Lock(p, k) PROVE Abstract!MNext
      <3>1. pc[p] = "idle" /\ md' = [md EXCEPT ![p] = ModeOf("lookup")]
        BY <2>1, <2>t, ModeUpdate DEF Lock, Goto
      <3>2. Abstract!Request(p, k)
        BY <2>1, <3>1 DEF Lock, Abstract!Request, ModeOf
      <3> QED BY <3>2 DEF Abstract!MNext
    <2>2. ASSUME NEW p \in Procs, Acquire(p) PROVE Abstract!MNext
      <3>1. \A q \in Procs : pc[q] = "locked" => key[q] # key[p]
        BY <2>2, KeyLockAssumption DEF Acquire, Goto, IndInv, UsedIsListed, ReleaseOwn, TypeOK
      <3>2. pc[p] = "acquire" /\ md' = [md EXCEPT ![p] = ModeOf("locked")]
        BY <2>2, <2>t, ModeUpdate DEF Acquire, Goto
      <3>3. \A q \in Procs : md[q] = "hold" => key[q] # key[p]
        BY <3>1 DEF ModeOf
      <3>4. Abstract!Grant(p)
        BY <2>2, <3>2, <3>3 DEF Acquire, Abstract!Grant, ModeOf
      <3> QED BY <3>4 DEF Abstract!MNext
    <2>3. ASSUME NEW p \in Procs, Unlock(p) PROVE Abstract!MNext
      <3>1. pc' = [pc EXCEPT ![p] = "release"] /\ pc[p] = "locked" /\ key' = key
        BY <2>3 DEF Unlock, Goto, IndInv, UsedIsListed
      <3>2. md' = [md EXCEPT ![p] = ModeOf("release")]
        BY <2>t, <3>1, ModeUpdate
      <3>3. Abstract!Return(p)
        BY <3>1, <3>2 DEF Abstract!Return, ModeOf
      <3> QED BY <3>3 DEF Abstract!MNext
    <2>4. ASSUME NEW p \in Procs, NEW c \in PCs, pc' = [pc EXCEPT ![p] = c],
                 ModeOf(c) = ModeOf(pc[p]), key' = key
          PROVE  UNCHANGED <<md, key>>
      <3>1. md' = [md EXCEPT ![p] = ModeOf(pc[p])]
        BY <2>4, <2>t, ModeUpdate
      <3> QED BY <2>4, <3>1
    <2>5. ASSUME NEW p \in Procs,
                 \/ LockFound(p) \/ LockMissing(p) \/ CreateFound(p)
                 \/ (\E o \in Objs : CreateNew(p, o)) \/ Release(p)
          PROVE  UNCHANGED <<md, key>>
      <3>1. CASE LockFound(p) \/ CreateFound(p) \/ \E o \in Objs : CreateNew(p, o)
        <4>1. /\ pc' = [pc EXCEPT ![p] = "acquire"] /\ key' = key
              /\ pc[p] \in {"lookup", "create"}
          BY <3>1 DEF LockFound, CreateFound, CreateNew, Goto
        <4>2. ModeOf("acquire") = ModeOf(pc[p]) /\ "acquire" \in PCs
          BY <4>1 DEF ModeOf, PCs
        <4> QED BY <2>4, <4>1, <4>2
      <3>2. CASE LockMissing(p)
        <4>1. pc' = [pc EXCEPT ![p] = "create"] /\ key' = key /\ pc[p] = "lookup"
          BY <3>2 DEF LockMissing, Goto
        <4>2. ModeOf("create") = ModeOf(pc[p]) /\ "create" \in PCs
          BY <4>1 DEF ModeOf, PCs
        <4> QED BY <2>4, <4>1, <4>2
      <3>3. CASE Release(p)
        <4>1. pc' = [pc EXCEPT ![p] = "idle"] /\ key' = key /\ pc[p] = "release"
          BY <3>3 DEF Release, Goto
        <4>2. ModeOf("idle") = ModeOf(pc[p]) /\ "idle" \in PCs
          BY <4>1 DEF ModeOf, PCs
        <4> QED BY <2>4, <4>1, <4>2
      <3> QED BY <2>5, <3>1, <3>2, <3>3
    <2>6. CASE Clean \/ StartCleanLoop \/ StopCleanLoop \/ CleanLoopExit \/ UNCHANGED vars
      BY <2>6 DEF Clean, StartCleanLoop, StopCleanLoop, CleanLoopExit, vars
    <2> QED BY <2>1, <2>2, <2>3, <2>5, <2>6 DEF Next, LockSteps, UnlockSteps
  <1> QED BY <1>1, <1>2, Inductive, PTL DEF Spec, ImplementsKeyedMutex, Abstract!MSpec
=============================================================================
