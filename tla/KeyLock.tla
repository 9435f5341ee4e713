------------------------------ MODULE KeyLock ------------------------------
(***************************************************************************)
(* The table of per-key locks of pkg/keylock, which serialises the opening *)
(* of a topic, of a slot and the updates of subscriber lists per key.      *)
(*                                                                         *)
(* The table maps a key to an inner lock, a mutex with a count of the      *)
(* goroutines that hold or want it.  Lock and Unlock look the inner lock   *)
(* up under the table's read lock, Lock creates it under the write lock,   *)
(* and the clean loop drops inner locks whose count is 0 under the write   *)
(* lock.  Each of these sections is one action: the write lock excludes    *)
(* the others, and two sections under the read lock touch the table only   *)
(* to read it and the count atomically.  The inner mutex is taken and      *)
(* given back outside of them.                                             *)
(***************************************************************************)
EXTENDS Integers, FiniteSets

CONSTANTS Procs,   \* goroutines
          Keys,    \* lock keys
          Objs,    \* innerLock objects; the collector frees unreferenced ones
          None     \* nil

ASSUME KeyLockAssumption ==
    /\ IsFiniteSet(Procs)
    /\ None \notin Objs
    /\ None \notin Procs

VARIABLES
    locks,    \* KeyLock.locks
    count,    \* innerLock.count
    holder,   \* the goroutine that has innerLock.Mutex
    pc,       \* where each goroutine is in Lock and Unlock
    key,      \* the key it locks
    obj,      \* its keyLock variable
    cleaner   \* the clean loop: "off", "on" or "stopping"

vars == <<locks, count, holder, pc, key, obj, cleaner>>

PCs == {"idle", "lookup", "create", "acquire", "locked", "release"}

TypeOK ==
    /\ locks \in [Keys -> Objs \cup {None}]
    /\ count \in [Objs -> Int]
    /\ holder \in [Objs -> Procs \cup {None}]
    /\ pc \in [Procs -> PCs]
    /\ key \in [Procs -> Keys]
    /\ obj \in [Procs -> Objs \cup {None}]
    /\ cleaner \in {"off", "on", "stopping"}

Init ==
    /\ locks = [k \in Keys |-> None]
    /\ count = [o \in Objs |-> 0]
    /\ holder = [o \in Objs |-> None]
    /\ pc = [p \in Procs |-> "idle"]
    /\ key \in [Procs -> Keys]
    /\ obj = [p \in Procs |-> None]
    /\ cleaner = "off"

-----------------------------------------------------------------------------
Goto(p, from, to) == pc[p] = from /\ pc' = [pc EXCEPT ![p] = to]

\* add(): p counts itself in on o and goes on to take o's mutex.
Join(p, o) ==
    /\ count' = [count EXCEPT ![o] = @ + 1]
    /\ obj' = [obj EXCEPT ![p] = o]

Lock(p, k) ==
    /\ Goto(p, "idle", "lookup")
    /\ key' = [key EXCEPT ![p] = k]
    /\ UNCHANGED <<locks, count, holder, obj, cleaner>>

LockFound(p) ==
    /\ Goto(p, "lookup", "acquire")
    /\ locks[key[p]] # None
    /\ Join(p, locks[key[p]])
    /\ UNCHANGED <<locks, holder, key, cleaner>>

LockMissing(p) ==
    /\ locks[key[p]] = None
    /\ Goto(p, "lookup", "create")
    /\ UNCHANGED <<locks, count, holder, key, obj, cleaner>>

\* newInnerLock: an object that neither the table nor a goroutine refers to.
Fresh(o) ==
    /\ \A k \in Keys : locks[k] # o
    /\ \A q \in Procs : obj[q] # o

\* Another goroutine may have created the lock since the lookup.
CreateFound(p) ==
    /\ Goto(p, "create", "acquire")
    /\ locks[key[p]] # None
    /\ Join(p, locks[key[p]])
    /\ UNCHANGED <<locks, holder, key, cleaner>>

\* Mutant: the key is not looked up again under the write lock.
CreateNewBlindly(p, o) ==
    /\ Fresh(o)
    /\ Goto(p, "create", "acquire")
    /\ locks' = [locks EXCEPT ![key[p]] = o]
    /\ count' = [count EXCEPT ![o] = 1]
    /\ holder' = [holder EXCEPT ![o] = None]
    /\ obj' = [obj EXCEPT ![p] = o]
    /\ UNCHANGED <<key, cleaner>>

\* Mutant: the creator does not count itself in.
CreateNewUncounted(p, o) ==
    /\ locks[key[p]] = None
    /\ Fresh(o)
    /\ Goto(p, "create", "acquire")
    /\ locks' = [locks EXCEPT ![key[p]] = o]
    /\ count' = [count EXCEPT ![o] = 0]
    /\ holder' = [holder EXCEPT ![o] = None]
    /\ obj' = [obj EXCEPT ![p] = o]
    /\ UNCHANGED <<key, cleaner>>

CreateNew(p, o) ==
    /\ locks[key[p]] = None
    /\ Fresh(o)
    /\ Goto(p, "create", "acquire")
    /\ locks' = [locks EXCEPT ![key[p]] = o]
    /\ count' = [count EXCEPT ![o] = 1]
    /\ holder' = [holder EXCEPT ![o] = None]
    /\ obj' = [obj EXCEPT ![p] = o]
    /\ UNCHANGED <<key, cleaner>>

\* The inner mutex: waits while another goroutine has it.
Acquire(p) ==
    /\ Goto(p, "acquire", "locked")
    /\ holder[obj[p]] = None
    /\ holder' = [holder EXCEPT ![obj[p]] = p]
    /\ UNCHANGED <<locks, count, key, obj, cleaner>>

\* Mutant: the inner mutex is not given back.
UnlockKeepsMutex(p) ==
    LET o == locks[key[p]]
    IN  /\ Goto(p, "locked", "idle")
        /\ count' = IF o = None THEN count ELSE [count EXCEPT ![o] = @ - 1]
        /\ obj' = [obj EXCEPT ![p] = None]
        /\ UNCHANGED <<locks, holder, key, cleaner>>

\* Unlock looks the key up again and counts itself out before it gives the
\* inner mutex back.  Finding no lock under the key it would return and leave
\* the inner mutex taken.
Unlock(p) ==
    LET o == locks[key[p]]
    IN  /\ Goto(p, "locked", IF o = None THEN "idle" ELSE "release")
        /\ count' = IF o = None THEN count ELSE [count EXCEPT ![o] = @ - 1]
        /\ obj' = [obj EXCEPT ![p] = o]
        /\ UNCHANGED <<locks, holder, key, cleaner>>

Release(p) ==
    /\ Goto(p, "release", "idle")
    /\ holder' = [holder EXCEPT ![obj[p]] = None]
    /\ obj' = [obj EXCEPT ![p] = None]
    /\ UNCHANGED <<locks, count, key, cleaner>>

StartCleanLoop ==
    /\ cleaner = "off"
    /\ cleaner' = "on"
    /\ UNCHANGED <<locks, count, holder, pc, key, obj>>

StopCleanLoop ==
    /\ cleaner = "on"
    /\ cleaner' = "stopping"
    /\ UNCHANGED <<locks, count, holder, pc, key, obj>>

\* Mutant: locks that are in use are dropped too.
CleanUsed ==
    /\ cleaner # "off"
    /\ locks' = [k \in Keys |-> None]
    /\ UNCHANGED <<count, holder, pc, key, obj, cleaner>>

\* A tick; select may prefer one to the closed stopChan.
Clean ==
    /\ cleaner # "off"
    /\ locks' = [k \in Keys |-> IF locks[k] # None /\ count[locks[k]] = 0
                                THEN None ELSE locks[k]]
    /\ UNCHANGED <<count, holder, pc, key, obj, cleaner>>

CleanLoopExit ==
    /\ cleaner = "stopping"
    /\ cleaner' = "off"
    /\ UNCHANGED <<locks, count, holder, pc, key, obj>>

LockSteps(p) ==
    \/ LockFound(p) \/ LockMissing(p)
    \/ CreateFound(p) \/ (\E o \in Objs : CreateNew(p, o))
    \/ Acquire(p)

UnlockSteps(p) == Unlock(p) \/ Release(p)

Next ==
    \/ \E p \in Procs : (\E k \in Keys : Lock(p, k)) \/ LockSteps(p) \/ UnlockSteps(p)
    \/ StartCleanLoop \/ StopCleanLoop \/ Clean \/ CleanLoopExit

Spec == Init /\ [][Next]_vars

\* Callers unlock what they locked.  A Go mutex hands itself to a waiter that
\* has waited for 1ms (starvation mode), so a waiter that finds the mutex free
\* again and again gets it; the table's sections never wait for each other.
FairSpec ==
    /\ Spec
    /\ \A p \in Procs :
          /\ WF_vars(LockFound(p) \/ LockMissing(p) \/ CreateFound(p)
                     \/ \E o \in Objs : CreateNew(p, o))
          /\ SF_vars(Acquire(p))
          /\ WF_vars(UnlockSteps(p))

-----------------------------------------------------------------------------
\* Goroutines counted in on the lock o.
Users(o) == { p \in Procs : pc[p] \in {"acquire", "locked"} /\ obj[p] = o }

\* Two goroutines are never between Lock and Unlock of the same key, although
\* Unlock counts itself out before it gives the mutex back and the clean loop
\* may replace the key's lock in between.
MutualExclusion ==
    \A p, q \in Procs :
        pc[p] = "locked" /\ pc[q] = "locked" /\ key[p] = key[q] => p = q

\* The lock a goroutine waits for or holds stays in the table: Clean never
\* drops it, so a later Lock of the key meets it and Unlock finds it.
UsedIsListed ==
    \A p \in Procs : pc[p] \in {"acquire", "locked"} => locks[key[p]] = obj[p] /\ obj[p] # None

\* The mutex given back is one that this goroutine has (a Go mutex that is not
\* locked panics in Unlock, and one of another goroutine would be torn open).
ReleaseOwn == \A p \in Procs : pc[p] \in {"locked", "release"} => obj[p] # None /\ holder[obj[p]] = p

\* The count of a listed lock is the number of goroutines that wait for it or
\* hold it; Clean relies on it.
CountExact ==
    \A o \in Objs : (\E k \in Keys : locks[k] = o) => count[o] = Cardinality(Users(o))

\* One object is not listed under two keys.
ListedOnce ==
    \A k, l \in Keys : locks[k] # None /\ locks[k] = locks[l] => k = l

\* A taken mutex is the one its holder refers to.
HolderKnown ==
    \A o \in Objs : holder[o] # None =>
        pc[holder[o]] \in {"locked", "release"} /\ obj[holder[o]] = o

\* Before the lookup succeeds a goroutine refers to no lock.
NoObjYet == \A p \in Procs : pc[p] \in {"idle", "lookup", "create"} => obj[p] = None

\* The inductive invariant.
IndInv ==
    /\ TypeOK
    /\ UsedIsListed /\ ReleaseOwn /\ CountExact /\ ListedOnce
    /\ HolderKnown /\ NoObjYet

\* Lock returns in the end as long as holders unlock.
LockReturns == \A p \in Procs : pc[p] = "lookup" ~> pc[p] = "locked"

-----------------------------------------------------------------------------
\* The promise: a mutex per key.  A goroutine holds a key from the moment it
\* has the inner mutex until its Unlock has counted it out.
ModeOf(c) == IF c = "locked" THEN "hold"
             ELSE IF c \in {"lookup", "create", "acquire"} THEN "wait" ELSE "idle"

Abstract == INSTANCE KeyedMutex
              WITH mode <- [p \in Procs |-> ModeOf(pc[p])], want <- key

\* Every step of the table is a step of the keyed mutex, or none.
ImplementsKeyedMutex == Abstract!MSpec
=============================================================================
