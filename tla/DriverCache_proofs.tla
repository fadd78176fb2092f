------------------------- MODULE DriverCache_proofs --------------------------
(***************************************************************************)
(* Proofs about DriverCache, for any set of threads and of driver names.   *)
(*                                                                         *)
(* The inductive invariant says which thread may be where.  That a thread  *)
(* at "create" still sees _instance empty, and that a thread finding       *)
(* _initialised set finds the drivers loaded, both come down to cache_lock *)
(* being held throughout: the second needs the witness that somebody who   *)
(* initialised and has not yet loaded is at "load", hence holds the lock.  *)
(***************************************************************************)
EXTENDS DriverCache, TLAPS

\* The locks are held where the code holds them.
LocksHeld ==
    \A t \in Threads :
        /\ pc[t] \in InCache => lock = t
        /\ pc[t] \in {"drvLock", "drvReturn"} \cup InDriver => want[t] \in Drivers
        /\ pc[t] \in InDriver => drvLock[want[t]] = t

\* What each program point knows of the singleton.
InstanceKnown ==
    \A t \in Threads :
        /\ pc[t] = "create" => instance = Nobody
        /\ pc[t] \in {"unlock", "return"} => instance # Nobody
        /\ pc[t] \in {"initLock", "initCheck", "load", "initUnlock", "call"}
               => mine[t] # Nobody

\* An object marked initialised is loaded, or being loaded.
InitialisedLoads ==
    \A o \in initialised :
        o \in loaded \/ \E t \in Threads : pc[t] = "load" /\ mine[t] = o

\* A driver's index object is there once the test under its lock was made.
IndexKnown ==
    \A t \in Threads :
        pc[t] \in {"drvUnlock", "drvReturn"} => drvIndex[want[t]] # Nobody

Inv ==
    /\ TypeOK /\ LocksHeld /\ InstanceKnown /\ OneLoadedCache
    /\ InitialisedLoads /\ IndexKnown

\* The initial states satisfy the invariant.
LEMMA InitInv == Init => Inv
BY NobodyAssumption DEF Init, Inv, TypeOK, LocksHeld, InstanceKnown, OneLoadedCache,
   InitialisedLoads, IndexKnown, Object, Pcs, InCache, InDriver

\* Every step preserves it.
LEMMA NextInv == Inv /\ [Next]_vars => Inv'
<1> SUFFICES ASSUME Inv, [Next]_vars PROVE Inv'
  OBVIOUS
<1> USE NobodyAssumption, DriversAssumption
<1> USE DEF Inv, TypeOK, LocksHeld, InstanceKnown, OneLoadedCache, InitialisedLoads,
        IndexKnown, Object, Pcs, InCache, InDriver, Step, cacheVars, drvVars
<1>1. CASE UNCHANGED vars
  BY <1>1 DEF vars
<1>2. ASSUME NEW t \in Threads, NEW n \in Names, Lookup(t, n) PROVE Inv'
  BY <1>2 DEF Lookup
<1>3. ASSUME NEW t \in Threads, FirstCheck(t) PROVE Inv'
  BY <1>3 DEF FirstCheck
<1>4. ASSUME NEW t \in Threads, Acquire(t) PROVE Inv'
  BY <1>4 DEF Acquire
<1>5. ASSUME NEW t \in Threads, SecondCheck(t) PROVE Inv'
  BY <1>5 DEF SecondCheck
<1>6. ASSUME NEW t \in Threads, Create(t) PROVE Inv'
  BY <1>6 DEF Create
<1>7. ASSUME NEW t \in Threads, Release(t) PROVE Inv'
  BY <1>7 DEF Release
<1>8. ASSUME NEW t \in Threads, ReturnInstance(t) PROVE Inv'
  BY <1>8 DEF ReturnInstance
<1>9. ASSUME NEW t \in Threads, InitCheck(t) PROVE Inv'
  BY <1>9 DEF InitCheck
<1>10. ASSUME NEW t \in Threads, LoadDrivers(t) PROVE Inv'
  BY <1>10 DEF LoadDrivers
<1>11. ASSUME NEW t \in Threads, Call(t) PROVE Inv'
  BY <1>11 DEF Call, Refused
<1>12. ASSUME NEW t \in Threads, DrvAcquire(t) PROVE Inv'
  BY <1>12 DEF DrvAcquire
<1>13. ASSUME NEW t \in Threads, DrvMake(t) PROVE Inv'
  BY <1>13 DEF DrvMake
<1>14. ASSUME NEW t \in Threads, DrvRelease(t) PROVE Inv'
  BY <1>14 DEF DrvRelease
<1>15. ASSUME NEW t \in Threads, DrvReturn(t) PROVE Inv'
  BY <1>15 DEF DrvReturn
<1>16. QED
  BY <1>1, <1>2, <1>3, <1>4, <1>5, <1>6, <1>7, <1>8, <1>9, <1>10, <1>11, <1>12,
     <1>13, <1>14, <1>15 DEF Next

\* Every reachable state satisfies the invariant.
LEMMA InvariantHolds == Spec => []Inv
BY InitInv, NextInv, PTL DEF Spec

\* Every variable of the driver cache always has its type.
THEOREM TypeCorrect == Spec => []TypeOK
<1>1. Inv => TypeOK
  BY DEF Inv
<1>2. QED
  BY <1>1, InvariantHolds, PTL

\* Double-checked locking in OWSIndexDriverCache works for any number of
\* threads: one cache object, never used before its drivers are loaded.
THEOREM CacheSingleton == Spec => []OneLoadedCache
<1>1. Inv => OneLoadedCache
  BY DEF Inv
<1>2. QED
  BY <1>1, InvariantHolds, PTL

-----------------------------------------------------------------------------
\* The initial states are initial states of the promise.
LEMMA PromiseInit == Init => Promise!Init
BY DEF Init, Promise!Init

\* Every step is a step of the promise, or changes nothing it speaks of.
LEMMA PromiseStep == Inv /\ [Next]_vars => [Promise!Next]_<<drvIndex, answer>>
<1> SUFFICES ASSUME Inv, [Next]_vars PROVE [Promise!Next]_<<drvIndex, answer>>
  OBVIOUS
<1> USE DEF Inv, TypeOK, Step, cacheVars, drvVars
<1>1. CASE UNCHANGED vars
  BY <1>1 DEF vars
<1>2. ASSUME NEW t \in Threads, Call(t) PROVE [Promise!Next]_<<drvIndex, answer>>
  <2>1. CASE mine[t] \in loaded /\ want[t] \notin Drivers
    <3>1. want[t] \in Names \ Drivers
      BY <2>1
    <3>2. Promise!Refuse(t, want[t])
      BY <1>2, <2>1 DEF Call, Refused, Promise!Refuse
    <3>3. QED
      BY <3>1, <3>2 DEF Promise!Next
  <2>2. CASE ~(mine[t] \in loaded /\ want[t] \notin Drivers)
    BY <1>2, <2>2 DEF Call, Refused
  <2>3. QED
    BY <2>1, <2>2
<1>3. ASSUME NEW t \in Threads, DrvMake(t) PROVE [Promise!Next]_<<drvIndex, answer>>
  <2>1. want[t] \in Drivers
    BY <1>3 DEF DrvMake, LocksHeld, InDriver
  <2>2. CASE drvIndex[want[t]] = Nobody
    <3>1. Promise!Make(want[t])
      BY <1>3, <2>1, <2>2, NobodyAssumption DEF DrvMake, Promise!Make, Object
    <3>2. QED
      BY <2>1, <3>1 DEF Promise!Next
  <2>3. CASE drvIndex[want[t]] # Nobody
    BY <1>3, <2>3 DEF DrvMake
  <2>4. QED
    BY <2>2, <2>3
<1>4. ASSUME NEW t \in Threads, DrvReturn(t) PROVE [Promise!Next]_<<drvIndex, answer>>
  <2>1. want[t] \in Drivers /\ drvIndex[want[t]] # Nobody
    BY <1>4 DEF DrvReturn, LocksHeld, IndexKnown
  <2>2. Promise!Return(t, want[t])
    BY <1>4, <2>1 DEF DrvReturn, Promise!Return
  <2>3. QED
    BY <2>1, <2>2 DEF Promise!Next
<1>5. ASSUME NEW t \in Threads,
             \/ \E n \in Names : Lookup(t, n)
             \/ FirstCheck(t) \/ Acquire(t) \/ SecondCheck(t) \/ Create(t)
             \/ Release(t) \/ ReturnInstance(t) \/ InitCheck(t) \/ LoadDrivers(t)
             \/ DrvAcquire(t) \/ DrvRelease(t)
      PROVE  UNCHANGED <<drvIndex, answer>>
  BY <1>5 DEF Lookup, FirstCheck, Acquire, SecondCheck, Create, Release, ReturnInstance,
     InitCheck, LoadDrivers, DrvAcquire, DrvRelease
<1>6. QED
  BY <1>1, <1>2, <1>3, <1>4, <1>5 DEF Next

\* Whatever the interleaving of whatever number of threads, ows_index() makes
\* one index object per driver and returns it to every caller.
THEOREM OneIndexPerDriverHolds == Spec => OneIndexPerDriver
<1>1. Spec => Promise!Init
  BY PromiseInit DEF Spec
<1>2. Spec => [][Promise!Next]_<<drvIndex, answer>>
  BY PromiseStep, InvariantHolds, PTL DEF Spec
<1>3. QED
  BY <1>1, <1>2, PTL DEF OneIndexPerDriver, Promise!Spec
==============================================================================
