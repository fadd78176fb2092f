----------------------------- MODULE DriverCache -----------------------------
(***************************************************************************)
(* ows_index(): the lookup of the index object of an ODC environment.      *)
(* OWSIndexDriverCache is a singleton made under double-checked locking    *)
(* (__new__) and initialised under the same lock by the first caller       *)
(* (__init__, which Python runs after every __new__); the driver it finds  *)
(* makes its index object under the lock of its own module.  Threads may   *)
(* be switched anywhere.                                                   *)
(*                                                                         *)
(* An object is identified with the thread that made it.                   *)
(***************************************************************************)
CONSTANTS
    Threads,
    Names,    \* driver names an ODC environment may ask for
    Drivers,  \* names with an entry point in datacube_ows.plugins.index
    Nobody    \* the holder of a free lock; also None

ASSUME DriversAssumption == Drivers \subseteq Names
ASSUME NobodyAssumption == Nobody \notin Threads

VARIABLES
    pc,          \* [Threads -> Pcs]
    want,        \* [Threads -> Names]: the driver name asked for
    lock,        \* cache_lock: the thread that holds it, or Nobody
    instance,    \* OWSIndexDriverCache._instance
    mine,        \* [Threads -> object]: what __new__ returned to the thread
    initialised, \* objects whose _initialised is True
    loaded,      \* objects whose _drivers has been assigned
    drvLock,     \* [Drivers -> holder]: pgdriverlock, pgisdriverlock
    drvIndex,    \* [Drivers -> object]: the _driver attribute of the driver class
    answer       \* [Threads -> <<name, object>>]: the thread's last result

cacheVars == <<lock, instance, mine, initialised, loaded>>
drvVars   == <<drvLock, drvIndex>>
vars      == <<pc, want, cacheVars, drvVars, answer>>

Pcs == {"idle", "check", "lock", "recheck", "create", "unlock", "return",
        "initLock", "initCheck", "load", "initUnlock", "call",
        "drvLock", "drvCheck", "drvUnlock", "drvReturn", "error"}

Init ==
    /\ pc = [t \in Threads |-> "idle"]
    /\ want \in [Threads -> Names]
    /\ lock = Nobody
    /\ instance = Nobody
    /\ mine = [t \in Threads |-> Nobody]
    /\ initialised = {}
    /\ loaded = {}
    /\ drvLock = [d \in Drivers |-> Nobody]
    /\ drvIndex = [d \in Drivers |-> Nobody]
    /\ answer = [t \in Threads |-> <<Nobody, Nobody>>]

Step(t, from, to) == pc[t] = from /\ pc' = [pc EXCEPT ![t] = to]

-----------------------------------------------------------------------------
\* ows_index_driver_by_name(name).
Lookup(t, n) ==
    /\ Step(t, "idle", "check")
    /\ want' = [want EXCEPT ![t] = n]
    /\ UNCHANGED <<cacheVars, drvVars, answer>>

\* __new__: the first test of _instance, without the lock.
FirstCheck(t) ==
    /\ Step(t, "check", IF instance = Nobody THEN "lock" ELSE "return")
    /\ UNCHANGED <<want, cacheVars, drvVars, answer>>

Acquire(t) ==
    /\ \/ Step(t, "lock", "recheck")
       \/ Step(t, "initLock", "initCheck")
    /\ lock = Nobody
    /\ lock' = t
    /\ UNCHANGED <<want, instance, mine, initialised, loaded, drvVars, answer>>

\* Mutant: there is no second test.
NoSecondCheck(t) ==
    /\ Step(t, "recheck", "create")
    /\ UNCHANGED <<want, cacheVars, drvVars, answer>>

\* __new__: the second test, under the lock.
SecondCheck(t) ==
    /\ Step(t, "recheck", IF instance = Nobody THEN "create" ELSE "unlock")
    /\ UNCHANGED <<want, cacheVars, drvVars, answer>>

Create(t) ==
    /\ Step(t, "create", "unlock")
    /\ instance' = t
    /\ UNCHANGED <<want, lock, mine, initialised, loaded, drvVars, answer>>

Release(t) ==
    /\ \/ Step(t, "unlock", "return")
       \/ Step(t, "initUnlock", "call")
    /\ lock' = Nobody
    /\ UNCHANGED <<want, instance, mine, initialised, loaded, drvVars, answer>>

\* Mutant: _initialised is tested before the lock is taken.
ReturnTested(t) ==
    /\ Step(t, "return", IF instance \in initialised THEN "call" ELSE "initLock")
    /\ mine' = [mine EXCEPT ![t] = instance]
    /\ UNCHANGED <<want, lock, instance, initialised, loaded, drvVars, answer>>

\* `return cls._instance`, read again after the lock was released.
ReturnInstance(t) ==
    /\ Step(t, "return", "initLock")
    /\ mine' = [mine EXCEPT ![t] = instance]
    /\ UNCHANGED <<want, lock, instance, initialised, loaded, drvVars, answer>>

\* __init__: the flag is set before the drivers are loaded, under the lock.
InitCheck(t) ==
    /\ Step(t, "initCheck", IF mine[t] \in initialised THEN "initUnlock" ELSE "load")
    /\ initialised' = initialised \cup {mine[t]}
    /\ UNCHANGED <<want, lock, instance, mine, loaded, drvVars, answer>>

\* load_drivers(group) of datacube, which skips a driver that fails to load.
LoadDrivers(t) ==
    /\ Step(t, "load", "initUnlock")
    /\ loaded' = loaded \cup {mine[t]}
    /\ UNCHANGED <<want, lock, instance, mine, initialised, drvVars, answer>>

\* Mutant: the caller gets a bare None.
RefusedBare(t) == [answer EXCEPT ![t] = Nobody]

Refused(t) == [answer EXCEPT ![t] = <<want[t], Nobody>>]

\* self._drivers.get(name, None): an AttributeError before _drivers is there;
\* ows_index refuses a name without a driver with a ConfigException.
Call(t) ==
    /\ Step(t, "call", CASE mine[t] \notin loaded -> "error"
                         [] mine[t] \in loaded /\ want[t] \in Drivers -> "drvLock"
                         [] mine[t] \in loaded /\ want[t] \notin Drivers -> "idle")
    /\ answer' = IF mine[t] \in loaded /\ want[t] \notin Drivers
                 THEN Refused(t)
                 ELSE answer
    /\ UNCHANGED <<want, cacheVars, drvVars>>

-----------------------------------------------------------------------------
\* OWSPostgresIndexDriver.ows_index: the test is made under the lock.
DrvAcquire(t) ==
    /\ Step(t, "drvLock", "drvCheck")
    /\ drvLock[want[t]] = Nobody
    /\ drvLock' = [drvLock EXCEPT ![want[t]] = t]
    /\ UNCHANGED <<want, cacheVars, drvIndex, answer>>

\* Mutant: the driver is tested before its lock is taken.
DrvMakeAgain(t) ==
    /\ Step(t, "drvCheck", "drvUnlock")
    /\ drvIndex' = [drvIndex EXCEPT ![want[t]] = t]
    /\ UNCHANGED <<want, cacheVars, drvLock, answer>>

DrvMake(t) ==
    /\ Step(t, "drvCheck", "drvUnlock")
    /\ IF drvIndex[want[t]] = Nobody
       THEN drvIndex' = [drvIndex EXCEPT ![want[t]] = t]
       ELSE UNCHANGED drvIndex
    /\ UNCHANGED <<want, cacheVars, drvLock, answer>>

DrvRelease(t) ==
    /\ Step(t, "drvUnlock", "drvReturn")
    /\ drvLock' = [drvLock EXCEPT ![want[t]] = Nobody]
    /\ UNCHANGED <<want, cacheVars, drvIndex, answer>>

\* `return cls._driver`, after the lock was released.
DrvReturn(t) ==
    /\ Step(t, "drvReturn", "idle")
    /\ answer' = [answer EXCEPT ![t] = <<want[t], drvIndex[want[t]]>>]
    /\ UNCHANGED <<want, cacheVars, drvVars>>

Next ==
    \E t \in Threads :
        \/ \E n \in Names : Lookup(t, n)
        \/ FirstCheck(t) \/ Acquire(t) \/ SecondCheck(t) \/ Create(t) \/ Release(t)
        \/ ReturnInstance(t) \/ InitCheck(t) \/ LoadDrivers(t) \/ Call(t)
        \/ DrvAcquire(t) \/ DrvMake(t) \/ DrvRelease(t) \/ DrvReturn(t)

Spec == Init /\ [][Next]_vars

-----------------------------------------------------------------------------
\* The code that runs with cache_lock held, and with a driver's lock held.
InCache  == {"recheck", "create", "unlock", "initCheck", "load", "initUnlock"}
InDriver == {"drvCheck", "drvUnlock"}

Object == Threads \cup {Nobody}

\* Every variable has its type.
TypeOK ==
    /\ pc \in [Threads -> Pcs]
    /\ want \in [Threads -> Names]
    /\ lock \in Object
    /\ instance \in Object
    /\ mine \in [Threads -> Object]
    /\ initialised \subseteq Object
    /\ loaded \subseteq Object
    /\ drvLock \in [Drivers -> Object]
    /\ drvIndex \in [Drivers -> Object]
    /\ answer \in [Threads -> (Names \cup {Nobody}) \X Object]

\* The cache is made once and initialised once: all threads that are past
\* __new__ hold the same object, and none gets past __init__ before the drivers
\* are loaded (a lookup would raise an AttributeError on _drivers), although
\* _initialised is set first and _instance is tested and returned without the lock.
OneLoadedCache ==
    \A t \in Threads :
        /\ mine[t] # Nobody => mine[t] = instance
        /\ pc[t] \in {"initUnlock", "call"} => mine[t] \in loaded

Promise == INSTANCE LazySingletons
             WITH object <- drvIndex, Ids <- Threads, Nothing <- Nobody

\* Whatever the interleaving, all lookups of a driver name return the one index
\* object of that driver.
OneIndexPerDriver == Promise!Spec
=============================================================================
