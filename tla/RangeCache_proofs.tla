-------------------------- MODULE RangeCache_proofs --------------------------
(***************************************************************************)
(* Proofs about the range cache for any layers, threads and bounds, and    *)
(* about the two modules that build on it.                                 *)
(*                                                                         *)
(* First, facts about the actions of RangeCache: they preserve the types   *)
(* of its variables; what a thread has established so far in               *)
(* force_range_update when no other thread computes at the same time       *)
(* (Underway); and what it has even if others do (Given).                  *)
(*                                                                         *)
(* Then LayerRanges: type correctness under either scheduling, and, with   *)
(* cooperative threads, the consistency of visible layers under            *)
(* overlapping force_range_update calls.  The latter becomes inductive     *)
(* with Underway: as no other thread computes at the same time, nobody can *)
(* undo it before the call is over.  That a read is as fresh as the row    *)
(* was when it began needs, in the same way, how fresh what each thread    *)
(* holds is at each stage of its call (Freshens).                          *)
(*                                                                         *)
(* Last, ConfigReadiness (OWSFolder.make_ready), for any layer tree, any   *)
(* number of request threads and any failures: it never loses a layer, a   *)
(* layer whose ready flag is set has all that a request reads, and, with   *)
(* cooperative threads, a visible child of a folder can be served, during  *)
(* a late make_ready too, and one that is listed once can be drawn.        *)
(***************************************************************************)
EXTENDS LayerRanges, ConfigReadiness, TLAPS

Got == Versions \cup {Unset}

\* The bounds leave room for a first version.
LEMMA ZeroVersion == 0 \in Versions
BY BoundsAssumption DEF Versions

\* A step inside force_range_update keeps the layer and the types of call.
LEMMA ProceedType ==
    ASSUME CacheTypeOK, NEW t \in Threads, call[t].ph # "idle",
           NEW phase \in Computing, NEW v \in Got, Proceed(t, phase, v)
    PROVE  /\ call'[t] = [ph |-> phase, lyr |-> call[t].lyr, got |-> v]
           /\ \A u \in Threads \ {t} : call'[u] = call[u]
           /\ call' \in [Threads -> CallType]
           /\ \A u \in Threads : /\ call'[u].ph # "idle" => call'[u].lyr \in Layers
                                 /\ call'[u].got = Failed => call'[u].ph = "reply"
<1>1. call \in [Threads -> CallType] /\ call[t].lyr \in Layers
  BY DEF CacheTypeOK
<1>2. call'[t] = [ph |-> phase, lyr |-> call[t].lyr, got |-> v]
  BY <1>1 DEF Proceed, CallType
<1>3. \A u \in Threads \ {t} : call'[u] = call[u]
  BY <1>1 DEF Proceed
<1>4. call'[t] \in CallType
  BY <1>1, <1>2 DEF CallType, Phases, Got
<1>5. call' \in [Threads -> CallType]
  BY <1>1, <1>3, <1>4 DEF Proceed
<1>6. v # Failed
  BY DEF Got, Versions, Unset, Failed
<1>7. QED
  BY <1>1, <1>2, <1>3, <1>5, <1>6 DEF CacheTypeOK

\* The first step of force_range_update.
LEMMA BeginType ==
    ASSUME CacheTypeOK, NEW t \in Threads, NEW l \in Layers, BeginUpdate(t, l)
    PROVE  CacheTypeOK'
BY ZeroVersion DEF CacheTypeOK, BeginUpdate, CallType, Phases, Failed, dbVars

\* The answer of the database.
LEMMA AnswerType ==
    ASSUME CacheTypeOK, NEW t \in Threads, AnswerQuery(t)
    PROVE  CacheTypeOK'
<1>1. call[t].lyr \in Layers /\ call[t] \in CallType
  BY DEF CacheTypeOK, AnswerQuery
<1>2. QED
  BY <1>1 DEF CacheTypeOK, AnswerQuery, CallType, Phases, dbVars, layerVars

\* The steps from the answer to the end.
LEMMA ComputeType ==
    ASSUME CacheTypeOK, NEW t \in Threads, Compute(t)
    PROVE  CacheTypeOK'
<1> DEFINE l == call[t].lyr
<1>1. call[t].ph # "idle" /\ l \in Layers
  <2>1. call[t].ph # "idle"
    BY DEF Compute, AssignRanges, CheckRanges, ExtractBoxes, StoreBoxes, FindDefaultTime,
           StoreDefaultTime, HideLayer, ClearBoxes
  <2>2. QED
    BY <2>1 DEF CacheTypeOK
<1>2. 0 \in Got /\ ranges[l] \in Got
  BY <1>1, ZeroVersion DEF CacheTypeOK, Got
<1>3. call[t].got # Failed => call[t].got \in Got
  BY DEF CacheTypeOK, CallType, Got
<1>4. \E phase \in Computing, v \in Got : Proceed(t, phase, v)
  BY <1>1, <1>2 DEF Compute, AssignRanges, CheckRanges, ExtractBoxes, StoreBoxes,
     FindDefaultTime, StoreDefaultTime, HideLayer, ClearBoxes, Computing
<1>5. /\ call' \in [Threads -> CallType]
      /\ \A u \in Threads : /\ call'[u].ph # "idle" => call'[u].lyr \in Layers
                            /\ call'[u].got = Failed => call'[u].ph = "reply"
  BY <1>1, <1>4, ProceedType
<1>6. UNCHANGED dbVars
  BY DEF Compute, AssignRanges, CheckRanges, ExtractBoxes, StoreBoxes,
     FindDefaultTime, StoreDefaultTime, HideLayer, ClearBoxes
<1>7. /\ hide' \in [Layers -> BOOLEAN]
      /\ ranges' \in [Layers -> Got]
      /\ bboxes' \in [Layers -> Got]
      /\ defTime' \in [Layers -> Got]
  <2>1. /\ hide \in [Layers -> BOOLEAN] /\ ranges \in [Layers -> Got]
        /\ bboxes \in [Layers -> Got] /\ defTime \in [Layers -> Got]
    BY DEF CacheTypeOK, Got
  <2>2. CASE AssignRanges(t)
    BY <1>3, <2>1, <2>2 DEF AssignRanges
  <2>3. CASE CheckRanges(t) \/ ExtractBoxes(t) \/ FindDefaultTime(t)
    BY <2>1, <2>3 DEF CheckRanges, ExtractBoxes, FindDefaultTime, layerVars
  <2>4. CASE StoreBoxes(t) \/ StoreDefaultTime(t)
    <3>1. call[t].got # Failed
      BY <2>4 DEF StoreBoxes, StoreDefaultTime, CacheTypeOK
    <3>2. QED
      BY <1>3, <2>1, <2>4, <3>1 DEF StoreBoxes, StoreDefaultTime
  <2>5. CASE HideLayer(t) \/ ClearBoxes(t)
    BY <1>2, <2>1, <2>5 DEF HideLayer, ClearBoxes
  <2>6. QED
    BY <2>2, <2>3, <2>4, <2>5 DEF Compute
<1>8. QED
  BY <1>5, <1>6, <1>7 DEF CacheTypeOK, dbVars, Got

\* The end of force_range_update.
LEMMA EndType ==
    ASSUME CacheTypeOK, NEW t \in Threads, EndUpdate(t), UNCHANGED <<dbVars, layerVars>>
    PROVE  CacheTypeOK'
BY ZeroVersion DEF CacheTypeOK, EndUpdate, Idle, CallType, Phases, Failed, dbVars, layerVars

\* The steps of the database.
LEMMA DatabaseType ==
    ASSUME CacheTypeOK, Database
    PROVE  CacheTypeOK' /\ UNCHANGED <<layerVars, call>>
<1>1. ASSUME NEW l \in Layers, UpdateRow(l) PROVE CacheTypeOK'
  <2>1. row[l] + 1 \in Versions
    BY <1>1, BoundsAssumption DEF UpdateRow, CacheTypeOK, Versions
  <2>2. QED
    BY <1>1, <2>1 DEF UpdateRow, layerVars, CacheTypeOK
<1>2. ASSUME LoseDatabase PROVE CacheTypeOK'
  <2>1. outages + 1 \in 0 .. MaxOutages
    BY <1>2, BoundsAssumption DEF LoseDatabase, CacheTypeOK
  <2>2. QED
    BY <1>2, <2>1 DEF LoseDatabase, layerVars, CacheTypeOK
<1>3. ASSUME RestoreDatabase PROVE CacheTypeOK'
  BY <1>3 DEF RestoreDatabase, layerVars, CacheTypeOK
<1>4. UNCHANGED <<layerVars, call>>
  BY DEF Database, UpdateRow, LoseDatabase, RestoreDatabase
<1>5. QED
  BY <1>1, <1>2, <1>3, <1>4 DEF Database

-----------------------------------------------------------------------------
\* The attributes of a layer come from one row that can be shown.
Whole(l) == ranges[l] >= 1 /\ bboxes[l] = ranges[l] /\ defTime[l] = ranges[l]

\* What a thread in force_range_update has established about its layer.
Underway(t) ==
    LET l == call[t].lyr IN
    /\ call[t].ph = "reply" => call[t].got # Unset
    /\ call[t].ph = "check" => ranges[l] # Unset
    /\ call[t].ph \in {"extract", "boxes", "date", "default"} => ranges[l] >= 1
    /\ call[t].ph \in {"boxes", "default"} => call[t].got = ranges[l]
    /\ call[t].ph \in {"date", "default"} => bboxes[l] = ranges[l]
    /\ call[t].ph = "clear" => hide[l]
    /\ call[t].ph = "return" => hide[l] \/ Whole(l)

\* A computing thread goes from one stage of Underway to the next.
LEMMA ComputeUnderway ==
    ASSUME CacheTypeOK, NEW t \in Threads, Underway(t), Compute(t)
    PROVE  Underway(t)' /\ call'[t].lyr = call[t].lyr /\ call'[t].ph # "idle"
<1> DEFINE l == call[t].lyr
<1>1. call[t].ph # "idle" /\ l \in Layers
  <2>1. call[t].ph # "idle"
    BY DEF Compute, AssignRanges, CheckRanges, ExtractBoxes, StoreBoxes, FindDefaultTime,
           StoreDefaultTime, HideLayer, ClearBoxes
  <2>2. QED
    BY <2>1 DEF CacheTypeOK
<1>2. call[t] \in CallType /\ call \in [Threads -> CallType]
  BY DEF CacheTypeOK
<1>3. /\ hide \in [Layers -> BOOLEAN] /\ ranges \in [Layers -> Versions \cup {Unset}]
      /\ bboxes \in [Layers -> Versions \cup {Unset}]
      /\ defTime \in [Layers -> Versions \cup {Unset}]
  BY DEF CacheTypeOK
<1>4. ranges[l] \in Int /\ (ranges[l] >= 0 \/ ranges[l] = Unset)
  BY <1>1, <1>3 DEF Versions, Unset
<1>5. \A phase, v : Proceed(t, phase, v) =>
          call'[t].ph = phase /\ call'[t].lyr = l /\ call'[t].got = v
  BY <1>2 DEF Proceed, CallType
<1>6. CASE AssignRanges(t)
  <2>1. CASE call[t].got = Failed
    BY <1>5, <1>6, <2>1 DEF AssignRanges, Underway
  <2>2. CASE call[t].got # Failed
    <3>1. ranges'[l] # Unset /\ call'[t].ph = "check" /\ call'[t].lyr = l
      BY <1>1, <1>3, <1>5, <1>6, <2>2 DEF AssignRanges, Underway
    <3>2. QED
      BY <3>1 DEF Underway
  <2>3. QED
    BY <2>1, <2>2
<1>7. CASE CheckRanges(t)
  BY <1>4, <1>5, <1>7 DEF CheckRanges, Underway, Unset, layerVars
<1>8. CASE ExtractBoxes(t)
  BY <1>4, <1>5, <1>8 DEF ExtractBoxes, Underway, layerVars
<1>9. CASE StoreBoxes(t)
  BY <1>1, <1>3, <1>5, <1>9 DEF StoreBoxes, Underway
<1>10. CASE FindDefaultTime(t)
  BY <1>4, <1>5, <1>10 DEF FindDefaultTime, Underway, layerVars
<1>11. CASE StoreDefaultTime(t)
  BY <1>1, <1>3, <1>5, <1>11 DEF StoreDefaultTime, Underway, Whole
<1>12. CASE HideLayer(t)
  BY <1>1, <1>3, <1>5, <1>12 DEF HideLayer, Underway
<1>13. CASE ClearBoxes(t)
  BY <1>1, <1>3, <1>5, <1>13 DEF ClearBoxes, Underway
<1>14. QED
  BY <1>6, <1>7, <1>8, <1>9, <1>10, <1>11, <1>12, <1>13 DEF Compute

\* What needs no turns: an attribute that was assigned is never unset again, and
\* a thread only stores what it has read.
AttributesStay ==
    \A l \in Layers : /\ ranges[l] # Unset => ranges'[l] # Unset
                      /\ bboxes[l] # Unset => bboxes'[l] # Unset
                      /\ defTime[l] # Unset => defTime'[l] # Unset

Given(t) ==
    /\ call[t].ph = "reply" => call[t].got # Unset
    /\ call[t].ph \in {"check", "extract", "boxes", "date", "default"} => ranges[call[t].lyr] # Unset
    /\ call[t].ph \in {"boxes", "default"} => call[t].got # Unset

\* A call that goes on elsewhere keeps what it has.
LEMMA StaysGiven ==
    ASSUME CacheTypeOK, NEW t \in Threads, Given(t), call'[t] = call[t], AttributesStay
    PROVE  Given(t)'
BY DEF CacheTypeOK, Given, AttributesStay

\* The answer of the database gives a thread what it waits for.
LEMMA AnswerGives ==
    ASSUME CacheTypeOK, NEW t \in Threads, AnswerQuery(t)
    PROVE  Given(t)' /\ AttributesStay /\ \A u \in Threads \ {t} : call'[u] = call[u]
<1>1. /\ call[t].lyr \in Layers /\ call[t] \in CallType /\ call \in [Threads -> CallType]
      /\ row[call[t].lyr] # Unset
  BY DEF AnswerQuery, CacheTypeOK, Versions, Unset
<1>2. call'[t].ph = "reply" /\ call'[t].got # Unset
  BY <1>1 DEF AnswerQuery, CallType, Unset, Failed
<1>3. QED
  BY <1>1, <1>2 DEF AnswerQuery, Given, AttributesStay, layerVars

\* So do the steps after it, one to the next.
LEMMA ComputeGives ==
    ASSUME CacheTypeOK, NEW t \in Threads, Given(t), Compute(t)
    PROVE  Given(t)' /\ AttributesStay /\ \A u \in Threads \ {t} : call'[u] = call[u]
<1> DEFINE l == call[t].lyr
<1>1. call[t].ph # "idle" /\ l \in Layers
  <2>1. call[t].ph # "idle"
    BY DEF Compute, AssignRanges, CheckRanges, ExtractBoxes, StoreBoxes, FindDefaultTime,
           StoreDefaultTime, HideLayer, ClearBoxes
  <2>2. QED
    BY <2>1 DEF CacheTypeOK
<1>2. /\ call[t] \in CallType /\ call \in [Threads -> CallType]
      /\ ranges \in [Layers -> Versions \cup {Unset}]
      /\ bboxes \in [Layers -> Versions \cup {Unset}]
      /\ defTime \in [Layers -> Versions \cup {Unset}]
  BY DEF CacheTypeOK
<1>3. \A phase, v : Proceed(t, phase, v) =>
          /\ call'[t].ph = phase /\ call'[t].lyr = l /\ call'[t].got = v
          /\ \A u \in Threads \ {t} : call'[u] = call[u]
  BY <1>2 DEF Proceed, CallType
<1>4. CASE AssignRanges(t)
  BY <1>1, <1>2, <1>3, <1>4 DEF AssignRanges, Given, AttributesStay
<1>5. CASE CheckRanges(t) \/ ExtractBoxes(t) \/ FindDefaultTime(t)
  BY <1>1, <1>3, <1>5 DEF CheckRanges, ExtractBoxes, FindDefaultTime, Given, AttributesStay, layerVars
<1>6. CASE StoreBoxes(t)
  BY <1>1, <1>2, <1>3, <1>6 DEF StoreBoxes, Given, AttributesStay
<1>7. CASE StoreDefaultTime(t)
  BY <1>1, <1>2, <1>3, <1>7 DEF StoreDefaultTime, Given, AttributesStay
<1>8. CASE HideLayer(t)
  BY <1>3, <1>8 DEF HideLayer, Given, AttributesStay
<1>9. CASE ClearBoxes(t)
  BY <1>1, <1>2, <1>3, <1>9 DEF ClearBoxes, Given, AttributesStay, Unset
<1>10. QED
  BY <1>4, <1>5, <1>6, <1>7, <1>8, <1>9 DEF Compute

-----------------------------------------------------------------------------
(* Reads of ranges: LayerRanges. *)

\* What a read of `ranges` returns has its type.
LEMMA GetterType ==
    ASSUME TypeOK, NEW l \in Layers, NEW v \in Versions
    PROVE  GetterResult(l, v) \in ResType
BY DEF TypeOK, CacheTypeOK, GetterResult, ResType, Versions

\* So has a read that has not been made.
LEMMA NoResType == NoRes \in ResType
BY ZeroVersion DEF NoRes, ResType

\* The initial states have their types.
LEMMA ReadTypesInit == Init => TypeOK
<1> SUFFICES ASSUME Init PROVE TypeOK
  OBVIOUS
<1>1. row \in [Layers -> Versions] /\ outages \in 0 .. MaxOutages
  BY BoundsAssumption DEF Init, Versions
<1>2. call \in [Threads -> CallType]
  BY ZeroVersion DEF Init, CallType, Phases, Idle
<1>3. \A t \in Threads : call[t].ph = "idle" /\ call[t].got # Failed
  BY DEF Init, Idle, Failed
<1>4. CacheTypeOK
  BY <1>1, <1>2, <1>3, ZeroVersion DEF Init, CacheTypeOK
<1>5. QED
  BY <1>4, ZeroVersion, NoResType DEF Init, TypeOK

\* Every step keeps them.
LEMMA ReadTypesNext == TypeOK /\ [Next]_vars => TypeOK'
<1> SUFFICES ASSUME TypeOK, [Next]_vars PROVE TypeOK'
  OBVIOUS
<1> USE DEF TypeOK
<1>1. CASE UNCHANGED vars
  BY <1>1 DEF vars, cacheVars, dbVars, layerVars, CacheTypeOK
<1>2. ASSUME NEW t \in Threads, NEW l \in Layers, ReadRanges(t, l) PROVE TypeOK'
  <2>1. row[l] \in Versions
    BY DEF CacheTypeOK
  <2>2. CASE l \in Dynamic
    BY <1>2, <2>1, <2>2, BeginType, NoResType DEF ReadRanges
  <2>3. CASE l \notin Dynamic
    <3>1. CacheTypeOK'
      BY <1>2, <2>3 DEF ReadRanges, cacheVars, dbVars, layerVars, CacheTypeOK
    <3>2. GetterResult(l, row[l]) \in ResType
      BY <2>1, GetterType
    <3>3. QED
      BY <1>2, <2>3, <3>1, <3>2 DEF ReadRanges
  <2>4. QED
    BY <2>2, <2>3
<1>3. ASSUME NEW t \in Threads, UpdateStep(t) PROVE TypeOK'
  BY <1>3, AnswerType, ComputeType DEF UpdateStep
<1>4. ASSUME NEW t \in Threads, ReturnRanges(t) PROVE TypeOK'
  <2>1. call[t].lyr \in Layers /\ since[t] \in Versions
    BY <1>4 DEF ReturnRanges, EndUpdate, CacheTypeOK
  <2>2. CacheTypeOK'
    BY <1>4, EndType DEF ReturnRanges
  <2>3. QED
    BY <1>4, <2>1, <2>2, GetterType, ZeroVersion DEF ReturnRanges
<1>5. CASE Database /\ UNCHANGED <<since, res>>
  BY <1>5, DatabaseType
<1>6. QED
  BY <1>1, <1>2, <1>3, <1>4, <1>5 DEF Next, ThreadStep

\* Every variable always has its type, whatever the scheduling.
THEOREM TypeCorrect == Spec => []TypeOK
BY ReadTypesInit, ReadTypesNext, PTL DEF Spec

-----------------------------------------------------------------------------
CoopInv == VisibleIsConsistent /\ \A t \in Threads : Underway(t)

\* Initially a layer is visible if its row may be shown, and nobody is in a call.
LEMMA CoopInit == Init => CoopInv
<1>1. ASSUME Init PROVE VisibleIsConsistent
  BY <1>1 DEF Init, VisibleIsConsistent, Shown
<1>2. ASSUME Init PROVE \A t \in Threads : Underway(t)
  BY <1>2 DEF Init, Idle, Underway
<1>3. QED
  BY <1>1, <1>2 DEF CoopInv

\* A step that changes no attribute of a layer.
LEMMA OutsideStep ==
    ASSUME CoopInv, UNCHANGED layerVars,
           \A t \in Threads :
               \/ call'[t] = call[t]
               \/ call[t].ph \in {"idle", "return"} /\ call'[t].ph = "idle"
    PROVE  CoopInv'
<1>1. VisibleIsConsistent'
  BY DEF CoopInv, VisibleIsConsistent, Quiet, layerVars
<1>2. ASSUME NEW t \in Threads PROVE Underway(t)'
  <2>1. CASE call'[t] = call[t]
    BY <2>1 DEF CoopInv, Underway, Whole, layerVars
  <2>2. CASE call'[t].ph = "idle"
    BY <2>2 DEF Underway
  <2>3. QED
    BY <2>1, <2>2
<1>3. QED
  BY <1>1, <1>2 DEF CoopInv

\* A step of thread t in force_range_update of layer l.
LEMMA InsideStep ==
    ASSUME CoopInv, NEW t \in Threads, NEW l \in Layers,
           call[t].ph \notin {"idle", "return"} => call[t].lyr = l,
           call'[t].lyr = l, call'[t].ph # "idle", Underway(t)',
           \A u \in Threads \ {t} : /\ call'[u] = call[u]
                                    /\ call[u].ph \notin Computing \/ UNCHANGED layerVars,
           \A k \in Layers \ {l} : /\ hide'[k] = hide[k] /\ ranges'[k] = ranges[k]
                                   /\ bboxes'[k] = bboxes[k] /\ defTime'[k] = defTime[k]
    PROVE  CoopInv'
<1>1. ASSUME NEW k \in Layers, Quiet(k)', ~hide'[k] PROVE Whole(k)'
  <2>1. CASE k = l
    <3>1. call'[t].ph = "return"
      BY <1>1, <2>1 DEF Quiet
    <3>2. QED
      BY <1>1, <2>1, <3>1 DEF Underway
  <2>2. CASE k # l
    <3>1. Quiet(k)
      BY <1>1, <2>2 DEF Quiet
    <3>2. QED
      BY <1>1, <2>2, <3>1 DEF CoopInv, VisibleIsConsistent, Whole
  <2>3. QED
    BY <2>1, <2>2
<1>2. VisibleIsConsistent'
  BY <1>1 DEF VisibleIsConsistent, Whole
<1>3. ASSUME NEW u \in Threads PROVE Underway(u)'
  <2>1. CASE u = t
    BY <2>1
  <2>2. CASE u # t /\ call[u].ph \notin Computing
    BY <2>2 DEF CoopInv, Underway, Computing
  <2>3. CASE u # t /\ UNCHANGED layerVars
    BY <2>3 DEF CoopInv, Underway, Whole, layerVars
  <2>4. QED
    BY <2>1, <2>2, <2>3
<1>4. QED
  BY <1>2, <1>3 DEF CoopInv

\* With cooperative threads every step keeps the invariant.
LEMMA CoopNext == ~Preemptive /\ TypeOK /\ CoopInv /\ [Next]_vars => CoopInv'
<1> SUFFICES ASSUME ~Preemptive, TypeOK, CoopInv, [Next]_vars PROVE CoopInv'
  OBVIOUS
<1>1. CASE UNCHANGED vars
  BY <1>1, OutsideStep DEF vars, cacheVars
<1>2. ASSUME NEW t \in Threads, NEW l \in Layers, ReadRanges(t, l) PROVE CoopInv'
  <2>1. CASE l \in Dynamic
    <3>1. BeginUpdate(t, l) /\ Turn(t)
      BY <1>2, <2>1 DEF ReadRanges
    <3>2. /\ call[t].ph = "idle" /\ call'[t].ph = "query" /\ call'[t].lyr = l
          /\ \A u \in Threads \ {t} : call'[u] = call[u] /\ call[u].ph \notin Computing
          /\ \A k \in Layers \ {l} : /\ hide'[k] = hide[k] /\ ranges'[k] = ranges[k]
                                    /\ bboxes'[k] = bboxes[k] /\ defTime'[k] = defTime[k]
      BY <3>1 DEF BeginUpdate, Turn, TypeOK, CacheTypeOK
    <3>3. Underway(t)'
      BY <3>2 DEF Underway
    <3>4. QED
      BY <3>2, <3>3, InsideStep
  <2>2. CASE l \notin Dynamic
    BY <1>2, <2>2, OutsideStep DEF ReadRanges, cacheVars
  <2>3. QED
    BY <2>1, <2>2
<1>3. ASSUME NEW t \in Threads, AnswerQuery(t) PROVE CoopInv'
  <2>1. call[t].lyr \in Layers /\ call[t] \in CallType /\ call \in [Threads -> CallType]
    BY <1>3 DEF AnswerQuery, TypeOK, CacheTypeOK
  <2>2. call'[t].ph = "reply" /\ call'[t].lyr = call[t].lyr /\ call'[t].got # Unset
    BY <1>3, <2>1 DEF AnswerQuery, CallType, TypeOK, CacheTypeOK, Versions, Unset, Failed
  <2>3. Underway(t)'
    BY <2>2 DEF Underway
  <2>4. UNCHANGED layerVars /\ \A u \in Threads \ {t} : call'[u] = call[u]
    BY <1>3, <2>1 DEF AnswerQuery
  <2>5. \A k \in Layers : /\ hide'[k] = hide[k] /\ ranges'[k] = ranges[k]
                          /\ bboxes'[k] = bboxes[k] /\ defTime'[k] = defTime[k]
    BY <2>4 DEF layerVars
  <2>6. QED
    BY <2>1, <2>2, <2>3, <2>4, <2>5, InsideStep
<1>4. ASSUME NEW t \in Threads, Turn(t), Compute(t) PROVE CoopInv'
  <2>1. Underway(t)' /\ call'[t].lyr = call[t].lyr /\ call'[t].ph # "idle"
    BY <1>4, ComputeUnderway DEF TypeOK, CoopInv
  <2>2. call[t].lyr \in Layers
    BY <1>4 DEF TypeOK, CacheTypeOK, Compute, AssignRanges, CheckRanges, ExtractBoxes,
       StoreBoxes, FindDefaultTime, StoreDefaultTime, HideLayer, ClearBoxes
  <2>3. \A u \in Threads \ {t} : call[u].ph \notin Computing
    BY <1>4 DEF Turn
  <2>4. \A u \in Threads \ {t} : call'[u] = call[u]
    BY <1>4 DEF TypeOK, CacheTypeOK, Compute, AssignRanges, CheckRanges, ExtractBoxes,
       StoreBoxes, FindDefaultTime, StoreDefaultTime, HideLayer, ClearBoxes, Proceed
  <2>5. \A k \in Layers \ {call[t].lyr} :
            /\ hide'[k] = hide[k] /\ ranges'[k] = ranges[k]
            /\ bboxes'[k] = bboxes[k] /\ defTime'[k] = defTime[k]
    BY <1>4 DEF TypeOK, CacheTypeOK, Compute, AssignRanges, CheckRanges, ExtractBoxes,
       StoreBoxes, FindDefaultTime, StoreDefaultTime, HideLayer, ClearBoxes, layerVars
  <2>6. QED
    BY <2>1, <2>2, <2>3, <2>4, <2>5, InsideStep
<1>5. ASSUME NEW t \in Threads, ReturnRanges(t) PROVE CoopInv'
  BY <1>5, OutsideStep DEF ReturnRanges, EndUpdate, Idle, TypeOK, CacheTypeOK
<1>6. CASE Database
  BY <1>6, DatabaseType, OutsideStep DEF TypeOK
<1>7. QED
  BY <1>1, <1>2, <1>3, <1>4, <1>5, <1>6 DEF Next, ThreadStep, UpdateStep

\* With any number of cooperative threads that update any layers at once, and
\* however often the database fails: a visible layer at rest has its extent,
\* bounding boxes and default time from one and the same row.
THEOREM VisibleAlwaysConsistent == ASSUME ~Preemptive PROVE Spec => []VisibleIsConsistent
<1>1. Init => TypeOK /\ CoopInv
  BY ReadTypesInit, CoopInit
<1>2. (TypeOK /\ CoopInv) /\ [Next]_vars => (TypeOK /\ CoopInv)'
  BY ReadTypesNext, CoopNext
<1>3. CoopInv => VisibleIsConsistent
  BY DEF CoopInv
<1>4. QED
  BY <1>1, <1>2, <1>3, PTL DEF Spec

-----------------------------------------------------------------------------
\* How far the read a thread is in has come: from the answer on, what it has is
\* at least as new as the row was when the read began, or the layer gets hidden.
Freshens(t) ==
    LET l == call[t].lyr IN
    /\ call[t].ph # "idle" => since[t] <= row[l]
    /\ call[t].ph = "reply" /\ call[t].got # Failed => call[t].got >= since[t]
    /\ call[t].ph \in {"check", "extract", "boxes", "date", "default"} => ranges[l] >= since[t]
    /\ call[t].ph = "clear" => hide[l]
    /\ call[t].ph = "return" => hide[l] \/ ranges[l] >= since[t]

FreshInv == FreshRead /\ \A t \in Threads : Freshens(t)

\* Initially nobody has read anything.
LEMMA FreshInit == Init => FreshInv
BY DEF Init, Idle, NoRes, FreshInv, FreshRead, Freshens

\* What a step leaves alone stays fresh; rows only get newer.
LEMMA StaysFresh ==
    ASSUME TypeOK, NEW t \in Threads, Freshens(t), call'[t] = call[t], since'[t] = since[t],
           \A l \in Layers : row'[l] >= row[l] /\ row'[l] \in Versions,
           call[t].ph \in Computing => UNCHANGED layerVars
    PROVE  Freshens(t)'
<1>1. /\ call[t].ph # "idle" => call[t].lyr \in Layers
      /\ row \in [Layers -> Versions] /\ since[t] \in Versions
  BY DEF TypeOK, CacheTypeOK
<1>2. call[t].ph # "idle" => since[t] <= row'[call[t].lyr]
  BY <1>1 DEF Freshens, Versions
<1>3. QED
  BY <1>2 DEF Freshens, Computing, layerVars

\* A computing thread keeps what its answer has established.
LEMMA ComputeFreshens ==
    ASSUME TypeOK, NEW t \in Threads, Freshens(t), Compute(t), since'[t] = since[t]
    PROVE  Freshens(t)'
<1> DEFINE l == call[t].lyr
<1>1. call[t].ph # "idle" /\ l \in Layers
  <2>1. call[t].ph # "idle"
    BY DEF Compute, AssignRanges, CheckRanges, ExtractBoxes, StoreBoxes, FindDefaultTime,
           StoreDefaultTime, HideLayer, ClearBoxes
  <2>2. QED
    BY <2>1 DEF TypeOK, CacheTypeOK
<1>2. /\ call[t] \in CallType /\ call \in [Threads -> CallType]
      /\ hide \in [Layers -> BOOLEAN] /\ ranges \in [Layers -> Versions \cup {Unset}]
  BY DEF TypeOK, CacheTypeOK
<1>3. since[t] <= row[l] /\ row' = row
  BY <1>1 DEF Freshens, Compute, AssignRanges, CheckRanges, ExtractBoxes, StoreBoxes,
     FindDefaultTime, StoreDefaultTime, HideLayer, ClearBoxes, dbVars
<1>4. \A phase, v : Proceed(t, phase, v) => call'[t].ph = phase /\ call'[t].lyr = l
  BY <1>2 DEF Proceed, CallType
<1>5. CASE AssignRanges(t)
  <2>1. CASE call[t].got = Failed
    BY <1>3, <1>4, <1>5, <2>1 DEF AssignRanges, Freshens
  <2>2. CASE call[t].got # Failed
    BY <1>1, <1>2, <1>3, <1>4, <1>5, <2>2 DEF AssignRanges, Freshens
  <2>3. QED
    BY <2>1, <2>2
<1>6. CASE CheckRanges(t) \/ ExtractBoxes(t) \/ FindDefaultTime(t)
  BY <1>3, <1>4, <1>6 DEF CheckRanges, ExtractBoxes, FindDefaultTime, Freshens, layerVars
<1>7. CASE StoreBoxes(t) \/ StoreDefaultTime(t)
  BY <1>3, <1>4, <1>7 DEF StoreBoxes, StoreDefaultTime, Freshens
<1>8. CASE HideLayer(t)
  BY <1>1, <1>2, <1>3, <1>4, <1>8 DEF HideLayer, Freshens
<1>9. CASE ClearBoxes(t)
  BY <1>3, <1>4, <1>9 DEF ClearBoxes, Freshens
<1>10. QED
  BY <1>5, <1>6, <1>7, <1>8, <1>9 DEF Compute

\* With cooperative threads every step keeps reads fresh.
LEMMA FreshNext == ~Preemptive /\ TypeOK /\ FreshInv /\ [Next]_vars => FreshInv'
<1> SUFFICES ASSUME ~Preemptive, TypeOK, FreshInv, [Next]_vars PROVE FreshInv'
  OBVIOUS
<1>a. row \in [Layers -> Versions] /\ \A v \in Versions : v \in Int
  BY DEF TypeOK, CacheTypeOK, Versions
\* A step of one thread, given what the others see of it.
<1>b. ASSUME NEW t \in Threads, Freshens(t)', FreshRead', row' = row,
             \A u \in Threads \ {t} :
                 /\ call'[u] = call[u] /\ since'[u] = since[u]
                 /\ call[u].ph \in Computing => UNCHANGED layerVars
      PROVE  FreshInv'
  <2>1. \A l \in Layers : row'[l] >= row[l] /\ row'[l] \in Versions
    BY <1>a, <1>b
  <2>2. ASSUME NEW u \in Threads \ {t} PROVE Freshens(u)'
    BY <1>b, <2>1, StaysFresh DEF FreshInv
  <2>3. QED
    BY <1>b, <2>2 DEF FreshInv
<1>1. CASE UNCHANGED vars
  BY <1>1 DEF vars, cacheVars, dbVars, layerVars, FreshInv, FreshRead, Freshens
<1>2. ASSUME NEW t \in Threads, NEW l \in Layers, ReadRanges(t, l) PROVE FreshInv'
  <2>1. CASE l \in Dynamic
    <3>1. /\ BeginUpdate(t, l) /\ Turn(t)
          /\ since' = [since EXCEPT ![t] = row[l]] /\ res' = [res EXCEPT ![t] = NoRes]
      BY <1>2, <2>1 DEF ReadRanges
    <3>2. /\ call'[t].ph = "query" /\ call'[t].lyr = l /\ row' = row
          /\ \A u \in Threads \ {t} : call'[u] = call[u] /\ call[u].ph \notin Computing
      BY <3>1 DEF BeginUpdate, Turn, dbVars, TypeOK, CacheTypeOK
    <3>3. since'[t] = row[l] /\ \A u \in Threads \ {t} : since'[u] = since[u]
      BY <3>1 DEF TypeOK
    <3>4. Freshens(t)'
      BY <1>a, <3>2, <3>3 DEF Freshens
    <3>5. FreshRead'
      BY <3>1 DEF FreshInv, FreshRead, TypeOK, NoRes
    <3>6. QED
      BY <1>b, <3>2, <3>3, <3>4, <3>5
  <2>2. CASE l \notin Dynamic
    <3>1. UNCHANGED <<cacheVars, since>> /\ res' = [res EXCEPT ![t] = GetterResult(l, row[l])]
      BY <1>2, <2>2 DEF ReadRanges
    <3>2. FreshRead'
      BY <2>2, <3>1 DEF FreshInv, FreshRead, TypeOK, GetterResult
    <3>3. QED
      BY <3>1, <3>2 DEF FreshInv, Freshens, cacheVars, dbVars, layerVars
  <2>3. QED
    BY <2>1, <2>2
<1>3. ASSUME NEW t \in Threads, AnswerQuery(t), UNCHANGED <<since, res>> PROVE FreshInv'
  <2>1. call[t].lyr \in Layers /\ call[t] \in CallType /\ call \in [Threads -> CallType]
    BY <1>3 DEF AnswerQuery, TypeOK, CacheTypeOK
  <2>2. /\ call'[t].ph = "reply" /\ call'[t].lyr = call[t].lyr
        /\ call'[t].got \in {row[call[t].lyr], Failed}
        /\ UNCHANGED <<dbVars, layerVars>> /\ \A u \in Threads \ {t} : call'[u] = call[u]
    BY <1>3, <2>1 DEF AnswerQuery, CallType
  <2>3. since[t] <= row[call[t].lyr]
    BY <1>3 DEF FreshInv, Freshens, AnswerQuery
  <2>4. Freshens(t)'
    BY <1>3, <2>2, <2>3 DEF Freshens, dbVars
  <2>5. FreshRead'
    BY <1>3 DEF FreshInv, FreshRead
  <2>6. QED
    BY <1>b, <1>3, <2>2, <2>4, <2>5 DEF dbVars
<1>4. ASSUME NEW t \in Threads, Turn(t), Compute(t), UNCHANGED <<since, res>> PROVE FreshInv'
  <2>1. Freshens(t)'
    BY <1>4, ComputeFreshens DEF FreshInv
  <2>2. \A u \in Threads \ {t} : call[u].ph \notin Computing
    BY <1>4 DEF Turn
  <2>3. row' = row /\ \A u \in Threads \ {t} : call'[u] = call[u]
    BY <1>4 DEF TypeOK, CacheTypeOK, Compute, AssignRanges, CheckRanges, ExtractBoxes,
       StoreBoxes, FindDefaultTime, StoreDefaultTime, HideLayer, ClearBoxes, Proceed, dbVars
  <2>4. FreshRead'
    BY <1>4 DEF FreshInv, FreshRead
  <2>5. QED
    BY <1>b, <1>4, <2>1, <2>2, <2>3, <2>4
<1>5. ASSUME NEW t \in Threads, ReturnRanges(t) PROVE FreshInv'
  <2>1. /\ call[t].ph = "return" /\ UNCHANGED <<dbVars, layerVars>>
        /\ call' = [call EXCEPT ![t] = Idle] /\ since' = [since EXCEPT ![t] = 0]
        /\ res' = [res EXCEPT ![t] = GetterResult(call[t].lyr, since[t])]
    BY <1>5 DEF ReturnRanges, EndUpdate
  <2>2. hide[call[t].lyr] \/ ranges[call[t].lyr] >= since[t]
    BY <2>1 DEF FreshInv, Freshens
  <2>3. FreshRead'
    <3> SUFFICES ASSUME NEW u \in Threads, res'[u].kind = "ranges", ~res'[u].hidden,
                        res'[u].lyr \in Dynamic
                 PROVE  res'[u].ver >= res'[u].since
      BY DEF FreshRead
    <3>1. CASE u = t
      BY <2>1, <2>2, <3>1 DEF GetterResult, TypeOK
    <3>2. CASE u # t
      BY <2>1, <3>2 DEF FreshInv, FreshRead, TypeOK
    <3>3. QED
      BY <3>1, <3>2
  <2>4. Freshens(t)'
    BY <2>1 DEF Freshens, Idle, TypeOK, CacheTypeOK
  <2>5. QED
    BY <1>b, <2>1, <2>3, <2>4 DEF TypeOK, CacheTypeOK, dbVars
<1>6. CASE Database /\ UNCHANGED <<since, res>>
  <2>1. UNCHANGED <<layerVars, call>> /\ row' \in [Layers -> Versions]
    BY <1>6, DatabaseType DEF TypeOK, CacheTypeOK
  <2>2. \A l \in Layers : row'[l] >= row[l]
    BY <1>a, <1>6 DEF Database, UpdateRow, LoseDatabase, RestoreDatabase
  <2>3. FreshRead'
    BY <1>6 DEF FreshInv, FreshRead
  <2>4. \A t \in Threads : Freshens(t)'
    BY <1>6, <2>1, <2>2, StaysFresh DEF FreshInv
  <2>5. QED
    BY <2>3, <2>4 DEF FreshInv
<1>7. QED
  BY <1>1, <1>2, <1>3, <1>4, <1>5, <1>6 DEF Next, ThreadStep, UpdateStep

\* What docs/cfg_layers.rst promises of dynamic layers, for any number of
\* cooperative threads: a read of a visible layer's ranges is never older than
\* the row was when the read began.
THEOREM ReadsAreFresh == ASSUME ~Preemptive PROVE Spec => []FreshRead
<1>1. Init => TypeOK /\ FreshInv
  BY ReadTypesInit, FreshInit
<1>2. (TypeOK /\ FreshInv) /\ [Next]_vars => (TypeOK /\ FreshInv)'
  BY ReadTypesNext, FreshNext
<1>3. FreshInv => FreshRead
  BY DEF FreshInv
<1>4. QED
  BY <1>1, <1>2, <1>3, PTL DEF Spec

-----------------------------------------------------------------------------
(***************************************************************************)
(* make_ready.                                                             *)
(*                                                                         *)
(* NoLayerLost is not inductive: make_ready replaces folder.unready_layers *)
(* by the local list still_unready, so what matters is that every loop in  *)
(* progress, in the folder a thread works in and in all folders around it, *)
(* still accounts for every layer of its folder: in child_layers, in       *)
(* still_unready or in the rest of the iteration.  The loops in progress   *)
(* are the folders on the path down to the current one (OpenFrames).       *)
(*                                                                         *)
(* The ready flag is about what threads hold as much as about the layer:   *)
(* ReadyInv adds that a layer a thread has started on has some products    *)
(* (LookedUp), and that what it is about to store in its call is there     *)
(* (Given); no attribute is ever unset again (Kept), so turns do not       *)
(* matter.  They do for what can be served (ServeInv): a layer that got    *)
(* through its lookup once is never refused again (FoundStays), and one    *)
(* with no computation under way is whole (ChildWhole).                    *)
(***************************************************************************)

Loop == {"folder", "products", "ranging"}

\* The part of CTypeOK the argument needs.
TreeTypes ==
    /\ child \in [Folders -> Seq(Nodes)]
    /\ unready \in [Folders -> Seq(Nodes)]
    /\ stage \in [Threads -> Stages]
    /\ cur \in [Threads -> Folders]
    /\ todo \in [Threads -> [Folders -> Seq(Nodes)]]
    /\ still \in [Threads -> [Folders -> Seq(Nodes)]]

\* What is iterated over and what is put back are layers of the folder.
OnlyOwnKids ==
    \A f \in Folders :
        /\ Elems(unready[f]) \subseteq Elems(Kids[f])
        /\ \A t \in Threads : Elems(todo[t][f]) \cup Elems(still[t][f]) \subseteq Elems(Kids[f])

\* The thread's loop over the folder accounts for every layer of it.
Covered(t, f) ==
    Elems(Kids[f]) \subseteq Elems(child[f]) \cup Elems(still[t][f]) \cup Elems(todo[t][f])

\* The depth of a folder in the tree.
HasDepth(d) ==
    \A p \in Folders : \A f \in Folders \cap Elems(Kids[p]) : d[f] = d[p] + 1
Depth == CHOOSE d \in [Folders -> 0 .. Cardinality(Folders)] : HasDepth(d)

\* S is the path of folders whose loops the thread is in: one per depth, down
\* to cur[t], each the head of the iteration of the one above.
OpenFrames(t, S) ==
    /\ cur[t] \in S
    /\ \A f \in S : Covered(t, f) /\ Depth[f] <= Depth[cur[t]]
    /\ \A f, g \in S : Depth[f] = Depth[g] => f = g
    /\ \A f \in S \ {Root} :
           LET p == ParentOf(f) IN
           p \in S /\ todo[t][p] # <<>> /\ Head(todo[t][p]) = f

LoopsCovered ==
    \A t \in Threads : stage[t] \in Loop => \E S \in SUBSET Folders : OpenFrames(t, S)

\* In a layer's make_ready, the layer is the head of the folder's iteration.
AtLayer ==
    \A t \in Threads :
        stage[t] \in {"products", "ranging"} =>
            todo[t][cur[t]] # <<>> /\ Item(t) \in Layers

Inv == TreeTypes /\ OnlyOwnKids /\ NoLayerLost /\ LoopsCovered /\ AtLayer

-----------------------------------------------------------------------------
\* list.append adds one element.
LEMMA ElemsAppend ==
    ASSUME NEW S, NEW s \in Seq(S), NEW e \in S
    PROVE  Append(s, e) \in Seq(S) /\ Elems(Append(s, e)) = Elems(s) \cup {e}
<1>1. Append(s, e) \in Seq(S) /\ Len(Append(s, e)) = Len(s) + 1
  OBVIOUS
<1>2. \A i \in 1 .. Len(s) : Append(s, e)[i] = s[i]
  OBVIOUS
<1>3. Append(s, e)[Len(s) + 1] = e
  OBVIOUS
<1>4. DOMAIN s = 1 .. Len(s) /\ DOMAIN Append(s, e) = 1 .. Len(s) + 1 /\ Len(s) \in Nat
  BY <1>1
<1>5. QED
  BY <1>1, <1>2, <1>3, <1>4 DEF Elems

\* An iteration is over its head and then over the rest.
LEMMA ElemsHeadTail ==
    ASSUME NEW S, NEW s \in Seq(S), s # <<>>
    PROVE  /\ Head(s) \in S /\ Tail(s) \in Seq(S)
           /\ Elems(s) = {Head(s)} \cup Elems(Tail(s))
<1>1. Head(s) = s[1] /\ Tail(s) \in Seq(S) /\ Len(Tail(s)) = Len(s) - 1 /\ Len(s) \in Nat \ {0}
  OBVIOUS
<1>2. \A i \in 1 .. Len(s) - 1 : Tail(s)[i] = s[i + 1]
  OBVIOUS
<1>3. DOMAIN s = 1 .. Len(s) /\ DOMAIN Tail(s) = 1 .. Len(s) - 1
  BY <1>1
<1>4. Head(s) \in S
  BY <1>1
<1>5. ASSUME NEW i \in 1 .. Len(s), i # 1 PROVE s[i] \in Elems(Tail(s))
  <2>1. i - 1 \in DOMAIN Tail(s) /\ Tail(s)[i - 1] = s[(i - 1) + 1] /\ (i - 1) + 1 = i
    BY <1>1, <1>2, <1>3, <1>5
  <2>2. QED
    BY <2>1 DEF Elems
<1>6. ASSUME NEW i \in 1 .. Len(s) - 1 PROVE Tail(s)[i] \in Elems(s)
  <2>1. i + 1 \in DOMAIN s /\ Tail(s)[i] = s[i + 1]
    BY <1>1, <1>2, <1>3
  <2>2. QED
    BY <2>1 DEF Elems
<1>7. Elems(s) \subseteq {Head(s)} \cup Elems(Tail(s))
  BY <1>1, <1>3, <1>5 DEF Elems
<1>8. Head(s) \in Elems(s)
  <2>1. 1 \in DOMAIN s
    BY <1>1, <1>3
  <2>2. QED
    BY <1>1, <2>1 DEF Elems
<1>9. Elems(Tail(s)) \subseteq Elems(s)
  BY <1>3, <1>6 DEF Elems
<1>10. QED
  BY <1>1, <1>4, <1>7, <1>8, <1>9

\* The empty list has no elements.
LEMMA ElemsEmpty == Elems(<<>>) = {}
BY DEF Elems

\* A folder has one parent.
LEMMA Parent ==
    ASSUME NEW p \in Folders, NEW f \in Elems(Kids[p])
    PROVE  ParentOf(f) = p
<1>1. \E q \in Folders : f \in Elems(Kids[q])
  OBVIOUS
<1>2. ParentOf(f) \in Folders /\ f \in Elems(Kids[ParentOf(f)])
  BY <1>1 DEF ParentOf
<1>3. QED
  BY <1>2, TreeAssumption

\* A sub-folder is one level deeper than its folder.
LEMMA DepthFact ==
    /\ \A f \in Folders : Depth[f] \in Int
    /\ \A p \in Folders : \A f \in Folders \cap Elems(Kids[p]) : Depth[f] = Depth[p] + 1
<1>1. \E d \in [Folders -> 0 .. Cardinality(Folders)] : HasDepth(d)
  BY DepthAssumption DEF HasDepth
<1>2. Depth \in [Folders -> 0 .. Cardinality(Folders)] /\ HasDepth(Depth)
  BY <1>1 DEF Depth
<1>3. QED
  BY <1>2 DEF HasDepth

-----------------------------------------------------------------------------
\* The initial states satisfy the invariant.
LEMMA InitInv == CInit => Inv
<1> SUFFICES ASSUME CInit PROVE Inv
  OBVIOUS
<1> USE TreeAssumption
<1>1. TreeTypes
  <2>1. \A f \in Folders : Kids[f] \in Seq(Nodes)
    OBVIOUS
  <2>2. Kids \in [Folders -> Seq(Nodes)]
    BY <2>1
  <2>3. QED
    BY <2>2 DEF CInit, TreeTypes, Stages, NoLocals
<1>2. OnlyOwnKids
  BY ElemsEmpty DEF CInit, OnlyOwnKids, NoLocals
<1>3. NoLayerLost
  BY DEF CInit, NoLayerLost
<1>4. LoopsCovered /\ AtLayer
  BY DEF CInit, LoopsCovered, AtLayer, Loop
<1>5. QED
  BY <1>1, <1>2, <1>3, <1>4 DEF Inv

\* The loops of a thread that does nothing stay covered while others append to
\* child_layers, whatever they do to unready_layers.
LEMMA FrameKept ==
    ASSUME NEW t \in Threads, NEW S \in SUBSET Folders, OpenFrames(t, S),
           cur'[t] = cur[t], todo'[t] = todo[t], still'[t] = still[t],
           \A f \in Folders : Elems(child[f]) \subseteq Elems(child'[f])
    PROVE  OpenFrames(t, S)'
<1>1. \A f \in S : Covered(t, f)'
  BY DEF OpenFrames, Covered
<1>2. QED
  BY <1>1 DEF OpenFrames

\* A step that leaves the tree and all loops alone, at most moving threads out
\* of make_ready or between requests, preserves the invariant.
LEMMA IdleStep ==
    ASSUME Inv, UNCHANGED <<child, unready, cur, todo, still>>,
           stage' \in [Threads -> Stages],
           \A t \in Threads : stage'[t] \in Loop => stage'[t] = stage[t]
    PROVE  Inv'
<1>1. TreeTypes' /\ OnlyOwnKids' /\ NoLayerLost'
  BY DEF Inv, TreeTypes, OnlyOwnKids, NoLayerLost
<1>2. LoopsCovered'
  <2> SUFFICES ASSUME NEW t \in Threads, stage'[t] \in Loop
               PROVE  \E S \in SUBSET Folders : OpenFrames(t, S)'
    BY DEF LoopsCovered
  <2>1. PICK S \in SUBSET Folders : OpenFrames(t, S)
    BY DEF Inv, LoopsCovered
  <2>2. OpenFrames(t, S)'
    BY <2>1 DEF OpenFrames, Covered
  <2>3. QED
    BY <2>2
<1>3. AtLayer'
  BY DEF Inv, AtLayer, Item, Loop
<1>4. QED
  BY <1>1, <1>2, <1>3 DEF Inv

\* lyr.make_ready returned or raised a ConfigException: the layer moves from
\* the iteration to child_layers or to still_unready.
LEMMA LayerHandled ==
    ASSUME Inv, NEW t \in Threads, stage[t] \in {"products", "ranging"},
           Accept(t, cur[t], Item(t)) \/ Reject(t, cur[t], Item(t)),
           stage' = [stage EXCEPT ![t] = "folder"],
           UNCHANGED <<unready, cur>>
    PROVE  Inv'
<1> DEFINE f == cur[t]
           n == Item(t)
<1> USE DEF TreeTypes
<1>1. /\ TreeTypes /\ f \in Folders /\ n \in Layers /\ n \in Nodes
      /\ todo[t][f] \in Seq(Nodes) /\ todo[t][f] # <<>> /\ n = Head(todo[t][f])
  BY DEF Inv, AtLayer, Nodes, Item
<1>2. Tail(todo[t][f]) \in Seq(Nodes) /\ Elems(todo[t][f]) = {n} \cup Elems(Tail(todo[t][f]))
  BY <1>1, ElemsHeadTail
<1>3. /\ Append(child[f], n) \in Seq(Nodes) /\ Elems(Append(child[f], n)) = Elems(child[f]) \cup {n}
      /\ Append(still[t][f], n) \in Seq(Nodes)
      /\ Elems(Append(still[t][f], n)) = Elems(still[t][f]) \cup {n}
  BY <1>1, ElemsAppend
<1>4. /\ todo' = [todo EXCEPT ![t][f] = Tail(todo[t][f])]
      /\ \/ child' = [child EXCEPT ![f] = Append(child[f], n)] /\ still' = still
         \/ child' = child /\ still' = [still EXCEPT ![t][f] = Append(still[t][f], n)]
  BY <1>1 DEF Accept, Reject
<1>5. TreeTypes'
  <2>1. todo' \in [Threads -> [Folders -> Seq(Nodes)]]
    BY <1>1, <1>2, <1>4
  <2>2. child' \in [Folders -> Seq(Nodes)] /\ still' \in [Threads -> [Folders -> Seq(Nodes)]]
    <3>1. CASE child' = [child EXCEPT ![f] = Append(child[f], n)] /\ still' = still
      BY <1>1, <1>3, <3>1
    <3>2. CASE child' = child /\ still' = [still EXCEPT ![t][f] = Append(still[t][f], n)]
      BY <1>1, <1>3, <3>2
    <3>3. QED
      BY <1>4, <3>1, <3>2
  <2>3. stage' \in [Threads -> Stages]
    BY <1>1 DEF Stages
  <2>4. QED
    BY <1>1, <2>1, <2>2, <2>3
<1>6. /\ todo'[t][f] = Tail(todo[t][f])
      /\ \A g \in Folders \ {f} : todo'[t][g] = todo[t][g] /\ still'[t][g] = still[t][g]
      /\ \A u \in Threads \ {t} : todo'[u] = todo[u] /\ still'[u] = still[u]
      /\ \A g \in Folders : Elems(child[g]) \subseteq Elems(child'[g])
      /\ n \in Elems(child'[f]) \cup Elems(still'[t][f])
      /\ Elems(still[t][f]) \subseteq Elems(still'[t][f])
      /\ Elems(still'[t][f]) \subseteq Elems(still[t][f]) \cup {n}
  <2>1. /\ todo'[t][f] = Tail(todo[t][f])
        /\ \A g \in Folders \ {f} : todo'[t][g] = todo[t][g]
        /\ \A u \in Threads \ {t} : todo'[u] = todo[u]
    BY <1>1, <1>4
  <2>2. CASE child' = [child EXCEPT ![f] = Append(child[f], n)] /\ still' = still
    <3>1. child'[f] = Append(child[f], n) /\ \A g \in Folders \ {f} : child'[g] = child[g]
      BY <1>1, <2>2
    <3>2. QED
      BY <1>3, <2>1, <2>2, <3>1
  <2>3. CASE child' = child /\ still' = [still EXCEPT ![t][f] = Append(still[t][f], n)]
    <3>1. /\ still'[t][f] = Append(still[t][f], n)
          /\ \A g \in Folders \ {f} : still'[t][g] = still[t][g]
          /\ \A u \in Threads \ {t} : still'[u] = still[u]
      BY <1>1, <2>3
    <3>2. QED
      BY <1>3, <2>1, <2>3, <3>1
  <2>4. QED
    BY <1>4, <2>2, <2>3
<1>7. OnlyOwnKids'
  <2>1. /\ \A g \in Folders : Elems(unready[g]) \subseteq Elems(Kids[g])
        /\ \A u \in Threads, g \in Folders :
               Elems(todo[u][g]) \subseteq Elems(Kids[g]) /\ Elems(still[u][g]) \subseteq Elems(Kids[g])
    BY DEF Inv, OnlyOwnKids
  <2>2. n \in Elems(Kids[f])
    BY <1>1, <1>2, <2>1
  <2>3. ASSUME NEW u \in Threads, NEW g \in Folders
        PROVE  Elems(todo'[u][g]) \subseteq Elems(Kids[g]) /\ Elems(still'[u][g]) \subseteq Elems(Kids[g])
    <3>1. CASE u = t /\ g = f
      <4>1. Elems(todo'[t][f]) \subseteq Elems(todo[t][f])
        BY <1>2, <1>6
      <4>2. QED
        BY <1>1, <1>6, <2>1, <2>2, <3>1, <4>1
    <3>2. CASE ~(u = t /\ g = f)
      <4>1. todo'[u][g] = todo[u][g] /\ still'[u][g] = still[u][g]
        BY <1>6, <3>2
      <4>2. QED
        BY <2>1, <4>1
    <3>3. QED
      BY <3>1, <3>2
  <2>4. unready' = unready
    OBVIOUS
  <2>5. QED
    BY <2>1, <2>3, <2>4 DEF OnlyOwnKids
<1>8. NoLayerLost'
  BY <1>6 DEF Inv, NoLayerLost
<1>9. LoopsCovered'
  <2> SUFFICES ASSUME NEW u \in Threads, stage'[u] \in Loop
               PROVE  \E S \in SUBSET Folders : OpenFrames(u, S)'
    BY DEF LoopsCovered
  <2>1. stage[u] \in Loop
    BY <1>1 DEF Loop
  <2>2. PICK S \in SUBSET Folders : OpenFrames(u, S)
    BY <2>1 DEF Inv, LoopsCovered
  <2>3. CASE u # t
    <3>1. OpenFrames(u, S)'
      BY <2>2, <2>3, <1>6, FrameKept
    <3>2. QED
      BY <3>1
  <2>4. CASE u = t
    <3>1. \A g \in S : Covered(t, g)'
      BY <2>2, <2>4, <1>1, <1>2, <1>6 DEF OpenFrames, Covered
    <3>2. \A g \in S \ {Root} : ParentOf(g) # f
      BY <2>2, <2>4, <1>1, TreeAssumption DEF OpenFrames
    <3>3. OpenFrames(t, S)'
      BY <2>2, <2>4, <1>6, <3>1, <3>2 DEF OpenFrames
    <3>4. QED
      BY <2>4, <3>3
  <2>5. QED
    BY <2>3, <2>4
<1>10. AtLayer'
  <2> SUFFICES ASSUME NEW u \in Threads, stage'[u] \in {"products", "ranging"}
               PROVE  (todo[u][cur[u]] # <<>> /\ Item(u) \in Layers)'
    BY DEF AtLayer
  <2>1. u # t /\ stage[u] = stage'[u]
    BY <1>1
  <2>2. QED
    BY <1>1, <1>6, <2>1 DEF Inv, AtLayer, Item
<1>11. QED
  BY <1>5, <1>7, <1>8, <1>9, <1>10 DEF Inv

\* A sub-folder's loop is over: unready_layers becomes still_unready, and the
\* sub-folder moves to its parent's child_layers.
LEMMA SubFolderLeft ==
    ASSUME Inv, NEW t \in Threads, stage[t] = "folder", cur[t] # Root,
           todo[t][cur[t]] = <<>>,
           unready' = [unready EXCEPT ![cur[t]] = still[t][cur[t]]],
           Accept(t, ParentOf(cur[t]), cur[t]),
           cur' = [cur EXCEPT ![t] = ParentOf(cur[t])],
           stage' = stage
    PROVE  Inv'
<1> DEFINE f == cur[t]
           p == ParentOf(f)
<1> USE DEF TreeTypes
<1>1. PICK S \in SUBSET Folders : OpenFrames(t, S)
  BY DEF Inv, LoopsCovered, Loop
<1>2. /\ TreeTypes /\ f \in S /\ f \in Folders /\ p \in S /\ p \in Folders
      /\ todo[t][p] # <<>> /\ Head(todo[t][p]) = f /\ f # p /\ f \in Nodes
  BY <1>1 DEF Inv, OpenFrames, Nodes
<1>3. /\ Tail(todo[t][p]) \in Seq(Nodes) /\ Elems(todo[t][p]) = {f} \cup Elems(Tail(todo[t][p]))
      /\ Append(child[p], f) \in Seq(Nodes) /\ Elems(Append(child[p], f)) = Elems(child[p]) \cup {f}
  BY <1>2, ElemsHeadTail, ElemsAppend
<1>4. f \in Elems(Kids[p]) /\ Depth[f] = Depth[p] + 1 /\ \A g \in Folders : Depth[g] \in Int
  BY <1>2, <1>3, DepthFact DEF Inv, OnlyOwnKids
<1>5. /\ todo' = [todo EXCEPT ![t][p] = Tail(todo[t][p])]
      /\ child' = [child EXCEPT ![p] = Append(child[p], f)] /\ still' = still
  BY DEF Accept
<1>6. TreeTypes'
  BY <1>2, <1>3, <1>5
<1>7. /\ todo'[t][p] = Tail(todo[t][p])
      /\ \A g \in Folders \ {p} : todo'[t][g] = todo[t][g]
      /\ \A u \in Threads \ {t} : todo'[u] = todo[u] /\ cur'[u] = cur[u]
      /\ cur'[t] = p
      /\ \A g \in Folders : Elems(child[g]) \subseteq Elems(child'[g])
      /\ f \in Elems(child'[p])
      /\ unready'[f] = still[t][f] /\ \A g \in Folders \ {f} : unready'[g] = unready[g]
  BY <1>2, <1>3, <1>5
<1>8. OnlyOwnKids'
  <2> SUFFICES ASSUME NEW g \in Folders
               PROVE  /\ Elems(unready'[g]) \subseteq Elems(Kids[g])
                      /\ \A u \in Threads : /\ Elems(todo'[u][g]) \subseteq Elems(Kids[g])
                                            /\ Elems(still'[u][g]) \subseteq Elems(Kids[g])
    BY DEF OnlyOwnKids
  <2>1. /\ Elems(unready[g]) \subseteq Elems(Kids[g])
        /\ \A u \in Threads : /\ Elems(todo[u][g]) \subseteq Elems(Kids[g])
                              /\ Elems(still[u][g]) \subseteq Elems(Kids[g])
    BY DEF Inv, OnlyOwnKids
  <2>2. unready'[g] \in {unready[g], still[t][g]}
    BY <1>7
  <2>3. Elems(todo'[t][g]) \subseteq Elems(todo[t][g])
    BY <1>3, <1>7
  <2>4. QED
    BY <2>1, <2>2, <2>3, <1>5, <1>7
<1>9. NoLayerLost'
  <2>1. Elems(Kids[f]) \subseteq Elems(child[f]) \cup Elems(still[t][f])
    BY <1>1, <1>2, ElemsEmpty DEF OpenFrames, Covered
  <2>2. QED
    BY <1>7, <2>1 DEF Inv, NoLayerLost
<1>10. LoopsCovered'
  <2> SUFFICES ASSUME NEW u \in Threads, stage'[u] \in Loop
               PROVE  \E R \in SUBSET Folders : OpenFrames(u, R)'
    BY DEF LoopsCovered
  <2>1. CASE u # t
    <3>1. PICK R \in SUBSET Folders : OpenFrames(u, R)
      BY DEF Inv, LoopsCovered
    <3>2. OpenFrames(u, R)'
      BY <2>1, <3>1, <1>5, <1>7, FrameKept
    <3>3. QED
      BY <3>2
  <2>2. CASE u = t
    <3>1. ASSUME NEW g \in S \ {f} PROVE Covered(t, g)'
      <4>1. Covered(t, g) /\ still'[t][g] = still[t][g]
        BY <1>1, <1>5 DEF OpenFrames
      <4>2. Elems(child[g]) \subseteq Elems(child'[g])
        BY <1>7
      <4>3. Elems(todo[t][g]) \subseteq Elems(todo'[t][g]) \cup Elems(child'[g])
        <5>1. CASE g = p
          BY <5>1, <1>3, <1>5, <1>7, Zenon
        <5>2. CASE g # p
          <6>1. g \in Folders
            OBVIOUS
          <6>2. QED
            BY <5>2, <6>1, <1>7, Zenon
        <5>3. QED
          BY <5>1, <5>2
      <4>4. QED
        BY <4>1, <4>2, <4>3 DEF Covered
    <3>2. \A g \in S \ {f} : Depth[g] <= Depth[p]
      <4> SUFFICES ASSUME NEW g \in S \ {f} PROVE Depth[g] <= Depth[p]
        OBVIOUS
      <4>1. Depth[g] <= Depth[f] /\ Depth[g] # Depth[f]
        BY <1>1, <1>2 DEF OpenFrames
      <4>2. Depth[g] \in Int /\ Depth[f] \in Int /\ Depth[p] \in Int
        BY <1>2, <1>4
      <4>3. QED
        BY <4>1, <4>2, <1>4
    <3>3. ASSUME NEW g \in (S \ {f}) \ {Root}
          PROVE  /\ ParentOf(g) \in S \ {f}
                 /\ todo'[t][ParentOf(g)] # <<>> /\ Head(todo'[t][ParentOf(g)]) = g
      <4>1. /\ ParentOf(g) \in S /\ todo[t][ParentOf(g)] # <<>>
            /\ Head(todo[t][ParentOf(g)]) = g
        BY <1>1 DEF OpenFrames
      <4>2. ParentOf(g) # f /\ ParentOf(g) # p
        BY <1>2, <4>1
      <4>3. QED
        BY <1>7, <4>1, <4>2
    <3>4. PICK R \in SUBSET Folders : R = S \ {f}
      OBVIOUS
    <3>5. \A g, h \in R : Depth[g] = Depth[h] => g = h
      BY <1>1, <3>4 DEF OpenFrames
    <3>6. OpenFrames(t, R)'
      <4>1. cur'[t] = p /\ p \in R
        BY <1>2, <1>5, <1>7, <3>4
      <4>2. \A g \in R : Covered(t, g)' /\ Depth[g] <= Depth[cur'[t]]
        BY <3>1, <3>2, <3>4, <4>1
      <4>3. \A g \in R \ {Root} : LET q == ParentOf(g) IN
                q \in R /\ todo'[t][q] # <<>> /\ Head(todo'[t][q]) = g
        BY <3>3, <3>4
      <4>4. QED
        BY <3>5, <4>1, <4>2, <4>3 DEF OpenFrames
    <3>7. QED
      BY <2>2, <3>6
  <2>3. QED
    BY <2>1, <2>2
<1>11. AtLayer'
  <2> SUFFICES ASSUME NEW u \in Threads, stage'[u] \in {"products", "ranging"}
               PROVE  (todo[u][cur[u]] # <<>> /\ Item(u) \in Layers)'
    BY DEF AtLayer
  <2>1. u # t
    OBVIOUS
  <2>2. QED
    BY <1>7, <2>1 DEF Inv, AtLayer, Item
<1>12. QED
  BY <1>6, <1>8, <1>9, <1>10, <1>11 DEF Inv

\* The root folder's loop is over, and with it the whole make_ready.
LEMMA RootLeft ==
    ASSUME Inv, NEW t \in Threads, stage[t] = "folder", cur[t] = Root,
           todo[t][Root] = <<>>,
           unready' = [unready EXCEPT ![Root] = still[t][Root]],
           still' = [still EXCEPT ![t] = NoLocals],
           stage' = [stage EXCEPT ![t] = "serving"],
           UNCHANGED <<child, cur, todo>>
    PROVE  Inv'
<1> USE DEF TreeTypes
<1>1. TreeTypes /\ Root \in Folders
  BY TreeAssumption DEF Inv
<1>2. PICK S \in SUBSET Folders : OpenFrames(t, S)
  BY DEF Inv, LoopsCovered, Loop
<1>3. Elems(Kids[Root]) \subseteq Elems(child[Root]) \cup Elems(still[t][Root])
  BY <1>2, ElemsEmpty DEF OpenFrames, Covered
<1>4. TreeTypes'
  <2>1. NoLocals \in [Folders -> Seq(Nodes)]
    BY DEF NoLocals
  <2>2. QED
    BY <1>1, <2>1 DEF Stages
<1>5. \A u \in Threads \ {t} : stage'[u] = stage[u] /\ still'[u] = still[u]
  BY <1>1
<1>6. stage'[t] = "serving" /\ \A g \in Folders : still'[t][g] = <<>>
  BY <1>1 DEF NoLocals
<1>7. OnlyOwnKids'
  <2>1. \A g \in Folders : Elems(unready'[g]) \subseteq Elems(Kids[g])
    BY <1>1 DEF Inv, OnlyOwnKids
  <2>2. \A g \in Folders : \A u \in Threads :
           Elems(todo'[u][g]) \cup Elems(still'[u][g]) \subseteq Elems(Kids[g])
    BY <1>5, <1>6, ElemsEmpty DEF Inv, OnlyOwnKids
  <2>3. QED
    BY <2>1, <2>2 DEF OnlyOwnKids
<1>8. NoLayerLost'
  BY <1>1, <1>3 DEF Inv, NoLayerLost
<1>9. LoopsCovered'
  <2> SUFFICES ASSUME NEW u \in Threads, stage'[u] \in Loop
               PROVE  \E R \in SUBSET Folders : OpenFrames(u, R)'
    BY DEF LoopsCovered
  <2>1. u # t /\ stage[u] \in Loop
    BY <1>5, <1>6 DEF Loop
  <2>2. PICK R \in SUBSET Folders : OpenFrames(u, R)
    BY <2>1 DEF Inv, LoopsCovered
  <2>3. OpenFrames(u, R)'
    BY <1>5, <2>1, <2>2, FrameKept
  <2>4. QED
    BY <2>3
<1>10. AtLayer'
  BY <1>5, <1>6 DEF Inv, AtLayer, Item
<1>11. QED
  BY <1>4, <1>7, <1>8, <1>9, <1>10 DEF Inv

\* A sub-folder's loop starts over the layers that are still unready there.
LEMMA SubFolderEntered ==
    ASSUME Inv, NEW t \in Threads, stage[t] = "folder",
           todo[t][cur[t]] # <<>>, Item(t) \in Folders,
           cur' = [cur EXCEPT ![t] = Item(t)],
           todo' = [todo EXCEPT ![t][Item(t)] = unready[Item(t)]],
           still' = [still EXCEPT ![t][Item(t)] = <<>>],
           UNCHANGED <<child, unready, stage>>
    PROVE  Inv'
<1> USE DEF TreeTypes
<1> PICK f \in Folders : f = Item(t)
  OBVIOUS
<1> PICK p \in Folders : p = cur[t]
  BY DEF Inv
<1>1. PICK S \in SUBSET Folders : OpenFrames(t, S)
  BY DEF Inv, LoopsCovered, Loop
<1>2. TreeTypes /\ p \in S /\ p \in Folders /\ f \in Folders
  BY <1>1 DEF Inv, OpenFrames
<1>3. f \in Elems(Kids[p]) /\ f # Root
  <2>1. f \in Elems(todo[t][p])
    BY <1>2, ElemsHeadTail DEF Item
  <2>2. f \in Elems(Kids[p])
    BY <1>2, <2>1 DEF Inv, OnlyOwnKids
  <2>3. Kids[p] \in Seq(Nodes \ {Root})
    BY <1>2, TreeAssumption
  <2>4. QED
    BY <2>2, <2>3 DEF Elems
<1>4. ParentOf(f) = p /\ Depth[f] = Depth[p] + 1 /\ \A g \in Folders : Depth[g] \in Int
  BY <1>2, <1>3, Parent, DepthFact
<1>5. /\ f # p /\ f \notin S /\ \A g \in S \ {Root} : ParentOf(g) # f
      /\ \A g \in S : Depth[g] <= Depth[f] /\ Depth[g] # Depth[f]
  <2>1. \A g \in S : Depth[g] <= Depth[p]
    BY <1>1 DEF OpenFrames
  <2>2. ASSUME NEW g \in S PROVE Depth[g] <= Depth[f] /\ Depth[g] # Depth[f]
    <3>1. Depth[g] \in Int /\ Depth[p] \in Int /\ Depth[g] <= Depth[p]
      BY <1>4, <2>1
    <3>2. QED
      BY <1>4, <3>1
  <2>3. f \notin S
    BY <1>2, <1>4, <2>2
  <2>4. QED
    BY <1>1, <1>2, <2>2, <2>3 DEF OpenFrames
<1>6. TreeTypes'
  <2>1. <<>> \in Seq(Nodes)
    OBVIOUS
  <2>2. QED
    BY <1>2, <2>1
<1>7. /\ cur'[t] = f /\ todo'[t][f] = unready[f] /\ still'[t][f] = <<>>
      /\ \A g \in Folders \ {f} : todo'[t][g] = todo[t][g] /\ still'[t][g] = still[t][g]
      /\ \A u \in Threads \ {t} :
             cur'[u] = cur[u] /\ todo'[u] = todo[u] /\ still'[u] = still[u]
  BY <1>2
<1>8. OnlyOwnKids'
  <2>1. \A g \in Folders : Elems(unready'[g]) \subseteq Elems(Kids[g])
    BY DEF Inv, OnlyOwnKids
  <2>2. ASSUME NEW u \in Threads, NEW g \in Folders
        PROVE  Elems(todo'[u][g]) \cup Elems(still'[u][g]) \subseteq Elems(Kids[g])
    <3>1. /\ Elems(todo[u][g]) \cup Elems(still[u][g]) \subseteq Elems(Kids[g])
          /\ Elems(unready[g]) \subseteq Elems(Kids[g])
      BY DEF Inv, OnlyOwnKids
    <3>2. CASE u = t /\ g = f
      BY <1>7, <3>1, <3>2, ElemsEmpty
    <3>3. CASE ~(u = t /\ g = f)
      <4>1. todo'[u][g] = todo[u][g] /\ still'[u][g] = still[u][g]
        BY <1>7, <3>3
      <4>2. QED
        BY <3>1, <4>1
    <3>4. QED
      BY <3>2, <3>3
  <2>3. QED
    BY <2>1, <2>2 DEF OnlyOwnKids
<1>9. NoLayerLost'
  BY DEF Inv, NoLayerLost
<1>10. LoopsCovered'
  <2> SUFFICES ASSUME NEW u \in Threads, stage'[u] \in Loop
               PROVE  \E R \in SUBSET Folders : OpenFrames(u, R)'
    BY DEF LoopsCovered
  <2>1. CASE u # t
    <3>1. PICK R \in SUBSET Folders : OpenFrames(u, R)
      BY DEF Inv, LoopsCovered
    <3>2. OpenFrames(u, R)'
      BY <1>7, <2>1, <3>1, FrameKept
    <3>3. QED
      BY <3>2
  <2>2. CASE u = t
    <3>1. PICK R \in SUBSET Folders : R = S \cup {f}
      BY <1>2
    <3>2. Covered(t, f)'
      BY <1>2, <1>7 DEF Inv, NoLayerLost, Covered
    <3>3. \A g \in S : Covered(t, g)'
      BY <1>1, <1>5, <1>7 DEF OpenFrames, Covered
    <3>4. \A g \in R : Depth[g] <= Depth[f]
      <4>1. Depth[f] <= Depth[f]
        BY <1>4
      <4>2. QED
        BY <1>5, <3>1, <4>1
    <3>5. \A g, h \in R : Depth[g] = Depth[h] => g = h
      BY <1>1, <1>5, <3>1 DEF OpenFrames
    <3>6. \A g \in S \ {Root} : /\ ParentOf(g) \in R
                                /\ todo'[t][ParentOf(g)] # <<>>
                                /\ Head(todo'[t][ParentOf(g)]) = g
      BY <1>1, <1>5, <1>7, <3>1 DEF OpenFrames
    <3>7. /\ ParentOf(f) \in R /\ todo'[t][ParentOf(f)] # <<>>
          /\ Head(todo'[t][ParentOf(f)]) = f
      BY <1>2, <1>4, <1>5, <1>7, <3>1 DEF Item
    <3>8. cur'[t] \in R /\ \A g \in R : g \in S \/ g = cur'[t]
      <4>1. cur'[t] = f
        BY <1>7
      <4>2. f \in R /\ \A g \in R : g \in S \/ g = f
        BY <3>1
      <4>3. QED
        BY <4>1, <4>2
    <3>9. OpenFrames(t, R)'
      BY <1>7, <3>2, <3>3, <3>4, <3>5, <3>6, <3>7, <3>8 DEF OpenFrames
    <3>10. QED
      BY <2>2, <3>9
  <2>3. QED
    BY <2>1, <2>2
<1>11. AtLayer'
  <2> SUFFICES ASSUME NEW u \in Threads, stage'[u] \in {"products", "ranging"}
               PROVE  (todo[u][cur[u]] # <<>> /\ Item(u) \in Layers)'
    BY DEF AtLayer
  <2>1. u # t
    OBVIOUS
  <2>2. todo[u][cur[u]] # <<>> /\ Item(u) \in Layers
    BY DEF Inv, AtLayer
  <2>3. cur'[u] = cur[u] /\ todo'[u] = todo[u]
    BY <1>7, <2>1
  <2>4. QED
    BY <2>2, <2>3 DEF Item
<1>12. QED
  BY <1>6, <1>8, <1>9, <1>10, <1>11 DEF Inv

\* A thread's lists are emptied while it is outside the loops, and possibly
\* refilled for the root folder from its unready_layers.
LEMMA LoopsReset ==
    ASSUME Inv, NEW t \in Threads,
           still' = [still EXCEPT ![t] = NoLocals],
           \/ /\ stage' = [stage EXCEPT ![t] = "idle"]
              /\ todo' = [todo EXCEPT ![t] = NoLocals]
              /\ cur' = cur
           \/ /\ stage' = [stage EXCEPT ![t] = "folder"]
              /\ todo' = [todo EXCEPT ![t] = [NoLocals EXCEPT ![Root] = unready[Root]]]
              /\ cur' = [cur EXCEPT ![t] = Root],
           UNCHANGED <<child, unready>>
    PROVE  Inv'
<1> USE DEF TreeTypes
<1>1. TreeTypes /\ Root \in Folders
  BY TreeAssumption DEF Inv
<1>2. NoLocals \in [Folders -> Seq(Nodes)] /\ \A g \in Folders : NoLocals[g] = <<>>
  BY DEF NoLocals
<1>3. TreeTypes'
  <2>1. [NoLocals EXCEPT ![Root] = unready[Root]] \in [Folders -> Seq(Nodes)]
    BY <1>1, <1>2
  <2>2. todo' \in [Threads -> [Folders -> Seq(Nodes)]]
    BY <1>1, <1>2, <2>1
  <2>3. still' \in [Threads -> [Folders -> Seq(Nodes)]]
    BY <1>1, <1>2
  <2>4. stage' \in [Threads -> Stages] /\ cur' \in [Threads -> Folders]
    <3>1. stage \in [Threads -> Stages] /\ cur \in [Threads -> Folders]
      BY <1>1
    <3>2. "idle" \in Stages /\ "folder" \in Stages
      BY DEF Stages
    <3>3. CASE stage' = [stage EXCEPT ![t] = "idle"] /\ cur' = cur
      <4>1. stage' \in [Threads -> Stages]
        BY <3>1, <3>2, <3>3
      <4>2. QED
        BY <3>1, <3>3, <4>1
    <3>4. CASE stage' = [stage EXCEPT ![t] = "folder"] /\ cur' = [cur EXCEPT ![t] = Root]
      <4>1. stage' \in [Threads -> Stages]
        BY <3>1, <3>2, <3>4
      <4>2. Root \in Folders
        BY <1>1
      <4>3. cur' \in [Threads -> Folders]
        BY <3>1, <3>4, <4>2
      <4>4. QED
        BY <4>1, <4>3
    <3>5. QED
      BY <3>3, <3>4
  <2>5. QED
    BY <1>1, <2>2, <2>3, <2>4
<1>4. \A u \in Threads \ {t} : /\ cur'[u] = cur[u] /\ todo'[u] = todo[u]
                              /\ still'[u] = still[u] /\ stage'[u] = stage[u]
  BY <1>1
<1>5. /\ \A g \in Folders : still'[t][g] = <<>>
      /\ \A g \in Folders \ {Root} : todo'[t][g] = <<>>
      /\ \/ stage'[t] = "idle" /\ todo'[t][Root] = <<>>
         \/ stage'[t] = "folder" /\ cur'[t] = Root /\ todo'[t][Root] = unready[Root]
  BY <1>1, <1>2
<1>6. OnlyOwnKids'
  <2>1. \A g \in Folders :
           Elems(todo'[t][g]) \cup Elems(still'[t][g]) \subseteq Elems(Kids[g])
    BY <1>1, <1>5, ElemsEmpty DEF Inv, OnlyOwnKids
  <2>2. QED
    BY <1>4, <2>1 DEF Inv, OnlyOwnKids
<1>7. NoLayerLost'
  BY DEF Inv, NoLayerLost
<1>8. LoopsCovered'
  <2> SUFFICES ASSUME NEW u \in Threads, stage'[u] \in Loop
               PROVE  \E R \in SUBSET Folders : OpenFrames(u, R)'
    BY DEF LoopsCovered
  <2>1. CASE u # t
    <3>1. PICK R \in SUBSET Folders : OpenFrames(u, R)
      BY <1>4, <2>1 DEF Inv, LoopsCovered
    <3>2. OpenFrames(u, R)'
      BY <1>4, <2>1, <3>1, FrameKept
    <3>3. QED
      BY <3>2
  <2>2. CASE u = t
    <3>1. stage'[t] = "folder" /\ cur'[t] = Root /\ todo'[t][Root] = unready[Root]
      BY <1>5, <2>2 DEF Loop
    <3>2. Covered(t, Root)'
      BY <1>1, <3>1 DEF Inv, NoLayerLost, Covered
    <3>3. Depth[Root] <= Depth[Root]
      BY SMTT(30), <1>1, DepthFact
    <3>4. PICK R \in SUBSET Folders : R = {Root}
      BY <1>1
    <3>5. OpenFrames(t, R)'
      BY <3>1, <3>2, <3>3, <3>4 DEF OpenFrames
    <3>6. QED
      BY <2>2, <3>5
  <2>3. QED
    BY <2>1, <2>2
<1>9. AtLayer'
  BY <1>4, <1>5 DEF Inv, AtLayer, Item
<1>10. QED
  BY <1>3, <1>6, <1>7, <1>8, <1>9 DEF Inv

\* A layer's make_ready goes on without leaving the layer.
LEMMA LayerGoesOn ==
    ASSUME Inv, NEW t \in Threads,
           \/ /\ stage[t] = "folder" /\ todo[t][cur[t]] # <<>> /\ Item(t) \in Layers
              /\ stage' = [stage EXCEPT ![t] = "products"]
           \/ /\ stage[t] = "products"
              /\ stage' = [stage EXCEPT ![t] = "ranging"],
           UNCHANGED <<child, unready, cur, todo, still>>
    PROVE  Inv'
<1>1. TreeTypes' /\ OnlyOwnKids' /\ NoLayerLost'
  BY DEF Inv, TreeTypes, OnlyOwnKids, NoLayerLost, Stages
<1>2. \A u \in Threads : stage'[u] \in Loop => stage[u] \in Loop
  BY DEF Inv, TreeTypes, Loop
<1>3. LoopsCovered'
  <2> SUFFICES ASSUME NEW u \in Threads, stage'[u] \in Loop
               PROVE  \E R \in SUBSET Folders : OpenFrames(u, R)'
    BY DEF LoopsCovered
  <2>1. PICK R \in SUBSET Folders : OpenFrames(u, R)
    BY <1>2 DEF Inv, LoopsCovered
  <2>2. OpenFrames(u, R)'
    BY <2>1, FrameKept
  <2>3. QED
    BY <2>2
<1>4. AtLayer'
  BY DEF Inv, TreeTypes, AtLayer, Item
<1>5. QED
  BY <1>1, <1>3, <1>4 DEF Inv

-----------------------------------------------------------------------------
\* Every step preserves the invariant.
LEMMA NextInv == Inv /\ [CNext]_allVars => Inv'
<1> SUFFICES ASSUME Inv, [CNext]_allVars PROVE Inv'
  OBVIOUS
<1> DEFINE loops == <<child, unready, cur, todo, still>>
<1>1. TreeTypes /\ \A t \in Threads : cur[t] \in Folders
  BY DEF Inv, TreeTypes
<1>2. UNCHANGED <<loops, stage>> => Inv'
  BY <1>1, IdleStep DEF TreeTypes
<1>3. CASE UNCHANGED allVars
  BY <1>2, <1>3 DEF allVars, treeVars, threadVars
<1>4. ASSUME NEW t \in Threads, UNCHANGED loops,
             \E x \in {"idle", "connect", "serving", "reading"} : stage' = [stage EXCEPT ![t] = x]
      PROVE  Inv'
  BY <1>1, <1>4, IdleStep DEF TreeTypes, Stages, Loop
<1>5. ASSUME NEW t \in Threads, GetConfig(t) PROVE Inv'
  BY <1>4, <1>5 DEF GetConfig, treeVars
<1>6. ASSUME NEW t \in Threads, Connect(t) PROVE Inv'
  <2>1. CASE dbUp
    BY <1>6, <2>1, LoopsReset DEF Connect, treeVars
  <2>2. CASE ~dbUp
    BY <1>4, <1>6, <2>2 DEF Connect, treeVars
  <2>3. QED
    BY <2>1, <2>2
<1>7. ASSUME NEW t \in Threads, EnterFolder(t) PROVE Inv'
  BY <1>7, SubFolderEntered DEF EnterFolder, InFolder, treeVars
<1>8. ASSUME NEW t \in Threads, StartLayer(t) PROVE Inv'
  BY <1>8, LayerGoesOn DEF StartLayer, InFolder
<1>9. ASSUME NEW t \in Threads, LookupProducts(t) PROVE Inv'
  <2>1. CASE ~dbUp
    BY <1>9, <2>1, LoopsReset DEF LookupProducts, Abort
  <2>2. CASE dbUp /\ Item(t) \notin indexed
    BY <1>9, <2>2, LayerHandled DEF LookupProducts
  <2>3. CASE dbUp /\ Item(t) \in indexed
    BY <1>9, <2>3, LayerGoesOn DEF LookupProducts
  <2>4. QED
    BY <2>1, <2>2, <2>3
<1>10. ASSUME NEW t \in Threads, RangeStep(t) PROVE Inv'
  BY <1>2, <1>10 DEF RangeStep, treeVars, threadVars
<1>11. ASSUME NEW t \in Threads, FinishLayer(t) PROVE Inv'
  <2>1. Accept(t, cur[t], Item(t)) \/ Reject(t, cur[t], Item(t))
    BY <1>11 DEF FinishLayer
  <2>2. QED
    BY <1>11, <2>1, LayerHandled DEF FinishLayer
<1>12. ASSUME NEW t \in Threads, FolderDone(t) PROVE Inv'
  <2>1. CASE cur[t] = Root
    BY <1>12, <2>1, RootLeft DEF FolderDone, InFolder
  <2>2. CASE cur[t] # Root
    BY <1>12, <2>2, SubFolderLeft DEF FolderDone, InFolder, Accept
  <2>3. QED
    BY <2>1, <2>2
<1>13. ASSUME NEW t \in Threads, NEW l \in Layers, ServeRead(t, l) PROVE Inv'
  BY <1>4, <1>13 DEF ServeRead, treeVars
<1>14. ASSUME NEW t \in Threads, EndRead(t) PROVE Inv'
  BY <1>4, <1>14 DEF EndRead, treeVars
<1>15. ASSUME NEW t \in Threads, EndRequest(t) PROVE Inv'
  BY <1>4, <1>15 DEF EndRequest, treeVars
<1>16. CASE CEnvironment
  BY <1>2, <1>16 DEF CEnvironment, IndexProducts, treeVars, threadVars
<1>17. QED
  BY <1>3, <1>5, <1>6, <1>7, <1>8, <1>9, <1>10, <1>11, <1>12, <1>13, <1>14, <1>15, <1>16
  DEF CNext, MakeReadyStep, RequestStep

\* For any layer tree, any number of threads, and whatever fails on the way: a
\* parsed layer is always in its folder's child_layers or unready_layers.
THEOREM NoLayerEverLost == CSpec => []NoLayerLost
<1>1. Inv => NoLayerLost
  BY DEF Inv
<1>2. QED
  BY <1>1, InitInv, NextInv, PTL DEF CSpec

-----------------------------------------------------------------------------
\* The types of the variables that the tree argument does not need.
OtherTypes ==
    /\ CacheTypeOK
    /\ indexed \subseteq Layers
    /\ dcSet \in BOOLEAN
    /\ cfgReady \in BOOLEAN
    /\ ready \in [Nodes -> BOOLEAN]
    /\ prods \in [Layers -> {"unset", "partial", "all"}]
    /\ grids \in [Layers -> BOOLEAN]
    /\ comps \in [Layers -> {"unset", "set", "lost"}]
    /\ aborted \subseteq Layers

\* The type invariant is the types the tree argument needs and the others.
LEMMA TypesSplit == CTypeOK <=> TreeTypes /\ OtherTypes
BY DEF CTypeOK, TreeTypes, OtherTypes

\* The initial states have their types.
LEMMA TypeInit == CInit => OtherTypes
<1> SUFFICES ASSUME CInit PROVE OtherTypes
  OBVIOUS
<1>1. row \in [Layers -> Versions] /\ outages \in 0 .. MaxOutages
  BY BoundsAssumption DEF CInit, Versions
<1>2. call \in [Threads -> CallType]
  BY ZeroVersion DEF CInit, CallType, Phases, Idle
<1>3. \A t \in Threads : call[t].ph = "idle" /\ call[t].got # Failed
  BY DEF CInit, Idle, Failed
<1>4. CacheTypeOK
  BY <1>1, <1>2, <1>3 DEF CInit, CacheTypeOK
<1>5. QED
  BY <1>4 DEF CInit, OtherTypes

\* Every step keeps them.
LEMMA TypeNext == Inv /\ OtherTypes /\ [CNext]_allVars => OtherTypes'
<1> SUFFICES ASSUME Inv, OtherTypes, [CNext]_allVars PROVE OtherTypes'
  OBVIOUS
<1>a. UNCHANGED cacheVars => CacheTypeOK'
  BY DEF OtherTypes, CacheTypeOK, cacheVars, dbVars, layerVars
<1>b. /\ \A t \in Threads : stage[t] \in {"products", "ranging"} => Item(t) \in Layers
      /\ \A t \in Threads : cur[t] \in Folders
      /\ Folders \subseteq Nodes /\ Layers \subseteq Nodes
  BY DEF Inv, AtLayer, TreeTypes, Nodes
<1>1. CASE UNCHANGED allVars
  BY <1>a, <1>1 DEF allVars, cfgVars, treeVars, OtherTypes
<1>2. ASSUME NEW t \in Threads, GetConfig(t) \/ EnterFolder(t) \/ EndRequest(t) PROVE OtherTypes'
  BY <1>a, <1>2 DEF GetConfig, EnterFolder, EndRequest, cfgVars, treeVars, OtherTypes
<1>3. ASSUME NEW t \in Threads, Connect(t) PROVE OtherTypes'
  BY <1>a, <1>3 DEF Connect, treeVars, OtherTypes
<1>4. ASSUME NEW t \in Threads, StartLayer(t) PROVE OtherTypes'
  BY <1>a, <1>4 DEF StartLayer, cfgVars, OtherTypes
<1>5. ASSUME NEW t \in Threads, LookupProducts(t) PROVE OtherTypes'
  <2>1. Item(t) \in Layers
    BY <1>b, <1>5 DEF LookupProducts
  <2>2. CacheTypeOK'
    BY <1>a, <1>5, <2>1, BeginType DEF LookupProducts, OtherTypes
  <2>3. prods' \in [Layers -> {"unset", "partial", "all"}] /\ aborted' \subseteq Layers
    BY <1>5, <2>1 DEF LookupProducts, OtherTypes, Abort
  <2>4. QED
    BY <1>5, <2>2, <2>3 DEF LookupProducts, cfgVars, OtherTypes
<1>6. ASSUME NEW t \in Threads, RangeStep(t) PROVE OtherTypes'
  <2>1. CacheTypeOK'
    BY <1>6, AnswerType, ComputeType DEF RangeStep, OtherTypes
  <2>2. QED
    BY <1>6, <2>1 DEF RangeStep, cfgVars, treeVars, OtherTypes
<1>7. ASSUME NEW t \in Threads, FinishLayer(t) PROVE OtherTypes'
  <2> DEFINE l == Item(t)
             gridSet == grids[l] \/ (l \in Wcs /\ HasNativeBox(l))
  <2>1. l \in Layers /\ l \in Nodes
    BY <1>b, <1>7 DEF FinishLayer
  <2>2. /\ call' = [call EXCEPT ![t] = Idle]
        /\ UNCHANGED <<dbVars, ranges, bboxes, defTime, indexed, cfgVars, prods, aborted>>
    BY <1>7 DEF FinishLayer
  <2>3. hide' \in [Layers -> BOOLEAN]
    BY <1>7, <2>1 DEF FinishLayer, OtherTypes, CacheTypeOK
  <2>4. grids' \in [Layers -> BOOLEAN]
    BY <1>7, <2>1 DEF FinishLayer, OtherTypes
  <2>4a. comps' \in [Layers -> {"unset", "set", "lost"}]
    BY <1>7, <2>1 DEF FinishLayer, OtherTypes, MadeReady
  <2>5. ready' \in [Nodes -> BOOLEAN]
    BY <1>7, <2>1 DEF FinishLayer, OtherTypes
  <2>6. CacheTypeOK'
    BY <2>2, <2>3, ZeroVersion DEF OtherTypes, CacheTypeOK, Idle, CallType, Phases, Failed, dbVars
  <2>7. QED
    BY <2>2, <2>4, <2>5, <2>6, <2>4a DEF OtherTypes, cfgVars
<1>8. ASSUME NEW t \in Threads, FolderDone(t) PROVE OtherTypes'
  <2>1. ready' \in [Nodes -> BOOLEAN] /\ cfgReady' \in BOOLEAN
    BY <1>b, <1>8 DEF FolderDone, OtherTypes
  <2>2. QED
    BY <1>a, <1>8, <2>1 DEF FolderDone, OtherTypes
<1>9. ASSUME NEW t \in Threads, NEW l \in Layers, ServeRead(t, l) PROVE OtherTypes'
  <2>1. CASE dcSet
    BY <1>9, <2>1, BeginType DEF ServeRead, OtherTypes, cfgVars, treeVars
  <2>2. CASE ~dcSet
    <3>1. CacheTypeOK'
      <4>1. /\ hide' = [hide EXCEPT ![l] = FALSE]
            /\ call' = [call EXCEPT ![t] = [ph |-> "reply", lyr |-> l, got |-> Failed]]
            /\ UNCHANGED <<dbVars, ranges, bboxes, defTime>>
        BY <1>9, <2>2 DEF ServeRead
      <4>2. [ph |-> "reply", lyr |-> l, got |-> Failed] \in CallType
        BY DEF CallType, Phases
      <4>3. call' \in [Threads -> CallType] /\ hide' \in [Layers -> BOOLEAN]
        BY <4>1, <4>2 DEF OtherTypes, CacheTypeOK
      <4> QED
        BY <4>1, <4>3 DEF OtherTypes, CacheTypeOK, dbVars
    <3>2. QED
      BY <1>9, <3>1 DEF ServeRead, OtherTypes, cfgVars, treeVars
  <2>3. QED
    BY <2>1, <2>2 DEF OtherTypes
<1>10. ASSUME NEW t \in Threads, EndRead(t) PROVE OtherTypes'
  BY <1>10, EndType DEF EndRead, OtherTypes, cfgVars, treeVars
<1>11. CASE CEnvironment
  <2>1. ASSUME NEW l \in Layers, IndexProducts(l) PROVE OtherTypes'
    BY <1>a, <2>1 DEF IndexProducts, OtherTypes, cfgVars, treeVars
  <2>2. ASSUME Database, UNCHANGED <<indexed, cfgVars, treeVars, threadVars, aborted>> PROVE OtherTypes'
    BY <2>2, DatabaseType DEF OtherTypes, cfgVars, treeVars
  <2>3. QED
    BY <1>11, <2>1, <2>2 DEF CEnvironment
<1>12. QED
  BY <1>1, <1>2, <1>3, <1>4, <1>5, <1>6, <1>7, <1>8, <1>9, <1>10, <1>11
  DEF CNext, MakeReadyStep, RequestStep

\* Every variable always has its type, whatever the scheduling.
THEOREM TypesHold == CSpec => []CTypeOK
<1>1. CInit => Inv /\ OtherTypes
  BY InitInv, TypeInit
<1>2. (Inv /\ OtherTypes) /\ [CNext]_allVars => (Inv /\ OtherTypes)'
  BY NextInv, TypeNext
<1>3. Inv /\ OtherTypes => CTypeOK
  BY TypesSplit DEF Inv
<1>4. QED
  BY <1>1, <1>2, <1>3, PTL DEF CSpec

-----------------------------------------------------------------------------
\* What has been assigned to a layer stays assigned, whatever the threads do to
\* each other.
LookedUp == \A t \in Threads : stage[t] \in {"products", "ranging"} => prods[Item(t)] # "unset"

ReadyInv == ReadyIsComplete /\ LookedUp /\ \A t \in Threads : Given(t)

\* Initially no layer is ready and no thread is in a call.
LEMMA ReadyInit == CInit => ReadyInv
<1> SUFFICES ASSUME CInit PROVE ReadyInv
  OBVIOUS
<1>1. \A l \in Layers : ~ready[l]
  BY DEF CInit, Nodes
<1>2. QED
  BY <1>1 DEF CInit, Idle, ReadyInv, ReadyIsComplete, LookedUp, Given

\* What a step may do to the layers and the calls: no attribute is unset again,
\* and only the end of make_ready sets the flag.
Kept ==
    /\ AttributesStay
    /\ \A l \in Layers : (grids[l] => grids'[l]) /\ (prods[l] # "unset" => prods'[l] # "unset")

\* Every step keeps what is assigned, and what a thread is given in its call.
LEMMA StepKeeps ==
    ASSUME Inv, OtherTypes, \A t \in Threads : Given(t), CNext
    PROVE  /\ Kept
           /\ \A t \in Threads : Given(t)'
           /\ \/ \A l \in Layers : ready'[l] = ready[l]
              \/ \E t \in Threads : FinishLayer(t)
<1>a. /\ CacheTypeOK /\ call \in [Threads -> CallType]
      /\ \A t \in Threads : stage[t] \in {"products", "ranging"} => Item(t) \in Layers
      /\ grids \in [Layers -> BOOLEAN] /\ prods \in [Layers -> {"unset", "partial", "all"}]
  BY DEF Inv, AtLayer, OtherTypes, CacheTypeOK
<1>b. UNCHANGED layerVars \/ UNCHANGED <<ranges, bboxes, defTime>> => AttributesStay
  BY DEF AttributesStay, layerVars
\* Steps that only concern one call, or none.
<1>c. ASSUME NEW t \in Threads, AttributesStay, Given(t)',
             \A u \in Threads \ {t} : call'[u] = call[u]
      PROVE  \A u \in Threads : Given(u)'
  BY <1>a, <1>c, StaysGiven
<1>d. ASSUME AttributesStay, UNCHANGED call PROVE \A u \in Threads : Given(u)'
  BY <1>a, <1>d, StaysGiven
<1>1. ASSUME NEW t \in Threads, GetConfig(t) \/ EnterFolder(t) \/ EndRequest(t) \/ Connect(t)
      PROVE  Kept /\ (\A u \in Threads : Given(u)') /\ ready' = ready
  BY <1>b, <1>d, <1>1 DEF GetConfig, EnterFolder, EndRequest, Connect, cacheVars, treeVars, Kept
<1>2. ASSUME NEW t \in Threads, StartLayer(t)
      PROVE  Kept /\ (\A u \in Threads : Given(u)') /\ ready' = ready
  BY <1>a, <1>b, <1>d, <1>2 DEF StartLayer, cacheVars, Kept
<1>3. ASSUME NEW t \in Threads, LookupProducts(t)
      PROVE  Kept /\ (\A u \in Threads : Given(u)') /\ ready' = ready
  <2>1. /\ ready' = ready /\ grids' = grids /\ AttributesStay
        /\ \A l \in Layers : prods[l] # "unset" => prods'[l] # "unset"
    BY <1>a, <1>b, <1>3 DEF LookupProducts, cacheVars, BeginUpdate
  <2>2. \A u \in Threads : Given(u)'
    <3>1. CASE UNCHANGED cacheVars
      BY <1>d, <2>1, <3>1 DEF cacheVars
    <3>2. CASE BeginUpdate(t, Item(t))
      <4>1. call'[t].ph = "query" /\ \A u \in Threads \ {t} : call'[u] = call[u]
        BY <1>a, <3>2 DEF BeginUpdate
      <4> QED
        BY <1>c, <2>1, <4>1 DEF Given
    <3> QED
      BY <1>3, <3>1, <3>2 DEF LookupProducts
  <2> QED
    BY <2>1, <2>2 DEF Kept
<1>4. ASSUME NEW t \in Threads, RangeStep(t)
      PROVE  Kept /\ (\A u \in Threads : Given(u)') /\ ready' = ready
  <2>1. Given(t)' /\ AttributesStay /\ \A u \in Threads \ {t} : call'[u] = call[u]
    BY <1>a, <1>4, AnswerGives, ComputeGives DEF RangeStep
  <2>2. UNCHANGED treeVars
    BY <1>4 DEF RangeStep
  <2> QED
    BY <1>c, <2>1, <2>2 DEF treeVars, Kept
<1>5. ASSUME NEW t \in Threads, FinishLayer(t)
      PROVE  Kept /\ \A u \in Threads : Given(u)'
  <2>1. AttributesStay /\ call' = [call EXCEPT ![t] = Idle] /\ prods' = prods
    BY <1>b, <1>5 DEF FinishLayer
  <2>2. call'[t].ph = "idle" /\ \A u \in Threads \ {t} : call'[u] = call[u]
    BY <1>a, <2>1 DEF Idle
  <2>3. \A l \in Layers : grids[l] => grids'[l]
    BY <1>a, <1>5 DEF FinishLayer
  <2> QED
    BY <1>c, <2>1, <2>2, <2>3 DEF Given, Kept
<1>6. ASSUME NEW t \in Threads, FolderDone(t)
      PROVE  Kept /\ (\A u \in Threads : Given(u)') /\ \A l \in Layers : ready'[l] = ready[l]
  <2>1. \A l \in Layers : l # cur[t] /\ l \in Nodes
    BY TreeAssumption DEF Inv, TreeTypes, Nodes
  <2>2. \A l \in Layers : ready'[l] = ready[l]
    BY <1>6, <2>1 DEF FolderDone, OtherTypes
  <2> QED
    BY <1>b, <1>d, <1>6, <2>2 DEF FolderDone, cacheVars, Kept
<1>7. ASSUME NEW t \in Threads, NEW l \in Layers, ServeRead(t, l)
      PROVE  Kept /\ (\A u \in Threads : Given(u)') /\ ready' = ready
  <2>1. UNCHANGED treeVars /\ AttributesStay
    BY <1>b, <1>7 DEF ServeRead, BeginUpdate
  <2>2. Given(t)' /\ \A u \in Threads \ {t} : call'[u] = call[u]
    <3>1. CASE dcSet
      BY <1>a, <1>7, <3>1 DEF ServeRead, BeginUpdate, Given
    <3>2. CASE ~dcSet
      <4>1. call' = [call EXCEPT ![t] = [ph |-> "reply", lyr |-> l, got |-> Failed]]
        BY <1>7, <3>2 DEF ServeRead
      <4>2. call'[t].ph = "reply" /\ call'[t].got = Failed
        BY <1>a, <4>1
      <4> QED
        BY <1>a, <4>1, <4>2 DEF Given, Failed, Unset
    <3> QED
      BY <3>1, <3>2
  <2> QED
    BY <1>c, <2>1, <2>2 DEF treeVars, Kept
<1>8. ASSUME NEW t \in Threads, EndRead(t)
      PROVE  Kept /\ (\A u \in Threads : Given(u)') /\ ready' = ready
  <2>1. UNCHANGED <<layerVars, treeVars>> /\ call' = [call EXCEPT ![t] = Idle]
    BY <1>8 DEF EndRead, EndUpdate
  <2>2. call'[t].ph = "idle" /\ \A u \in Threads \ {t} : call'[u] = call[u]
    BY <1>a, <2>1 DEF Idle
  <2> QED
    BY <1>b, <1>c, <2>1, <2>2 DEF treeVars, Given, Kept
<1>9. CASE CEnvironment
  BY <1>a, <1>b, <1>d, <1>9, DatabaseType DEF CEnvironment, IndexProducts, cacheVars, treeVars, Kept
<1>10. QED
  BY <1>1, <1>2, <1>3, <1>4, <1>5, <1>6, <1>7, <1>8, <1>9 DEF CNext, MakeReadyStep, RequestStep, Kept

\* A step of one thread leaves the others where they are, and a thread comes to
\* a layer's lookup and to its ranges by two steps only.
LEMMA OthersStand ==
    ASSUME TreeTypes, NEW u \in Threads, MakeReadyStep(u) \/ RequestStep(u),
           NEW t \in Threads \ {u}
    PROVE  stage'[t] = stage[t] /\ cur'[t] = cur[t] /\ todo'[t] = todo[t]
<1> USE DEF TreeTypes
<1>1. CASE RequestStep(u) \/ Connect(u) \/ EnterFolder(u) \/ StartLayer(u)
  BY <1>1 DEF RequestStep, GetConfig, EndRead, EndRequest, ServeRead, Connect, EnterFolder, StartLayer
<1>2. CASE LookupProducts(u)
  BY <1>2 DEF LookupProducts, Abort, Reject
<1>3. CASE RangeStep(u)
  BY <1>3 DEF RangeStep, threadVars
<1>4. CASE FinishLayer(u)
  BY <1>4 DEF FinishLayer, Accept, Reject
<1>5. CASE FolderDone(u)
  BY <1>5 DEF FolderDone, Accept
<1>6. QED
  BY <1>1, <1>2, <1>3, <1>4, <1>5 DEF MakeReadyStep

\* How a thread comes to look up the products of a layer, or its ranges.
LEMMA StageSteps ==
    ASSUME TreeTypes, CNext, NEW t \in Threads, stage'[t] \in {"products", "ranging"}
    PROVE  \/ stage[t] = stage'[t] /\ Item(t)' = Item(t)
           \/ StartLayer(t)
           \/ LookupProducts(t)
<1>1. CASE CEnvironment
  BY <1>1 DEF CEnvironment, IndexProducts, threadVars, Item
<1>2. ASSUME NEW u \in Threads \ {t}, MakeReadyStep(u) \/ RequestStep(u)
      PROVE  stage[t] = stage'[t] /\ Item(t)' = Item(t)
  <2>1. stage'[t] = stage[t] /\ cur'[t] = cur[t] /\ todo'[t] = todo[t]
    BY <1>2, OthersStand
  <2>2. QED
    BY <2>1 DEF Item
<1>3. CASE RangeStep(t)
  BY <1>3 DEF RangeStep, threadVars, Item
<1>4. ASSUME \/ GetConfig(t) \/ Connect(t) \/ EnterFolder(t) \/ FinishLayer(t) \/ FolderDone(t)
             \/ EndRead(t) \/ EndRequest(t) \/ \E l \in Layers : ServeRead(t, l)
      PROVE  FALSE
  BY <1>4 DEF GetConfig, Connect, EnterFolder, InFolder, FinishLayer, FolderDone, EndRead,
     EndRequest, ServeRead, TreeTypes
<1>5. QED
  BY <1>1, <1>2, <1>3, <1>4 DEF CNext, MakeReadyStep, RequestStep

\* Every step keeps the contract of the ready flag.
LEMMA ReadyNext == Inv /\ OtherTypes /\ ReadyInv /\ [CNext]_allVars => ReadyInv'
<1> SUFFICES ASSUME Inv, OtherTypes, ReadyInv, [CNext]_allVars PROVE ReadyInv'
  OBVIOUS
<1>1. CASE UNCHANGED allVars
  BY <1>1 DEF allVars, cacheVars, layerVars, treeVars, threadVars, ReadyInv, ReadyIsComplete,
     AllAssigned, LookedUp, Item, Given
<1>2. CASE CNext
  <2>1. /\ Kept /\ \A t \in Threads : Given(t)'
        /\ (\A l \in Layers : ready'[l] = ready[l]) \/ (\E t \in Threads : FinishLayer(t))
    BY <1>2, StepKeeps DEF ReadyInv
  <2>2. LookedUp'
    <3> SUFFICES ASSUME NEW t \in Threads, stage'[t] \in {"products", "ranging"}
                 PROVE  prods'[Item(t)'] # "unset"
      BY DEF LookedUp
    <3>1. ASSUME stage[t] = stage'[t], Item(t)' = Item(t) PROVE prods'[Item(t)'] # "unset"
      <4>1. Item(t) \in Layers /\ prods[Item(t)] # "unset"
        BY <3>1 DEF Inv, AtLayer, ReadyInv, LookedUp
      <4> QED
        BY <2>1, <3>1, <4>1 DEF Kept
    <3>2. ASSUME StartLayer(t) PROVE prods'[Item(t)'] # "unset"
      <4>1. Item(t) \in Layers /\ Item(t)' = Item(t) /\ prods' = [prods EXCEPT ![Item(t)] = "partial"]
        BY <3>2 DEF StartLayer, Item
      <4> QED
        BY <4>1 DEF OtherTypes
    <3>3. ASSUME LookupProducts(t) PROVE prods'[Item(t)'] # "unset"
      <4>1. /\ stage' = [stage EXCEPT ![t] = "ranging"] /\ UNCHANGED <<todo, cur>>
            /\ prods' = [prods EXCEPT ![Item(t)] = "all"]
        BY <3>3 DEF LookupProducts, Abort, Inv, TreeTypes
      <4>2. Item(t)' = Item(t) /\ Item(t) \in Layers
        BY <3>3, <4>1 DEF Item, LookupProducts, Inv, AtLayer
      <4> QED
        BY <4>1, <4>2 DEF OtherTypes
    <3>4. QED
      BY <1>2, <3>1, <3>2, <3>3, StageSteps DEF Inv
  <2>3. ReadyIsComplete'
    <3> SUFFICES ASSUME NEW l \in Layers, ready'[l]
                 PROVE  AllAssigned(l, grids[l])' /\ prods'[l] # "unset"
      BY DEF ReadyIsComplete
    <3>1. CASE ready[l]
      BY <2>1, <3>1 DEF ReadyInv, ReadyIsComplete, AllAssigned, Kept, AttributesStay
    <3>2. ASSUME ~ready[l], NEW t \in Threads, FinishLayer(t)
          PROVE  AllAssigned(l, grids[l])' /\ prods'[l] # "unset"
      <4> DEFINE gridSet == grids[l] \/ (l \in Wcs /\ HasNativeBox(l))
      <4>1. Item(t) \in Layers /\ stage[t] = "ranging"
        BY <3>2 DEF FinishLayer, Inv, AtLayer
      <4>2. l = Item(t) /\ l \notin Misconfigured
        BY <3>2, <4>1 DEF FinishLayer, OtherTypes, Nodes
      <4>3. BecomesReady(l, hide'[l], gridSet) /\ grids' = [grids EXCEPT ![l] = gridSet]
        BY <3>2, <4>1, <4>2 DEF FinishLayer, OtherTypes, Nodes
      <4>4. AllAssigned(l, gridSet) /\ grids'[l] = gridSet
        BY <4>3 DEF BecomesReady, OtherTypes
      <4>5. UNCHANGED <<ranges, bboxes, defTime, prods>> /\ prods[l] # "unset"
        BY <3>2, <4>1, <4>2 DEF FinishLayer, ReadyInv, LookedUp
      <4> QED
        BY <4>4, <4>5 DEF AllAssigned
    <3>3. QED
      BY <2>1, <3>1, <3>2
  <2>4. QED
    BY <2>1, <2>2, <2>3 DEF ReadyInv
<1>3. QED
  BY <1>1, <1>2

\* However threads and failures interleave: when the ready flag of a layer is
\* set, nothing that a request may read of it is missing.
THEOREM ReadyLayersComplete == CSpec => []ReadyIsComplete
<1>1. CInit => Inv /\ OtherTypes /\ ReadyInv
  BY InitInv, TypeInit, ReadyInit
<1>2. (Inv /\ OtherTypes /\ ReadyInv) /\ [CNext]_allVars => (Inv /\ OtherTypes /\ ReadyInv)'
  BY NextInv, TypeNext, ReadyNext
<1>3. ReadyInv => ReadyIsComplete
  BY DEF ReadyInv
<1>4. QED
  BY <1>1, <1>2, <1>3, PTL DEF CSpec

-----------------------------------------------------------------------------
\* Cooperative threads.  The calls of force_range_update are those of a layer's
\* make_ready and of reads of dynamic layers.
CallsPlaced ==
    \A t \in Threads :
        /\ call[t].ph # "idle" <=> stage[t] \in {"ranging", "reading"}
        /\ stage[t] = "ranging" => call[t].lyr = Item(t)
        /\ stage[t] = "reading" => call[t].lyr \in Dynamic

IsChild(l) == \E f \in Folders : l \in Elems(child[f])

ChildWhole == \A l \in Layers : IsChild(l) /\ Quiet(l) /\ ~hide[l] => Whole(l)

\* A layer some thread has got past the lookup of its products: the lookup is
\* repeated, and may be aborted, but not refused.
Found(l) == IsChild(l) \/ \E t \in Threads : stage[t] = "ranging" /\ Item(t) = l

LookedUpAgain(l) ==
    \/ prods[l] = "all"
    \/ l \in aborted
    \/ LookingUp(l)

FoundStays == \A l \in Layers : Found(l) => l \in indexed /\ LookedUpAgain(l)

\* Nobody but make_ready changes a static layer.
StaticReady ==
    \A l \in Layers : IsChild(l) =>
        /\ l \notin Misconfigured
        /\ l \notin Dynamic /\ ~hide[l] /\ Settled(l) => ready[l]

ServeInv ==
    /\ CallsPlaced /\ ChildWhole /\ FoundStays /\ StaticReady
    /\ \A t \in Threads : Underway(t)

\* Initially no folder has a child.
LEMMA ServeInit == CInit => ServeInv
<1> SUFFICES ASSUME CInit PROVE ServeInv
  OBVIOUS
<1>1. \A l \in Layers : ~IsChild(l) /\ ~Found(l)
  BY ElemsEmpty DEF CInit, IsChild, Found
<1>2. QED
  BY <1>1 DEF CInit, Idle, ServeInv, CallsPlaced, ChildWhole, FoundStays, StaticReady, Underway

\* A thread that makes a step found nobody in the middle of a computation.
LEMMA TurnTaken ==
    ASSUME ~Preemptive, NEW t \in Threads, Free(t)
    PROVE  \A u \in Threads \ {t} : call[u].ph \notin Computing
BY DEF Free

-----------------------------------------------------------------------------
\* What a step may do to the calls and the attributes of layers: nothing, or
\* it begins or goes on with the call of one thread on one layer, or it ends one.
SameAttributes(k) ==
    hide'[k] = hide[k] /\ ranges'[k] = ranges[k] /\ bboxes'[k] = bboxes[k] /\ defTime'[k] = defTime[k]

GoesOn(t, l) ==
    /\ call[t].ph # "idle" => call[t].lyr = l
    /\ call[t].ph # "return"
    /\ call'[t].ph # "idle" /\ call'[t].lyr = l
    /\ Underway(t)'
    /\ \A u \in Threads \ {t} : call'[u] = call[u] /\ (call[u].ph \notin Computing \/ UNCHANGED layerVars)
    /\ \A k \in Layers \ {l} : SameAttributes(k)

Ends(t) ==
    /\ call[t].ph = "return" /\ call' = [call EXCEPT ![t] = Idle]
    /\ \A u \in Threads \ {t} : call[u].ph \notin Computing
    /\ UNCHANGED <<ranges, bboxes, defTime>>
    /\ \A k \in Layers : hide[k] => hide'[k]
    /\ \A k \in Layers \ {call[t].lyr} : SameAttributes(k)
    /\ FinishLayer(t) \/ EndRead(t)

\* Every step of cooperative threads is one of those.
LEMMA CallSteps ==
    ASSUME ~Preemptive, Inv, OtherTypes, ServeInv, CNext
    PROVE  \/ UNCHANGED <<layerVars, call>>
           \/ \E t \in Threads, l \in Layers : GoesOn(t, l)
           \/ \E t \in Threads : Ends(t)
<1>a. /\ CacheTypeOK /\ call \in [Threads -> CallType]
      /\ \A t \in Threads : stage[t] \in {"products", "ranging"} => Item(t) \in Layers
      /\ hide \in [Layers -> BOOLEAN]
  BY DEF Inv, AtLayer, OtherTypes, CacheTypeOK
<1>b. UNCHANGED layerVars => \A k \in Layers : SameAttributes(k)
  BY DEF layerVars, SameAttributes
<1>1. ASSUME NEW t \in Threads, NEW l \in Layers, Free(t), BeginUpdate(t, l) PROVE GoesOn(t, l)
  <2>1. call[t].ph = "idle" /\ call'[t].ph = "query" /\ call'[t].lyr = l
    BY <1>a, <1>1 DEF BeginUpdate
  <2>2. \A u \in Threads \ {t} : call'[u] = call[u] /\ call[u].ph \notin Computing
    BY <1>a, <1>1, TurnTaken DEF BeginUpdate
  <2>3. \A k \in Layers \ {l} : SameAttributes(k)
    BY <1>a, <1>1 DEF BeginUpdate, SameAttributes
  <2> QED
    BY <2>1, <2>2, <2>3 DEF GoesOn, Underway
<1>2. ASSUME NEW t \in Threads, GetConfig(t) \/ EnterFolder(t) \/ EndRequest(t) \/ Connect(t)
                                  \/ StartLayer(t) \/ FolderDone(t)
      PROVE  UNCHANGED <<layerVars, call>>
  BY <1>2 DEF GetConfig, EnterFolder, EndRequest, Connect, StartLayer, FolderDone, cacheVars
<1>3. ASSUME NEW t \in Threads, LookupProducts(t)
      PROVE  UNCHANGED <<layerVars, call>> \/ \E l \in Layers : GoesOn(t, l)
  BY <1>a, <1>1, <1>3 DEF LookupProducts, cacheVars
<1>4. ASSUME NEW t \in Threads, AnswerQuery(t) PROVE \E l \in Layers : GoesOn(t, l)
  <2>1. /\ call[t].lyr \in Layers /\ call[t].ph = "query" /\ call[t] \in CallType
        /\ row[call[t].lyr] # Unset
    BY <1>a, <1>4 DEF AnswerQuery, CacheTypeOK, Versions, Unset
  <2>2. call'[t].ph = "reply" /\ call'[t].lyr = call[t].lyr /\ call'[t].got # Unset
    BY <1>a, <1>4, <2>1 DEF AnswerQuery, CallType, Unset, Failed
  <2>3. UNCHANGED layerVars /\ \A u \in Threads \ {t} : call'[u] = call[u]
    BY <1>a, <1>4 DEF AnswerQuery
  <2>4. Underway(t)'
    BY <2>2 DEF Underway
  <2> QED
    BY <1>b, <2>1, <2>2, <2>3, <2>4 DEF GoesOn
<1>5. ASSUME NEW t \in Threads, Free(t), Compute(t) PROVE \E l \in Layers : GoesOn(t, l)
  <2>1. Underway(t)' /\ call'[t].lyr = call[t].lyr /\ call'[t].ph # "idle"
    BY <1>a, <1>5, ComputeUnderway DEF ServeInv
  <2>2. /\ call[t].ph # "return" /\ call[t].ph # "idle"
        /\ \A u \in Threads \ {t} : call'[u] = call[u]
    BY <1>a, <1>5 DEF Compute, AssignRanges, CheckRanges, ExtractBoxes, StoreBoxes,
       FindDefaultTime, StoreDefaultTime, HideLayer, ClearBoxes, Proceed
  <2>3. call[t].lyr \in Layers
    BY <2>2 DEF OtherTypes, CacheTypeOK
  <2>4. \A k \in Layers \ {call[t].lyr} : SameAttributes(k)
    BY <1>5 DEF OtherTypes, CacheTypeOK, Compute, AssignRanges, CheckRanges, ExtractBoxes,
       StoreBoxes, FindDefaultTime, StoreDefaultTime, HideLayer, ClearBoxes, layerVars, SameAttributes
  <2> QED
    BY <1>5, <2>1, <2>2, <2>3, <2>4, TurnTaken DEF GoesOn
<1>6. ASSUME NEW t \in Threads, FinishLayer(t) PROVE Ends(t)
  <2>1. call[t].lyr = Item(t)
    BY <1>6 DEF FinishLayer, ServeInv, CallsPlaced
  <2>2. \A k \in Layers : hide[k] => hide'[k]
    BY <1>a, <1>6 DEF FinishLayer
  <2>3. \A k \in Layers \ {Item(t)} : SameAttributes(k)
    BY <1>a, <1>6 DEF FinishLayer, SameAttributes
  <2> QED
    BY <1>6, <2>1, <2>2, <2>3, TurnTaken DEF FinishLayer, Ends
<1>7. ASSUME NEW t \in Threads, EndRead(t) PROVE Ends(t)
  <2>1. UNCHANGED layerVars /\ call[t].ph = "return" /\ call' = [call EXCEPT ![t] = Idle] /\ Free(t)
    BY <1>7 DEF EndRead, EndUpdate
  <2> QED
    BY <1>7, <2>1, TurnTaken DEF Ends, SameAttributes, layerVars
<1>8. ASSUME NEW t \in Threads, NEW l \in Layers, ServeRead(t, l) PROVE GoesOn(t, l)
  <2>1. CASE dcSet
    BY <1>1, <1>8, <2>1 DEF ServeRead
  <2>2. CASE ~dcSet
    <3>1. /\ hide' = [hide EXCEPT ![l] = FALSE] /\ UNCHANGED <<ranges, bboxes, defTime>>
          /\ call' = [call EXCEPT ![t] = [ph |-> "reply", lyr |-> l, got |-> Failed]]
          /\ stage[t] = "serving" /\ Free(t)
      BY <1>8, <2>2 DEF ServeRead
    <3>2. call[t].ph = "idle"
      BY <3>1 DEF ServeInv, CallsPlaced
    <3>3. /\ call'[t].ph = "reply" /\ call'[t].lyr = l /\ call'[t].got = Failed
          /\ \A u \in Threads \ {t} : call'[u] = call[u] /\ call[u].ph \notin Computing
      BY <1>a, <3>1, TurnTaken
    <3>4. \A k \in Layers \ {l} : SameAttributes(k)
      BY <1>a, <3>1 DEF SameAttributes
    <3> QED
      BY <3>2, <3>3, <3>4 DEF GoesOn, Underway, Failed, Unset
  <2> QED
    BY <2>1, <2>2
<1>9. CASE CEnvironment
  BY <1>a, <1>9, DatabaseType DEF CEnvironment, IndexProducts, cacheVars
<1>10. QED
  BY <1>2, <1>3, <1>4, <1>5, <1>6, <1>7, <1>8, <1>9 DEF CNext, MakeReadyStep, RequestStep, RangeStep

\* No step leaves a call in the wrong place.
LEMMA NextCallsPlaced ==
    ASSUME Inv, OtherTypes, CallsPlaced, CNext
    PROVE  CallsPlaced'
<1>a. /\ call \in [Threads -> CallType] /\ stage \in [Threads -> Stages] /\ TreeTypes
      /\ \A t \in Threads : stage[t] \in {"products", "ranging"} => Item(t) \in Layers
  BY DEF Inv, AtLayer, TreeTypes, OtherTypes, CacheTypeOK
\* It is enough to look at the thread that makes the step.
<1>b. ASSUME NEW u \in Threads, MakeReadyStep(u) \/ RequestStep(u),
             \A t \in Threads \ {u} : call'[t] = call[t],
             call'[u].ph # "idle" <=> stage'[u] \in {"ranging", "reading"},
             stage'[u] = "ranging" => call'[u].lyr = Item(u)',
             stage'[u] = "reading" => call'[u].lyr \in Dynamic
      PROVE  CallsPlaced'
  <2>1. \A t \in Threads \ {u} : stage'[t] = stage[t] /\ cur'[t] = cur[t] /\ todo'[t] = todo[t]
    BY <1>a, <1>b, OthersStand
  <2>2. \A t \in Threads \ {u} : Item(t)' = Item(t)
    BY <2>1 DEF Item
  <2> QED
    BY <1>b, <2>1, <2>2 DEF CallsPlaced
<1>1. ASSUME NEW t \in Threads, GetConfig(t) \/ EnterFolder(t) \/ EndRequest(t) \/ Connect(t)
                                  \/ StartLayer(t) \/ FolderDone(t)
      PROVE  CallsPlaced'
  <2>1. /\ call' = call /\ stage[t] \notin {"ranging", "reading"}
        /\ stage'[t] \notin {"ranging", "reading"}
    BY <1>a, <1>1 DEF GetConfig, EnterFolder, EndRequest, Connect, StartLayer, FolderDone, InFolder, cacheVars
  <2> QED
    BY <1>1, <1>b, <2>1 DEF CallsPlaced, MakeReadyStep, RequestStep
<1>2. ASSUME NEW t \in Threads, LookupProducts(t) PROVE CallsPlaced'
  <2>1. CASE BeginUpdate(t, Item(t)) /\ stage' = [stage EXCEPT ![t] = "ranging"] /\ todo' = todo
    <3>1. /\ call'[t].ph = "query" /\ call'[t].lyr = Item(t) /\ stage'[t] = "ranging"
          /\ \A u \in Threads \ {t} : call'[u] = call[u]
      BY <1>a, <2>1 DEF BeginUpdate
    <3>2. Item(t)' = Item(t)
      BY <1>2, <2>1 DEF Item, LookupProducts
    <3> QED
      BY <1>2, <1>b, <3>1, <3>2 DEF MakeReadyStep
  <2>2. CASE UNCHANGED cacheVars /\ stage'[t] \in {"idle", "folder"}
    <3>1. call' = call /\ call[t].ph = "idle"
      BY <1>2, <2>2 DEF cacheVars, CallsPlaced, LookupProducts
    <3> QED
      BY <1>2, <1>b, <2>2, <3>1 DEF MakeReadyStep
  <2> QED
    BY <1>a, <1>2, <2>1, <2>2 DEF LookupProducts, Abort
<1>3. ASSUME NEW t \in Threads, RangeStep(t) PROVE CallsPlaced'
  <2>1. /\ UNCHANGED threadVars /\ call'[t].ph # "idle" /\ call'[t].lyr = call[t].lyr
        /\ \A u \in Threads \ {t} : call'[u] = call[u]
    BY <1>a, <1>3 DEF RangeStep, AnswerQuery, Compute, AssignRanges, CheckRanges, ExtractBoxes, StoreBoxes,
       FindDefaultTime, StoreDefaultTime, HideLayer, ClearBoxes, Proceed, CallType
  <2>2. stage' = stage /\ Item(t)' = Item(t) /\ stage[t] \in {"ranging", "reading"}
    BY <1>3, <2>1 DEF threadVars, Item, RangeStep
  <2> QED
    BY <1>3, <1>b, <2>1, <2>2 DEF CallsPlaced, MakeReadyStep
<1>4. ASSUME NEW t \in Threads, FinishLayer(t) \/ EndRead(t) PROVE CallsPlaced'
  <2>1. call' = [call EXCEPT ![t] = Idle] /\ stage'[t] \in {"folder", "idle"}
    BY <1>a, <1>4 DEF FinishLayer, EndRead, EndUpdate
  <2>2. call'[t].ph = "idle" /\ \A u \in Threads \ {t} : call'[u] = call[u]
    BY <1>a, <2>1 DEF Idle
  <2> QED
    BY <1>4, <1>b, <2>1, <2>2 DEF MakeReadyStep, RequestStep
<1>5. ASSUME NEW t \in Threads, NEW l \in Layers, ServeRead(t, l) PROVE CallsPlaced'
  <2>1. /\ call'[t].ph # "idle" /\ call'[t].lyr = l /\ l \in Dynamic
        /\ \A u \in Threads \ {t} : call'[u] = call[u]
    BY <1>a, <1>5 DEF ServeRead, BeginUpdate
  <2>2. stage'[t] = "reading"
    BY <1>a, <1>5 DEF ServeRead
  <2> QED
    BY <1>5, <1>b, <2>1, <2>2 DEF RequestStep
<1>6. CASE CEnvironment
  BY <1>6, DatabaseType DEF CEnvironment, IndexProducts, cacheVars, threadVars, CallsPlaced, Item, OtherTypes
<1>7. QED
  BY <1>1, <1>2, <1>3, <1>4, <1>5, <1>6 DEF CNext, MakeReadyStep, RequestStep

\* A layer comes to the child layers by the end of its make_ready only, and
\* never leaves them.
LEMMA ChildSteps ==
    ASSUME Inv, CNext, NEW l \in Layers
    PROVE  /\ IsChild(l) => IsChild(l)'
           /\ IsChild(l)' => \/ IsChild(l)
                             \/ \E t \in Threads : /\ FinishLayer(t) /\ Item(t) = l
                                                  /\ l \notin Misconfigured
<1>a. /\ child \in [Folders -> Seq(Nodes)] /\ \A t \in Threads : cur[t] \in Folders
      /\ \A t \in Threads : stage[t] = "ranging" => Item(t) \in Layers
      /\ Folders \subseteq Nodes /\ Layers \subseteq Nodes
  BY DEF Inv, TreeTypes, AtLayer, Nodes
<1>b. child' = child => (IsChild(l) <=> IsChild(l)')
  BY DEF IsChild
<1>c. ASSUME NEW f \in Folders, NEW n \in Nodes, child' = [child EXCEPT ![f] = Append(child[f], n)]
      PROVE  IsChild(l)' <=> IsChild(l) \/ l = n
  <2>1. \A g \in Folders : Elems(child'[g]) = IF g = f THEN Elems(child[f]) \cup {n} ELSE Elems(child[g])
    <3>1. Elems(Append(child[f], n)) = Elems(child[f]) \cup {n}
      BY <1>a, ElemsAppend
    <3>2. child'[f] = Append(child[f], n) /\ \A g \in Folders \ {f} : child'[g] = child[g]
      BY <1>a, <1>c
    <3> QED
      BY <3>1, <3>2
  <2> QED
    BY <2>1 DEF IsChild
<1>1. ASSUME NEW t \in Threads, FinishLayer(t)
      PROVE  \/ child' = child
             \/ /\ child' = [child EXCEPT ![cur[t]] = Append(child[cur[t]], Item(t))]
                /\ Item(t) \notin Misconfigured
  BY <1>1 DEF FinishLayer, Accept, Reject
<1>2. ASSUME NEW t \in Threads, FolderDone(t)
      PROVE  \/ child' = child
             \/ child' = [child EXCEPT ![ParentOf(cur[t])] = Append(child[ParentOf(cur[t])], cur[t])]
  BY <1>2 DEF FolderDone, Accept
<1>3. ASSUME NEW t \in Threads, FolderDone(t), child' # child PROVE IsChild(l)' <=> IsChild(l)
  <2>1. cur[t] # Root /\ stage[t] = "folder"
    BY <1>3 DEF FolderDone, InFolder
  <2>2. PICK S \in SUBSET Folders : OpenFrames(t, S)
    BY <2>1 DEF Inv, LoopsCovered, Loop
  <2>3. ParentOf(cur[t]) \in Folders /\ cur[t] \in Nodes /\ l # cur[t]
    BY <1>a, <2>1, <2>2, TreeAssumption DEF OpenFrames
  <2> QED
    BY <1>2, <1>3, <1>c, <2>3
<1>4. ASSUME NEW t \in Threads, MakeReadyStep(t) \/ RequestStep(t), ~FinishLayer(t), ~FolderDone(t)
      PROVE  child' = child
  BY <1>4 DEF MakeReadyStep, RequestStep, GetConfig, EnterFolder, EndRequest, Connect, StartLayer,
     LookupProducts, Reject, RangeStep, ServeRead, EndRead, treeVars
<1>5. CASE CEnvironment
  BY <1>b, <1>5 DEF CEnvironment, IndexProducts, treeVars
<1>6. ASSUME NEW t \in Threads, FinishLayer(t)
      PROVE  /\ IsChild(l) => IsChild(l)'
             /\ IsChild(l)' => IsChild(l) \/ (Item(t) = l /\ l \notin Misconfigured)
  <2>1. Item(t) \in Nodes /\ cur[t] \in Folders
    BY <1>a, <1>6 DEF FinishLayer
  <2> QED
    BY <1>1, <1>6, <1>b, <1>c, <2>1
<1>7. QED
  BY <1>b, <1>3, <1>4, <1>5, <1>6 DEF CNext

\* A visible child layer at rest has its extent from one row, as in LayerRanges.
LEMMA NextWhole ==
    ASSUME ~Preemptive, Inv, OtherTypes, ServeInv, CNext
    PROVE  ChildWhole' /\ \A t \in Threads : Underway(t)'
<1>a. /\ \A t \in Threads : call[t].ph # "idle" => call[t].lyr \in Layers
      /\ call \in [Threads -> CallType]
  BY DEF OtherTypes, CacheTypeOK
<1>b. \A t \in Threads : Underway(t)
  BY DEF ServeInv
<1>c. ASSUME NEW k \in Layers, SameAttributes(k), Whole(k) PROVE Whole(k)'
  BY <1>c DEF SameAttributes, Whole
<1>d. ASSUME NEW k \in Layers, IsChild(k)' PROVE IsChild(k) \/ \E t \in Threads : FinishLayer(t) /\ Item(t) = k
  BY <1>d, ChildSteps
<1>1. CASE UNCHANGED <<layerVars, call>>
  <2>1. \A t \in Threads : Underway(t)'
    BY <1>b, <1>1 DEF Underway, Whole, layerVars
  <2>2. \A t \in Threads : ~(FinishLayer(t) /\ call' = call)
    BY <1>a DEF FinishLayer, Idle
  <2>3. \A k \in Layers : IsChild(k)' => IsChild(k)
    BY <1>1, <1>d, <2>2
  <2> QED
    BY <1>1, <2>1, <2>3 DEF ServeInv, ChildWhole, Quiet, Whole, layerVars
<1>2. ASSUME NEW t \in Threads, NEW l \in Layers, GoesOn(t, l)
      PROVE  ChildWhole' /\ \A u \in Threads : Underway(u)'
  <2>1. ASSUME NEW u \in Threads PROVE Underway(u)'
    <3>1. CASE u = t
      BY <1>2, <3>1 DEF GoesOn
    <3>2. CASE u # t /\ call[u].ph \notin Computing
      BY <1>2, <1>b, <3>2 DEF GoesOn, Underway, Computing
    <3>3. CASE u # t /\ UNCHANGED layerVars
      BY <1>2, <1>b, <3>3 DEF GoesOn, Underway, Whole, layerVars
    <3> QED
      BY <1>2, <3>1, <3>2, <3>3 DEF GoesOn
  <2>2. ASSUME NEW k \in Layers, IsChild(k)', Quiet(k)', ~hide'[k] PROVE Whole(k)'
    <3>1. CASE k = l
      <4>1. call'[t].ph = "return"
        BY <1>2, <2>2, <3>1 DEF Quiet, GoesOn
      <4> QED
        BY <1>2, <2>2, <3>1, <4>1 DEF GoesOn, Underway
    <3>2. CASE k # l
      <4>1. Quiet(k) /\ SameAttributes(k) /\ ~hide[k]
        BY <1>2, <2>2, <3>2 DEF Quiet, GoesOn, SameAttributes
      <4>2. \A u \in Threads : ~FinishLayer(u)
        <5> SUFFICES ASSUME NEW u \in Threads, FinishLayer(u) PROVE FALSE
          OBVIOUS
        <5>1. call[u].ph = "return" /\ call'[u].ph = "idle"
          BY <1>a DEF FinishLayer, Idle
        <5> QED
          BY <1>2, <5>1 DEF GoesOn
      <4>3. IsChild(k)
        BY <1>d, <2>2, <4>2
      <4> QED
        BY <1>c, <4>1, <4>3 DEF ServeInv, ChildWhole
    <3> QED
      BY <3>1, <3>2
  <2> QED
    BY <2>1, <2>2 DEF ChildWhole
<1>3. ASSUME NEW t \in Threads, Ends(t)
      PROVE  ChildWhole' /\ \A u \in Threads : Underway(u)'
  <2>1. /\ call'[t].ph = "idle" /\ \A u \in Threads \ {t} : call'[u] = call[u]
        /\ call[t].lyr \in Layers
    BY <1>3, <1>a DEF Ends, Idle
  <2>2. ASSUME NEW u \in Threads PROVE Underway(u)'
    <3>1. CASE u = t
      BY <2>1, <3>1 DEF Underway
    <3>2. CASE u # t
      BY <1>3, <1>b, <2>1, <3>2 DEF Ends, Underway, Computing
    <3> QED
      BY <3>1, <3>2
  <2>3. ASSUME NEW k \in Layers, IsChild(k)', Quiet(k)', ~hide'[k] PROVE Whole(k)'
    <3>1. CASE k = call[t].lyr
      <4>1. ~hide[k] /\ Whole(k)
        BY <1>3, <1>b, <2>3, <3>1 DEF Ends, Underway
      <4> QED
        BY <1>3, <4>1 DEF Ends, Whole
    <3>2. CASE k # call[t].lyr
      <4>1. Quiet(k) /\ SameAttributes(k) /\ ~hide[k]
        BY <1>3, <2>1, <2>3, <3>2 DEF Quiet, Ends, SameAttributes
      <4>2. ~\E u \in Threads : FinishLayer(u) /\ Item(u) = k
        <5> SUFFICES ASSUME NEW u \in Threads, FinishLayer(u), Item(u) = k PROVE FALSE
          OBVIOUS
        <5>1. call[u].ph = "return" /\ call'[u].ph = "idle" /\ call[u].lyr = k
          BY <1>a DEF FinishLayer, Idle, ServeInv, CallsPlaced
        <5> QED
          BY <2>1, <3>2, <5>1
      <4>3. IsChild(k)
        BY <1>d, <2>3, <4>2
      <4> QED
        BY <1>c, <4>1, <4>3 DEF ServeInv, ChildWhole
    <3> QED
      BY <3>1, <3>2
  <2> QED
    BY <2>2, <2>3 DEF ChildWhole
<1>4. QED
  BY <1>1, <1>2, <1>3, CallSteps

\* The products of a layer that was found once are all there, are being looked
\* up again, or a database error aborted that.
LEMMA NextFound ==
    ASSUME Inv, OtherTypes, FoundStays, CNext
    PROVE  FoundStays'
<1>a. /\ stage \in [Threads -> Stages] /\ TreeTypes
      /\ \A t \in Threads : stage[t] \in {"products", "ranging"} => Item(t) \in Layers
      /\ prods \in [Layers -> {"unset", "partial", "all"}]
  BY DEF Inv, AtLayer, TreeTypes, OtherTypes
<1> SUFFICES ASSUME NEW l \in Layers, Found(l)' PROVE l \in indexed' /\ LookedUpAgain(l)'
  BY DEF FoundStays
\* A lookup that finds the products.
<1>1. ASSUME NEW t \in Threads, LookupProducts(t), Item(t) = l, l \in indexed, dbUp
      PROVE  l \in indexed' /\ prods'[l] = "all"
  BY <1>a, <1>1 DEF LookupProducts
<1>2. ASSUME Found(l) PROVE l \in indexed' /\ LookedUpAgain(l)'
  <2>1. l \in indexed /\ LookedUpAgain(l)
    BY <1>2 DEF FoundStays
  <2>2. indexed \subseteq indexed' /\ aborted \subseteq aborted'
    BY DEF CNext, MakeReadyStep, RequestStep, GetConfig, EnterFolder, EndRequest, Connect, StartLayer,
       LookupProducts, Abort, RangeStep, FinishLayer, FolderDone, ServeRead, EndRead, CEnvironment,
       IndexProducts
  <2>3. ASSUME NEW t \in Threads, stage[t] = "products", Item(t) = l PROVE LookedUpAgain(l)'
    <3>1. CASE CEnvironment
      BY <2>3, <3>1 DEF CEnvironment, IndexProducts, threadVars, Item, LookedUpAgain, LookingUp
    <3>2. ASSUME NEW u \in Threads \ {t}, MakeReadyStep(u) \/ RequestStep(u) PROVE LookedUpAgain(l)'
      <4>1. stage'[t] = stage[t] /\ cur'[t] = cur[t] /\ todo'[t] = todo[t]
        BY <1>a, <3>2, OthersStand
      <4> QED
        BY <2>3, <4>1 DEF Item, LookedUpAgain, LookingUp
    <3>3. CASE LookupProducts(t)
      <4>1. CASE ~dbUp
        BY <2>3, <3>3, <4>1 DEF LookupProducts, Abort, LookedUpAgain, LookingUp
      <4>2. CASE dbUp
        BY <1>1, <2>1, <2>3, <3>3, <4>2 DEF LookedUpAgain, LookingUp
      <4> QED
        BY <4>1, <4>2
    <3>4. MakeReadyStep(t) \/ RequestStep(t) => LookupProducts(t)
      BY <2>3 DEF MakeReadyStep, RequestStep, GetConfig, EnterFolder, InFolder, EndRequest, Connect,
         StartLayer, RangeStep, FinishLayer, FolderDone, ServeRead, EndRead
    <3> QED
      BY <3>1, <3>2, <3>3, <3>4 DEF CNext
  <2>4. ASSUME prods[l] = "all" PROVE LookedUpAgain(l)'
    <3>1. ASSUME NEW t \in Threads, StartLayer(t) PROVE LookedUpAgain(l)'
      <4>1. Item(t)' = Item(t) /\ stage'[t] = "products" /\ Item(t) \in Layers
        BY <1>a, <3>1 DEF StartLayer, Item
      <4>2. l # Item(t) => prods'[l] = prods[l]
        BY <1>a, <3>1, <4>1 DEF StartLayer
      <4> QED
        BY <2>4, <4>1, <4>2 DEF LookedUpAgain, LookingUp
    <3>2. ASSUME NEW t \in Threads, LookupProducts(t) PROVE LookedUpAgain(l)'
      <4>1. prods'[l] = "all"
        BY <1>a, <2>4, <3>2 DEF LookupProducts
      <4> QED
        BY <4>1 DEF LookedUpAgain, LookingUp
    <3>3. \/ \E t \in Threads : StartLayer(t) \/ LookupProducts(t)
          \/ prods' = prods
      BY DEF CNext, MakeReadyStep, RequestStep, GetConfig, EnterFolder, EndRequest, Connect,
         RangeStep, FinishLayer, FolderDone, ServeRead, EndRead, CEnvironment, IndexProducts, treeVars
    <3> QED
      BY <2>4, <3>1, <3>2, <3>3 DEF LookedUpAgain, LookingUp
  <2> QED
    BY <2>1, <2>2, <2>3, <2>4 DEF LookedUpAgain, LookingUp
<1>3. ASSUME ~Found(l) PROVE l \in indexed' /\ LookedUpAgain(l)'
  <2>1. ~IsChild(l)'
    <3>1. ~\E t \in Threads : FinishLayer(t) /\ Item(t) = l
      BY <1>3 DEF Found, FinishLayer
    <3> QED
      BY <1>3, <3>1, ChildSteps DEF Found
  <2>2. PICK t \in Threads : stage'[t] = "ranging" /\ Item(t)' = l
    BY <2>1 DEF Found
  <2>3. LookupProducts(t)
    <3>1. ~(stage[t] = stage'[t] /\ Item(t)' = Item(t))
      BY <1>3, <2>2 DEF Found
    <3>2. ~StartLayer(t)
      BY <1>a, <2>2 DEF StartLayer
    <3> QED
      BY <1>a, <2>2, <3>1, <3>2, StageSteps
  <2>4. dbUp /\ Item(t) \in indexed /\ Item(t) = l
    BY <1>a, <2>2, <2>3 DEF LookupProducts, Abort, Item
  <2> QED
    BY <1>1, <2>3, <2>4 DEF LookedUpAgain, LookingUp
<1>4. QED
  BY <1>2, <1>3

\* A static child layer that make_ready left visible is ready.
LEMMA NextStatic ==
    ASSUME ~Preemptive, Inv, OtherTypes, ServeInv, CNext
    PROVE  StaticReady'
<1>a. /\ call \in [Threads -> CallType] /\ ready \in [Nodes -> BOOLEAN] /\ grids \in [Layers -> BOOLEAN]
      /\ \A t \in Threads : call[t].ph # "idle" => call[t].lyr \in Layers
      /\ \A t \in Threads : stage[t] \in {"products", "ranging"} => Item(t) \in Layers
      /\ hide \in [Layers -> BOOLEAN]
  BY DEF OtherTypes, CacheTypeOK, Inv, AtLayer
<1> SUFFICES ASSUME NEW l \in Layers, IsChild(l)'
             PROVE  /\ l \notin Misconfigured
                    /\ l \notin Dynamic /\ ~hide'[l] /\ Settled(l)' => ready'[l]
  BY DEF StaticReady
<1>1. l \notin Misconfigured
  BY ChildSteps DEF ServeInv, StaticReady
<1>2. ready[l] => ready'[l]
  <2>1. ASSUME NEW t \in Threads, FinishLayer(t) PROVE ready[l] => ready'[l]
    BY <1>a, <2>1 DEF FinishLayer, Nodes
  <2>2. \A t \in Threads : Given(t)
    BY DEF ServeInv, Underway, Given, Unset
  <2> QED
    BY <2>1, <2>2, StepKeeps
<1> SUFFICES ASSUME l \notin Dynamic, ~hide'[l], Settled(l)' PROVE ready'[l]
  BY <1>1
\* The end of the layer's make_ready.
<1>3. ASSUME NEW t \in Threads, FinishLayer(t), Item(t) = l PROVE ready'[l]
  <2> DEFINE boxless == l \in Wcs /\ ~HasNativeBox(l)
             gridSet == grids[l] \/ (l \in Wcs /\ HasNativeBox(l))
  <2>1. /\ hide' = [hide EXCEPT ![l] = hide[l] \/ boxless]
        /\ ready' = [ready EXCEPT ![l] = ready[l] \/ BecomesReady(l, hide'[l], gridSet)]
    BY <1>1, <1>3, Zenon DEF FinishLayer
  <2>2. ~hide[l] /\ ~boxless
    BY <1>a, <2>1
  <2>3. Whole(l)
    <3>1. call[t].ph = "return" /\ call[t].lyr = l
      BY <1>3 DEF FinishLayer, ServeInv, CallsPlaced
    <3> QED
      BY <2>2, <3>1 DEF ServeInv, Underway
  <2>4. AllAssigned(l, gridSet)
    BY <2>2, <2>3 DEF AllAssigned, Whole, Unset
  <2>5. BecomesReady(l, hide'[l], gridSet)
    BY <2>4 DEF BecomesReady
  <2> QED
    BY <1>a, <2>1, <2>5 DEF Nodes
<1>4. ASSUME IsChild(l), ~hide[l], Settled(l) PROVE ready'[l]
  BY <1>2, <1>4 DEF ServeInv, StaticReady
<1>5. IsChild(l) \/ \E t \in Threads : FinishLayer(t) /\ Item(t) = l
  BY ChildSteps
<1>6. CASE UNCHANGED <<layerVars, call>>
  BY <1>3, <1>4, <1>5, <1>6 DEF Settled, layerVars
<1>7. ASSUME NEW t \in Threads, NEW k \in Layers, GoesOn(t, k) PROVE ready'[l]
  <2>1. k # l
    BY <1>7 DEF GoesOn, Settled
  <2>2. ~hide[l] /\ Settled(l)
    BY <1>7, <2>1 DEF GoesOn, Settled, SameAttributes
  <2> QED
    BY <1>3, <1>4, <1>5, <2>2
<1>8. ASSUME NEW t \in Threads, Ends(t) PROVE ready'[l]
  <2>1. ~hide[l] /\ \A u \in Threads \ {t} : call'[u] = call[u]
    BY <1>a, <1>8 DEF Ends
  <2>2. CASE call[t].lyr = l
    <3>1. ~EndRead(t)
      BY <2>2 DEF EndRead, ServeInv, CallsPlaced
    <3>2. FinishLayer(t) /\ Item(t) = l
      BY <1>8, <2>2, <3>1 DEF Ends, FinishLayer, ServeInv, CallsPlaced
    <3> QED
      BY <1>3, <3>2
  <2>3. CASE call[t].lyr # l
    <3>1. Settled(l)
      BY <2>1, <2>3 DEF Settled
    <3> QED
      BY <1>3, <1>4, <1>5, <2>1, <3>1
  <2> QED
    BY <2>2, <2>3
<1>9. QED
  BY <1>6, <1>7, <1>8, CallSteps

\* Every step keeps what makes children servable.
LEMMA ServeNext == ~Preemptive /\ Inv /\ OtherTypes /\ ServeInv /\ [CNext]_allVars => ServeInv'
<1> SUFFICES ASSUME ~Preemptive, Inv, OtherTypes, ServeInv, [CNext]_allVars PROVE ServeInv'
  OBVIOUS
<1>1. CASE UNCHANGED allVars
  BY <1>1 DEF allVars, cacheVars, layerVars, treeVars, threadVars, ServeInv, CallsPlaced, ChildWhole,
     Quiet, FoundStays, Found, LookedUpAgain, LookingUp, StaticReady, IsChild, Settled, Underway, Whole, Item
<1>2. CASE CNext
  BY <1>2, NextCallsPlaced, NextWhole, NextFound, NextStatic DEF ServeInv
<1>3. QED
  BY <1>1, <1>2

\* With any number of cooperative threads initialising and serving at once: a
\* child layer at rest that is not hidden has all its products and its extent,
\* and its ready flag if nothing but make_ready ever touches it.
THEOREM ChildrenAreServable == ASSUME ~Preemptive PROVE CSpec => []VisibleChildServable
<1>1. CInit => Inv /\ OtherTypes /\ ServeInv
  BY InitInv, TypeInit, ServeInit
<1>2. (Inv /\ OtherTypes /\ ServeInv) /\ [CNext]_allVars => (Inv /\ OtherTypes /\ ServeInv)'
  BY NextInv, TypeNext, ServeNext
<1>3. ServeInv => VisibleChildServable
  <2> SUFFICES ASSUME ServeInv, NEW f \in Folders, NEW l \in Elems(child[f]) \cap Layers
               PROVE  /\ prods[l] = "all" \/ l \in aborted \/ LookingUp(l)
                      /\ Quiet(l) /\ ~hide[l] => Whole(l)
                      /\ l \notin Dynamic /\ Settled(l) /\ ~hide[l] => ready[l]
    BY DEF VisibleChildServable, Whole
  <2>1. IsChild(l) /\ Found(l)
    BY DEF IsChild, Found
  <2>2. prods[l] = "all" \/ l \in aborted \/ LookingUp(l)
    BY <2>1 DEF ServeInv, FoundStays, LookedUpAgain
  <2> QED
    BY <2>1, <2>2 DEF ServeInv, ChildWhole, StaticReady
<1>4. QED
  BY <1>1, <1>2, <1>3, PTL DEF CSpec

-----------------------------------------------------------------------------
\* What a layer's styles are left with goes by the number of times it was made
\* ready, and every time appended it to its folder's child layers.
DrawnInv ==
    /\ \A f \in Folders : \A l \in Elems(child[f]) \cap Layers : l \in Elems(Kids[f])
    /\ \A l \in Layers : comps[l] = "unset" <=> ~IsChild(l)
    /\ ListedOnceIsDrawn

\* Initially no layer was made ready.
LEMMA DrawnInit == CInit => DrawnInv
<1> SUFFICES ASSUME CInit PROVE DrawnInv
  OBVIOUS
<1>1. \A f \in Folders : Elems(child[f]) = {}
  BY ElemsEmpty DEF CInit
<1>2. QED
  BY <1>1 DEF CInit, DrawnInv, IsChild, ListedOnceIsDrawn

\* What the append of a layer or a folder to child_layers changes.
LEMMA AppendLists ==
    ASSUME child \in [Folders -> Seq(Nodes)], NEW f \in Folders, NEW n \in Nodes,
           child' = [child EXCEPT ![f] = Append(child[f], n)]
    PROVE  /\ \A l \in Layers : ListedTwice(l) => ListedTwice(l)'
           /\ n \in Elems(child[f]) => ListedTwice(n)'
           /\ \A g \in Folders : Elems(child'[g]) = Elems(child[g]) \cup (IF g = f THEN {n} ELSE {})
<1>1. /\ child'[f] = Append(child[f], n) /\ \A g \in Folders \ {f} : child'[g] = child[g]
      /\ child[f] \in Seq(Nodes)
  OBVIOUS
<1>2. \A g \in Folders : \A i \in DOMAIN child[g] : i \in DOMAIN child'[g] /\ child'[g][i] = child[g][i]
  BY <1>1
<1>3. Len(child[f]) + 1 \in DOMAIN child'[f] /\ child'[f][Len(child[f]) + 1] = n
  BY <1>1
<1>4. Len(child[f]) + 1 \notin DOMAIN child[f]
  BY <1>1
<1>5. ASSUME NEW l \in Layers, ListedTwice(l) PROVE ListedTwice(l)'
  BY <1>2, <1>5 DEF ListedTwice
<1>6. ASSUME n \in Elems(child[f]) PROVE ListedTwice(n)'
  <2>1. PICK i \in DOMAIN child[f] : child[f][i] = n
    BY <1>6 DEF Elems
  <2> QED
    BY <1>2, <1>3, <1>4, <2>1 DEF ListedTwice
<1>7. Elems(child'[f]) = Elems(child[f]) \cup {n}
  BY <1>1, ElemsAppend
<1>8. QED
  BY <1>1, <1>5, <1>6, <1>7

\* The end of a layer's make_ready accepts the layer, unless it is misconfigured.
LEMMA FinishAccepts ==
    ASSUME Inv, OtherTypes, ServeInv, NEW t \in Threads, FinishLayer(t)
    PROVE  \/ UNCHANGED <<child, comps>>
           \/ /\ child' = [child EXCEPT ![cur[t]] = Append(child[cur[t]], Item(t))]
              /\ comps' = [comps EXCEPT ![Item(t)] = MadeReady(comps[Item(t)])]
<1> DEFINE l == Item(t)
           boxless == l \in Wcs /\ ~HasNativeBox(l)
           gridSet == grids[l] \/ (l \in Wcs /\ HasNativeBox(l))
<1>1. CASE l \in Misconfigured
  BY <1>1 DEF FinishLayer, Reject
<1>2. CASE l \notin Misconfigured
  <2>1. /\ hide' = [hide EXCEPT ![l] = hide[l] \/ boxless]
        /\ comps' = [comps EXCEPT ![l] = MadeReady(comps[l])]
        /\ IF hide'[l] \/ AllAssigned(l, gridSet)
           THEN Accept(t, cur[t], l)
           ELSE Reject(t, cur[t], l)
    BY <1>2, Zenon DEF FinishLayer
  <2>2. ~hide'[l] => AllAssigned(l, gridSet)
    <3> SUFFICES ASSUME ~hide'[l] PROVE AllAssigned(l, gridSet)
      OBVIOUS
    <3>1. l \in Layers /\ hide \in [Layers -> BOOLEAN]
      BY DEF FinishLayer, Inv, AtLayer, OtherTypes, CacheTypeOK
    <3>2. ~hide[l] /\ ~boxless
      BY <2>1, <3>1
    <3>3. call[t].ph = "return" /\ call[t].lyr = l
      BY DEF FinishLayer, ServeInv, CallsPlaced
    <3>4. Whole(l)
      BY <3>2, <3>3 DEF ServeInv, Underway
    <3> QED
      BY <3>2, <3>4 DEF AllAssigned, Whole, Unset
  <2> QED
    BY <2>1, <2>2 DEF Accept
<1>3. QED
  BY <1>1, <1>2

\* Every step keeps it.
LEMMA DrawnNext == Inv /\ OtherTypes /\ ServeInv /\ DrawnInv /\ [CNext]_allVars => DrawnInv'
<1> SUFFICES ASSUME Inv, OtherTypes, ServeInv, DrawnInv, [CNext]_allVars PROVE DrawnInv'
  OBVIOUS
<1>a. /\ child \in [Folders -> Seq(Nodes)] /\ comps \in [Layers -> {"unset", "set", "lost"}]
      /\ cur \in [Threads -> Folders] /\ Folders \cup Layers = Nodes /\ Folders \cap Layers = {}
  BY TreeAssumption DEF Inv, TreeTypes, OtherTypes, Nodes
<1>1. CASE UNCHANGED <<child, comps>>
  BY <1>1 DEF DrawnInv, IsChild, ListedOnceIsDrawn, ListedTwice
\* A folder is done: nothing changes for the layers.
<1>2. ASSUME NEW p \in Folders, NEW n \in Folders, comps' = comps,
             child' = [child EXCEPT ![p] = Append(child[p], n)]
      PROVE  DrawnInv'
  <2>1. \A l \in Layers : ListedTwice(l) => ListedTwice(l)'
    BY <1>a, <1>2, AppendLists
  <2>2. \A g \in Folders : Elems(child'[g]) \cap Layers = Elems(child[g]) \cap Layers
    <3>1. n \notin Layers /\ n \in Nodes
      BY <1>a
    <3>2. \A g \in Folders : Elems(child'[g]) = Elems(child[g]) \cup (IF g = p THEN {n} ELSE {})
      BY <1>a, <1>2, <3>1, AppendLists
    <3> QED
      BY <3>1, <3>2
  <2> QED
    BY <1>2, <2>1, <2>2 DEF DrawnInv, IsChild, ListedOnceIsDrawn
\* A layer is: the folder that lists it is its parent.
<1>3. ASSUME NEW f \in Folders, NEW l \in Layers, l \in Elems(Kids[f]),
             comps' = [comps EXCEPT ![l] = MadeReady(comps[l])],
             child' = [child EXCEPT ![f] = Append(child[f], l)]
      PROVE  DrawnInv'
  <2>1. /\ \A k \in Layers : ListedTwice(k) => ListedTwice(k)'
        /\ l \in Elems(child[f]) => ListedTwice(l)'
        /\ \A g \in Folders : Elems(child'[g]) = Elems(child[g]) \cup (IF g = f THEN {l} ELSE {})
    BY <1>a, <1>3, AppendLists
  <2>2. comps'[l] = MadeReady(comps[l]) /\ \A k \in Layers \ {l} : comps'[k] = comps[k]
    BY <1>a, <1>3
  <2>3. IsChild(l)' /\ \A k \in Layers \ {l} : IsChild(k)' <=> IsChild(k)
    BY <2>1 DEF IsChild
  <2>4. comps'[l] = "set" \/ ListedTwice(l)'
    <3>1. CASE IsChild(l)
      <4>1. PICK g \in Folders : l \in Elems(child[g])
        BY <3>1 DEF IsChild
      <4>2. g = f
        BY <1>3, <4>1, TreeAssumption DEF DrawnInv
      <4> QED
        BY <2>1, <4>1, <4>2
    <3>2. CASE ~IsChild(l)
      BY <2>2, <3>2 DEF DrawnInv, MadeReady
    <3> QED
      BY <3>1, <3>2
  <2>5. \A k \in Layers : comps'[k] = "unset" <=> ~IsChild(k)'
    BY <2>2, <2>3 DEF DrawnInv, MadeReady
  <2>6. ListedOnceIsDrawn'
    BY <2>1, <2>2, <2>4 DEF DrawnInv, ListedOnceIsDrawn
  <2>7. \A g \in Folders : \A k \in Elems(child'[g]) \cap Layers : k \in Elems(Kids[g])
    BY <1>3, <2>1 DEF DrawnInv
  <2> QED
    BY <2>5, <2>6, <2>7 DEF DrawnInv
<1>4. ASSUME NEW t \in Threads, FinishLayer(t) PROVE DrawnInv'
  <2>1. Item(t) \in Layers /\ todo[t][cur[t]] # <<>> /\ cur[t] \in Folders
    BY <1>a, <1>4 DEF FinishLayer, Inv, AtLayer
  <2>2. Item(t) \in Elems(Kids[cur[t]])
    <3>1. todo[t][cur[t]] \in Seq(Nodes)
      BY <2>1 DEF Inv, TreeTypes
    <3>2. Item(t) \in Elems(todo[t][cur[t]])
      BY <2>1, <3>1, ElemsHeadTail DEF Item
    <3> QED
      BY <2>1, <3>2 DEF Inv, OnlyOwnKids
  <2> QED
    BY <1>1, <1>3, <1>4, <2>1, <2>2, FinishAccepts
<1>5. ASSUME NEW t \in Threads, FolderDone(t) PROVE DrawnInv'
  <2>1. \/ child' = child
        \/ child' = [child EXCEPT ![ParentOf(cur[t])] = Append(child[ParentOf(cur[t])], cur[t])]
    BY <1>5 DEF FolderDone, Accept
  <2>2. comps' = comps
    BY <1>5 DEF FolderDone
  <2>3. CASE cur[t] # Root
    <3>1. stage[t] = "folder"
      BY <1>5 DEF FolderDone, InFolder
    <3>2. PICK S \in SUBSET Folders : OpenFrames(t, S)
      BY <3>1 DEF Inv, LoopsCovered, Loop
    <3>3. ParentOf(cur[t]) \in Folders
      BY <2>3, <3>2 DEF OpenFrames
    <3> QED
      BY <1>1, <1>2, <1>a, <2>1, <2>2, <3>3
  <2>4. CASE cur[t] = Root
    BY <1>1, <1>5, <2>2, <2>4 DEF FolderDone
  <2> QED
    BY <2>3, <2>4
<1>6. ASSUME NEW t \in Threads, MakeReadyStep(t) \/ RequestStep(t), ~FinishLayer(t), ~FolderDone(t)
      PROVE  UNCHANGED <<child, comps>>
  BY <1>6 DEF MakeReadyStep, RequestStep, GetConfig, EnterFolder, EndRequest, Connect, StartLayer,
     LookupProducts, Reject, RangeStep, ServeRead, EndRead, treeVars
<1>7. CASE CEnvironment
  BY <1>1, <1>7 DEF CEnvironment, IndexProducts, treeVars
<1>8. CASE UNCHANGED allVars
  BY <1>1, <1>8 DEF allVars, treeVars
<1>9. QED
  BY <1>1, <1>4, <1>5, <1>6, <1>7, <1>8 DEF CNext

\* With any number of cooperative threads, failures and retries: the component
\* styles of a child layer can be drawn unless its folder lists the layer twice.
THEOREM ListedOnceIsAlwaysDrawn == ASSUME ~Preemptive PROVE CSpec => []ListedOnceIsDrawn
<1>1. CInit => Inv /\ OtherTypes /\ ServeInv /\ DrawnInv
  BY InitInv, TypeInit, ServeInit, DrawnInit
<1>2. (Inv /\ OtherTypes /\ ServeInv /\ DrawnInv) /\ [CNext]_allVars
        => (Inv /\ OtherTypes /\ ServeInv /\ DrawnInv)'
  BY NextInv, TypeNext, ServeNext, DrawnNext
<1>3. DrawnInv => ListedOnceIsDrawn
  BY DEF DrawnInv
<1>4. QED
  BY <1>1, <1>2, <1>3, PTL DEF CSpec
==============================================================================
