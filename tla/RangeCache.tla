----------------------------- MODULE RangeCache ------------------------------
(***************************************************************************)
(* The cached extent of a named layer: the attributes _ranges, bboxes,     *)
(* default_time and hide of OWSNamedLayer, the steps of                    *)
(* force_range_update on them, and the rows of ows.layer_ranges they are   *)
(* taken from.  LayerRanges adds the requests that read through the cache, *)
(* ConfigReadiness the initialisation that first fills it.                 *)
(*                                                                         *)
(* A row of ows.layer_ranges is abstracted to its version: 0 when          *)
(* get_ranges finds nothing to return (no row, or a row without dates),    *)
(* then 1, 2, ... for each change of the row.  A version in Boxless is a   *)
(* row read in the middle of its first update: its dates are there and its *)
(* bboxes are still the empty string.  An attribute of the layer object is *)
(* abstracted to the version it was taken from.                            *)
(***************************************************************************)
EXTENDS Integers, FiniteSets

CONSTANTS
    Threads,     \* request threads (or greenlets) of one server process
    Layers,      \* named layers of the configuration
    Dynamic,     \* the layers configured with "dynamic": True
    MaxVersion,  \* bound: changes of one layer's row
    Boxless,     \* row versions with dates and without bounding boxes
    MaxOutages,  \* bound: losses of the database connection
    NoLayer,     \* stands for "no layer"
    Preemptive   \* TRUE: threads switch anywhere (CPython threads);
                 \* FALSE: only while they wait for the database (gevent)

ASSUME DynamicAssumption == Dynamic \subseteq Layers
ASSUME NoLayerAssumption == NoLayer \notin Layers
ASSUME BoundsAssumption == MaxVersion \in Nat /\ MaxOutages \in Nat
ASSUME PreemptiveAssumption == Preemptive \in BOOLEAN
ASSUME BoxlessAssumption == Boxless \subseteq 1 .. MaxVersion

Unset   == -1   \* declared unready and never assigned: reading it raises
Failed  == -2   \* the query raised (database unreachable)

Versions == 0 .. MaxVersion

\* What force_range_update can make a visible layer of.
Shown(v) == v >= 1 /\ v \notin Boxless

VARIABLES
    row,      \* [Layers -> Versions]: the committed row in the database
    dbUp,     \* the database answers
    outages,  \* outages so far
    hide,     \* lyr.hide
    ranges,   \* lyr._ranges: Unset, 0 for None, or a version
    bboxes,   \* lyr.bboxes: Unset, 0 for {}, or a version
    defTime,  \* lyr.default_time: Unset or a version
    call      \* the force_range_update each thread is in

dbVars    == <<row, dbUp, outages>>
layerVars == <<hide, ranges, bboxes, defTime>>
cacheVars == <<dbVars, layerVars, call>>

\* Where a thread is in force_range_update.  It waits for the database in
\* "query" and "reply" (the answer is there, the thread has not seen it).
Computing == {"check", "extract", "boxes", "date", "default", "hide", "clear", "return"}
Phases    == {"idle", "query", "reply"} \cup Computing
Idle      == [ph |-> "idle", lyr |-> NoLayer, got |-> 0]

\* Mutant: a layer once hidden stays hidden.
BeginKeepingHide(t, l) ==
    /\ call[t].ph = "idle"
    /\ call' = [call EXCEPT ![t] = [ph |-> "query", lyr |-> l, got |-> 0]]
    /\ UNCHANGED <<dbVars, layerVars>>

\* force_range_update: hide is cleared, then get_ranges queries the database.
BeginUpdate(t, l) ==
    /\ call[t].ph = "idle"
    /\ hide' = [hide EXCEPT ![l] = FALSE]
    /\ call' = [call EXCEPT ![t] = [ph |-> "query", lyr |-> l, got |-> 0]]
    /\ UNCHANGED <<dbVars, ranges, bboxes, defTime>>

\* get_ranges: one SELECT, evaluated by the database at one instant.
AnswerQuery(t) ==
    /\ call[t].ph = "query"
    /\ call' = [call EXCEPT ![t].ph = "reply",
                            ![t].got = IF dbUp THEN row[call[t].lyr] ELSE Failed]
    /\ UNCHANGED <<dbVars, layerVars>>

Proceed(t, phase, v) == call' = [call EXCEPT ![t].ph = phase, ![t].got = v]

\* Mutant: the result is stored without looking whether the query failed.
AssignUnchecked(t) ==
    /\ call[t].ph = "reply"
    /\ ranges' = [ranges EXCEPT ![call[t].lyr] = call[t].got]
    /\ Proceed(t, "check", 0)
    /\ UNCHANGED <<dbVars, hide, bboxes, defTime>>

\* self._ranges = <result>, or the exception get_ranges raised.
AssignRanges(t) ==
    /\ call[t].ph = "reply"
    /\ IF call[t].got = Failed
       THEN Proceed(t, "hide", 0) /\ UNCHANGED ranges
       ELSE /\ ranges' = [ranges EXCEPT ![call[t].lyr] = call[t].got]
            /\ Proceed(t, "check", 0)
    /\ UNCHANGED <<dbVars, hide, bboxes, defTime>>

\* `if self._ranges is None: raise`.  What follows reads self._ranges again,
\* and with preemptive threads another one may have assigned it meanwhile.
CheckRanges(t) ==
    /\ call[t].ph = "check"
    /\ Proceed(t, IF ranges[call[t].lyr] = 0 THEN "hide" ELSE "extract", 0)
    /\ UNCHANGED <<dbVars, layerVars>>

\* extract_bboxes: raises on a row without bboxes, {} for None.
ExtractBoxes(t) ==
    LET v == ranges[call[t].lyr] IN
    /\ call[t].ph = "extract"
    /\ IF v \in Boxless THEN Proceed(t, "hide", 0) ELSE Proceed(t, "boxes", v)
    /\ UNCHANGED <<dbVars, layerVars>>

\* Mutant: the default time is not brought up to date.
StoreBoxesOnly(t) ==
    /\ call[t].ph = "boxes"
    /\ bboxes' = [bboxes EXCEPT ![call[t].lyr] = call[t].got]
    /\ Proceed(t, "return", 0)
    /\ UNCHANGED <<dbVars, hide, ranges, defTime>>

\* self.bboxes = <result>
StoreBoxes(t) ==
    /\ call[t].ph = "boxes"
    /\ bboxes' = [bboxes EXCEPT ![call[t].lyr] = call[t].got]
    /\ Proceed(t, "date", 0)
    /\ UNCHANGED <<dbVars, hide, ranges, defTime>>

\* A date of self._ranges by the layer's default_time rule: raises on None.
FindDefaultTime(t) ==
    LET v == ranges[call[t].lyr] IN
    /\ call[t].ph = "date"
    /\ IF v = 0 THEN Proceed(t, "hide", 0) ELSE Proceed(t, "default", v)
    /\ UNCHANGED <<dbVars, layerVars>>

\* self.default_time = <date>
StoreDefaultTime(t) ==
    /\ call[t].ph = "default"
    /\ defTime' = [defTime EXCEPT ![call[t].lyr] = call[t].got]
    /\ Proceed(t, "return", 0)
    /\ UNCHANGED <<dbVars, hide, ranges, bboxes>>

\* The `except` branch: the layer is hidden ...
HideLayer(t) ==
    /\ call[t].ph = "hide"
    /\ hide' = [hide EXCEPT ![call[t].lyr] = TRUE]
    /\ Proceed(t, "clear", 0)
    /\ UNCHANGED <<dbVars, ranges, bboxes, defTime>>

\* ... and loses its bounding boxes; _ranges and default_time stay.
ClearBoxes(t) ==
    /\ call[t].ph = "clear"
    /\ bboxes' = [bboxes EXCEPT ![call[t].lyr] = 0]
    /\ Proceed(t, "return", 0)
    /\ UNCHANGED <<dbVars, hide, ranges, defTime>>

\* From the answer of the database to the end of force_range_update.
Compute(t) ==
    \/ AssignRanges(t) \/ CheckRanges(t) \/ ExtractBoxes(t) \/ StoreBoxes(t)
    \/ FindDefaultTime(t) \/ StoreDefaultTime(t) \/ HideLayer(t) \/ ClearBoxes(t)

\* force_range_update is over: its caller goes on.
EndUpdate(t) ==
    /\ call[t].ph = "return"
    /\ call' = [call EXCEPT ![t] = Idle]

\* datacube-ows-update changes what get_ranges returns for the layer
\* (RangesUpdate models the statements of an update).
UpdateRow(l) ==
    /\ dbUp
    /\ row[l] < MaxVersion
    /\ row' = [row EXCEPT ![l] = @ + 1]
    /\ UNCHANGED <<dbUp, outages, layerVars, call>>

LoseDatabase ==
    /\ dbUp
    /\ outages < MaxOutages
    /\ dbUp' = FALSE
    /\ outages' = outages + 1
    /\ UNCHANGED <<row, layerVars, call>>

RestoreDatabase ==
    /\ ~dbUp
    /\ dbUp' = TRUE
    /\ UNCHANGED <<row, outages, layerVars, call>>

Database ==
    \/ \E l \in Layers : UpdateRow(l)
    \/ LoseDatabase
    \/ RestoreDatabase

CallType ==
    [ph : Phases, lyr : Layers \cup {NoLayer}, got : Versions \cup {Unset, Failed}]

CacheTypeOK ==
    /\ row \in [Layers -> Versions]
    /\ dbUp \in BOOLEAN
    /\ outages \in 0 .. MaxOutages
    /\ hide \in [Layers -> BOOLEAN]
    /\ ranges \in [Layers -> Versions \cup {Unset}]
    /\ bboxes \in [Layers -> Versions \cup {Unset}]
    /\ defTime \in [Layers -> Versions \cup {Unset}]
    /\ call \in [Threads -> CallType]
    /\ \A t \in Threads : /\ call[t].ph # "idle" => call[t].lyr \in Layers
                          /\ call[t].got = Failed => call[t].ph = "reply"

\* No thread is in the layer's force_range_update.
Quiet(l) == \A t \in Threads : call[t].ph \notin {"idle", "return"} => call[t].lyr # l
=============================================================================
