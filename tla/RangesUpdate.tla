---------------------------- MODULE RangesUpdate -----------------------------
(***************************************************************************)
(* datacube-ows-update [layers] with the postgres index driver: add_ranges *)
(* over the named layers and, for each, the SQL statements of              *)
(* create_range_entry, against a database that commits every statement on  *)
(* its own.  Runs may fail or be killed between any two statements, be run *)
(* again, and overlap; the materialised view they derive the ranges from   *)
(* is refreshed meanwhile, and the web service reads rows at any time.     *)
(*                                                                         *)
(* The datasets of a layer are abstracted to a version of their content: 0 *)
(* is "no datasets".  A column of a row is abstracted to the version it    *)
(* was derived from; 0 is the placeholder of a newly inserted row (zero    *)
(* coordinates, empty dates, empty bboxes).                                *)
(***************************************************************************)
EXTENDS Integers, FiniteSets, Sequences

CONSTANTS
    Updaters,   \* concurrent invocations of datacube-ows-update
    Layers,     \* cfg.layer_index
    Unknown,    \* layer names not in the configuration
    Args,       \* the sequence of layer names of an invocation
    Sigs,       \* (time resolution, products, env) combinations of the layers
    SigOf,      \* [Layers -> Sigs]
    Solar,      \* the Sigs whose time resolution is solar
    MaxData,    \* bound: content versions of the datasets of a Sig
    CountOf,    \* [0 .. MaxData -> Nat]: the number of datasets in a version
    MaxChanges, \* bound: changes to the index, and refreshes of the view
    MaxKills    \* bound: runs killed

ASSUME NamesAssumption == Layers \cap Unknown = {} /\ Args \in Seq(Layers \cup Unknown)
ASSUME SigsAssumption == SigOf \in [Layers -> Sigs] /\ Solar \subseteq Sigs
ASSUME CountAssumption ==
    /\ MaxData \in Nat /\ MaxChanges \in Nat /\ MaxKills \in Nat
    /\ CountOf \in [0 .. MaxData -> Nat]
    /\ \A v \in 0 .. MaxData : CountOf[v] = 0 <=> v = 0

Data   == 0 .. MaxData
Counts == {CountOf[v] : v \in Data}
NoRow  == [there |-> FALSE, ll |-> 0, dates |-> 0, boxes |-> 0]
RowOf(v) == [there |-> TRUE, ll |-> v, dates |-> v, boxes |-> v]

VARIABLES
    index,     \* [Sigs -> Data]: the datasets in the ODC index
    view,      \* [Sigs -> Data]: the datasets in ows.space_time_view
    changes,   \* index changes and refreshes so far
    table,     \* [Layers -> row]: ows.layer_ranges
    pc,        \* [Updaters -> the statement about to be executed]
    pos,       \* position in Args
    cache,     \* the run's signature cache: [Updaters -> [Sigs -> [Counts -> Seq(Layers)]]]
    signed,    \* the dataset count in the signature of the layer at hand
    local,     \* the dates or extent last read by the run
    outcome,   \* exit status of the last run: "none", "ok", "errors", "failed"
    kills,     \* runs killed so far
    calm,      \* history: since the run began nobody else changed view or table
    disturbed  \* history: layers whose update stopped or saw a refresh or another
               \*   run's copy midway, and those whose rows were copied from such rows

dataVars == <<index, view, changes>>
runVars  == <<pc, pos, cache, signed, local, outcome>>
histVars == <<calm, disturbed>>
vars     == <<dataVars, table, runVars, kills, histVars>>

Pcs == {"idle", "next", "insert", "latlon", "readDates", "writeDates",
        "readExtent", "writeBoxes", "copyInsert", "copyUpdate"}
EmptyCache == [s \in Sigs |-> [c \in Counts |-> <<>>]]

\* The database may have been in use for long: any index and view, and rows
\* left by completed runs.
Init ==
    /\ index \in [Sigs -> Data]
    /\ view \in [Sigs -> Data]
    /\ changes = 0
    /\ table \in [Layers -> {NoRow} \cup {RowOf(v) : v \in Data \ {0}}]
    /\ pc = [u \in Updaters |-> "idle"]
    /\ pos = [u \in Updaters |-> 1]
    /\ cache = [u \in Updaters |-> EmptyCache]
    /\ signed = [u \in Updaters |-> 0]
    /\ local = [u \in Updaters |-> 0]
    /\ outcome = [u \in Updaters |-> "none"]
    /\ kills = 0
    /\ calm = [u \in Updaters |-> FALSE]
    /\ disturbed = {}

-----------------------------------------------------------------------------
Name(u) == Args[pos[u]]
Sig(u)  == SigOf[Name(u)]
Seen(u) == view[Sig(u)]     \* what a SELECT on space_time_view returns now

\* The run is between the first and the last UPDATE of the layer's row.
Midway(u) == pc[u] \in {"readDates", "writeDates", "readExtent", "writeBoxes"}

Goto(u, p) == pc' = [pc EXCEPT ![u] = p]

NextLayer(u) ==
    /\ Goto(u, "next")
    /\ pos' = [pos EXCEPT ![u] = @ + 1]

\* A statement that changes a row disturbs the other runs.
Write(u, r) ==
    /\ table' = [table EXCEPT ![Name(u)] = r]
    /\ calm' = [w \in Updaters |-> calm[w] /\ w = u]

\* The last statement for a layer: its row is whole if nobody interfered.
Completed(u) ==
    disturbed' = IF calm[u] THEN disturbed \ {Name(u)} ELSE disturbed

\* An exception, or a signal, ends the run: the layers after this one are not
\* updated.
Stop(u) ==
    /\ Goto(u, "idle")
    /\ outcome' = [outcome EXCEPT ![u] = "failed"]
    /\ disturbed' = IF Midway(u) THEN disturbed \cup {Name(u)} ELSE disturbed

\* Mutant: the signature cache outlives the run.
KeptCache(u) == cache

NewCache(u) == [cache EXCEPT ![u] = EmptyCache]

\* add_ranges: a new signature cache, errors = False.
StartRun(u) ==
    /\ pc[u] = "idle"
    /\ Goto(u, "next")
    /\ pos' = [pos EXCEPT ![u] = 1]
    /\ cache' = NewCache(u)
    /\ outcome' = [outcome EXCEPT ![u] = "ok"]
    /\ calm' = [calm EXCEPT ![u] = \A w \in Updaters : pc[w] = "idle"]
    /\ UNCHANGED <<dataVars, table, signed, local, kills, disturbed>>

AtName(u) == pc[u] = "next" /\ pos[u] <= Len(Args)

\* A name that is not in layer_index is reported and skipped.
SkipUnknown(u) ==
    /\ AtName(u)
    /\ Name(u) \in Unknown
    /\ outcome' = [outcome EXCEPT ![u] = "errors"]
    /\ pos' = [pos EXCEPT ![u] = @ + 1]
    /\ UNCHANGED <<dataVars, table, pc, cache, signed, local, kills, histVars>>

\* create_range_entry: the signature counts the datasets in the ODC index.
\* A signature met before in this run has a template layer to copy.
Sign(u) ==
    /\ AtName(u)
    /\ Name(u) \in Layers
    /\ LET c == CountOf[index[Sig(u)]] IN
       /\ signed' = [signed EXCEPT ![u] = c]
       /\ IF cache[u][Sig(u)][c] # <<>>
          THEN /\ cache' = [cache EXCEPT ![u][Sig(u)][c] = Append(@, Name(u))]
               /\ Goto(u, "copyInsert")
          ELSE /\ Goto(u, "insert")
               /\ UNCHANGED cache
    /\ UNCHANGED <<dataVars, table, pos, local, outcome, kills, histVars>>

\* The first layer of the cache entry the layer at hand was appended to.
Template(u) == Head(cache[u][Sig(u)][signed[u]])

\* Mutant: the bounding boxes are not copied.
CopiedButBoxes(u) == [table[Template(u)] EXCEPT !.boxes = table[Name(u)].boxes]

CopiedColumns(u) == table[Template(u)]

\* A copy is as whole as the row it was taken from, if no other run is midway
\* through the row it replaces.
CopyRow(u) ==
    /\ Write(u, CopiedColumns(u))
    /\ NextLayer(u)
    /\ IF \/ Template(u) \in disturbed
          \/ \E w \in Updaters : Midway(w) /\ Name(w) \in {Template(u), Name(u)}
       THEN disturbed' = disturbed \cup {Name(u)}
       ELSE Completed(u)

\* INSERT ... SELECT from the template's row: IntegrityError if the layer has
\* a row already ...
CopyInsert(u) ==
    /\ pc[u] = "copyInsert"
    /\ IF table[Name(u)].there
       THEN /\ Goto(u, "copyUpdate")
            /\ UNCHANGED <<table, pos, histVars>>
       ELSE CopyRow(u)
    /\ UNCHANGED <<dataVars, cache, signed, local, outcome, kills>>

\* ... on which the row is UPDATEd FROM the template's.
CopyUpdate(u) ==
    /\ pc[u] = "copyUpdate"
    /\ CopyRow(u)
    /\ UNCHANGED <<dataVars, cache, signed, local, outcome, kills>>

\* INSERT of the placeholder row, ON CONFLICT (layer) DO NOTHING.
InsertEmpty(u) ==
    /\ pc[u] = "insert"
    /\ IF table[Name(u)].there
       THEN UNCHANGED <<table, calm>>
       ELSE Write(u, [NoRow EXCEPT !.there = TRUE])
    /\ Goto(u, "latlon")
    /\ UNCHANGED <<dataVars, pos, cache, signed, local, outcome, kills, disturbed>>

\* Mutant: the coordinate columns are nullable.
UpdateLatLonNullable(u) ==
    /\ pc[u] = "latlon"
    /\ Write(u, [table[Name(u)] EXCEPT !.ll = Seen(u)])
    /\ Goto(u, "readDates")
    /\ UNCHANGED <<dataVars, pos, cache, signed, local, outcome, kills, disturbed>>

\* UPDATE of the coordinates from the view: with no datasets st_extent is NULL
\* and the NOT NULL constraint fails the run.
UpdateLatLon(u) ==
    /\ pc[u] = "latlon"
    /\ IF Seen(u) = 0
       THEN Stop(u) /\ UNCHANGED <<table, calm>>
       ELSE /\ Write(u, [table[Name(u)] EXCEPT !.ll = Seen(u)])
            /\ Goto(u, "readDates")
            /\ UNCHANGED <<outcome, disturbed>>
    /\ UNCHANGED <<dataVars, pos, cache, signed, local, kills>>

Read(u, next) ==
    /\ Goto(u, next)
    /\ local' = [local EXCEPT ![u] = Seen(u)]
    /\ UNCHANGED <<outcome, disturbed>>

\* SELECT of the dates: without datasets a solar layer has no dates, for the
\* others the NULL aggregate is a TypeError.
ReadDates(u) ==
    /\ pc[u] = "readDates"
    /\ IF Seen(u) = 0 /\ Sig(u) \notin Solar
       THEN Stop(u) /\ UNCHANGED local
       ELSE Read(u, "writeDates")
    /\ UNCHANGED <<dataVars, table, pos, cache, signed, kills, calm>>

WriteDates(u) ==
    /\ pc[u] = "writeDates"
    /\ Write(u, [table[Name(u)] EXCEPT !.dates = local[u]])
    /\ Goto(u, "readExtent")
    /\ UNCHANGED <<dataVars, pos, cache, signed, local, outcome, kills, disturbed>>

\* mv_search for the extent: None without datasets, on which bbox_projections
\* raises.
ReadExtent(u) ==
    /\ pc[u] = "readExtent"
    /\ IF Seen(u) = 0
       THEN Stop(u) /\ UNCHANGED local
       ELSE Read(u, "writeBoxes")
    /\ UNCHANGED <<dataVars, table, pos, cache, signed, kills, calm>>

\* UPDATE of the bounding boxes; the layer becomes the template of its
\* signature for the rest of the run.
WriteBoxes(u) ==
    /\ pc[u] = "writeBoxes"
    /\ Write(u, [table[Name(u)] EXCEPT !.boxes = local[u]])
    /\ cache' = [cache EXCEPT ![u][Sig(u)][signed[u]] = <<Name(u)>>]
    /\ NextLayer(u)
    /\ Completed(u)
    /\ UNCHANGED <<dataVars, signed, local, outcome, kills>>

\* All names are done: exit status 0, or 1 after an unknown name.
EndRun(u) ==
    /\ pc[u] = "next"
    /\ pos[u] > Len(Args)
    /\ Goto(u, "idle")
    /\ UNCHANGED <<dataVars, table, pos, cache, signed, local, outcome, kills, histVars>>

-----------------------------------------------------------------------------
\* The process dies between two statements; each one before is committed.
Kill(u) ==
    /\ pc[u] # "idle"
    /\ kills < MaxKills
    /\ kills' = kills + 1
    /\ Stop(u)
    /\ UNCHANGED <<dataVars, table, pos, cache, signed, local, calm>>

\* Datasets are added to, archived in or replaced in the ODC index.
ChangeIndex(s) ==
    /\ changes < MaxChanges
    /\ changes' = changes + 1
    /\ \E v \in Data \ {index[s]} : index' = [index EXCEPT ![s] = v]
    /\ UNCHANGED <<view, table, runVars, kills, histVars>>

\* datacube-ows-update --views.
RefreshView ==
    /\ changes < MaxChanges
    /\ changes' = changes + 1
    /\ view' = index
    /\ calm' = [u \in Updaters |-> FALSE]
    /\ disturbed' = disturbed \cup {Name(u) : u \in {w \in Updaters : Midway(w)}}
    /\ UNCHANGED <<index, table, runVars, kills>>

Statement(u) ==
    \/ SkipUnknown(u) \/ Sign(u) \/ CopyInsert(u) \/ CopyUpdate(u)
    \/ InsertEmpty(u) \/ UpdateLatLon(u) \/ ReadDates(u) \/ WriteDates(u)
    \/ ReadExtent(u) \/ WriteBoxes(u) \/ EndRun(u)

Next ==
    \/ \E u \in Updaters : StartRun(u) \/ Statement(u) \/ Kill(u)
    \/ \E s \in Sigs : ChangeIndex(s)
    \/ RefreshView

Spec == Init /\ [][Next]_vars

-----------------------------------------------------------------------------

\* get_ranges serves every row that has dates.  Although the statements of an
\* update are committed one by one, no row is ever served with the zero
\* coordinates it was inserted with.
ServedRowLocated ==
    \A l \in Layers : table[l].dates # 0 => table[l].there /\ table[l].ll # 0

\* Coordinates, dates and bounding boxes of a row come from the same datasets,
\* even with overlapping runs, except while a run is midway through the layer
\* or after one stopped, the view was refreshed, or another run copied a row
\* over this one midway (or the row was copied from such a row).
UniformRow ==
    \A l \in Layers \ disturbed :
        (\A u \in Updaters : Midway(u) => Name(u) # l)
            => table[l].ll = table[l].dates /\ table[l].dates = table[l].boxes

\* Whatever kills and refreshes left behind, a run that is left alone and ends
\* without an exception brings the row of every known layer it names, copied or
\* computed, up to the view; its exit status is 0 exactly if it knew all names.
RunRepairs ==
    \A u \in Updaters :
        pc[u] = "idle" /\ outcome[u] \in {"ok", "errors"} /\ calm[u] =>
            /\ \A i \in DOMAIN Args :
                   Args[i] \in Layers => table[Args[i]] = RowOf(view[SigOf[Args[i]]])
            /\ outcome[u] = "ok" <=> \A i \in DOMAIN Args : Args[i] \in Layers
=============================================================================
