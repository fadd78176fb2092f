----------------------------- MODULE ViewSchema ------------------------------
(***************************************************************************)
(* The materialised views of the postgres index driver: the statements of  *)
(* datacube-ows-update --schema (sql/postgres/extent_views/create, then    *)
(* extent_views/grants/refresh_owner), of --views (extent_views/refresh)   *)
(* and of --read-role, as run_sql executes them: in the order of their     *)
(* file names, each committed on its own, the run ending at the first      *)
(* statement the database refuses.  A schema run may be killed between any *)
(* two statements and started again; a refresh may overlap it.             *)
(*                                                                         *)
(* PostgreSQL is modelled as far as these statements need it: a catalog of *)
(* relation names, views that depend on other views by identity and not by *)
(* name, indexes and SELECT grants that belong to a view and are dropped   *)
(* with it.  Statements that are idempotent and touch no view (001 to 006, *)
(* and the ows_schema directory) are left out.  Datasets are only added:   *)
(* the content of a view is their number when it was computed.             *)
(***************************************************************************)
EXTENDS Integers, Sequences, FiniteSetsExt

CONSTANTS
    Readers,    \* roles the administrator gives --read-role
    MaxRuns,    \* bound: schema runs
    MaxCrashes, \* bound: schema runs killed
    MaxData     \* bound: datasets indexed

ASSUME ReadersAssumption == Readers # {}
ASSUME BoundsAssumption ==
    MaxRuns \in Nat \ {0} /\ MaxCrashes \in Nat /\ MaxData \in Nat \ {0}

Views   == {"time", "time_new", "space", "space_new", "st", "st_new", "st_old"}
StViews == {"st", "st_new", "st_old"}
Idx     == 1 .. 4
Unique  == 4            \* the index REFRESH ... CONCURRENTLY relies on
None    == [id |-> 0, data |-> 0, owner |-> "admin", grants |-> {}, time |-> 0, space |-> 0]

\* The files 010-012, 020-023, 030-032, 040-043 and 050-053 of
\* extent_views/create, and those of grants/refresh_owner.
NewViews   == << <<"create", "time_new">>, <<"create", "space_new">>, <<"createst">> >>
NewIndexes == [i \in Idx |-> <<"index", i>>]
SwapViews  == << <<"rename?", "st", "st_old">>, <<"rename", "st_new", "st">>, <<"drop", "st_old">> >>
Sources    == << <<"drop", "space">>, <<"drop", "time">>,
                 <<"rename", "space_new", "space">>, <<"rename", "time_new", "time">> >>
Indexes    == [i \in Idx |-> <<"reindex", i>>]
SetOwners  == << <<"owner", "time">>, <<"owner", "space">>, <<"owner", "st">> >>

\* Mutants: the served view is dropped first; the indexes are made on the
\* swapped view; the old view is kept; the owner is not set.
DropFirst     == << <<"drop", "st">> >> \o NewViews \o NewIndexes \o SwapViews \o Sources
                 \o Indexes \o SetOwners
IndexesLate   == NewViews \o SwapViews \o NewIndexes \o Sources \o Indexes \o SetOwners
WithoutDrop   == NewViews \o NewIndexes \o SubSeq(SwapViews, 1, 2) \o Sources \o Indexes
                 \o SetOwners
WithoutOwners == NewViews \o NewIndexes \o SwapViews \o Sources \o Indexes

Script == NewViews \o NewIndexes \o SwapViews \o Sources \o Indexes \o SetOwners
Swap == 9   \* 031: between 030 and this statement there is no space_time_view

VARIABLES
    datasets,  \* number of datasets in the ODC index
    cat,       \* [Views -> view]: the catalog; None where there is no relation
    idx,       \* [Idx -> view id]: indexes under their final names, 0 for none
    idxNew,    \* [Idx -> view id]: indexes under their _new names
    at,        \* statement the schema run is about to execute, 0 for no run
    runs,      \* schema runs started so far
    crashes,   \* schema runs killed so far
    outcome,   \* how the last schema run ended: "none", "ok", "failed", "killed"
    since,     \* datasets when the last schema run began
    lost,      \* history: a schema run was killed right before the swap
    granted,   \* history: readers that were granted SELECT
    refresh,   \* what the --views run does next: "idle", "time", "space", "st"
    refreshed, \* how the last --views run ended: "none", "ok", "failed", "killed"
    rsince,    \* datasets when the last --views run began
    overlap    \* history: a schema run was in progress during that run

schemaVars  == <<at, runs, crashes, outcome, since, lost>>
refreshVars == <<refresh, refreshed, rsince, overlap>>
vars == <<datasets, cat, idx, idxNew, schemaVars, granted, refreshVars>>

Init ==
    /\ datasets \in 1 .. MaxData
    /\ cat = [n \in Views |-> None]
    /\ idx = [i \in Idx |-> 0]
    /\ idxNew = [i \in Idx |-> 0]
    /\ at = 0 /\ runs = 0 /\ crashes = 0 /\ since = 0
    /\ outcome = "none"
    /\ lost = FALSE
    /\ granted = {}
    /\ refresh = "idle" /\ refreshed = "none"
    /\ rsince = 0
    /\ overlap = FALSE

-----------------------------------------------------------------------------
Exists(n) == cat[n].id # 0
Running   == at # 0
Is(op)    == Running /\ Script[at][1] = op
Arg(k)    == Script[at][k]

StartSchema ==
    /\ ~Running
    /\ runs < MaxRuns
    /\ at' = 1
    /\ runs' = runs + 1
    /\ since' = datasets
    /\ overlap' = TRUE
    /\ UNCHANGED <<datasets, cat, idx, idxNew, crashes, outcome, lost, granted,
                   refresh, refreshed, rsince>>

\* run_sql goes to the next file; after the last one the run is over.
Advance ==
    /\ at' = IF at = Len(Script) THEN 0 ELSE at + 1
    /\ outcome' = IF at = Len(Script) THEN "ok" ELSE outcome

\* The exception leaves run_sql and main: nothing after this file is run.
Refuse ==
    /\ at' = 0
    /\ outcome' = "failed"
    /\ UNCHANGED <<cat, idx, idxNew>>

Frame == UNCHANGED <<datasets, runs, crashes, since, lost, granted, refreshVars>>

NewView(d) == [None EXCEPT !.id = runs, !.data = d]

\* 010, 011: CREATE MATERIALIZED VIEW IF NOT EXISTS, filled from the ODC tables.
CreateSource ==
    /\ Is("create")
    /\ cat' = IF Exists(Arg(2)) THEN cat ELSE [cat EXCEPT ![Arg(2)] = NewView(datasets)]
    /\ Advance
    /\ UNCHANGED <<idx, idxNew>>
    /\ Frame

\* 012: IF NOT EXISTS, the join of the two new views.
CreateJoin ==
    /\ Is("createst")
    /\ cat' = IF Exists("st_new") THEN cat
              ELSE [cat EXCEPT !["st_new"] =
                      [NewView(Min({cat["time_new"].data, cat["space_new"].data}))
                         EXCEPT !.time = cat["time_new"].id, !.space = cat["space_new"].id]]
    /\ Advance
    /\ UNCHANGED <<idx, idxNew>>
    /\ Frame

\* 020 to 023: CREATE INDEX, without IF NOT EXISTS.
CreateIndex ==
    /\ Is("index")
    /\ IF idxNew[Arg(2)] # 0
       THEN Refuse
       ELSE /\ idxNew' = [idxNew EXCEPT ![Arg(2)] = cat["st_new"].id]
            /\ Advance
            /\ UNCHANGED <<cat, idx>>
    /\ Frame

\* 030, 031, 042, 043: ALTER MATERIALIZED VIEW [IF EXISTS] ... RENAME TO.
RenameView ==
    /\ Is("rename") \/ Is("rename?")
    /\ CASE ~Exists(Arg(2)) /\ Is("rename?") -> Advance /\ UNCHANGED <<cat, idx, idxNew>>
         [] ~Exists(Arg(2)) /\ Is("rename")  -> Refuse
         [] Exists(Arg(2)) /\ Exists(Arg(3)) -> Refuse
         [] OTHER -> /\ cat' = [cat EXCEPT ![Arg(3)] = cat[Arg(2)], ![Arg(2)] = None]
                     /\ Advance
                     /\ UNCHANGED <<idx, idxNew>>
    /\ Frame

\* A join view computed from this view stands in the way of its DROP.
Dependents(n) ==
    {m \in StViews : Exists(m) /\ \/ n = "time" /\ cat[m].time = cat[n].id
                                  \/ n = "space" /\ cat[m].space = cat[n].id}

\* 032, 040, 041: DROP MATERIALIZED VIEW IF EXISTS, with its indexes.
DropView ==
    LET n == Arg(2)
        Without(ix) == [i \in Idx |-> IF n \in StViews /\ ix[i] = cat[n].id THEN 0 ELSE ix[i]]
    IN
    /\ Is("drop")
    /\ IF Exists(n) /\ Dependents(n) # {}
       THEN Refuse
       ELSE /\ cat' = [cat EXCEPT ![n] = None]
            /\ idx' = IF Exists(n) THEN Without(idx) ELSE idx
            /\ idxNew' = IF Exists(n) THEN Without(idxNew) ELSE idxNew
            /\ Advance
    /\ Frame

\* 050 to 053: ALTER INDEX ... RENAME TO.
RenameIndex ==
    /\ Is("reindex")
    /\ IF idxNew[Arg(2)] = 0 \/ idx[Arg(2)] # 0
       THEN Refuse
       ELSE /\ idx' = [idx EXCEPT ![Arg(2)] = idxNew[Arg(2)]]
            /\ idxNew' = [idxNew EXCEPT ![Arg(2)] = 0]
            /\ Advance
            /\ UNCHANGED cat
    /\ Frame

\* refresh_owner/010 to 012: ALTER MATERIALIZED VIEW ... OWNER TO ows_view_owner.
SetOwner ==
    /\ Is("owner")
    /\ IF ~Exists(Arg(2))
       THEN Refuse
       ELSE /\ cat' = [cat EXCEPT ![Arg(2)].owner = "ows_view_owner"]
            /\ Advance
            /\ UNCHANGED <<idx, idxNew>>
    /\ Frame

\* The process, or its connection, dies between two statements.
Crash ==
    /\ Running
    /\ crashes < MaxCrashes
    /\ crashes' = crashes + 1
    /\ lost' = (lost \/ at = Swap)
    /\ at' = 0
    /\ outcome' = "killed"
    /\ UNCHANGED <<datasets, cat, idx, idxNew, runs, since, granted, refreshVars>>

-----------------------------------------------------------------------------
\* --read-role: GRANT SELECT ON ows.space_time_view.
GrantRead(r) ==
    /\ Exists("st")
    /\ r \notin cat["st"].grants
    /\ cat' = [cat EXCEPT !["st"].grants = @ \cup {r}]
    /\ granted' = granted \cup {r}
    /\ UNCHANGED <<datasets, idx, idxNew, schemaVars, refreshVars>>

StartRefresh ==
    /\ refresh = "idle"
    /\ refresh' = "time"
    /\ refreshed' = "none"
    /\ rsince' = datasets
    /\ overlap' = Running
    /\ UNCHANGED <<datasets, cat, idx, idxNew, schemaVars, granted>>

\* The write role is a member of ows_view_owner: it may refresh what that owns.
Refreshable(n) == Exists(n) /\ cat[n].owner = "ows_view_owner"

StopRefresh(how) ==
    /\ refresh' = "idle"
    /\ refreshed' = how
    /\ UNCHANGED cat

\* refresh/002 and 003, from the ODC tables.
RefreshSource ==
    /\ refresh \in {"time", "space"}
    /\ IF Refreshable(refresh)
       THEN /\ cat' = [cat EXCEPT ![refresh].data = datasets]
            /\ refresh' = IF refresh = "time" THEN "space" ELSE "st"
            /\ UNCHANGED refreshed
       ELSE StopRefresh("failed")
    /\ UNCHANGED <<datasets, idx, idxNew, schemaVars, granted, rsince, overlap>>

\* The views the join was defined over, whatever they are called now.
SourceOf(n) ==
    {m \in {"time", "time_new"} : Exists(m) /\ cat[m].id = cat[n].time}
    \cup {m \in {"space", "space_new"} : Exists(m) /\ cat[m].id = cat[n].space}

\* refresh/004: REFRESH MATERIALIZED VIEW CONCURRENTLY ows.space_time_view.
RefreshJoin ==
    /\ refresh = "st"
    /\ IF Refreshable("st") /\ cat["st"].id \in {idx[Unique], idxNew[Unique]}
       THEN /\ cat' = [cat EXCEPT !["st"].data = Min({cat[m].data : m \in SourceOf("st")})]
            /\ refresh' = "idle"
            /\ refreshed' = "ok"
       ELSE StopRefresh("failed")
    /\ UNCHANGED <<datasets, idx, idxNew, schemaVars, granted, rsince, overlap>>

KillRefresh ==
    /\ refresh # "idle"
    /\ StopRefresh("killed")
    /\ UNCHANGED <<datasets, idx, idxNew, schemaVars, granted, rsince, overlap>>

AddDatasets ==
    /\ datasets < MaxData
    /\ datasets' = datasets + 1
    /\ UNCHANGED <<cat, idx, idxNew, schemaVars, granted, refreshVars>>

Next ==
    \/ StartSchema \/ CreateSource \/ CreateJoin \/ CreateIndex \/ RenameView
    \/ DropView \/ RenameIndex \/ SetOwner \/ Crash
    \/ \E r \in Readers : GrantRead(r)
    \/ StartRefresh \/ RefreshSource \/ RefreshJoin \/ KillRefresh
    \/ AddDatasets

Spec == Init /\ [][Next]_vars

-----------------------------------------------------------------------------
Ids == 0 .. MaxRuns

\* "OWS down" is one statement long: once there was a space_time_view, it is
\* missing only right before the swap, or after a run was killed there.  No
\* failing re-run takes a working view away.
OutageOnlyInSwap == (outcome = "ok" \/ granted # {}) /\ ~Exists("st") => at = Swap \/ lost

\* The view that OWS queries always has its four indexes, the unique one among
\* them, whatever was interrupted before.
ServedIsIndexed ==
    Exists("st") => \A i \in Idx : cat["st"].id \in {idx[i], idxNew[i]}

\* As long as no run was killed, no statement of a schema run is refused, and
\* every run ends with exactly the three views, indexed, wired to each other,
\* owned by the view owner and holding every dataset indexed when it began.
UnkilledRunCompletes ==
    crashes = 0 =>
        /\ outcome # "failed"
        /\ ~Running /\ runs > 0 =>
               /\ {n \in Views : Exists(n)} = {"time", "space", "st"}
               /\ \A n \in {"time", "space", "st"} : cat[n].owner = "ows_view_owner"
               /\ \A i \in Idx : idx[i] = cat["st"].id /\ idxNew[i] = 0
               /\ SourceOf("st") = {"time", "space"}
               /\ cat["st"].data >= since

\* A view refresh by the write role that overlapped no schema run succeeds, if
\* no schema run was killed, and leaves every dataset indexed when it began in
\* the view.
RefreshDependable ==
    crashes = 0 /\ ~overlap /\ runs > 0 =>
        /\ refreshed # "failed"
        /\ refreshed = "ok" => cat["st"].data >= rsince

=============================================================================
