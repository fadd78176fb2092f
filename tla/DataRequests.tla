----------------------------- MODULE DataRequests -----------------------------
(***************************************************************************)
(* A request for data of one layer, WMS GetMap ("map") and GetFeatureInfo  *)
(* ("info") or WCS GetCoverage 1.0 ("cov1") and 2.x ("cov2"): the database *)
(* queries of its DataStacker, resource limits, the joining of the main    *)
(* product with a flag product, and cache headers, while                   *)
(* ows.space_time_view changes between any two of the queries.  Requests   *)
(* share no state, so one at a time is enough.                             *)
(*                                                                         *)
(* The view is abstracted to the number of datasets each product has in    *)
(* the requested area on each date.  Pixels are left out: what a response  *)
(* was made from is the product and the number of datasets, and for every  *)
(* date the date its flags were taken from.                                *)
(***************************************************************************)
EXTENDS Integers, SequencesExt

CONSTANTS
    Dates,       \* the dates of the layer, as numbers
    Holdings,    \* [Products -> SUBSET Nat]: datasets a product may have on a date
    LayerKinds,  \* the layer configurations considered (LayerKind below)
    MaxDatasets, \* max_datasets of the layer's resource limits; 0 for none
    Rules,       \* its dataset_cache_rules, if set: a sequence of [min, age]
    MaxChanges   \* bound: changes of the view

Products  == {"main", "low", "flag"}
LayerKind ==
    [lowRes : BOOLEAN,                       \* low_res_product_names is set
     manual : BOOLEAN,                       \* manual_merge of the layer
     flags : {"none", "dated", "timeless"},  \* a flag product, and its ignore_time
     flagManual : BOOLEAN]                   \* manual_merge of the flag product

ASSUME HoldingsAssumption ==
    Dates \subseteq Nat \ {0} /\ IsFiniteSet(Dates) /\ Holdings \in [Products -> SUBSET Nat]
ASSUME KindsAssumption == LayerKinds \subseteq LayerKind
ASSUME BoundsAssumption == MaxDatasets \in Nat /\ MaxChanges \in Nat

\* What the constructor of CacheControlRules accepts.
RulesAccepted ==
    /\ Rules \in Seq([min : Nat \ {0}, age : Nat \ {0}])
    /\ \A i, j \in DOMAIN Rules :
           i < j => Rules[i].min < Rules[j].min /\ Rules[i].age < Rules[j].age
    /\ MaxDatasets > 0 => \A i \in DOMAIN Rules : Rules[i].min <= MaxDatasets
ASSUME RulesAssumption == RulesAccepted

VARIABLES
    layer,    \* the configuration of the layer
    view,     \* [Products -> [Dates -> Nat]]: ows.space_time_view
    changes,  \* changes of the view so far
    req,      \* the request: kind, dates, too far zoomed out or too big, format
    pc,       \* the query, or the step, that is next
    n,        \* n_datasets
    limited,  \* stacker.resource_limited
    main,     \* [Dates -> Nat]: what the query of the main product returned
    flag,     \* [Dates -> Nat]: what the query of the flag product returned
    known,    \* the dates that have data at all, which a feature info lists
    res,      \* the response to the last request
    steady    \* history: the view has not changed since the request came

requestVars == <<req, pc, n, limited, main, flag, known, res, steady>>
vars == <<layer, view, changes, requestVars>>

Kinds      == {"map", "info", "cov1", "cov2"}
NoDatasets == [d \in Dates |-> 0]
NoReq      == [kind |-> "map", dates |-> {}, heavy |-> FALSE, tiff |-> FALSE]

\* Where the flags of a date were taken from, if not from a date.
NoFlags  == 0
Nodata   == -1   \* filled with the nodata value of the flag bands
Timeless == -2   \* from the flag product whatever its date

NoHeader == -1   \* no cache-control header is sent; 0 is "no-cache"
NoRes    == [what |-> "none", kind |-> "map", dates |-> {}, limited |-> FALSE,
             from |-> "main", loaded |-> 0, flags |-> NoDatasets, age |-> NoHeader,
             records |-> {}, known |-> {}]

Init ==
    /\ layer \in LayerKinds
    /\ view \in {v \in [Products -> [Dates -> UNION Range(Holdings)]] :
                     \A p \in Products : Range(v[p]) \subseteq Holdings[p]}
    /\ changes = 0
    /\ req = NoReq
    /\ pc = "idle"
    /\ n = 0
    /\ limited = FALSE
    /\ main = NoDatasets
    /\ flag = NoDatasets
    /\ known = {}
    /\ res = NoRes
    /\ steady = TRUE

-----------------------------------------------------------------------------
\* A GetMap for several dates needs a style with a multi-date handler, and so
\* does a feature info that names a style; a GetCoverage for several dates needs
\* a format other than GeoTIFF.  Feature infos know no limits.
Start(r) ==
    /\ pc = "idle"
    /\ r.tiff => r.kind \in {"cov1", "cov2"} /\ Cardinality(r.dates) = 1
    /\ r.heavy => r.kind # "info"
    /\ limited' = FALSE
    /\ req' = r
    /\ pc' = "count"
    /\ res' = NoRes
    /\ steady' = TRUE
    /\ UNCHANGED <<layer, view, changes, n, main, flag, known>>

\* simple_layer_query: the product to query.
MainProduct(resourceLimited) == IF resourceLimited THEN "low" ELSE "main"

\* DataStacker passes resource_limited to none of its queries: n_datasets and
\* datasets leave it out, extent gives it as manual_merge.
Queried == MainProduct(FALSE)

\* A search of the view for the requested dates.
Found(p) == [d \in Dates |-> IF d \in req.dates THEN view[p][d] ELSE 0]

NumberOf(f)  == MapThenSumSet(LAMBDA d : f[d], Dates)
DatesWith(f) == {d \in Dates : f[d] > 0}

\* Mutant: a rule begins after its min_datasets.
HeaderAgeAfter(count) ==
    LET beyond == SelectInSeq(Rules, LAMBDA r : count <= r.min)
        rule   == IF beyond = 0 THEN Len(Rules) ELSE beyond - 1
    IN IF count = 0 \/ (MaxDatasets > 0 /\ count > MaxDatasets) \/ rule = 0
       THEN 0
       ELSE Rules[rule].age

\* cache_headers: the rule before the first whose min_datasets is not reached;
\* "no-cache" without one, without datasets and above max_datasets.
HeaderAge(count) ==
    LET beyond == SelectInSeq(Rules, LAMBDA r : count < r.min)
        rule   == IF beyond = 0 THEN Len(Rules) ELSE beyond - 1
    IN IF count = 0 \/ (MaxDatasets > 0 /\ count > MaxDatasets) \/ rule = 0
       THEN 0
       ELSE Rules[rule].age

\* A response, and the end of what the request held.  Errors and feature infos
\* have no cache header, and WCS 1.0 computes one that it does not send.
Respond(what, count, loaded, flags) ==
    /\ res' = [what |-> what, kind |-> req.kind, dates |-> req.dates, limited |-> limited',
               from |-> Queried, loaded |-> loaded, flags |-> flags,
               age |-> IF \/ req.kind \in {"cov1", "info"}
                          \/ what \in {"error", "refused", "notfound"}
                       THEN NoHeader
                       ELSE HeaderAge(count),
               records |-> IF what = "data" THEN DatesWith(main) ELSE {}, known |-> known]
    /\ pc' = "idle"
    /\ req' = NoReq
    /\ n' = 0
    /\ main' = NoDatasets
    /\ flag' = NoDatasets
    /\ known' = {}
    /\ UNCHANGED <<layer, view, changes, steady>>

Goto(step) ==
    /\ pc' = step
    /\ UNCHANGED <<layer, view, changes, req, known, res, steady>>

TooMany(count) == MaxDatasets > 0 /\ count > MaxDatasets

\* Mutant: without low resolution products the data is fetched all the same.
CountMapDraws ==
    LET count == NumberOf(Found(Queried)) IN
    /\ pc = "count" /\ req.kind = "map"
    /\ limited' = (TooMany(count) \/ req.heavy)
    /\ IF DatesWith(Found(Queried)) = {}
       THEN Respond("empty", count, 0, NoDatasets)
       ELSE Goto("main") /\ n' = count /\ UNCHANGED <<main, flag>>

\* get_map: the datasets are counted, then check_wms.
CountMap ==
    LET count == NumberOf(Found(Queried)) IN
    /\ pc = "count" /\ req.kind = "map"
    /\ limited' = (TooMany(count) \/ req.heavy)
    /\ IF DatesWith(Found(Queried)) = {} /\ (limited' => layer.lowRes)
       THEN Respond("empty", count, 0, NoDatasets)
       ELSE /\ Goto(IF limited' /\ ~layer.lowRes THEN "extent" ELSE "main")
            /\ n' = count
            /\ UNCHANGED <<main, flag>>

\* Mutant: what is counted empty is fetched.
CountCoverageAny ==
    LET count == NumberOf(Found(Queried)) IN
    /\ pc = "count" /\ req.kind \in {"cov1", "cov2"}
    /\ limited' = TooMany(count)
    /\ IF req.heavy \/ (limited' /\ ~layer.lowRes)
       THEN Respond("refused", count, 0, NoDatasets)
       ELSE Goto("main") /\ n' = count /\ UNCHANGED <<main, flag>>

\* Get coverage: check_wcs refuses what has no low resolution to fall back to
\* and images that are too big; without datasets 1.0 answers with nodata.
CountCoverage ==
    LET count == NumberOf(Found(Queried)) IN
    /\ pc = "count" /\ req.kind \in {"cov1", "cov2"}
    /\ limited' = TooMany(count)
    /\ IF req.heavy \/ (limited' /\ ~layer.lowRes)
       THEN Respond("refused", count, 0, NoDatasets)
       ELSE IF DatesWith(Found(Queried)) = {}
       THEN Respond(IF req.kind = "cov1" THEN "empty" ELSE "notfound", 0, 0, NoDatasets)
       ELSE /\ Goto("main")
            /\ n' = count
            /\ UNCHANGED <<main, flag>>

\* Mutant: only the dates of the request are looked for.
ListRequestedDates ==
    /\ pc = "count" /\ req.kind = "info"
    /\ UNCHANGED limited
    /\ IF DatesWith(Found("main")) = {} THEN Respond("empty", 0, 0, NoDatasets)
       ELSE /\ known' = DatesWith(Found("main"))
            /\ pc' = "main"
            /\ UNCHANGED <<layer, view, changes, req, n, main, flag, res, steady>>

\* feature_info: every dataset at the point, whatever its date, of which there
\* must be one.
ListAllDates ==
    /\ pc = "count" /\ req.kind = "info"
    /\ UNCHANGED limited
    /\ IF DatesWith(view["main"]) = {} THEN Respond("empty", 0, 0, NoDatasets)
       ELSE /\ known' = DatesWith(view["main"])
            /\ pc' = "main"
            /\ UNCHANGED <<layer, view, changes, req, n, main, flag, res, steady>>

\* Over a limit and without low resolution products: the extent is drawn.
Extent ==
    /\ pc = "extent"
    /\ UNCHANGED limited
    /\ Respond(IF DatesWith(Found(Queried)) = {} THEN "empty" ELSE "polygon", n, 0, NoDatasets)

\* stacker.datasets(): one search per product.
FetchMain ==
    /\ pc = "main"
    /\ main' = Found(Queried)
    /\ Goto(IF req.kind \in {"map", "info"} /\ layer.flags # "none" THEN "flag" ELSE "load")
    /\ UNCHANGED <<n, limited, flag>>

FetchFlag ==
    /\ pc = "flag"
    /\ flag' = IF layer.flags = "timeless" THEN view["flag"] ELSE Found("flag")
    /\ Goto("load")
    /\ UNCHANGED <<n, limited, main>>

\* Mutant: flags that were not found are not filled with nodata.
UnfilledJoin ==
    LET dates == DatesWith(flag) IN
    /\ layer.flags # "none" /\ DatesWith(main) # {}
    /\ \/ layer.flags = "timeless" /\ Cardinality(dates) > 1
       \/ layer.flags = "dated" /\ Cardinality(dates) # Cardinality(DatesWith(main))

\* stacker.data(): what the join of the flag bands raises on.
JoinFails ==
    LET dates == DatesWith(flag) IN
    /\ layer.flags # "none" /\ DatesWith(main) # {}
    /\ \/ layer.flags = "timeless" /\ Cardinality(dates) > 1
       \/ layer.flags = "dated" /\ Cardinality(dates) \notin {0, Cardinality(DatesWith(main))}

\* A manually merged flag product without datasets is None, and leaves the data
\* without its bands, which the masks of the style miss.
Unflagged == layer.flags # "none" /\ layer.flagManual /\ DatesWith(flag) = {}

Rank(d, dates) == Cardinality({e \in dates : e < d})

\* Mutant: the first flag slice is repeated for every date.
FlagsOfFirst(d) ==
    LET dates == DatesWith(flag) IN
    IF d \notin DatesWith(main) \/ layer.flags = "none" \/ Unflagged THEN NoFlags
    ELSE IF dates = {} THEN Nodata
    ELSE IF layer.flags = "timeless" THEN Timeless
    ELSE Min(dates)

\* The flag slices take the time coordinates of the data, in their order.
FlagsOf(d) ==
    LET dates == DatesWith(flag) IN
    IF d \notin DatesWith(main) \/ layer.flags = "none" \/ Unflagged THEN NoFlags
    ELSE IF dates = {} THEN Nodata
    ELSE IF layer.flags = "timeless" THEN Timeless
    ELSE CHOOSE e \in dates : Rank(e, dates) = Rank(d, DatesWith(main))

\* Mutant: a flag product without data blanks the map.
LoadMapFlagged ==
    /\ pc = "load" /\ req.kind = "map"
    /\ UNCHANGED limited
    /\ IF DatesWith(main) # req.dates \/ (layer.flags # "none" /\ DatesWith(flag) = {})
       THEN Respond("empty", n, 0, NoDatasets)
       ELSE IF JoinFails \/ Unflagged THEN Respond("error", n, 0, NoDatasets)
       ELSE Respond("data", n, NumberOf(main), [d \in Dates |-> FlagsOf(d)])

\* get_map: the searches must have found every date of the main product.
LoadMap ==
    /\ pc = "load" /\ req.kind = "map"
    /\ UNCHANGED limited
    /\ IF DatesWith(main) # req.dates THEN Respond("empty", n, 0, NoDatasets)
       ELSE IF JoinFails \/ Unflagged THEN Respond("error", n, 0, NoDatasets)
       ELSE Respond("data", n, NumberOf(main), [d \in Dates |-> FlagsOf(d)])

\* A manual merge of nothing is None, and GeoTIFF needs exactly one time slice.
LoadCoverage ==
    /\ pc = "load" /\ req.kind \in {"cov1", "cov2"}
    /\ UNCHANGED limited
    /\ IF DatesWith(main) = {} /\ (layer.manual \/ req.tiff)
       THEN Respond("error", n, 0, NoDatasets)
       ELSE Respond("data", n, NumberOf(main), NoDatasets)

\* A manual merge of nothing is None too, and what was found of the flag product
\* is then taken for the data.
FlagsForData == DatesWith(main) = {} /\ layer.manual /\ layer.flags # "none" /\ DatesWith(flag) # {}

\* feature_info: a record for each date of the data, and one for all of them
\* together, which repeats none of what is modelled here.
LoadInfo ==
    /\ pc = "load" /\ req.kind = "info"
    /\ UNCHANGED limited
    /\ IF JoinFails \/ FlagsForData THEN Respond("error", n, 0, NoDatasets)
       ELSE Respond("data", n, NumberOf(main), [d \in Dates |-> FlagsOf(d)])

\* Datasets are added or archived and the view is refreshed.
ChangeView ==
    /\ changes < MaxChanges
    /\ changes' = changes + 1
    /\ \E p \in Products, d \in Dates : \E k \in Holdings[p] \ {view[p][d]} :
           view' = [view EXCEPT ![p][d] = k]
    /\ steady' = FALSE
    /\ UNCHANGED <<layer, req, pc, n, limited, main, flag, known, res>>

Requests ==
    [kind : Kinds, dates : (SUBSET Dates) \ {{}}, heavy : BOOLEAN, tiff : BOOLEAN]

Next ==
    \/ \E r \in Requests : Start(r)
    \/ CountMap \/ CountCoverage \/ Extent \/ FetchMain \/ FetchFlag
    \/ ListAllDates \/ LoadMap \/ LoadCoverage \/ LoadInfo
    \/ ChangeView

Spec == Init /\ [][Next]_vars

-----------------------------------------------------------------------------

\* A map shows the requested dates and no others, and masks none by the flags of
\* another: the time coordinates of the flags are overwritten by those of the
\* data, which is sound although the two were searched for at different moments.
MapIsAligned ==
    res.what = "data" /\ res.kind = "map" =>
        /\ res.records = res.dates
        /\ \A d \in res.dates : res.flags[d] \in {d, NoFlags, Nodata, Timeless}

\* A map of one date never fails, however the view changes between the count and
\* the searches for data and flags, unless its flags are merged manually or taken
\* from a product of several dates; a coverage fails only if the view lost
\* datasets while the request was served; and a feature info of one date fails
\* for flags of several dates or a manually merged layer only.
RequestsAnswered ==
    res.what = "error" =>
        CASE res.kind = "map" ->
                 Cardinality(res.dates) # 1 \/ layer.flags = "timeless" \/ layer.flagManual
          [] res.kind = "info" ->
                 Cardinality(res.dates) # 1 \/ layer.flags = "timeless" \/ layer.manual
          [] OTHER -> ~steady

\* Without data on one of the dates, and only then, a map is blank; a feature
\* info has a record for each requested date with data, and lists every date that
\* has some.
FoundIsShown ==
    steady /\ pc = "idle" =>
        /\ res.kind = "map" =>
               /\ res.what = "empty" => \E d \in res.dates : view["main"][d] = 0
               /\ res.what \in {"data", "polygon"} => \E d \in res.dates : view["main"][d] # 0
        /\ res.kind = "info" /\ res.what \in {"data", "empty"} =>
               /\ res.known = DatesWith(view["main"])
               /\ res.records = res.dates \cap res.known

\* docs/cfg_layers.rst, "Cache-control header is returned according to the
\* number of datasets hit": a header that is sent is the one of the highest rule
\* that the datasets the response was made from reach, and no-cache otherwise.
HeaderMatchesData ==
    steady /\ res.what = "data" /\ res.age # NoHeader =>
        LET reached == {Rules[i].age : i \in {j \in DOMAIN Rules : Rules[j].min <= res.loaded}}
        IN  res.age = IF reached = {} \/ TooMany(res.loaded) THEN 0 ELSE Max(reached)

\* Without low resolution products no map or coverage is made from more datasets
\* than the limit, and none of a request over a limit is cached on account of them.
LimitHolds ==
    steady /\ res.what = "data" /\ res.kind # "info" /\ ~layer.lowRes =>
        ~res.limited /\ ~TooMany(res.loaded)

\* docs/cfg_layers.rst, Resource Limits (wms): with a low-resolution summary
\* product, "requests that exceed any configured resource limits will be served
\* from the low-resolution summary product instead of the main data product."
LimitedReadsLowRes == res.what = "data" /\ res.limited => res.from = "low"
===============================================================================
