# Verification of datacube-ows

TLA+ models of the parts of datacube-ows whose correctness depends on
interleaving, failure or order, the TLC runs that check them on small instances,
and TLAPS proofs of what matters most for instances of every size.

Paths below are relative to `src/`; `ows_configuration.py` and the like are in
`src/datacube_ows/`. A definition of a module translates the lines that
`PROJECT.json` ("map") names for it.

## 1. The system

datacube-ows is a stateless-looking web service (WMS, WMTS, WCS) over an Open
Data Cube index, plus the command line tool `datacube-ows-update` that maintains
the tables and materialised views the service reads.

| Component | State it keeps | Operations | Status |
|---|---|---|---|
| Range cache of a layer (`ows_configuration.py:952-1002`) | `_ranges`, `bboxes`, `default_time`, `hide` of each `OWSNamedLayer`, shared by all requests of a process | `force_range_update`, the `ranges` property | modelled |
| Configuration, first phase (`config_utils.py`, `config_toolkit.py`, `ows_configuration.py`) | the tree of folders and layers, `layer_index`, `folder_index` | includes, inheritance, every section and what it refuses | modelled |
| Configuration, second phase (`ows_configuration.py`, `config_utils.py:166-251`) | `OWSConfig.ready`, `dc`; `child_layers`, `unready_layers` of each folder; `ready` flag and unready attributes of each layer | `get_config`, `OWSConfig/OWSFolder/OWSNamedLayer.make_ready` | modelled |
| Styles (`styles/`) | `style_index` of a layer, the bands a style needs | parsing, `make_ready`, masks, `transform_data` and its multi-date handlers | parsing and drawing modelled; colour ramps and expressions as any value |
| `datacube-ows-update`, ranges (`update_ranges_impl.py`, `index/postgres/product_ranges.py`) | `ows.layer_ranges`, the signature cache of one run | `add_ranges`, `create_range_entry` | modelled (postgres driver) |
| `datacube-ows-update`, schema and views (`sql/postgres/extent_views`, `index/sql.py`) | the three materialised views, their indexes, owners and grants | `--schema`, `--views`, `--read-role` | modelled, except the idempotent table and role scripts |
| Index driver cache (`index/driver.py`, `index/api.py`, `index/*/api.py`) | the cache object, its drivers, one index object per driver, three locks | `ows_index()` | modelled |
| Index search and dates (`index/postgres/mv_index.py`, `product_ranges.py`, `time_utils.py`) | none | the dates of a layer, the search window of a date, the mosaic | modelled; geometry left out |
| Request routing and versions (`ogc.py`, `protocol_versions.py`, `ogc_exceptions.py`) | none | route, service, version, handler, family of an error, `ping` | modelled |
| WMS and WMTS parameters (`wms_utils.py`, `wmts.py`, `tile_matrix_sets.py`) | none | every check of GetMap, GetFeatureInfo, GetLegendGraphic, GetTile | modelled |
| GetMap, GetFeatureInfo and GetCoverage data (`data.py`, `feature_info.py`, `loading.py`, `resource_limits.py`, `wcs*_utils.py`) | one `DataStacker` per request; reads the view | count, limits, searches, join of flags, cache headers, records | modelled; pixels left out |
| WCS 1 and 2 (`wcs1*.py`, `wcs2*.py`, `wcs_scaler.py`, `wcs_utils.py`) | one `WCSScaler` per request | subsets, scales, dates, bands, formats, descriptions | modelled; writing of files left out |
| PostGIS index (`index/postgis`) | same rows, no views | as the postgres driver | driver lock only |
| Legend drawing, templates, profiling, translations, start-up, `cfg_parser` | none that outlives a call | text, arithmetic and image work | not modelled (section 8) |

### How they interact

- Every request calls `get_config`. Until the configuration is ready, the
  request's own thread runs `make_ready` (there is no lock), which queries the
  ODC index for products and `ows.layer_ranges` for extents.
- A request for a layer configured with `"dynamic": True` re-reads the layer's
  row whenever it looks at `ranges`, and stores the answer in the shared layer
  object. Other layers keep what `make_ready` found.
- `datacube-ows-update` is another process. It rewrites the rows statement by
  statement, and refreshes or replaces `ows.space_time_view`, while the service
  queries both. Every statement is a commit. `run_sql` opens no transaction.
  `create_range_entry` calls `conn.begin()` and `txn.commit()`
  (`product_ranges.py:50`, `185`), which bound nothing, because the engine of the
  Open Data Cube is in AUTOCOMMIT; that nobody commits the DDL of `run_sql`, on
  the connection of `get_sqlconn` (`index/sql.py:17-25`), and it is effective,
  shows that it is.
- GetMap, GetFeatureInfo and GetCoverage send two to four queries to the view
  per request, and decide on the later ones by the answers to the earlier ones.
- A request passes `ogc.py` (route, service, version), the handler's parameters,
  the search, the styles. Each of these steps has its own kinds of failure, and
  what turns a failure into a response is only in the outermost one.
- WMTS translates a tile into the parameters of GetMap and calls it; its errors
  are caught as WMS ones and converted.
- The sections of a configuration name each other: layers inherit from layers,
  styles from styles (of other layers too), masks name flag bands, coverages
  name formats. The first phase checks what the configuration alone can tell, the
  second what needs the index.

### Scheduling

Two kinds of deployment are in the repository. `Dockerfile:81` and
`docker-compose.prod.yaml:5` start gunicorn with `-k gevent`: the requests of a
process are greenlets that switch only while they wait for the database. And
`wsgi.py:31` (`app.run()`, threaded), any WSGI server as in `README.rst:231`,
and the code's own locks assume threads that switch anywhere. `RangeCache` has
the constant `Preemptive` for this, `DriverCache` is always preemptive,
and everything in other processes interleaves statement by statement.

### What is hard

Overlapping updates of shared layer objects, an initialisation that every
request may run and that may fail in the middle, unlocked double checks,
multi-statement updates without transactions that can be killed, repeated and
overlapped, a swap of the view under its readers, and decisions on counts that
are stale when the data is fetched. And, within one request: rules about one
thing that are written down in several places and have to agree (what a date is;
which box a request asks for; which bands a style reads), and chains of
operations whose order the client chooses (WCS subsets and scales). And, in the
configuration: faults that must cost one layer and not the whole.
`PROJECT.json` lists the hazards line by line, with the property that would catch
each or the reason there is none.

### What makes each component correct

- Range cache: a visible layer has one row's attributes; a dynamic layer's read
  is not older than its beginning; no outage or stale answer is permanent.
- Configuration: reading it ends; a faulty layer costs only itself; the names
  that sections use of each other are there once the server is up.
- Readiness: no parsed layer is lost; a layer flagged ready has every
  attribute; what is offered can be served, and drawn, whatever a late or second
  `make_ready` still does to the tree; requests bring the configuration up.
- Styles: what a style reads is loaded; the first rule that matches wins; what a
  mask hides is transparent.
- Ranges update: no served row has placeholder coordinates; a row at rest is
  uniform; a run left alone repairs what kills left behind.
- Views: the served view is missing for one statement at most, always indexed,
  refreshable, and complete after a run.
- Driver cache: one object per driver, initialised before use.
- Routing: an error is reported in the family of the service addressed; the
  version is the nearest one supported.
- Parameters: the grid covers the area asked for; a date accepted is one that
  the search finds.
- Data requests: flags and data belong together; a one-date map never fails;
  blank means no data; the header and the limits are those of the data.
- Coverages: the grid covers what was asked; what a description announces is
  served; dates and bands are those asked for.

## 2. Modules

| Module | Models | Composes |
|---|---|---|
| `RangeCache` | the cached attributes of layers and every step of `force_range_update` | - |
| `LayerRanges` | requests that read `ranges`, row changes, outages | extends `RangeCache` |
| `ConfigReadiness` | `get_config`, the recursive `make_ready`, requests that read meanwhile | extends `RangeCache` |
| `ConfigFiles` | `read_config`, `cfg_expand`: files, python objects and includes | - |
| `RawConfig` | raw configuration values, inheritance, kinds of failure | - |
| `LayerConfig` | the sections of a layer | extends `RawConfig` |
| `StyleConfig` | the styles of a layer, their masks, legends and handlers | extends `LayerConfig` |
| `ConfigParse` | the first phase: global, wms, wcs, layers, wmts | extends `StyleConfig`, `ConfigFiles` |
| `ConfigReady` | the second phase of each parsed layer | extends `ConfigParse` |
| `StyleDrawing` | what the styles of ready layers draw | extends `ConfigReady` |
| `RangesUpdate` | `add_ranges`, the statements of `create_range_entry`, kills, index changes, view refreshes | - |
| `ViewSchema` | the script of `--schema`, `--views`, `--read-role` against a catalog | - |
| `DriverCache` | `ows_index()` under its locks | refines `LazySingletons` |
| `LazySingletons` | abstract: one object per name, made on demand, returned for ever | - |
| `TimeDimension` | what a date is: SQL of the dates, checks of TIME, search windows | - |
| `MapParameters` | the checks of WMS and WMTS requests | extends `TimeDimension` |
| `ServiceRequests` | one request from its route to its response | extends `MapParameters` |
| `WCSScaler` | the grid of a WCS 2 coverage | - |
| `CoverageRequests` | DescribeCoverage and GetCoverage of WCS 1 and 2 | extends `WCSScaler` |
| `DataRequests` | what GetMap, GetFeatureInfo and GetCoverage load from a changing view | - |
| `MC*` | the instances for TLC | extend the module they name |
| `*_proofs` | theorems | extend the module they name; `RangeCache_proofs` extends `LayerRanges` and `ConfigReadiness`, and `Configuration_proofs` extends `StyleDrawing` |

### How state and actions correspond to the code

**RangeCache.** A row of `ows.layer_ranges` is a version number; 0 is what
`get_ranges` returns as `None`; versions in `Boxless` are rows read between the
first and the last UPDATE of their creation, on which `extract_bboxes` raises.
An attribute is the version it was taken from. `call[t]` is the place of a
thread in `force_range_update`: each read of `self._ranges` and each assignment
is a step (`AssignRanges`, `CheckRanges`, `ExtractBoxes`, `StoreBoxes`,
`FindDefaultTime`, `StoreDefaultTime`; `HideLayer` and `ClearBoxes` are the
`except` branch), because preemptive threads can switch between them. With
`Preemptive = FALSE`, `Turn` and `Free` let nobody else compute until the
thread waits for the database again.

**LayerRanges.** `ReadRanges` is the getter; `res` is what it gave its caller,
with `since`, the row version committed when the read began.

**ConfigReadiness.** `stage`, `cur`, `todo` and `still` are the program counter
and the local variables of the recursive `OWSFolder.make_ready` (`todo` is the
rest of the iteration over the list object that `unready_layers` was when the
loop began). `comps` is what a layer's component styles have left to draw with:
`OWSNamedLayer.make_ready` makes the styles ready among its last steps, and the
second time a component style has nothing to take its components from.
`Accept` and `Reject` are the two outcomes of a child's
`make_ready`; `Abort` is an exception that is no `ConfigException` and leaves
all the loops. `ServeRead` reads a dynamic layer found through `layer_index`,
which holds layers that are not ready too.

**RangesUpdate.** One action per SQL statement of `create_range_entry`; `cache`
is the signature cache by which layers with equal signatures copy the first
one's row. `calm` and `disturbed` are history variables for the properties.

**ViewSchema.** `Script` is the list of the SQL files in the order `run_sql`
executes them. Views have identities, so that a join keeps depending on the
view it was created over when that is renamed, and indexes and grants go with
the view they belong to.

**DriverCache.** One action per statement between which a thread can switch;
an object is identified with the thread that created it.

**DataRequests.** The view is the number of datasets per product and date; a
response records the product and number of datasets it was made from, the date
each date's flags were taken from, its cache header and, for a feature info, the
dates that have a record (`records`) and those it lists (`known`). `Queried`
keeps the code's behaviour of never passing `resource_limited` to a query.
`CountMap`, `Extent`, `FetchMain`, `FetchFlag`, `LoadMap` are the steps of
`get_map` that touch the view or decide; `CountCoverage` and `LoadCoverage` those
of the two coverage functions; `ListAllDates`, `FetchMain`, `FetchFlag` and
`LoadInfo` those of `feature_info`. `FlagsOf` and `JoinFails` are the assignment
of the data's time coordinates to the flags and the join that follows it.

**ConfigFiles, ConfigParse, ConfigReady.** A raw value keeps what the code can
tell apart: a scalar, a list, a list of numbers, a dictionary (`deepupdate` treats
each in its own way); `rawCfg` is `OWSConfig._raw_cfg`. The stack `frames` is the recursion of `cfg_expand`, `open`
that of `OWSFolder.__init__`; `stage` is the section `OWSConfig.__init__` parses
next. Each helper called `...Outcome` is the sequence of checks of one section (what
should be a number and is none is a negative one there, as both are refused):
`"refused"` is a `ConfigException`, which costs the layer or folder it is raised
in, `"missing"` a `KeyError`, which some sections convert, `"crash"` any other
exception, which stops the whole configuration. `ParseLayer` is one iteration of
the loop of a folder over its children, `MakeReady` one layer's `make_ready` with
the outcome it has for the database at hand (its interleavings and retries are
in `ConfigReadiness`).

**StyleDrawing.** `Draw` is one request for one style of a layer: the bands it
loads, `transform_data` or a multi-date handler, then the masks. `ToMask` is
`to_mask`, the loop over the masks of the style, date by date; `FlatMask` is the
combination of the dates' masks into one, and `ApplyMask` the step that uses
either. What an index function, an aggregator or matplotlib returns is any value.

**ServiceRequests, MapParameters, TimeDimension.** A request is a path and a
function from argument names to values. `stage` goes from the route through the
service, the version and the handler to `"check"`, where `todo` is the list of
parameters still to be checked, in the order of the constructor at hand; `Translate`
is the step from a tile to a map request. An answer is a family of exceptions
and a status. Times are ticks, longitudes the difference of solar time that they
make, and a time zone is an offset, so that the three definitions of a date
(`product_ranges.py`, `wms_utils.py`, `mv_index.py`) can be compared.

**CoverageRequests, WCSScaler.** `scaler` is the `WCSScaler` object; `todo` is
the list of subsets, then of scales, in the order the request gives them, and each
is an action. The projection between two CRSs is a shear, so that, as in the
code, the projection of a rectangle is none and boxes grow.

## 3. Runs

| Run | Question | Result |
|---|---|---|
| `LayerRanges_coop` | greenlets: are reads fresh, are visible layers consistent? | holds |
| `LayerRanges_preempt` | threads: is every disorder temporary? | holds |
| `ConfigReadiness_one` | one thread, nested folders, all failures of a layer: what does initialisation guarantee? | holds |
| `ConfigReadiness_two` | two greenlets over the same folder and each other's reads; is it ever ready? | holds |
| `Configuration` | sound and faulty configurations: what is refused, what does it cost, what do the styles draw? | holds |
| `RangesUpdate` | overlapping, killed and repeated runs: what rows are served? | holds |
| `ViewSchema_crash` | three schema runs, two kills: is the view there, indexed, complete? | holds |
| `DriverCache` | is double-checked locking right, and does it implement `LazySingletons`? | holds |
| `ServiceRequests` | right and wrong requests of every operation: which service, version, area and dates do they end with? | holds |
| `CoverageRequests` | coverages: do grid, dates and bands match the request, and is what is announced served? | holds |
| `DataRequests` | what are answers made from when the view changes under a request? | holds |
| `DataRequests_lowres` | do requests over the limit read the summary product? | **no** |

Every property of a passing run has a mutant in `PROJECT.json`: a plausible bug
in a mapped definition under which the same run finds the property violated.
The mutated forms are in the modules, marked "Mutant".

### Bounds, and why they are enough

- *LayerRanges*: two threads (an overtaking needs two; a third adds no new kind
  of overlap, and the proof covers any number), one dynamic and one static layer
  (cooperative) or one dynamic layer (preemptive), up to three versions of a row
  so that one is boxless and two are whole, one outage.
- *ConfigReadiness_one*: a root with a failing layer, a static layer and a
  sub-folder with a dynamic layer: every kind of child before and after every
  other kind of outcome, a boxless row, a row without the native CRS, one outage
  at any step. *_two*: two threads over one folder with a static and a dynamic
  layer; the tree and thread bound are lifted by the proof of `NoLayerLost`.
- *RangesUpdate*: two invocations with the argument list `b, z, a, b` (a
  repeated name, an unknown one, two layers of one signature), three contents
  of the index two of which have equal counts (the signature cannot tell them
  apart), two changes, one kill. The layers are of the solar kind, which passes
  `ReadDates` without data, so the failure of `UpdateLatLon` is what stops them.
- *ViewSchema*: three runs and two kills: a kill, a failing or completing
  re-run, and one more; one read role.
- *DriverCache*: three threads: one inside the lock, one waiting, one testing
  without it; one known and one unknown name.
- *DataRequests*: two dates, up to two datasets of the main product per date,
  so that counts lie below, at and between the two cache rules (2 and 3) and
  above the limit (3); flag product with and without data on each date; all
  combinations of a layer's options that matter to loading; two changes of the
  view, one between each pair of the at most three queries whose answers a
  response combines. The proofs lift these bounds for four of the properties.
  Requests share nothing, so one at a time is enough, here and in the next two.
- *ServiceRequests*: for each operation, requests that are right, and those with
  one or two arguments changed to each kind of wrong value or left out; four
  layers (one of each time resolution, and one with regular dates), a tile
  matrix set in each axis order, boxes on either side of 30° W and one a whole turn
  away, twelve versions that differ in the number, size and purity of their parts. Two changes are enough to see which
  of two checks comes first.
- *CoverageRequests*: some 11,000 requests; three coverages, three CRSs with
  boxes and one without, up to two subsets, two scales and two changed
  arguments: the scaler keeps one size and one pair of bounds per axis, so two of
  each reach every order in which they can overwrite each other.
- *Configuration*: forty-four configurations: one with a sound style of every
  kind, one with seventy layers beside a sound one, nearly all with one fault each, one for each fault that
  stops the whole, the shapes of folders and inheritance, and the sources and
  includes (missing, nested, cyclic under one or several names). Pictures are one
  pixel (nothing a style does mixes pixels) of one to three dates, band values 0, 1
  and 3 (no flag, one, both; below, inside and above ranges). The order of a value
  map's bands, and what index functions and aggregators return, are left open.
  `LayerSections` looks as deep as the deepest configuration (three).

`MaxVersion`, `MaxOutages`, `MaxChanges`, `MaxKills`, `MaxRuns`, `MaxCrashes`
and `MaxData` are bounds of the models only. Deadlock is checked in all runs
but `Configuration`, where a configuration ends refused, crashed, or drawn once.

### Fairness

- `LayerRanges!FairSpec`: weak fairness of each thread's steps (a thread that is
  not waiting is scheduled, and the database answers or refuses each query), and
  strong fairness of reads of each layer (requests keep arriving; strong because
  a read is only possible when a thread is free). `EventuallyCurrent` is about
  dynamic layers somebody asks for, so this is its premise rather than a favour.
- `ConfigReadiness!CFairSpec`: weak fairness of each thread; `GetConfig` is
  among its steps, that is, requests keep arriving. No outage is required to
  end: `EventuallyReady` assumes `<>[]dbUp` itself.
- No other run uses fairness; nothing in the service or the tool retries on its
  own, so there is nothing else it must eventually do.

## 4. Proofs

All theorems hold for every value of the constants that satisfies the named
assumptions of the modules.

| Theorem | States | Argument |
|---|---|---|
| `RangeCache_proofs!TypeCorrect` | `Spec => []TypeOK` | inductive as it stands, with one lemma per action of `RangeCache`; `got` can be `Failed` only in phase `"reply"`, which is why `CacheTypeOK` says so |
| `RangeCache_proofs!VisibleAlwaysConsistent` | `~Preemptive` implies `Spec => []VisibleIsConsistent` | not inductive: while a thread computes, nothing is visible at rest. `Underway(t)` says what it has established at each phase; since `Turn` lets no other thread compute, nobody undoes it, and at `"return"` it implies the property |
| `RangeCache_proofs!ReadsAreFresh` | `~Preemptive` implies `Spec => []FreshRead` | `FreshInv`: what a thread holds (`Freshens`) is not older than the row when its own read began, at each phase of the call, and the shared attributes are not older once it has stored them; rows only grow newer |
| `RangeCache_proofs!NoLayerEverLost` | `CSpec => []NoLayerLost` for every tree, thread count, scheduling and failure | `make_ready` replaces `unready_layers` by a local list, so the loops in progress must account for every child (`Covered`). Which loops those are is the existential `OpenFrames`: the path of folders from the root down to `cur[t]`, one per depth, each the head of the iteration above it |
| `RangeCache_proofs!TypesHold` | `CSpec => []CTypeOK` | with `OtherTypes` for what the invariant above leaves out |
| `RangeCache_proofs!ReadyLayersComplete` | `CSpec => []ReadyIsComplete`, for preemptive threads too | `ReadyInv`: whoever ranges a layer has seen its products (`LookedUp`), and `Given(t)` follows the call from the answer to the flag. It needs no turns: no attribute is ever unset (`ClearBoxes` takes the boxes only with `hide`) |
| `RangeCache_proofs!ChildrenAreServable` | `~Preemptive` implies `CSpec => []VisibleChildServable` | `ServeInv`: calls are made where `make_ready` makes them (`CallsPlaced`), a child is whole or being ranged (`ChildWhole`), a layer that was found stays so (`FoundStays`), a static child is ready (`StaticReady`), `Underway(t)` |
| `RangeCache_proofs!ListedOnceIsAlwaysDrawn` | `~Preemptive` implies `CSpec => []ListedOnceIsDrawn` | `DrawnInv`: the components of a layer's styles are unset exactly as long as no folder lists it, since the step that makes it ready also lists it, and child lists hold only the children of their folder; so a layer that loses its components was listed before and is listed again. A late or second `make_ready` is among the steps |
| `RangesUpdate_proofs!ServedRowsLocated` | `Spec => []ServedRowLocated` for any arguments, signatures, updaters, kills | `RunInv` (types, a run is at a known name, a run that copies has a template) and `RowsLocated`: coordinates once written are never lost, so whoever is past `"latlon"`, and whatever is a template, has them |
| `RangesUpdate_proofs!RowsAreUniform` | `Spec => []UniformRow` | `MidwayFresh`: what a run midway through an undisturbed layer has written is what the view still shows. That nobody else can have written in between is `CalmIsAlone` and the history variable `disturbed` |
| `RangesUpdate_proofs!RunsRepair` | `Spec => []RunRepairs` | `RepairedSoFar`: all names up to `pos` of a run left alone are current, and so are its templates |
| `ViewSchema_proofs!OutageIsTheSwap`, `ServedViewIsIndexed` | `OutageOnlyInSwap`, `ServedIsIndexed` for any number of runs and kills | `SchemaInv` (the sources of a join outlive it, under whatever name), `SwapReady` (the new view is there from 020 to the swap and the old name is free at it), `IndexInv` (no two joins have one identity; the `_new` indexes are those of the new view) |
| `ViewSchema_proofs!UnkilledRunsComplete`, `RefreshIsDependable` | `UnkilledRunCompletes`, `RefreshDependable` | `AsScripted`: until a run is killed the catalog is at each statement what the script makes of it, view by view and index by index; `RefreshInv` for what a refresh has done |
| `DriverCache_proofs!TypeCorrect`, `CacheSingleton` | `[]TypeOK`, `[]OneLoadedCache` | `Inv`: who is in a critical section holds its lock (`LocksHeld`), the instance is known past `__new__` (`InstanceKnown`), an initialised but not loaded cache has its loader inside the lock (`InitialisedLoads`), and an index is known past its creation (`IndexKnown`) |
| `DriverCache_proofs!OneIndexPerDriverHolds` | `Spec => OneIndexPerDriver` | refinement of `LazySingletons`: initial states map to initial states, and under `Inv` `DrvMake` maps to `Make`, `DrvReturn` to `Return`, a refusal to `Refuse`, the rest to stutters |
| `DataRequests_proofs!MapsAligned`, `RequestsAlwaysAnswered`, `FoundAlwaysShown`, `LimitsHold` | the properties `MapIsAligned`, `RequestsAnswered`, `FoundIsShown`, `LimitHolds` of `DataRequests!Spec` for any dates, holdings, limits and number of changes | they are about the answer only, so not inductive: `Underway` says what a request has found at each step and, while `steady`, that this is what the view holds. `JoinAligned` is the arithmetic of the join: the flags' dates are renamed to the data's by their rank (`RankInjective`), so if both have as many dates as were requested each gets its own |
| `DataRequests_proofs!HeadersMatch` | `Spec => []HeaderMatchesData` | the count is a fold over the dates; that it is a number and the same for equal answers is all the proof needs, and the header is that of the highest rule not above it |
| `Configuration_proofs!InclusionsAlwaysBounded` | `DrawSpec => []InclusionsBounded` for any files, objects, layers and styles | `FilesInv`: the frame at depth `i` lies under exactly `i - 1` different names, all of them names that some include uses; so the cyclic check, by name only, bounds the depth although a file may have several names. Every other step of the server leaves the stack alone |
| `Configuration_proofs!FirstRulePaints` | painting a list of rules over each other in reverse order paints what the first matching rule paints | `apply_value_map` is a fold; a fold is `CHOOSE` of a function with the recursion's equations, so the lemma shows that one exists and that any of them equals the expected one, by the smallest index at which they would differ |
| `Configuration_proofs!MasksAlwaysExact`, `FirstRuleAlwaysWins` | `MasksListed => MaskedExactly`; `RulesListed => FirstRuleWins`, for any configuration, data, masks and dates | `PicturesInv`. `to_mask` is a fold over the masks that starts from the extent and `flat_mask` one over the dates: `MasksApplied` and `MaskFlattened` show what they come to, by the smallest index where they would not, and `MaskedFrames` what is left of each frame when a picture has one frame for all dates or one for each. For rules, `FirstRulePaints` for each band |
| `Configuration_proofs!ReferencesAlwaysResolve` | `DrawSpec => [](LayersListed => ReferencesResolve)` for any configurations | `NamesInv`: what each section names is there once the section is parsed (`LayersResolve`, `MatrixSetsResolve`, `AliasesPublished`), and nothing it may name is replaced later. Aliases and styles are registered by folds over lists; `FoldWithin` and `EverySubset` show what every step of a fold keeps, by a smallest set of indices where it would fail: an alias is of a CRS that is published already (`PublishedResolved`), a registered style was made without a fault (`StylingListed`), so its masks use flag bands of the layer (`MasksKnown`) |
| `Configuration_proofs!LoadedAlwaysSuffices` | `DrawSpec => [](LayersListed => LoadedSuffices)` for any configurations, database and dates | `ReadyInv`, on top of `NamesInv`: each layer was parsed with the styles it has (`LayersMade`), and one that is ready has only styles for which `make_ready` succeeded, and loads `StyleData` for them (`Promises`). `ReadsFound` then takes what drawing reads, kind of style by kind of style: `EachGrouped` (the grouping of flag bands by products, another fold, leaves none out) and `MasksFound` for the masks, the rest by what `StyleReady` has resolved; what is not there is what `Overlooked` names, band by band: a mask that names its flag band by an alias or through `band_map`, the value maps of handlers and those under a `band_map`, and a band of an index expression that `band_map` maps again. The property says nothing else of failures: those for other reasons than a band are named in section 5 |
| `Configuration_proofs!SoundLayersAlwaysIndexed` | `DrawSpec /\ [][LabelsDistinct]_<<vars, drawn>> => [](SectionsListed => SoundLayersIndexed)` | `TurnsInv`: a section that is sound on its own is indexed or waits in an open folder (`HasTurn`), itself or within folders there as deep as `LayerSections` looks (`Waiting`). A step takes one section from the stack, the one whose turn it is (`WaitsOn`); a layer that is sound alone is then indexed, because what a layer without `inherits` becomes does not depend on those before it (`SoundLayerTaken`, `LayerAlone`), a folder that closes is empty, and one that opens keeps what is in it waiting. That it opens is `LabelsInv`: no label in use continues that of an open folder with its next number, and no two open folders have one label, so a number is never refused (`LabelIsNew`) |
| `ServiceRequests_proofs!VersionIsHonoured` | `Spec => []VersionHonoured` for versions of any number of parts and any size | `Underway`: which service, version and handler a request at each stage has. `NotAbove` is a total order of the padded versions, and the supported ones are listed in it, so the last one not above is the greatest |
| `ServiceRequests_proofs!FamilyIsKept` | `Spec => []FamilyKept` | `Underway` again: the service is the one addressed, so every `Answer` of a check, a translation or a handler is in its family; the checks of a tile raise WMS errors only where `Translate` converts them |
| `ServiceRequests_proofs!FootprintIsKept` | `Spec => []FootprintKept` for any boxes, tiles and tile matrix sets in whole degrees | a parsed request has passed the check of its box (`Underway`); `CornersOfTile` is the tile arithmetic with the axis order applied twice, `PacificKeeps` the arithmetic modulo 360 of the second projection |
| `ServiceRequests_proofs!AcceptedTimesAlwaysFindData` | `ZonesNear` implies `Spec => []AcceptedTimesFindData` for any datasets, requests and units of time | a parsed request has passed the checks of its layer and its times (`CommonChecks`, `ChecksAreMade`). `AscendingLists`: the dates of a layer are those of its datasets, in order; `MatchingIsThere`: the binary search finds only what is there, by the smallest part of the list where it would not; `SolarSearch` and `BeginSearch` are the arithmetic of days, zones and seconds |
| `CoverageRequests_proofs!GridAlwaysCovers` | `Spec => []GridCovers` for any layers, shears, subsets and scales | `GridInv`: the scaler's bounds are those of subsets (`Backed`), so what all subsets ask for lies within them; `ConvertedHolds` is the conversion to the output CRS (a place in a box is projected into the hull of the projected corners, by `MultipleBetween`) with the quantisation of narrow axes; scales leave the bounds alone. Version 1 needs `Checked1`: the checks left in the list are those not yet passed |
| `CoverageRequests_proofs!DescribedAlwaysServed` | `Spec => []DescribedIsServed` for any layers, formats, subsets, scales and fields | `ServedInv`, on top of `GridInv`: what the description announces is known when each step asks for it, so no step refuses. `Announcing` is the request's part of it, `Scaling` says that an axis without a size is not narrow and as long as the subsets left it (`Remaining`), `ScalesLeft` that the scales still to come are each for another such axis; `FactorPositive` and `SizePositive` are the arithmetic of rounding. Version 1: each check in the list passes (`ReasonablePasses`), and the box only grows when it is projected (`BoxGrows`), so its pixels do not vanish |
| `CoverageRequests_proofs!ClearFieldsAsAsked` | `LabelsClear` implies `Spec => []FieldsAsAsked` | `FieldsInv`: the bands were selected from what was asked for (`Bands1`, `Bands2`) before the answer. A name, an alias or a clear label stands for one band (`BandAlone`, `LocaleAlone`), and a slice of the labels is the labels between its ends (`BandsOfKnown`) |
| `CoverageRequests_proofs!DatesAlwaysAsAsked` | `Spec => []DatesAsAsked` for any layers, dates, subsets and formats | `DatesInv`: the axes of the subsets to come are distinct, so either all dates stand and the subset in time is still to come, or the only one there is has been taken (`TimeTaken`); version 1 has sorted the list once "time" is no longer among the checks. `OrderedPlaces`: in a total order, the count of the places up to each is a bijection, so a list that is selected from or sorted keeps its values (`SelectedPlaces`, `SortedPlaces`) |

Assumptions used:

- ranges: `BoundsAssumption`, `BoxlessAssumption`, `NoLayerAssumption`. Four
  theorems have the hypothesis `~Preemptive`: they are about the gevent
  deployment, and false with preemptive threads (section 5);
- the layer tree: `TreeAssumption`, `DepthAssumption` (it is a tree: what parsing
  a nested list of dictionaries produces) and `LayerKindsAssumption`;
- updates: `NamesAssumption`, `SigsAssumption`, `CountAssumption` of
  `RangesUpdate`, `ReadersAssumption` and `BoundsAssumption` of `ViewSchema`;
- `DriversAssumption` and `NobodyAssumption`; `HoldingsAssumption` and
  `KindsAssumption` of `DataRequests` (finitely many dates, numbers of datasets,
  the layer options the code has);
- configuration: `FilesAssumption` and `ConfigsAssumption` (files, objects and
  literal configurations are sequences, and use finitely many names in their
  includes; `CRSsListed`: the CRSs to publish are a list, in the order of their
  dictionary), `DatesAssumption` (dates are numbers from 1). `FirstRuleAlwaysWins` has
  the hypothesis `RulesListed`: the bands of a value map hold lists of rules. A raw
  configuration has no type, and nothing refuses a dictionary there, which fails
  when drawn. `MasksAlwaysExact` has `MasksListed`, and `ReferencesAlwaysResolve` and
  `LoadedAlwaysSuffices` have `LayersListed`, for the same reason: the masks of the
  style, and the styles of a layer and the masks of each, are lists. `SoundLayersAlwaysIndexed` has `SectionsListed` (the
  same of the sections of the layers, and folders list their layers) and, about the
  whole behaviour, `LabelsDistinct`: a folder with a label has one that no folder
  before it has, the root's `ows_root` among them. `NoNamesakes`, which the property
  itself assumes, implies that in the run but not always: it does not look at the
  root, whose unlabelled folders would be numbered like those of another `ows_root`
  (`ows_configuration.py:352-359`), nor deeper than three levels. Folders without a
  label need no hypothesis. Every state of the run satisfies `LayersListed`;
- requests: `VersionPartsAssumption` (a version is a list of parts, each a number
  or not), `RequestsAssumption` (what a URL can hold: a version, a box of four
  numbers or none, sizes and pixels that are whole numbers where they are numbers, times that are an instant, a range, nothing or junk),
  `TileSetsAssumption` (a tile matrix set has an origin and spans),
  `LayersAssumption` (a layer has finitely many datasets, each ends no earlier than
  it begins), `UnitsAssumption`. `AcceptedTimesAlwaysFindData` has the hypothesis
  `ZonesNear`: the zone of a place is within an hour of the sun there. The place
  is the centre of the map, or the pixel that a feature info is about
  (`LongitudeIsPlace`). The zones
  that `tz_for_geometry` makes of a longitude alone are; those it looks up on the
  map may not be, and there a dataset two hours from midnight can be missed. The
  instance of the run satisfies it (`ZonesAssumption`);
- coverages: `UnsetAssumption`, `ShearAssumption`, `AxesAssumption` (the axes of a
  CRS and "time" have different names: they are the dimensions of one array),
  `LayersAssumption` (a layer has an extent and a resolution in one of the CRSs, and
  passed `ready_wcs`; its dates are numbers in order, as `create_range_entry` sorts
  them, and its default is one; `BandsSound`: `add_aliases` refused a name for two bands) and
  its own `RequestsAssumption` (a box has four numbers, a subset bounds or a point, a
  scale a factor, a size or an extent, a single field one name, a list of times
  dates or "now").
  `ClearFieldsAsAsked` has the hypothesis `LabelsClear`: labels can be translated,
  and nothing refuses a translation that is the name, alias or label of another
  band (`ows_configuration.py:161-195`); the instance of the run satisfies it.

Only model-checked:

- `EventuallyCurrent` and `EventuallyReady`: liveness is out of the prover's
  reach, as is `ENABLED`;
- `SoundLayersIndexed` with `NoNamesakes` alone, on the configurations of the run;
  the theorem adds `LabelsDistinct`.

Every other invariant and every action property of the passing runs is stated by a
theorem, some under the hypotheses named above.

## 5. What does not hold

Found by a run that is in the project (`findings` in `PROJECT.json`):

- The low resolution summary products are never read (`DataRequests_lowres`).

Visible in the models, without a run of their own.

Layers and readiness:

- A dynamic layer without data at start-up is never advertised by WMTS and WCS,
  against `docs/cfg_layers.rst:455`: it is not ready, and `make_ready` does not
  run again (`ows_configuration.py:674`, `ConfigReadiness!FinishLayer`).
- With preemptive threads `FreshRead` and `VisibleIsConsistent` fail (run the
  `LayerRanges_coop` properties with `Preemptive = TRUE`): an older answer can be
  stored after a newer one, and attributes of two rows can be mixed until the
  next read. `EventuallyCurrent` says that this does not last.
- `default_time` of a dynamic layer is refreshed only by reads of `ranges`; a
  WCS 1.0 GetCoverage without TIME uses the old one (`wcs1_utils.py:136`).
- After an aborted `make_ready`, or two overlapping ones, a layer is in
  `child_layers` more than once and is listed that often in capabilities. It is
  also made ready more than once, and the second time its component styles lose
  their components for good: `make_ready` builds `rgb_components` from
  `raw_rgb_components` and empties that (`styles/component.py:91-106`). Those
  styles then draw nothing but an error. `ListedOnceIsDrawn` says that nothing else
  has this effect; `ListedTwice` is what it excepts.
- The `ranges` getter of a dynamic layer without a row raises an
  `AssertionError`, which fails a whole WMS capabilities document
  (`GetterResult`, kind `"assertion"`).

Updates:

- An interrupted `--schema` cannot be run again (`index/sql.py:82`,
  `docs/database.rst:68`): the plain `CREATE INDEX` of scripts 020 to 023 is refused
  while an index of that name is left from before, and so is the renaming of an
  index whose final name is taken.
- `--schema` takes the read roles' grants away (script 032), although a comment
  in 031 says "OWS back up".
- A row whose update saw a view refresh, or whose template was mid-update, is
  a mixture until the next run (`disturbed`).

Configuration and styles (`LayerConfig`, `StyleConfig`, `ConfigParse`,
`ConfigReady`, `StyleDrawing`):

- Grouping flag bands drops every product set after the first
  (`config_utils.py:852-860`, against its docstring at 843), and
  `add_flag_band` assigns `manual_merge` to the band itself (786).
- A flag band alias in a mask, which `docs/cfg_layers.rst:1067` allows, passes
  `make_ready` and fails with a `KeyError` when drawn (`styles/base.py:319`); a
  name that the style's `band_map` maps to another band is loaded under that
  (`styles/base.py:251`) and read under its own (319).
- Some faults of one layer stop the whole configuration, because they raise
  something else than a `ConfigException`: `wcs: True`, no styles, a URL without
  a type, a function name without a dot, an `allowed_count_range` of one number,
  an unknown flag to ignore (at `make_ready`).
- Unlabelled folders of the root and of a folder labelled `ows_root` get the same
  labels, and the later is refused with every layer in it
  (`ows_configuration.py:352-359`).
- Without EPSG:3857 among the published CRSs the built-in tile matrix set refuses
  the configuration, with WMTS on or off. EPSG:3832 is published silently.
- The class of a layer is chosen before inheritance, so `multi_product` is not
  inherited; lists are appended to the inherited ones.
- The `cwd` of a JSON file found through the inherited directory stays the
  inherited one (`docs/configuration.rst:188`).
- Value maps ignore `band_map`; those of handlers are not among the needed bands;
  the bands of an index expression go through `band_map` when the expression is
  parsed and once more at `make_ready`, so that a chain of names loads another
  band than it reads. `Overlooked` excepts these, with the masks of the point
  above, from `LoadedSuffices`.
- Unequal lengths of multi-date `values` truncate; component handlers ignore the
  aggregator; components without a scale, and hybrids with a function for any
  component, alpha among them, fail when drawn.
- An automatic legend adds its end as a last point of the ramp even if it lies
  inside (`styles/ramp.py:211`); a hybrid compresses the sum so far again with each
  band (`styles/hybrid.py:75`).

Requests:

- A map of several dates fails if its flag product has data on some of them
  only (`JoinFails`); GetFeatureInfo, which does not check that every date was
  found, can give one date the flags of another (`loading.py:334`), and takes
  flags for data on a date without data of a manually merged layer.
- `include_utc_dates` is read and then overwritten (`ows_configuration.py:709`,
  597).
- A time within the second is accepted but finds nothing, since the search does
  not truncate (`mv_index.py:119-120`); two datasets less than a second apart are
  both found for either; the end of a range of reduced accuracy is 23:23:59
  (`wms_utils.py:270`); the search zone is that of the request's centre, or of the
  pixel of a feature info, the dates are those of the datasets' longitudes.
- A box that lies a whole turn away or reaches across 30° W twice (330° or
  -390°) gets a grid of the wrong width in the Pacific projection
  (`wms_utils.py:89-97`; `CrossesAgain` excepts it).
- WMS 1.1.1 requests use the CRS's axis order as 1.3.0 ones do. A tile outside
  its matrix is answered. Missing or non-numeric sizes and boxes, and a tile
  without layer, style or format, are unexpected errors.
- While `get_config` fails, requests that need it are answered by an unhandled
  error with status 500, of no service's family: the response that reports an
  exception asks `get_config` for its headers (`ogc_exceptions.py:39-46`,
  `http_utils.py:30-31`), which raises again (`Unhandled`). `FamilyKept` is about
  requests with a configuration.
- WCS 1: `format` is used as a dictionary when it is none; `measurements=,` is a
  coverage of no bands; no time of a sub-day layer is accepted; sizes that round
  to 0 are unexpected errors. Cache headers are computed and not sent
  (`wcs1.py:122-129`). A header that is sent is that of the count taken before the
  data was fetched; `HeaderMatchesData` is about views that did not change in
  between.
- WCS 2: open ends of subsets, unknown or overspecified scale axes, translated
  band names, formats without a renderer and CRSs without a box are unexpected
  errors; a slice in time is not checked against the dates; a trim's order is not
  checked; a description reads `ranges` once for each bound (`wcs2.py:159`).

## 6. Plan

Done: all modules of section 2. What is left, in order:

1. `ServedRow`, an abstract specification of `ows.layer_ranges` (a row is absent,
   whole, or in the middle of a named update) that `RangesUpdate` implements and
   `RangeCache` assumes; the composition of `ServiceRequests` with
   `ConfigReadiness` through what `get_config` does.
2. The PostGIS variant of `RangesUpdate`, and the renewal of credentials
   (`startup_utils.py`).

## 7. How to run

    tlc -config LayerRanges_coop.cfg MCLayerRanges
    tlapm RangeCache_proofs.tla

The module of each run is in `PROJECT.json`. The longest runs,
`ConfigReadiness_one` and `ConfigReadiness_two`, take one to two minutes.

## 8. Not modelled

- Drawing legends, encoding images, writing NetCDF and GeoTIFF, reprojecting: work
  on arrays without state or order that a property could be about. What a colour
  ramp, an expression, an index function or matplotlib computes is any value.
- How a box of a tile is written: `wmts.py:156` keeps six decimals, which is all
  there is of the whole degrees of `MapParameters`.
- What two lookups of products leave in `products` beyond how many they found:
  `ConfigReadiness` keeps that as one value, so that two threads that look up the
  same layer at once do not show products twice or in another order; nor is a
  second thread refused in `BandIndex.make_ready` of a layer without a `bands`
  section while the first fills it.
- The values in a feature info's records, and the geometry of searches (which
  datasets lie at a point or in a box), which PostGIS and the libraries compute.
- Templates, translations, metadata separation, profiling, `utils`: text and
  timing. Which layers the capabilities list is in `ConfigReadiness`.
- Start-up (`startup_utils.py`, `wsgi.py`, `gunicorn_config.py`): logging,
  Sentry, Prometheus, Flask, AWS credentials that boto3 renews.
- `cfg_parser_impl.py`: a sequential tool that parses and prints.
- The PostGIS driver, but for its lock: the rows are updated as by the postgres
  driver, without materialised views to refresh.
- The `ows_schema` scripts and 001 to 006 of `extent_views/create`: all
  `IF NOT EXISTS` or `OR REPLACE`, and they touch no view.
- PostgreSQL itself, except for names, identities, indexes, grants and
  dependencies of the views. A read-committed statement sees one state, which
  is why a SELECT is one step.
