--------------------------- MODULE ConfigReadiness ---------------------------
(***************************************************************************)
(* Second-phase initialisation of the configuration: get_config and the    *)
(* make_ready methods of OWSConfig, OWSFolder and OWSNamedLayer, retried   *)
(* by every request thread until the configuration is ready, while the     *)
(* database comes and goes, products are indexed and other threads already *)
(* read layers (the range cache of a layer is module RangeCache).         *)
(*                                                                         *)
(* OWSFolder.make_ready is recursive; as one thread is in a folder's       *)
(* make_ready at most once at a time, its local variables are functions of *)
(* the thread and the folder and cur[t] is the folder it is working in.    *)
(***************************************************************************)
EXTENDS RangeCache, Sequences

CONSTANTS
    Folders,        \* folders of the layer tree
    Root,           \* OWSConfig.root_layer_folder
    Kids,           \* [Folders -> Seq(Folders \cup Layers)]: the parsed tree
    Wcs,            \* layers that are WCS coverages
    Misconfigured,  \* layers whose make_ready raises a ConfigException late
    NoNativeBox     \* row versions whose bboxes lack the layer's native CRS

Nodes == Folders \cup Layers
Elems(s) == {s[i] : i \in DOMAIN s}

ASSUME TreeAssumption ==
    /\ Root \in Folders
    /\ Kids \in [Folders -> Seq(Nodes \ {Root})]
    /\ Folders \cap Layers = {}
    /\ \A p, q \in Folders : Elems(Kids[p]) \cap Elems(Kids[q]) # {} => p = q
ASSUME DepthAssumption ==
    \E depth \in [Folders -> 0 .. Cardinality(Folders)] :
        \A p \in Folders : \A f \in Folders \cap Elems(Kids[p]) : depth[f] = depth[p] + 1
ASSUME LayerKindsAssumption ==
    Wcs \subseteq Layers /\ Misconfigured \subseteq Layers

VARIABLES
    indexed,   \* layers all of whose products are in the ODC index
    dcSet,     \* OWSConfig.dc has been assigned
    cfgReady,  \* OWSConfig.ready
    child,     \* folder.child_layers
    unready,   \* folder.unready_layers
    ready,     \* the `ready` flag of every folder and layer
    prods,     \* lyr.products: "unset", "partial" or "all" of product_names
    grids,     \* the WCS grid attributes have been assigned
    comps,     \* rgb_components of the layer's component styles: "unset", "set"
               \* or "lost"
    stage,     \* what each request thread is doing
    cur,       \* folder whose make_ready loop the thread is in
    todo,      \* [Threads -> [Folders -> Seq]]: rest of the loop's iteration
    still,     \* [Threads -> [Folders -> Seq]]: local still_unready
    aborted    \* history: layers whose make_ready a database error aborted

treeVars   == <<child, unready, ready, prods, grids, comps>>
threadVars == <<stage, cur, todo, still>>
cfgVars    == <<dcSet, cfgReady>>
allVars    == <<cacheVars, indexed, cfgVars, treeVars, threadVars, aborted>>

Stages   == {"idle", "connect", "folder", "products", "ranging", "serving", "reading"}
Making   == {"connect", "folder", "products", "ranging"}
NoLocals == [f \in Folders |-> <<>>]

\* Between two waits for the database a cooperative thread is not interrupted.
\* With Preemptive = TRUE the end of OWSNamedLayer.make_ready (FinishLayer) stays
\* one step, and NoLayerLost, which needs nothing it assigns, is the property
\* stated for that case.
Free(t) ==
    \/ Preemptive
    \/ \A u \in Threads \ {t} :
            stage[u] # "folder" /\ call[u].ph \notin Computing

CInit ==
    /\ row \in [Layers -> Versions \cap {0, 1}]
    /\ dbUp \in BOOLEAN
    /\ outages = 0
    /\ hide = [l \in Layers |-> FALSE]
    /\ ranges = [l \in Layers |-> Unset]
    /\ bboxes = [l \in Layers |-> Unset]
    /\ defTime = [l \in Layers |-> Unset]
    /\ call = [t \in Threads |-> Idle]
    /\ indexed \in SUBSET Layers
    /\ dcSet = FALSE
    /\ cfgReady = FALSE
    /\ child = [f \in Folders |-> <<>>]
    /\ unready = Kids
    /\ ready = [n \in Nodes |-> FALSE]
    /\ prods = [l \in Layers |-> "unset"]
    /\ grids = [l \in Layers |-> FALSE]
    /\ comps = [l \in Layers |-> "unset"]
    /\ stage = [t \in Threads |-> "idle"]
    /\ cur = [t \in Threads |-> Root]
    /\ todo = [t \in Threads |-> NoLocals]
    /\ still = [t \in Threads |-> NoLocals]
    /\ aborted = {}

-----------------------------------------------------------------------------
\* get_config: every request calls it first; while the configuration is not
\* ready (`if not cfg.ready`) the calling thread runs make_ready itself.
GetConfig(t) ==
    /\ stage[t] = "idle"
    /\ Free(t)
    /\ stage' = [stage EXCEPT ![t] = IF cfgReady THEN "serving" ELSE "connect"]
    /\ UNCHANGED <<cacheVars, indexed, cfgVars, treeVars, cur, todo, still, aborted>>

\* Datacube(): without a database ODCInitException, which get_config swallows,
\* so that the request goes on with an unready configuration.  With one, the
\* root folder's loop starts over the layers that are still unready.
Connect(t) ==
    /\ stage[t] = "connect"
    /\ Free(t)
    /\ IF dbUp
       THEN /\ dcSet' = TRUE
            /\ stage' = [stage EXCEPT ![t] = "folder"]
            /\ cur' = [cur EXCEPT ![t] = Root]
            /\ todo' = [todo EXCEPT ![t] = [NoLocals EXCEPT ![Root] = unready[Root]]]
            /\ still' = [still EXCEPT ![t] = NoLocals]
       ELSE /\ stage' = [stage EXCEPT ![t] = "serving"]
            /\ UNCHANGED <<dcSet, cur, todo, still>>
    /\ UNCHANGED <<cacheVars, indexed, cfgReady, treeVars, aborted>>

InFolder(t) == stage[t] = "folder" /\ Free(t)
Item(t) == Head(todo[t][cur[t]])

\* `for lyr in self.unready_layers: try: lyr.make_ready()` on a folder.
EnterFolder(t) ==
    /\ InFolder(t)
    /\ todo[t][cur[t]] # <<>>
    /\ Item(t) \in Folders
    /\ cur' = [cur EXCEPT ![t] = Item(t)]
    /\ todo' = [todo EXCEPT ![t][Item(t)] = unready[Item(t)]]
    /\ still' = [still EXCEPT ![t][Item(t)] = <<>>]
    /\ UNCHANGED <<cacheVars, indexed, cfgVars, treeVars, stage, aborted>>

\* ... and on a named layer: products is reset, then the index is queried.
StartLayer(t) ==
    /\ InFolder(t)
    /\ todo[t][cur[t]] # <<>>
    /\ Item(t) \in Layers
    /\ prods' = [prods EXCEPT ![Item(t)] = "partial"]
    /\ stage' = [stage EXCEPT ![t] = "products"]
    /\ UNCHANGED <<cacheVars, indexed, cfgVars, child, unready, ready, grids, comps,
                   cur, todo, still, aborted>>

\* Mutant: a layer that is listed already is not appended again.
AcceptOnce(t, f, n) ==
    /\ child' = [child EXCEPT ![f] = IF n \in Elems(@) THEN @ ELSE Append(@, n)]
    /\ todo' = [todo EXCEPT ![t][f] = Tail(@)]
    /\ UNCHANGED still

\* lyr.make_ready returned: self.child_layers.append(lyr).
Accept(t, f, n) ==
    /\ child' = [child EXCEPT ![f] = Append(@, n)]
    /\ todo' = [todo EXCEPT ![t][f] = Tail(@)]
    /\ UNCHANGED still

\* Mutant: the layer is dropped from the folder.
Forget(t, f, n) ==
    /\ todo' = [todo EXCEPT ![t][f] = Tail(@)]
    /\ UNCHANGED <<child, still>>

\* Mutant: the loop tries the layer again instead of going on.
RetryAtOnce(t, f, n) == UNCHANGED <<child, todo, still>>

\* lyr.make_ready raised a ConfigException: still_unready.append(lyr).
Reject(t, f, n) ==
    /\ still' = [still EXCEPT ![t][f] = Append(@, n)]
    /\ todo' = [todo EXCEPT ![t][f] = Tail(@)]
    /\ UNCHANGED child

\* Any other exception leaves all the loops and get_config: the request fails.
Abort(t, l) ==
    /\ stage' = [stage EXCEPT ![t] = "idle"]
    /\ todo' = [todo EXCEPT ![t] = NoLocals]
    /\ still' = [still EXCEPT ![t] = NoLocals]
    /\ aborted' = aborted \cup {l}

\* products.get_by_name for every product of the layer, then
\* force_range_update (RangeCache) begins.
LookupProducts(t) ==
    LET l == Item(t) IN
    /\ stage[t] = "products"
    /\ Free(t)
    /\ \/ /\ ~dbUp
          /\ Abort(t, l)
          /\ UNCHANGED <<cacheVars, prods, child>>
       \/ /\ dbUp /\ l \notin indexed
          /\ Reject(t, cur[t], l)
          /\ stage' = [stage EXCEPT ![t] = "folder"]
          /\ UNCHANGED <<cacheVars, prods, aborted>>
       \/ /\ dbUp /\ l \in indexed
          /\ prods' = [prods EXCEPT ![l] = "all"]
          /\ BeginUpdate(t, l)
          /\ stage' = [stage EXCEPT ![t] = "ranging"]
          /\ UNCHANGED <<child, todo, still, aborted>>
    /\ UNCHANGED <<indexed, cfgVars, unready, ready, grids, comps, cur>>

\* The steps of force_range_update, inside make_ready or inside a request.
RangeStep(t) ==
    /\ stage[t] \in {"ranging", "reading"}
    /\ \/ AnswerQuery(t)
       \/ Free(t) /\ Compute(t)
    /\ UNCHANGED <<indexed, cfgVars, treeVars, threadVars, aborted>>

\* ready_wcs finds the native bounding box.
HasNativeBox(l) == bboxes[l] >= 1 /\ bboxes[l] \notin NoNativeBox

\* Every attribute declared unready has been assigned (gridSet: ready_wcs ran
\* to its end in this call or an earlier one).
AllAssigned(l, gridSet) ==
    /\ ranges[l] # Unset /\ bboxes[l] # Unset /\ defTime[l] # Unset
    /\ l \in Wcs => gridSet

\* Mutant: the flag is set without looking.
ReadyAnyway(l, hidden, gridSet) == TRUE

\* `if not self.hide: super().make_ready(...)`, which checks every attribute.
BecomesReady(l, hidden, gridSet) == ~hidden /\ AllAssigned(l, gridSet)

\* ComponentStyleDef.make_ready makes rgb_components from raw_rgb_components and
\* then empties the latter: made ready again, a style is left without components.
MadeReady(components) == IF components = "unset" THEN "set" ELSE "lost"

\* The rest of OWSNamedLayer.make_ready, after force_range_update.  A layer that
\* is Misconfigured fails before its styles are made ready.
FinishLayer(t) ==
    LET l == Item(t)
        f == cur[t]
        boxless == l \in Wcs /\ ~HasNativeBox(l)
        gridSet == grids[l] \/ (l \in Wcs /\ HasNativeBox(l))
    IN
    /\ stage[t] = "ranging"
    /\ call[t].ph = "return"
    /\ Free(t)
    /\ \/ /\ l \in Misconfigured
          /\ Reject(t, f, l)
          /\ UNCHANGED <<hide, ready, grids, comps>>
       \/ /\ l \notin Misconfigured
          /\ hide' = [hide EXCEPT ![l] = @ \/ boxless]
          /\ grids' = [grids EXCEPT ![l] = gridSet]
          /\ comps' = [comps EXCEPT ![l] = MadeReady(@)]
          /\ IF hide'[l] \/ AllAssigned(l, gridSet)
             THEN Accept(t, f, l)
             ELSE Reject(t, f, l)
          /\ ready' = [ready EXCEPT ![l] = @ \/ BecomesReady(l, hide'[l], gridSet)]
    /\ call' = [call EXCEPT ![t] = Idle]
    /\ stage' = [stage EXCEPT ![t] = "folder"]
    /\ UNCHANGED <<dbVars, ranges, bboxes, defTime, indexed, cfgVars,
                   unready, prods, cur, aborted>>

ParentOf(f) == CHOOSE p \in Folders : f \in Elems(Kids[p])

\* The end of OWSFolder.make_ready: unready_layers is replaced by the local
\* list, the folder is ready, and its parent's loop (or OWSConfig.make_ready)
\* goes on.
FolderDone(t) ==
    LET f == cur[t] IN
    /\ InFolder(t)
    /\ todo[t][f] = <<>>
    /\ unready' = [unready EXCEPT ![f] = still[t][f]]
    /\ ready' = [ready EXCEPT ![f] = TRUE]
    /\ IF f = Root
       THEN /\ cfgReady' = TRUE
            /\ stage' = [stage EXCEPT ![t] = "serving"]
            /\ still' = [still EXCEPT ![t] = NoLocals]
            /\ UNCHANGED <<child, cur, todo>>
       ELSE /\ Accept(t, ParentOf(f), f)
            /\ cur' = [cur EXCEPT ![t] = ParentOf(f)]
            /\ UNCHANGED <<cfgReady, stage>>
    /\ UNCHANGED <<cacheVars, indexed, dcSet, prods, grids, comps, aborted>>

-----------------------------------------------------------------------------
\* A request reads the ranges of a dynamic layer found through layer_index,
\* whatever the state of the layer.  Before OWSConfig.dc is assigned get_ranges
\* raises at once.
ServeRead(t, l) ==
    /\ stage[t] = "serving"
    /\ Free(t)
    /\ l \in Dynamic
    /\ IF dcSet
       THEN BeginUpdate(t, l)
       ELSE /\ hide' = [hide EXCEPT ![l] = FALSE]
            /\ call' = [call EXCEPT ![t] = [ph |-> "reply", lyr |-> l, got |-> Failed]]
            /\ UNCHANGED <<dbVars, ranges, bboxes, defTime>>
    /\ stage' = [stage EXCEPT ![t] = "reading"]
    /\ UNCHANGED <<indexed, cfgVars, treeVars, cur, todo, still, aborted>>

EndRead(t) ==
    /\ stage[t] = "reading"
    /\ Free(t)
    /\ EndUpdate(t)
    /\ stage' = [stage EXCEPT ![t] = "idle"]
    /\ UNCHANGED <<dbVars, layerVars, indexed, cfgVars, treeVars, cur, todo, still, aborted>>

\* A request ends; one that reads no dynamic layer changed nothing.
EndRequest(t) ==
    /\ stage[t] = "serving"
    /\ Free(t)
    /\ stage' = [stage EXCEPT ![t] = "idle"]
    /\ UNCHANGED <<cacheVars, indexed, cfgVars, treeVars, cur, todo, still, aborted>>

\* `datacube product add` completes the products of a layer.
IndexProducts(l) ==
    /\ l \notin indexed
    /\ indexed' = indexed \cup {l}
    /\ UNCHANGED <<cacheVars, cfgVars, treeVars, threadVars, aborted>>

CEnvironment ==
    \/ \E l \in Layers : IndexProducts(l)
    \/ Database /\ UNCHANGED <<indexed, cfgVars, treeVars, threadVars, aborted>>

MakeReadyStep(t) ==
    \/ Connect(t) \/ EnterFolder(t) \/ StartLayer(t) \/ LookupProducts(t)
    \/ RangeStep(t) \/ FinishLayer(t) \/ FolderDone(t)

RequestStep(t) ==
    \/ GetConfig(t) \/ EndRead(t) \/ EndRequest(t)
    \/ \E l \in Layers : ServeRead(t, l)

CNext ==
    \/ \E t \in Threads : MakeReadyStep(t) \/ RequestStep(t)
    \/ CEnvironment

CSpec == CInit /\ [][CNext]_allVars

(***************************************************************************)
(* Fairness: every thread is eventually scheduled and the database answers *)
(* or refuses, so a request that has started goes on; requests (GetConfig) *)
(* keep arriving.                                                          *)
(***************************************************************************)
CFairSpec ==
    /\ CSpec
    /\ \A t \in Threads : WF_allVars(MakeReadyStep(t) \/ RequestStep(t))

-----------------------------------------------------------------------------
\* Every variable has its type.
CTypeOK ==
    /\ CacheTypeOK
    /\ indexed \subseteq Layers
    /\ dcSet \in BOOLEAN
    /\ cfgReady \in BOOLEAN
    /\ child \in [Folders -> Seq(Nodes)]
    /\ unready \in [Folders -> Seq(Nodes)]
    /\ ready \in [Nodes -> BOOLEAN]
    /\ prods \in [Layers -> {"unset", "partial", "all"}]
    /\ grids \in [Layers -> BOOLEAN]
    /\ comps \in [Layers -> {"unset", "set", "lost"}]
    /\ stage \in [Threads -> Stages]
    /\ cur \in [Threads -> Folders]
    /\ todo \in [Threads -> [Folders -> Seq(Nodes)]]
    /\ still \in [Threads -> [Folders -> Seq(Nodes)]]
    /\ aborted \subseteq Layers

\* However many threads run OWSFolder.make_ready over each other, whatever
\* fails in the middle, a layer that was parsed is never lost: it is among the
\* folder's child layers or among the layers still to be made ready.
NoLayerLost ==
    \A f \in Folders : \A n \in Elems(Kids[f]) :
        n \in Elems(child[f]) \cup Elems(unready[f])

\* The contract of two-phase initialisation: no attribute of a layer whose
\* `ready` flag is set raises OWSConfigNotReady when it is read.
ReadyIsComplete ==
    \A l \in Layers :
        ready[l] => AllAssigned(l, grids[l]) /\ prods[l] # "unset"

\* No thread is in the layer's force_range_update, or back from it in make_ready.
Settled(l) == \A t \in Threads : call[t].ph # "idle" => call[t].lyr # l

\* A thread has reset the layer's products and is looking them up again.
LookingUp(l) == \E t \in Threads : stage[t] = "products" /\ Item(t) = l

\* What a layer that is served keeps, whatever a late thread that is still in
\* make_ready, a retry or a read does to it: all its products, unless they are
\* being looked up again or a database error once aborted that; unless hidden or
\* being re-read, an extent from one row, as in LayerRanges; and, if it is static
\* and no thread is in its make_ready, its ready flag.
VisibleChildServable ==
    \A f \in Folders : \A l \in Elems(child[f]) \cap Layers :
        /\ prods[l] = "all" \/ l \in aborted \/ LookingUp(l)
        /\ Quiet(l) /\ ~hide[l] => ranges[l] >= 1 /\ bboxes[l] = ranges[l] /\ defTime[l] = ranges[l]
        /\ l \notin Dynamic /\ Settled(l) /\ ~hide[l] => ready[l]

\* The layer was made ready twice, by two threads at once or again after another
\* layer's make_ready was aborted.
ListedTwice(l) ==
    \E f \in Folders : \E i, j \in DOMAIN child[f] :
        i # j /\ child[f][i] = l /\ child[f][j] = l

\* The component styles of a child layer have the components they draw with, or
\* its folder lists it twice: a layer that is made ready once can be drawn, even
\* if initialisation was interrupted and begun again around it.
ListedOnceIsDrawn ==
    \A f \in Folders : \A l \in Elems(child[f]) \cap Layers :
        comps[l] = "set" \/ ListedTwice(l)

\* Requests bring the configuration up: if the database stays reachable from
\* some point on, the configuration becomes ready, whatever failed before.
EventuallyReady == <>[]dbUp => <>cfgReady
=============================================================================
