----------------------------- MODULE ConfigReady ------------------------------
(* The second phase of each layer of a parsed configuration: make_ready looks   *)
(* up its products, checks that they agree about the bands, and resolves the   *)
(* band names of flags and styles, so that a request can load what it draws.   *)
EXTENDS ConfigParse

CONSTANT Rows   \* layer -> [boxes, wide] of its row of ranges; no row, no entry

Layer(n) == index[n]
First(lyr) == lyr.products[1]
Known(names) == Range(names) \subseteq DOMAIN Database

(* ---- bands ----                                                              *)
\* Without a bands section the layer has the bands of its first product.
BandNames(lyr) == IF lyr.bands = NoItems THEN DOMAIN Database[First(lyr)].bands
                  ELSE DOMAIN lyr.bands
Aliases(lyr) == IF lyr.bands = NoItems THEN [b \in BandNames(lyr) |-> b] ELSE AliasIndex(lyr.bands)
Measured(p, b) == Database[p].bands[b]
BandsReady(lyr) ==
    RefusedIf(\E p \in Range(lyr.products) :
                 \/ ~(BandNames(lyr) \subseteq DOMAIN Database[p].bands)
                 \/ \E b \in BandNames(lyr) :
                        \/ Measured(p, b).nodata # Measured(First(lyr), b).nodata
                        \/ Measured(p, b).dtype # Measured(First(lyr), b).dtype)

(* ---- flag bands ----                                                         *)
Canonical(lyr, fb) == IF fb.main /\ fb.band \in DOMAIN Aliases(lyr)
                      THEN Aliases(lyr)[fb.band] ELSE fb.band
FlagReady(lyr, fb) ==
    IF ~Known(fb.products) \/ ~Known(fb.lowres) THEN "refused"
    ELSE LET bands == Database[fb.products[1]].bands
             b == Canonical(lyr, fb)
         IN IF b \notin DOMAIN bands \/ bands[b].flags = {} THEN "refused"
            ELSE IF ~(fb.ignored \subseteq bands[b].flags) THEN "crash" ELSE "ok"
\* FlagProductBands.make_ready: the group of the main products has band names of
\* the layer.
OfMain(lyr, group) == group.products = lyr.products
GroupReady(lyr, group) ==
    RefusedIf(OfMain(lyr, group) /\ ~(group.bands \subseteq DOMAIN Aliases(lyr)))
GroupBands(lyr, group) == IF OfMain(lyr, group) THEN {Aliases(lyr)[b] : b \in group.bands}
                          ELSE group.bands

(* ---- image processing, native grid, coverage ----                            *)
AlwaysFetched(lyr) ==
    Range(Opt(Opt(lyr.raw, "image_processing", NoItems), "always_fetch_bands", <<>>))
NativeCRS(lyr) ==
    LET own == Database[First(lyr)].crs
        wcs == IF lyr.covered /\ Has(lyr.raw, "wcs") THEN lyr.raw["wcs"].v ELSE NoItems
    IN IF own # "" THEN own ELSE Opt(lyr.raw, "native_crs", Opt(wcs, "native_crs", ""))
Resolved(lyr) ==
    LET wcs == IF lyr.covered /\ Has(lyr.raw, "wcs") THEN lyr.raw["wcs"].v ELSE NoItems
        given == Opt(lyr.raw, "native_resolution", Opt(wcs, "native_resolution", <<>>))
    IN Database[First(lyr)].resolution \/ Len(given) = 2
NativeReady(lyr) == RefusedIf(NativeCRS(lyr) \notin DOMAIN g.published \/ ~Resolved(lyr))
Boxes(n) == IF n \in DOMAIN Rows THEN Rows[n].boxes ELSE {}
Boxed(n) == NativeCRS(Layer(n)) \in Boxes(n)
CoverageReady(n) == RefusedIf(Layer(n).covered /\ Boxed(n) /\ ~Rows[n].wide)
\* Hidden without a row of ranges, or without the box its coverage starts from.
Hidden(n) == n \notin DOMAIN Rows \/ (Layer(n).covered /\ ~Boxed(n))

(* ---- styles ----                                                             *)
MainFlag(lyr, fb) == fb.products = lyr.products
MaskFlags(lyr, st) == {BandNamed(lyr.flags, m["band"].v) : m \in Range(st.masks)}
AskedBands(lyr, st) == {Local(st.bandMap, b) : b \in st.needed}
                       \cup {Local(st.bandMap, fb.band) :
                                fb \in {f \in MaskFlags(lyr, st) : MainFlag(lyr, f)}}
StyleReady(lyr, st) ==
    FirstBad(<<RefusedIf(~(AskedBands(lyr, st) \subseteq DOMAIN Aliases(lyr))),
               RefusedIf(\E f1, f2 \in MaskFlags(lyr, st) :
                            f1.band = f2.band /\ f1.products # f2.products),
               FirstOf(st.groups, LAMBDA grp : GroupReady(lyr, grp))>>)
NeededBands(lyr, st) ==
    {Aliases(lyr)[b] : b \in AskedBands(lyr, st)} \cup {Aliases(lyr)[b] : b \in AlwaysFetched(lyr)}
\* Mutant: the flag bands of other products are not asked for.
StyleDataOfMain(lyr, st) == NeededBands(lyr, st)
\* The variables of the data a request for the style loads: style_queries asks
\* for the needed bands and for those of every group of another product.
StyleData(lyr, st) ==
    NeededBands(lyr, st)
    \cup UNION {grp.bands : grp \in {x \in Range(st.groups) : ~OfMain(lyr, x)}}

(* ---- a layer ----                                                            *)
ReadyOutcome(n) ==
    LET lyr == Layer(n)
        lookups == RefusedIf(~Known(lyr.products) \/ ~Known(lyr.lowres))
        bands == IF lookups = "ok" THEN BandsReady(lyr) ELSE lookups
    IN IF bands # "ok" THEN bands
       ELSE FirstBad(<<FirstOf(lyr.flags, LAMBDA fb : FlagReady(lyr, fb)),
                       RefusedIf(~(AlwaysFetched(lyr) \subseteq DOMAIN Aliases(lyr))),
                       NativeReady(lyr), IF NativeReady(lyr) = "ok" THEN CoverageReady(n) ELSE "ok",
                       FirstOf(lyr.order, LAMBDA s : StyleReady(lyr, lyr.styles[s])),
                       FirstOf(lyr.groups, LAMBDA grp : GroupReady(lyr, grp))>>)
ReadyLayer(n) ==
    LET lyr == Layer(n)
    IN [bands |-> BandNames(lyr), hidden |-> Hidden(n),
        styles |-> [s \in DOMAIN lyr.styles |->
                       [masks |-> lyr.styles[s].masks, data |-> StyleData(lyr, lyr.styles[s])]],
        info |-> UNION {GroupBands(lyr, grp) : grp \in Range(lyr.groups)}]

MakeReady ==
    /\ stage = "parsed" /\ queue # <<>>
    /\ LET n == Head(queue)
           outcome == ReadyOutcome(n)
       IN /\ ready' = IF outcome = "ok" THEN WithEntry(ready, n, ReadyLayer(n)) ELSE ready
          /\ stage' = IF outcome = "crash" THEN "crashed" ELSE stage
    /\ queue' = Tail(queue)
    /\ UNCHANGED <<fileVars, config, rawCfg, g, open, folders, index>>

Up ==
    /\ stage = "parsed" /\ queue = <<>>
    /\ stage' = "up"
    /\ UNCHANGED <<fileVars, config, rawCfg, g, open, folders, index, queue, ready>>

ConfigInit ==
    /\ config \in DOMAIN Configs
    /\ FilesInit
    /\ rawCfg = Configs[config] /\ source = rawCfg.layers
    /\ stage = "global"
    /\ g = [wms |-> FALSE]
    /\ open = <<>> /\ folders = {} /\ index = NoItems /\ queue = <<>> /\ ready = NoItems

ConfigNext ==
    \/ ReadNext /\ UNCHANGED parseVars
    \/ ReadFailed \/ ParseGlobal \/ ParseWMS \/ ParseWCS \/ OpenRoot \/ ParseLayer
    \/ ParseFolder \/ CloseFolder \/ ParseWMTS \/ MakeReady \/ Up
===============================================================================
