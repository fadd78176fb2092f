----------------------------- MODULE LayerConfig ------------------------------
(* First phase of a named layer and of its styles: what OWSNamedLayer.__init__  *)
(* and StyleDefBase.__init__ read from the raw configuration, in their order,   *)
(* and what they refuse.  `g` is the part of the global configuration they use  *)
(* (wcs, formats, native, authorities, locales), `index` the layers parsed so   *)
(* far, name -> layer.                                                          *)
EXTENDS RawConfig

CONSTANTS Subproduct, \* product names with a double underscore
          NoFunction  \* no fuse function

(* ---- products ----                                                           *)
Multi(cfg) == On(cfg, "multi_product")
ProductNames(cfg) == IF Multi(cfg) THEN Opt(cfg, "product_names", <<>>)
                     ELSE <<cfg["product_name"].v>>
LowResNames(cfg) == IF Multi(cfg) THEN Opt(cfg, "low_res_product_names", <<>>)
                    ELSE IF Has(cfg, "low_res_product_name")
                         THEN <<cfg["low_res_product_name"].v>> ELSE <<>>
Misplaced(cfg) == IF Multi(cfg) THEN {"product_name", "low_res_product_name"}
                  ELSE {"product_names", "low_res_product_names"}
ProductOutcome(cfg) ==
    IF ~Has(cfg, IF Multi(cfg) THEN "product_names" ELSE "product_name") THEN "refused"
    ELSE RefusedIf(\/ ProductNames(cfg) = <<>>
                   \/ Misplaced(cfg) \cap DOMAIN cfg # {}
                   \/ Len(LowResNames(cfg)) \notin {0, Len(ProductNames(cfg))}
                   \/ Range(ProductNames(cfg)) \cap Subproduct # {})

(* ---- time ----                                                               *)
\* A date is a number; a string that is no ISO date is a negative one.
Resolutions == [subday |-> "subday", solar |-> "solar", summary |-> "summary", raw |-> "solar",
                day |-> "summary", month |-> "summary", year |-> "summary"]
ResolutionName(cfg) == Opt(cfg, "time_resolution", "solar")
Subday(cfg) == Resolutions[ResolutionName(cfg)] = "subday"
DefaultTimeOutcome(cfg) ==
    RefusedIf(Opt(cfg, "default_time", "latest") \notin
                  {"latest", "earliest", "date"} \cup IF Subday(cfg) THEN {"datetime"} ELSE {})
AxisOutcome(cfg) ==
    LET axis == Opt(cfg, "time_axis", NoItems)
        interval == axis["time_interval"]
        given == {k \in {"start_date", "end_date"} : Has(axis, k)}
    IN IF axis = NoItems THEN "ok"
       ELSE RefusedIf(\/ Subday(cfg) \/ ~Has(axis, "time_interval")
                      \/ interval.kind # "one" \/ interval.v <= 0
                      \/ \E k \in given : axis[k].v < 0
                      \/ Cardinality(given) = 2 /\ axis["end_date"].v < axis["start_date"].v)
TimeOutcome(cfg) ==
    IF ResolutionName(cfg) \notin DOMAIN Resolutions THEN "refused"
    ELSE FirstBad(<<KeyErrorEscapes(OptionalFunction(cfg, "mosaic_date_func")),
                    RefusedIf(Has(cfg, "mosaic_date_func") /\ Subday(cfg)),
                    DefaultTimeOutcome(cfg), AxisOutcome(cfg)>>)

(* ---- bands ----                                                              *)
Bands(cfg) == Opt(cfg, "bands", NoItems)
\* The names a band claims besides its own.
Claims(bands, b) == SelectSeq(bands[b].v, LAMBDA a : a # b)
ClaimedBy(bands, b) == {b} \cup Range(Claims(bands, b))
BandOutcome(cfg) ==
    LET bands == Bands(cfg)
    IN RefusedIf(\E b \in DOMAIN bands :
                    \/ ~IsInjective(Claims(bands, b))
                    \/ \E c \in DOMAIN bands \ {b} : ClaimedBy(bands, b) \cap ClaimedBy(bands, c) # {})
\* BandIndex._idx: name or alias -> band.
AliasIndex(bands) ==
    [n \in UNION {ClaimedBy(bands, b) : b \in DOMAIN bands} |->
        CHOOSE b \in DOMAIN bands : n \in ClaimedBy(bands, b)]

(* ---- resource limits ----                                                    *)
\* CacheControlRules: counts and ages that grow, the counts within the limit.
RulesOutcome(limits) ==
    LET rules == Opt(limits, "dataset_cache_rules", <<>>)
        most == Opt(limits, "max_datasets", 0)
        Before(i, k) == IF i = 1 THEN 0 ELSE rules[i - 1].v[k].v
    IN RefusedIf(\E i \in DOMAIN rules :
                    \/ \E k \in {"min_datasets", "max_age"} :
                           ~Has(rules[i].v, k) \/ rules[i].v[k].v <= Before(i, k)
                    \/ most > 0 /\ rules[i].v["min_datasets"].v > most)
LimitsOutcome(cfg) ==
    LET limits == Opt(cfg, "resource_limits", NoItems)
        wms == Opt(limits, "wms", NoItems)
    IN FirstBad(<<RefusedIf(Len(Opt(wms, "zoomed_out_fill_colour", <<0, 0, 0, 0>>)) \notin {3, 4}),
                  RulesOutcome(wms), RulesOutcome(Opt(limits, "wcs", NoItems)),
                  AgeOutcome(limits, "describe_cache_max_age")>>)

(* ---- flag bands ----                                                         *)
\* An old configuration has one flag band instead of a list of them.
FlagConfigs(cfg) ==
    IF ~Has(cfg, "flags") THEN <<>>
    ELSE IF cfg["flags"].kind = "dict"
         THEN IF cfg["flags"].v = NoItems THEN <<>> ELSE <<cfg["flags"].v>>
         ELSE [i \in DOMAIN cfg["flags"].v |-> cfg["flags"].v[i].v]
FlagKey(cfg) == IF Multi(cfg) THEN "products" ELSE "product"
FlagProducts(cfg, fb) ==
    IF ~Has(fb, FlagKey(cfg)) THEN ProductNames(cfg)
    ELSE IF Multi(cfg) THEN fb["products"].v ELSE <<fb["product"].v>>
\* A single product named in the flags section is never the main one.
FlagsOfMain(cfg, fb) ==
    \/ ~Has(fb, FlagKey(cfg))
    \/ Multi(cfg) /\ FlagProducts(cfg, fb) = ProductNames(cfg)
FlagLowRes(cfg, fb) ==
    IF Multi(cfg) THEN Opt(fb, "low_res_products", LowResNames(cfg))
    ELSE IF Has(fb, "low_res_product") THEN <<fb["low_res_product"].v>>
    ELSE IF FlagsOfMain(cfg, fb) THEN LowResNames(cfg) ELSE FlagProducts(cfg, fb)
Outdated(cfg) == IF Multi(cfg) THEN {"datasets", "product", "low_res_product"}
                 ELSE {"dataset", "products", "low_res_products"}
FlagOutcome(cfg, fb) ==
    FirstBad(<<RefusedIf(Outdated(cfg) \cap DOMAIN fb # {}),
               Required(fb, "band"), OptionalFunction(fb, "fuse_func")>>)
FlagBand(cfg, fb) ==
    [band |-> fb["band"].v, products |-> FlagProducts(cfg, fb), lowres |-> FlagLowRes(cfg, fb),
     main |-> FlagsOfMain(cfg, fb), ignoreTime |-> On(fb, "ignore_time"),
     merge |-> On(fb, "manual_merge"), ignored |-> Range(Opt(fb, "ignore_info_flags", <<>>)),
     fuse |-> IF Has(fb, "fuse_func") THEN fb["fuse_func"].v ELSE NoFunction]
\* flag_bands is keyed by the band's name: a second band of a name replaces the
\* first, in the place of the first.
FlagBands(cfg) ==
    FoldLeft(LAMBDA kept, fb :
                IF \E i \in DOMAIN kept : kept[i].band = fb.band
                THEN [i \in DOMAIN kept |-> IF kept[i].band = fb.band THEN fb ELSE kept[i]]
                ELSE Append(kept, fb),
             <<>>, [i \in DOMAIN FlagConfigs(cfg) |-> FlagBand(cfg, FlagConfigs(cfg)[i])])
Mismatched(fbs) == \E i, j \in DOMAIN fbs :
                       fbs[i].products = fbs[j].products /\ fbs[i].lowres # fbs[j].lowres

(* ---- FlagProductBands: the flag bands that are read together ----            *)
Group(fb) == [products |-> fb.products, bands |-> {fb.band}, ignoreTime |-> fb.ignoreTime,
              merge |-> fb.merge, fuse |-> fb.fuse, outcome |-> "ok"]
AddFlagBand(group, fb) ==
    [group EXCEPT
        !.bands = @ \cup {fb.band},
        !.outcome = IF \/ fb.fuse # NoFunction /\ group.fuse # NoFunction /\ fb.fuse # group.fuse
                       \/ fb.ignoreTime # group.ignoreTime
                    THEN "refused" ELSE @,
        !.fuse = IF @ = NoFunction THEN fb.fuse ELSE @]
\* build_list_from_masks: the first group with the same products takes the band.
AddToGroups(groups, fb) ==
    LET same == {i \in DOMAIN groups : groups[i].products = fb.products}
    IN IF same = {} THEN Append(groups, Group(fb))
       ELSE [groups EXCEPT ![Min(same)] = AddFlagBand(@, fb)]
GroupedByProducts(fbs) == FoldLeft(AddToGroups, <<>>, fbs)
\* build_list_from_flagbands: every band after the first is taken for handled
\* once the first group has been looked at, whether or not its products match.
GroupedWithFirst(fbs) ==
    FoldLeft(LAMBDA groups, fb :
                IF groups = <<>> THEN <<Group(fb)>>
                ELSE IF groups[1].products = fb.products
                THEN [groups EXCEPT ![1] = AddFlagBand(@, fb)] ELSE groups,
             <<>>, fbs)
GroupsOutcome(groups) == FirstOf(groups, LAMBDA grp : grp.outcome)
FlagsOutcome(cfg) ==
    LET parts == FirstOf(FlagConfigs(cfg), LAMBDA fb : FlagOutcome(cfg, fb))
    IN Then(KeyErrorRefused(parts),
            FirstBad(<<RefusedIf(Mismatched(FlagBands(cfg))),
                       GroupsOutcome(GroupedWithFirst(FlagBands(cfg)))>>))

(* ---- image processing, identifiers, urls, feature info, wcs ----             *)
ImageOutcome(cfg) ==
    LET image == cfg["image_processing"].v
        emf == image["extent_mask_func"]
        masks == IF ~Has(image, "extent_mask_func") THEN "missing"
                 ELSE IF emf.kind = "list" THEN FirstOf(emf.v, FunctionOutcome)
                 ELSE FunctionOutcome(emf)
    IN IF ~Has(cfg, "image_processing") THEN "refused"
       ELSE KeyErrorRefused(FirstBad(<<masks,
                RefusedIf(On(image, "apply_solar_corrections") /\ ~On(image, "manual_merge")),
                OptionalFunction(image, "fuse_func")>>))
IdentifierOutcome(cfg, g) ==
    RefusedIf(~(DOMAIN Opt(cfg, "identifiers", NoItems) \subseteq g.authorities))
\* SuppURL reads both keys of every url, outside any handler.
UrlOutcome(cfg) ==
    LET urls == Opt(cfg, "urls", NoItems)
        listed(k) == Opt(urls, k, <<>>)
    IN FirstOf(listed("features") \o listed("data"),
               LAMBDA u : KeyErrorEscapes(FirstBad(<<Required(u.v, "url"), Required(u.v, "format")>>)))
InfoOutcome(cfg) ==
    LET info == Opt(cfg, "feature_info", NoItems)
    IN KeyErrorEscapes(FirstBad(<<FunctionsOutcome(info, "include_custom"),
                                  FunctionsOutcome(info, "custom_includes"),
                                  OptionalFunction(cfg, "patch_url_function")>>))
\* "wcs": False switches the layer's coverage off; True does not pass the assertion.
Covered(cfg, g) ==
    /\ g.wcs
    /\ IF ~Has(cfg, "wcs") THEN TRUE
       ELSE IF cfg["wcs"].kind = "one" THEN cfg["wcs"].v
       ELSE ~On(cfg["wcs"].v, "disable")
NativeFormat(cfg, g) ==
    IF Has(cfg, "wcs") THEN Opt(cfg["wcs"].v, "native_format", g.native) ELSE g.native
\* Mutant: a layer's own native format is not looked up.
WcsOutcomeUnchecked(cfg, g) ==
    IF Covered(cfg, g) /\ Has(cfg, "wcs") /\ cfg["wcs"].kind = "one" THEN "crash" ELSE "ok"
WcsOutcome(cfg, g) ==
    IF ~Covered(cfg, g) THEN "ok"
    ELSE IF Has(cfg, "wcs") /\ cfg["wcs"].kind = "one" THEN "crash"
    ELSE RefusedIf(NativeFormat(cfg, g) \notin g.formats)
AttributionOutcome(cfg) ==
    LET a == Opt(cfg, "attribution", NoItems)
        logo == Opt(a, "logo", NoItems)
    IN RefusedIf(\/ a # NoItems /\ ~Has(a, "title") /\ ~Has(a, "url") /\ logo = NoItems
                 \/ logo # NoItems /\ ~({"url", "format"} \subseteq DOMAIN logo))
===============================================================================
