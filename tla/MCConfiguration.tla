--------------------------- MODULE MCConfiguration ----------------------------
(* Configurations made from a sound one: layers with one fault each side by     *)
(* side, a configuration for each fault that stops the whole, includes, folders *)
(* and inheritance, and styles of every kind to be drawn.                       *)
EXTENDS StyleDrawing

Set(cfg, k, v) == (k :> v) @@ cfg
Without(cfg, k) == [j \in DOMAIN cfg \ {k} |-> cfg[j]]
Named(cfg, n) == Set(cfg, "name", One(n))
Section(v) == [is |-> "value", value |-> v]
Include(raw, type) == [is |-> "include", raw |-> raw, type |-> type]

(* ---- sound parts ----                                                        *)
Points == <<Point(0, 0, 0), Point(1, 100, 1), Point(3, 200, 1)>>
Mask == Dict([band |-> One("pq"), flags |-> Dict([cloud |-> One(FALSE)])])
Rule(vs, colour) == Dict([title |-> One("t"), color |-> One(colour), values |-> Numbers(vs)])
FlagRule(flags, colour) == Dict([title |-> One("t"), color |-> One(colour), flags |-> Dict(flags)])
Both(k) == (k :> Dict([cloud |-> One(TRUE), shadow |-> One(TRUE)]))
Handler(lo, hi) == [allowed_count_range |-> Numbers(<<lo, hi>>)]
Animation == Handler(2, 2) @@ [animate |-> One(TRUE)]

Index == [name |-> One("index"), index_function |-> One("fn"), needed_bands |-> Items(<<"r", "nir">>),
          color_ramp |-> Items(Points)]
Expr == Set(Without(Without(Named(Index, "expr"), "index_function"), "needed_bands"),
            "index_expression", Items(<<"r", "nir">>))
Rgb == [name |-> One("rgb"), scale_range |-> Numbers(<<0, 2>>),
        components |-> Dict([red |-> Dict([red |-> One(1)]), green |-> Dict([nir |-> One(1)]),
                             blue |-> Dict([r |-> One(1), nir |-> One(1)])])]
Map == [name |-> One("map"),
        value_map |-> Dict([pq |-> Items(<<FlagRule(Both("and"), 10), Rule(<<1, 3>>, 20),
                                           FlagRule([cloud |-> One(FALSE)], 30)>>)])]
Mixed == Rgb @@ Index @@ [component_ratio |-> One(40)]
Veiled == Set(Rgb["components"].v, "alpha", Dict([nir |-> One(100)]))
Styles(ss) == Dict([styles |-> Items([i \in DOMAIN ss |-> Dict(ss[i])])])
Base == [name |-> One("land"), title |-> One("t"), product_name |-> One("p"),
         bands |-> Dict([red |-> Items(<<"r">>), nir |-> Items(<<>>), pq |-> Items(<<"qa">>)]),
         flags |-> Items(<<Dict([band |-> One("pq")])>>),
         image_processing |-> Dict([extent_mask_func |-> One("fn")]),
         styling |-> Styles(<<Index>>)]
WithStyle(s) == Set(Base, "styling", Styles(<<s>>))
WithStyles(ss) == Set(Base, "styling", Styles(ss))
CRS(n, geographic) == [name |-> n, def |-> [geographic |-> One(geographic)]]
CRSList == <<CRS("EPSG:3857", FALSE), CRS("EPSG:4326", TRUE),
             [name |-> "local", def |-> [alias |-> One("EPSG:4326")]]>>
Global == [title |-> One("t"), allowed_urls |-> Items(<<>>), info_url |-> One("u"),
           published_CRSs |-> Items(CRSList), services |-> Dict([wcs |-> One(TRUE)])]
Format == Dict([renderers |-> Dict([one |-> One("fn")]), mime |-> One("m"), extension |-> One("e")])
Sound == [global |-> Dict(Global), wms |-> Dict([authorities |-> Dict([auth |-> One("a")])]),
          wcs |-> Dict([formats |-> Dict([tiff |-> Format, old |-> Dict([mime |-> One("m")])]),
                        native_format |-> One("tiff")]),
          wmts |-> Dict([tile_matrix_sets |-> Dict([mine |->
                      Dict([crs |-> One("EPSG:4326"), matrix_origin |-> Numbers(<<0, 0>>),
                            tile_size |-> Numbers(<<1, 1>>), scale_set |-> Numbers(<<1>>)])])])]
Literal(sections) == [is |-> "literal", items |-> [i \in DOMAIN sections |-> Section(sections[i])]]
Layers(sections) == Set(Sound, "layers", Literal(sections))
Sectioned(k, v) == Set(Layers(<<Base>>), k, v)
Globally(k, v) == Sectioned("global", Dict(Set(Global, k, v)))
FromSource(s) == Set(Sound, "layers", s)

(* ---- layers with one fault ----                                              *)
Multiple == Set(Without(Base, "product_name"), "product_names", Items(<<"p", "p2">>))
            @@ [multi_product |-> One(TRUE)]
Flagged2(fbs) == Set(Base, "flags", Items([i \in DOMAIN fbs |-> Dict(fbs[i])]))
Pq == [band |-> One("pq")]
Other == [band |-> One("cl"), product |-> One("fl")]
Image(k, v) == Set(Base, "image_processing", Dict(Set([extent_mask_func |-> One("fn")], k, v)))
Axis(start, end) == Dict([time_interval |-> One(8), start_date |-> One(start), end_date |-> One(end)])
Timed(k, v) == Set(Base, k, v)
Attribution(a) == Set(Base, "attribution", Dict(a))
Limits(w) == Set(Base, "resource_limits", Dict([wms |-> Dict(w)]))
CacheRule(n) == Dict([min_datasets |-> One(n), max_age |-> One(n)])
CacheRules(first, second) == Items(<<CacheRule(first), CacheRule(second)>>)
FaultyLayers == <<
    Without(Base, "title"), Without(Base, "product_name"), Without(Base, "image_processing"),
    Without(Base, "styling"), Set(Base, "product_names", Items(<<"p">>)), Set(Base, "product_name", One("a__b")),
    Set(Base, "low_res_product_names", Items(<<"p">>)), Without(Multiple, "product_names"),
    Set(Multiple, "product_names", Items(<<>>)), Set(Multiple, "low_res_product_names", Items(<<"p">>)),
    Timed("time_resolution", One("week")), Timed("default_time", One("datetime")),
    Timed("time_axis", Axis(2, 1)), Timed("time_axis", Axis(-1, 1)), Timed("mosaic_date_func", One("gone")),
    Timed("mosaic_date_func", One("fn")) @@ [time_resolution |-> One("subday")],
    Set(Base, "bands", Dict([red |-> Items(<<"r", "r">>), nir |-> Items(<<>>)])),
    Set(Base, "bands", Dict([red |-> Items(<<"nir">>), nir |-> Items(<<>>)])),
    Limits([zoomed_out_fill_colour |-> Numbers(<<1, 2>>)]), Limits([dataset_cache_rules |-> CacheRules(3, 3)]),
    Limits([dataset_cache_rules |-> CacheRules(1, 4), max_datasets |-> One(3)]),
    Limits([dataset_cache_rules |-> Items(<<Dict([max_age |-> One(1)])>>)]),
    Set(Base, "resource_limits", Dict([describe_cache_max_age |-> One(-1)])),
    Flagged2(<<NoItems>>), Flagged2(<<Set(Pq, "dataset", One("p"))>>),
    Flagged2(<<Set(Pq, "fuse_func", One("gone"))>>),
    Flagged2(<<Pq, [band |-> One("red"), ignore_time |-> One(TRUE)]>>),
    Flagged2(<<Other, [band |-> One("sn"), product |-> One("fl"), low_res_product |-> One("p")]>>),
    Set(Base, "image_processing", Dict(NoItems)), Image("apply_solar_corrections", One(TRUE)),
    Image("fuse_func", Dict(NoItems)), Set(Base, "identifiers", Dict([nobody |-> One("x")])),
    Attribution([logo |-> Dict([url |-> One("u")])]), Attribution([unknown |-> One("u")]),
    Set(Base, "wcs", Dict([native_format |-> One("old")])), Set(Base, "inherits", Dict([layer |-> One("later")])),
    Set(Base, "styling", Dict(Set(Styles(<<Index>>).v, "default_style", One("gone")))),
    Without(WithStyle(Expr), "bands")>>

(* ---- styles with one fault ----                                              *)
WithLegend(l) == Set(Index, "legend", Dict(l))
Dated(lo, hi, h) == Set(Map, "multi_date", Items(<<Dict(Handler(lo, hi) @@ h)>>))
DatedMap(rule) == [value_map |-> Dict([pq |-> Items(<<Dict(rule @@ [title |-> One("t"), color |-> One(5)])>>)])]
FaultyStyles == <<
    [name |-> One("none")], Without(Index, "name"), Without(Index, "needed_bands"), Without(Index, "index_function"),
    Set(Expr, "index_expression", Items(<<"swir">>)),
    Set(Index, "index_function", One("gone")), Set(Index, "custom_includes", Dict([a |-> One("gone")])),
    WithLegend([decimal_places |-> One(-1)]), WithLegend([ticks_every |-> One(1), tick_count |-> One(2)]),
    WithLegend([ticks |-> Numbers(<<0, 4>>)]), WithLegend([offset |-> One(1)]),
    WithLegend([url |-> Dict([de |-> One("u")])]), WithLegend([ticks_every |-> One(0)]),
    Without(Mixed, "components"), Set(Mixed, "component_ratio", One(140)),
    Set(Rgb, "components", Dict([red |-> Dict(NoItems)])),
    Set(Rgb, "components", Dict([c \in Channels |-> Dict([function |-> One("fn")])])),
    Set(Map, "legend", Dict([ncols |-> One(0)])),
    Set(Map, "value_map", Dict([swir |-> Items(<<Rule(<<1>>, 5)>>)])),
    Set(Map, "value_map", Dict([pq |-> Items(<<Dict([color |-> One(1), values |-> Numbers(<<1>>)])>>)])),
    Set(Map, "value_map", Dict([pq |-> Items(<<FlagRule(Both("and") @@ Both("or"), 5)>>)])),
    Set(Map, "value_map", Dict([pq |-> Items(<<FlagRule([or |-> Dict(NoItems)], 5)>>)])),
    Set(Index, "pq_masks", Items(<<Dict([values |-> Numbers(<<1>>)])>>)),
    Set(Index, "pq_masks", Items(<<Dict([band |-> One("cl"), values |-> Numbers(<<1>>)])>>)),
    Set(Index, "multi_date", Items(<<Dict(NoItems)>>)), Set(Index, "multi_date", Items(<<Dict(Handler(2, 3))>>)),
    Set(Index, "multi_date", Items(<<Dict(Handler(3, 2) @@ Animation)>>)),
    Set(Index, "multi_date", Items(<<Dict(Handler(2, 3) @@ [aggregator_function |-> One("fn")])>>)),
    Set(Map, "multi_date", Items(<<Dict(Animation @@ DatedMap([values |-> Items(<< <<1>>, <<1>> >>)]))>>)),
    Dated(2, 3, DatedMap([values |-> Items(<< <<1>>, <<1>> >>)])), Dated(2, 2, NoItems),
    Dated(2, 2, DatedMap([invert |-> Items(<<TRUE>>), values |-> Items(<< <<1>>, <<1>> >>)])),
    Dated(2, 2, DatedMap([flags |-> Items(<<Dict(NoItems)>>)])),
    Dated(2, 2, DatedMap([flags |-> Items(<<Dict(Both("or") @@ Both("and")), Dict(NoItems)>>)])),
    Set(Index, "inherits", Dict([style |-> One("index")])), Set(Index, "inherits", Dict([layer |-> One("gone"), style |-> One("index")]))>>
Refusals == FaultyLayers \o [i \in DOMAIN FaultyStyles |-> WithStyle(FaultyStyles[i])]
\* Sound layers among the faulty ones.
Others == <<Base, Named(Limits([dataset_cache_rules |-> CacheRules(1, 3), max_datasets |-> One(3)]), "kept"), Named(Set(Base, "flags", Dict(Pq)), "old"), Named(Multiple, "many")>>
Faults == Others \o [i \in DOMAIN Refusals |-> Named(Refusals[i], ToString(i))] \o <<Named(Base, "last")>>

(* ---- what stops the whole configuration ----                                 *)
CrashingLayers == <<
    Set(Base, "urls", Dict([data |-> Items(<<Dict([url |-> One("u")])>>)])),
    Set(Base, "feature_info", Dict([custom_includes |-> Dict([a |-> Dict(NoItems)])])),
    Set(Base, "mosaic_date_func", One("nodot")), Set(Base, "wcs", One(TRUE)), WithStyles(<<>>),
    WithStyle(Set(Index, "multi_date", Items(<<Dict([allowed_count_range |-> Numbers(<<2>>)])>>))),
    WithStyles(<<Index, Set(Without(Rgb, "name"), "inherits", Dict([style |-> One("index")]))
                          @@ [color_ramp |-> Dict(NoItems)]>>)>>
Crashes == [i \in DOMAIN CrashingLayers |-> Layers(<<Named(Base, "first"), CrashingLayers[i]>>)]
Matrix(k, v) == Sectioned("wmts", Dict([tile_matrix_sets |-> Dict([mine |->
                    Dict(Set(Sound["wmts"].v["tile_matrix_sets"].v["mine"].v, k, v))])]))
Stops == <<
    Globally("services", Dict([wms |-> One(FALSE), wmts |-> One(FALSE)])),
    Globally("supported_languages", Items(<<>>)), Sectioned("global", Dict(Without(Global, "title"))),
    Globally("published_CRSs", Items(<<CRS("EPSG:3857", FALSE)>>)),
    Globally("published_CRSs", Items(<<CRS("EPSG:4326", TRUE)>>)),
    Globally("published_CRSs", Items(<<[name |-> "EPSG:4326", def |->
        [geographic |-> One(TRUE), horizontal_coord |-> One("x")]]>>)),
    Sectioned("wms", Dict([max_width |-> One(0)])), Sectioned("wms", Dict([caps_cache_maxage |-> One(-1)])), Without(Layers(<<Base>>), "wcs"),
    Sectioned("wcs", Dict([formats |-> Dict([tiff |-> Format]), native_format |-> One("netcdf")])),
    Sectioned("wcs", Dict([formats |-> Dict([tiff |-> Dict([renderers |-> Dict([one |-> One("fn")])])]),
                           native_format |-> One("tiff")])),
    Matrix("crs", One("EPSG:1")), Matrix("tile_size", Numbers(<<1>>)), Matrix("scale_set", Numbers(<<>>)),
    Sectioned("wmts", Dict([tile_matrix_sets |-> Dict(("my set" :>
        Sound["wmts"].v["tile_matrix_sets"].v["mine"]))]))>>

(* ---- folders and inheritance ----                                            *)
Folder(ls) == [title |-> One("t"), layers |-> Items(ls)]
Labelled(l, ls) == Set(Folder(ls), "label", One(l))
Small(n) == Named(Base, n)
Heir(n, parent, cfg) == (cfg @@ [name |-> One(n), inherits |-> Dict([layer |-> One(parent)])])
Trees == <<
    Layers(<<Labelled("f", <<Small("a"), Folder(<<Small("b"), Set(Small("x"), "product_name", One("a__b"))>>),
                             Folder(<<Small("c")>>)>>),
             Without(Folder(<<Small("x")>>), "layers"), Folder(<<Small("d")>>), Without(Folder(<<Small("e")>>), "title")>>),
    Layers(<<Labelled("f", <<Small("a")>>), Labelled("f", <<Small("b")>>), Small("a"), Set(Small("a"), "title", One("u"))>>),
    Layers(<<Base, Heir("a", "land", [bands |-> Dict([red |-> Items(<<"rouge">>)])]),
             Heir("b", "a", [styling |-> Styles(<<Set(Set(Rgb, "name", One("new")), "inherits",
                                                     Dict([layer |-> One("land"), style |-> One("index")]))>>)]),
             Heir("c", "land", [bands |-> Dict([red |-> Items(<<"nir">>)])]),
             Named(Set(Base, "inherits", Dict([title |-> One("u")])), "d")>>),
    Layers(<<Base, Heir("a", "land", [title |-> Items(<<"x">>)])>>)>>

(* ---- includes ----                                                           *)
MCHere == <<"run">>
MCFiles ==
    (<<"etc", "a.json">> :> <<Include(<<"b.json">>, "json"), Section(Small("one"))>>)
    @@ (<<"etc", "b.json">> :> <<Section(Small("two")), Include(<<"obj">>, "python")>>)
    @@ (<<"run", "loop.json">> :> <<Section(Small("x")), Include(<<"twin.json">>, "json")>>)
    @@ (<<"run", "twin.json">> :> <<Include(<<"loop.json">>, "json")>>)
    @@ (<<"run", "bad.json">> :> <<Include(<<"obj">>, "yaml")>>)
    @@ (<<"run", "none.json">> :> <<Include(<<"gone">>, "python")>>)
    @@ (<<"run", "lost.json">> :> <<Include(<<"gone.json">>, "json")>>)
    @@ (<<"run", "sub", "here.json">> :> <<Include(<<"sub", "b.json">>, "json"), Include(<<"sub", "b.json">>, "json")>>)
    @@ (<<"run", "sub", "b.json">> :> <<Section(Small("deep"))>>)
MCObjects == (<<"obj">> :> <<Section(Small("three"))>>)
             @@ (<<"default">> :> <<Section(Base), Include(<<"twin.json">>, "json")>>)
MCDefaultName == <<"default">>
Location(scheme, path) == [is |-> "location", scheme |-> scheme, path |-> path]
Read(ss) == [i \in DOMAIN ss |-> FromSource(ss[i])]
Readings == Read(<<
    Location("", <<"etc", "a.json">>), Location("", <<"run", "loop.json">>), Location("", <<"run", "bad.json">>),
    Location("", <<"run", "none.json">>), Location("", <<"run", "lost.json">>), Location("", <<"run", "sub", "here.json">>),
    Location("", <<"gone">>), Location("s3", <<"etc", "a.json">>), Location("ftp", <<"etc", "a.json">>),
    [is |-> "object", path |-> <<"obj">>], [is |-> "object", path |-> <<"gone">>],
    [is |-> "attribute", path |-> <<"gone">>], [is |-> "unset"]>>)

(* ---- the database, and layers it refuses ----                                *)
Measure(nodata, flags) == [nodata |-> nodata, dtype |-> "int16", flags |-> flags]
PlainBands == [red |-> Measure(0, {}), nir |-> Measure(0, {}), pq |-> Measure(0, {"cloud", "shadow"})]
Product(bands, crs) == [bands |-> bands, crs |-> crs, resolution |-> crs # ""]
MCDatabase ==
    [p |-> Product(PlainBands, "EPSG:3857"), p2 |-> Product(PlainBands, "EPSG:3857"),
     odd |-> Product([PlainBands EXCEPT !.nir = Measure(1, {})], "EPSG:3857"),
     free |-> Product(PlainBands, ""), away |-> Product(PlainBands, "EPSG:1"),
     fl |-> Product([cl |-> Measure(0, {"cloud", "shadow"}), sn |-> Measure(0, {"cloud"}),
                     pq |-> Measure(0, {"cloud"})], "")]
MCRows == LET wide == [boxes |-> {"EPSG:3857", "EPSG:4326"}, wide |-> TRUE]
          IN [n \in {"land", "flags", "free", "alias"} |-> wide]
             @@ [thin |-> [boxes |-> {"EPSG:3857"}, wide |-> FALSE],
                 boxless |-> [boxes |-> {"EPSG:4326"}, wide |-> TRUE]]
Of(n, product) == Set(Small(n), "product_name", One(product))
Unready == Layers(<<
    Base, Of("u1", "gone"), Set(Small("u2"), "low_res_product_name", One("gone")), Of("u3", "away"), Of("u4", "free"),
    Set(Of("free", "free"), "native_crs", One("EPSG:4326")) @@ [native_resolution |-> Numbers(<<1, 1>>)],
    Set(Named(Multiple, "u5"), "product_names", Items(<<"p", "odd">>)), Small("thin"), Small("boxless"),
    Set(Small("u6"), "bands", Dict([red |-> Items(<<>>), swir |-> Items(<<>>)])),
    Named(Flagged2(<<[band |-> One("cl"), product |-> One("p")]>>), "u7"),
    Named(Flagged2(<<[band |-> One("red")]>>), "u8"), Named(Image("always_fetch_bands", Items(<<"swir">>)), "u9"),
    Named(WithStyle(Set(Index, "needed_bands", Items(<<"swir">>))), "u10"),
    Set(Named(Flagged2(<<Pq, Other>>), "u11"), "styling",
        Styles(<<Set(Index, "band_map", Dict([pq |-> One("none")])) @@ [pq_masks |-> Items(<<Mask>>)]>>)),
    Without(Set(Small("last"), "flags", Items(<<>>)), "bands")>>)
UnreadyCrash == Layers(<<Named(Flagged2(<<Set(Pq, "ignore_info_flags", Items(<<"snow">>))>>), "u"), Base>>)

(* ---- styles to draw ----                                                     *)
Clear(cfg) == Set(cfg, "pq_masks", Items(<<Mask>>))
OtherMask == Dict([band |-> One("cl"), values |-> Numbers(<<1>>), invert |-> One(TRUE)])
AnyMask == Dict([band |-> One("cl"), flags |-> Dict(Both("or"))])
Aggregate(h) == Handler(1, 2) @@ [aggregator_function |-> One("fn")] @@ h
Pictures == Layers(<<
    WithStyles(<<Clear(Index), Set(Named(Index, "ends"), "range", Numbers(<<0, 2>>)),
                 Set(Named(Index, "swing"), "multi_date",
                     Items(<<Dict(Aggregate([color_ramp |-> Items(Points)]))>>)),
                 Set(Named(Clear(Index), "film"), "multi_date", Items(<<Dict(Animation)>>)),
                 Set(Named(Index, "tail"), "legend", Dict([end |-> One(1)])),
                 Set(Named(Clear(Index), "renamed"), "band_map", Dict([pq |-> One("nir")])),
                 Clear(Map), Set(Named(Map, "mapped"), "band_map", Dict([qa |-> One("pq")])),
                 Set(Named(Clear(Map), "reel"), "multi_date", Items(<<Dict(Animation)>>)),
                 Named(Dated(2, 2, DatedMap([values |-> Items(<< <<1>>, <<3>> >>)])), "change"),
                 Named(Dated(2, 2, DatedMap([flags |-> Items(<<Dict(NoItems), Dict(Both("or"))>>),
                                             invert |-> Items(<<FALSE, TRUE>>)])), "flagged"),
                 Named(Dated(2, 2, DatedMap([values |-> Numbers(<<1>>)])
                                   @@ [aggregator_function |-> One("fn")]), "merged"),
                 Named(Dated(2, 2, [value_map |-> Dict([red |-> Items(<<Rule(<<1>>, 5)>>)])]), "elsewhere"),
                 Expr, Set(Set(Named(Expr, "chained"), "index_expression", Items(<<"a">>)),
                           "band_map", Dict([a |-> One("red"), red |-> One("nir")])),
                 Rgb, Set(Named(Rgb, "many"), "multi_date", Items(<<Dict(Aggregate(NoItems))>>)),
                 Without(Named(Rgb, "raw"), "scale_range"), Named(Mixed, "mixed"),
                 Set(Named(Mixed, "veiled"), "components", Dict(Veiled))>>),
    Set(Named(Flagged2(<<Pq, Other>>), "flags"), "styling",
        Styles(<<Set(Index, "pq_masks", Items(<<Mask, OtherMask>>)),
                 Set(Named(Index, "either"), "pq_masks", Items(<<AnyMask>>))>>))>>)
Alias == Layers(<<Set(Named(Flagged2(<<[band |-> One("qa")]>>), "alias"), "styling",
                      Styles(<<Set(Index, "pq_masks",
                                   Items(<<Dict([band |-> One("qa"), values |-> Numbers(<<0>>)])>>))>>))>>)

MCConfigs == <<Pictures, Alias, Layers(Faults), Unready, UnreadyCrash>> \o Crashes \o Stops \o Trees \o Readings
MCDrawn == {1, 2}
MCImportable == {"fn"}
MCDotless == {"nodot"}
MCSubproduct == {"a__b"}
MCSpaced == {"my set"}
MCWeight == [cloud |-> 1, shadow |-> 2]
===============================================================================
