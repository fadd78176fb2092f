----------------------------- MODULE ConfigParse ------------------------------
(* The first phase of the configuration: OWSConfig.__init__ parses the global, *)
(* wms, wcs, layers and wmts sections in this order, the layers depth first.   *)
(* A ConfigException of a layer or folder is caught by the folder it lies in,  *)
(* which goes on without it; any other stops the whole configuration.  Then    *)
(* make_ready looks every layer up in the database once (ConfigReadiness has   *)
(* the interleavings and retries of that phase).                               *)
EXTENDS StyleConfig, ConfigFiles

CONSTANTS
    Configs,    \* id -> the raw sections; .layers is the source of the layers' items
    Spaced,     \* tile matrix set identifiers with a blank
    Database    \* product -> [bands, crs, resolution], what the index says of it

\* The CRSs to publish are listed, in the order of their dictionary.
CRSsListed(cfg) == Has(cfg, "published_CRSs") => IsSequence(cfg["published_CRSs"].v)
ASSUME ConfigsAssumption ==
    \A c \in DOMAIN Configs : /\ SourceSound(Configs[c].layers)
                               /\ CRSsListed(Configs[c]["global"].v)

VARIABLES
    config,     \* the configuration read
    rawCfg,     \* OWSConfig._raw_cfg: its sections
    stage,      \* the section to parse next, or how parsing ended
    g,          \* the parsed global, wms and wcs sections
    open,       \* the folders being parsed, outermost first
    folders,    \* folder_index: the labels of the folders parsed
    index,      \* layer_index: name -> layer
    queue,      \* names of parsed layers still to be made ready
    ready       \* name -> bands, flags and styles of a layer made ready

parseVars == <<config, rawCfg, stage, g, open, folders, index, queue, ready>>
vars == <<fileVars, parseVars>>

(* ---- global ----                                                             *)
WebMercator == "EPSG:3857"
PacificMercator == "EPSG:3832"
PlainCRSs(crss) == SelectSeq(crss, LAMBDA c : ~Has(c.def, "alias"))
Geographic(c) == c.def["geographic"].v
CRSOutcome(c) ==
    IF ~Has(c.def, "geographic") THEN "missing"
    ELSE RefusedIf(Geographic(c) /\ \/ Opt(c.def, "horizontal_coord", "longitude") # "longitude"
                                    \/ Opt(c.def, "vertical_coord", "latitude") # "latitude")
AddAlias(published, c) ==
    IF Has(c.def, "alias") /\ c.def["alias"].v \in DOMAIN published
    THEN WithEntry(published, c.name, c.def["alias"].v) ELSE published
\* The Pacific web mercator is published with the web mercator, asked for or not;
\* an alias of what is not published (yet) is skipped.
Published(crss) ==
    LET plain == {c.name : c \in {x \in Range(crss) : ~Has(x.def, "alias")}}
        added == IF WebMercator \in plain THEN {PacificMercator} ELSE {}
    IN FoldLeft(AddAlias, [c \in plain \cup added |-> NoName], crss)
Service(cfg, s, default) == Opt(Opt(cfg, "services", NoItems), s, default)
GlobalOutcome(cfg) ==
    LET crss == cfg["published_CRSs"].v
        languages == Opt(cfg, "supported_languages", <<"en">>)
    IN KeyErrorRefused(FirstBad(<<
         RefusedIf(~(Service(cfg, "wms", TRUE) \/ Service(cfg, "wmts", TRUE) \/ Service(cfg, "wcs", FALSE))),
         RefusedIf(languages = <<>>),
         Required(cfg, "title"), Required(cfg, "allowed_urls"), Required(cfg, "info_url"),
         AttributionOutcome(cfg),
         IF ~Has(cfg, "published_CRSs") THEN "missing"
         ELSE FirstOf(PlainCRSs(crss), CRSOutcome)>>))
NoGeographic(cfg) ==
    /\ Service(cfg, "wcs", FALSE)
    /\ \A c \in Range(PlainCRSs(cfg["published_CRSs"].v)) : ~Geographic(c)

Advance(outcome, next, parsed) ==
    IF outcome = "ok" THEN stage' = next /\ g' = parsed
    ELSE stage' = (IF outcome = "crash" THEN "crashed" ELSE "refused") /\ UNCHANGED g
Sections == UNCHANGED <<fileVars, config, rawCfg, open, folders, index, queue, ready>>

ParseGlobal ==
    /\ stage = "global" /\ reading = "read"
    /\ LET cfg == rawCfg["global"].v
           own == GlobalOutcome(cfg)
       IN Advance(IF own # "ok" THEN own ELSE RefusedIf(NoGeographic(cfg)), "wms",
                  [wms |-> Service(cfg, "wms", TRUE), wmts |-> Service(cfg, "wmts", TRUE),
                   wcs |-> Service(cfg, "wcs", FALSE),
                   locales |-> Opt(cfg, "supported_languages", <<"en">>),
                   published |-> Published(cfg["published_CRSs"].v),
                   authorities |-> {}, formats |-> {}, native |-> NoName])
    /\ Sections

\* An include that cannot be read ends the configuration before any section.
ReadFailed ==
    /\ stage = "global" /\ reading \in {"refused", "crashed"}
    /\ stage' = reading
    /\ UNCHANGED g /\ Sections

(* ---- wms and wcs ----                                                        *)
\* A size that is no number is a negative one.
ParseWMS ==
    /\ stage = "wms"
    /\ LET cfg == IF g.wms \/ g.wmts THEN Opt(rawCfg, "wms", NoItems) ELSE NoItems
           own == FirstBad(<<RefusedIf(Opt(cfg, "max_width", 256) < 1 \/ Opt(cfg, "max_height", 256) < 1),
                             AgeOutcome(cfg, "caps_cache_maxage")>>)
       IN Advance(own, "wcs",
                  [g EXCEPT !.authorities = DOMAIN Opt(cfg, "authorities", NoItems)])
    /\ Sections

\* WCSFormat.from_cfg: a format without renderers is not there.
FormatOutcome(f) ==
    IF ~Has(f, "renderers") THEN "ok"
    ELSE FirstBad(<<Required(f, "mime"), Required(f, "extension"), FunctionsOutcome(f, "renderers")>>)
ParseWCS ==
    /\ stage = "wcs"
    /\ LET cfg == Opt(rawCfg, "wcs", NoItems)
           given == Opt(cfg, "formats", NoItems)
           formats == {n \in DOMAIN given : Has(given[n].v, "renderers")}
           own == KeyErrorRefused(FirstBad(<<
                      RefusedIf(~Has(rawCfg, "wcs") \/ formats = {}),
                      AnyOf(DOMAIN given, LAMBDA n : FormatOutcome(given[n].v)),
                      Required(cfg, "native_format"),
                      RefusedIf(Opt(cfg, "native_format", "") \notin formats),
                      AgeOutcome(cfg, "caps_cache_maxage"),
                      AgeOutcome(cfg, "default_desc_cache_maxage")>>))
       IN IF g.wcs THEN Advance(own, "layers", [g EXCEPT !.formats = formats,
                                                         !.native = cfg["native_format"].v])
          ELSE Advance("ok", "layers", g)
    /\ Sections

(* ---- layers ----                                                             *)
\* The class is chosen before inheritance, which brings in the parent's
\* multi_product too late.
ExpandedLayer(raw, parent) ==
    ("multi_product" :> One(Multi(raw))) @@
        (IF Has(raw, "inherits") THEN DeepInherit(parent, raw) ELSE raw)
LayerParents(raw) ==
    LET from == raw["inherits"].v
    IN IF ~Has(from, "layer") THEN {from}
       ELSE {index[n].raw : n \in {from["layer"].v} \cap DOMAIN index}
LayerOutcome(cfg, styling) ==
    IF ~Has(cfg, "title") \/ AttributionOutcome(cfg) # "ok" \/ ProductOutcome(cfg) # "ok" THEN "refused"
    ELSE FirstBad(<<TimeOutcome(cfg), BandOutcome(cfg), LimitsOutcome(cfg), FlagsOutcome(cfg),
                    ImageOutcome(cfg), IdentifierOutcome(cfg, g), UrlOutcome(cfg), InfoOutcome(cfg),
                    styling.outcome, WcsOutcome(cfg, g)>>)
\* The sections before the styling, without which its bands make no sense.
Groundwork(cfg) == IF ProductOutcome(cfg) # "ok" THEN "refused"
                   ELSE FirstBad(<<BandOutcome(cfg), FlagsOutcome(cfg)>>)
StylingOf(cfg, parsed) == IF Groundwork(cfg) # "ok" THEN [outcome |-> "ok"]
                          ELSE Styling(cfg, LayerContext(cfg, g, parsed))
NewLayer(cfg, styling) ==
    [raw |-> cfg, styles |-> styling.styles, order |-> styling.order, default |-> styling.default,
     products |-> ProductNames(cfg), lowres |-> LowResNames(cfg), flags |-> FlagBands(cfg),
     groups |-> GroupedWithFirst(FlagBands(cfg)), bands |-> Bands(cfg), covered |-> Covered(cfg, g),
     format |-> NativeFormat(cfg, g), identifiers |-> DOMAIN Opt(cfg, "identifiers", NoItems)]

Child(frame) == Head(frame.todo)
\* The folder being parsed once its current child is dealt with.
Rest == [open EXCEPT ![Len(open)].todo = Tail(@), ![Len(open)].sibling = @ + 1]

OpenRoot ==
    /\ stage = "layers" /\ open = <<>> /\ folders = {}
    /\ open' = <<[label |-> <<"ows_root">>, todo |-> items, sibling |-> 0]>>
    /\ UNCHANGED <<fileVars, config, rawCfg, stage, g, folders, index, queue, ready>>

IndexLayer(name, outcome, layer) ==
    CASE outcome = "ok"      -> /\ index' = WithEntry(index, name, layer)
                                /\ queue' = Append(queue, name)
                                /\ UNCHANGED stage
      [] outcome = "refused" -> UNCHANGED <<index, queue, stage>>
      [] OTHER               -> stage' = "crashed" /\ UNCHANGED <<index, queue>>
\* The next child, if it is a named layer: parsed and indexed, or left out.
ParseLayer ==
    /\ stage = "layers" /\ open # <<>> /\ Last(open).todo # <<>>
    /\ LET raw == Child(Last(open))
           parents == IF Has(raw, "inherits") THEN LayerParents(raw) ELSE {raw}
           parent == CHOOSE p \in parents : TRUE
           cfg == ExpandedLayer(raw, parent)
           styling == StylingOf(cfg, index)
           outcome == IF parents = {} THEN "refused"
                      ELSE IF Has(raw, "inherits") /\ InheritClash(parent, raw) THEN "crash"
                      ELSE FirstBad(<<LayerOutcome(cfg, styling),
                                      RefusedIf(raw["name"].v \in DOMAIN index)>>)
       IN /\ Has(raw, "name")
          /\ IndexLayer(raw["name"].v, outcome, NewLayer(cfg, styling))
    /\ open' = Rest
    /\ UNCHANGED <<fileVars, config, rawCfg, g, folders, ready>>

\* A folder's label is checked before its own children are parsed, and indexed
\* after them.
\* Mutant: folders without a label are not numbered.
LabelOfParent(raw, frame) == IF Has(raw, "label") THEN <<raw["label"].v>> ELSE Append(frame.label, 0)
\* A label is the one given, followed by the numbers of the folders without one.
LabelOf(raw, frame) == IF Has(raw, "label") THEN <<raw["label"].v>>
                       ELSE Append(frame.label, frame.sibling)
FolderSound(raw) == Has(raw, "title") /\ Has(raw, "layers") /\ AttributionOutcome(raw) = "ok"
ParseFolder ==
    /\ stage = "layers" /\ open # <<>> /\ Last(open).todo # <<>>
    /\ LET raw == Child(Last(open))
           label == LabelOf(raw, Last(open))
       IN /\ ~Has(raw, "name")
          /\ open' = IF label \notin folders /\ FolderSound(raw)
                     THEN Append(Rest, [label |-> label, todo |-> raw["layers"].v, sibling |-> 0])
                     ELSE Rest
    /\ UNCHANGED <<fileVars, config, rawCfg, stage, g, folders, index, queue, ready>>

CloseFolder ==
    /\ stage = "layers" /\ open # <<>> /\ Last(open).todo = <<>>
    /\ folders' = folders \cup {Last(open).label}
    /\ open' = Front(open)
    /\ stage' = IF Len(open) = 1 THEN "wmts" ELSE stage
    /\ UNCHANGED <<fileVars, config, rawCfg, g, index, queue, ready>>

(* ---- wmts ----                                                               *)
\* The built-in set is there with or without the service, and needs the web
\* mercator to be published.
MatrixSets ==
    LET given == IF g.wmts THEN Opt(Opt(rawCfg, "wmts", NoItems), "tile_matrix_sets", NoItems) ELSE NoItems
    IN given @@ ("WholeWorld_WebMercator" :>
           Dict([crs |-> One(WebMercator), matrix_origin |-> Numbers(<<0, 0>>),
                 tile_size |-> Numbers(<<256, 256>>), scale_set |-> Numbers(<<2, 1>>)]))
Pairs == {"matrix_origin", "tile_size", "matrix_exponent_initial_offsets", "unit_coefficients"}
MatrixSetOutcome(tms) ==
    FirstBad(<<Required(tms, "crs"), RefusedIf(Has(tms, "crs") /\ tms["crs"].v \notin DOMAIN g.published),
               Required(tms, "matrix_origin"), Required(tms, "tile_size"), Required(tms, "scale_set"),
               RefusedIf(\E k \in Pairs \cap DOMAIN tms : tms[k].kind # "numbers" \/ Len(tms[k].v) # 2),
               RefusedIf(Has(tms, "scale_set") /\ tms["scale_set"].v = <<>>)>>)
ParseWMTS ==
    /\ stage = "wmts"
    /\ Advance(KeyErrorRefused(FirstBad(<<
                   AnyOf(DOMAIN MatrixSets, LAMBDA n : MatrixSetOutcome(MatrixSets[n].v)),
                   RefusedIf(DOMAIN MatrixSets \cap Spaced # {})>>)), "parsed", g)
    /\ Sections

(* ---- properties ----                                                        *)
AliasesPublished == \A c \in DOMAIN g.published : g.published[c] \in {NoName} \cup DOMAIN g.published
LayerResolves(lyr) ==
    /\ lyr.default \in DOMAIN lyr.styles
    /\ lyr.covered => lyr.format \in g.formats
    /\ lyr.identifiers \subseteq g.authorities
    /\ \A s \in DOMAIN lyr.styles : \A i \in DOMAIN lyr.styles[s].masks :
          \E fb \in Range(lyr.flags) : fb.band = lyr.styles[s].masks[i]["band"].v
(* Names that one section uses of another are there when the server comes up,  *)
(* whatever was inherited, overridden or left out: the default style of every  *)
(* layer among its styles, its coverage format among the formats, its          *)
(* identifiers' authorities, its masks' flag bands, the CRSs that aliases and   *)
(* tile matrix sets name (ows_configuration.py's first phase).                  *)
ReferencesResolve ==
    stage \in {"parsed", "up"} =>
        /\ AliasesPublished /\ \A n \in DOMAIN index : LayerResolves(index[n])
        /\ \A m \in DOMAIN MatrixSets : MatrixSets[m].v["crs"].v \in DOMAIN g.published

\* The sections of the layers, to the depth the configurations explored have.
Inside(sections) ==
    FoldLeft(LAMBDA seq, f : IF ~Has(f, "name") /\ FolderSound(f) THEN seq \o f["layers"].v ELSE seq,
             <<>>, sections)
LayerSections == items \o Inside(items) \o Inside(Inside(items))
SameName(s, t) == \/ Has(s, "name") /\ Has(t, "name") /\ s["name"].v = t["name"].v
                  \/ ~Has(s, "name") /\ ~Has(t, "name") /\ Has(s, "label") /\ Has(t, "label")
                     /\ s["label"].v = t["label"].v
NoNamesakes(sections) == \A i, j \in DOMAIN sections : SameName(sections[i], sections[j]) => i = j
SoundAlone(raw) ==
    /\ Has(raw, "name") /\ ~Has(raw, "inherits")
    /\ LayerOutcome(ExpandedLayer(raw, raw), StylingOf(ExpandedLayer(raw, raw), NoItems)) = "ok"
(* A faulty layer or folder costs only itself: once the layers are parsed, each *)
(* layer that is sound on its own is indexed, in whatever folders of its own    *)
(* name or none it lies and whatever was refused before it (OWSFolder.__init__  *)
(* goes on after a ConfigException).                                            *)
SoundLayersIndexed ==
    stage \in {"wmts", "parsed"} =>
        LET sections == LayerSections
        IN NoNamesakes(sections) =>
               \A i \in DOMAIN sections :
                   SoundAlone(sections[i]) => sections[i]["name"].v \in DOMAIN index
===============================================================================
