----------------------------- MODULE StyleConfig ------------------------------
(* First phase of a style: StyleDefBase.__init__ and its subclasses, their      *)
(* masks, legends and multi-date handlers, and of the styling section of a     *)
(* layer, which parses its styles in order into style_index.                    *)
EXTENDS LayerConfig, TLC

\* What a style needs of the layer it is parsed for: the layer's name, flag bands
\* and band aliases, the default language and the layers parsed before.
LayerContext(cfg, g, index) ==
    [name |-> cfg["name"].v, flags |-> FlagBands(cfg), aliases |-> AliasIndex(Bands(cfg)),
     locale |-> g.locales[1], index |-> index]
\* local_band, short of the layer's own aliases.
Local(bandMap, b) == IF Has(bandMap, b) THEN bandMap[b].v ELSE b

(* ---- which class ----                                                        *)
\* register_subclass: the priority classes first, then in order of import.
Kind(cfg) == CASE Has(cfg, "component_ratio") -> "hybrid"
               [] Has(cfg, "value_map")       -> "map"
               [] Has(cfg, "components")      -> "component"
               [] Has(cfg, "range") \/ Has(cfg, "color_ramp") -> "ramp"
               [] OTHER                       -> "none"

(* ---- legends ----                                                            *)
\* A url for every language, or one per language with the default's among them.
LegendUrls(cfg, lyr) ==
    LET legend == Opt(cfg, "legend", NoItems)
    IN RefusedIf(/\ Has(legend, "url") /\ legend["url"].kind = "dict"
                 /\ legend["url"].v # NoItems /\ lyr.locale \notin DOMAIN legend["url"].v)
\* An opaque point is one without an alpha, or with alpha 1.
Opaque(ramp) == {i \in DOMAIN ramp : Opt(ramp[i].v, "alpha", 1) = 1}
Value(ramp, i) == ramp[i].v["value"].v
LegendBegin(legend, ramp) ==
    Opt(legend, "begin", Value(ramp, IF Opaque(ramp) = {} THEN 1 ELSE Min(Opaque(ramp))))
LegendEnd(legend, ramp) ==
    Opt(legend, "end", Value(ramp, IF Opaque(ramp) = {} THEN Len(ramp) ELSE Max(Opaque(ramp))))
\* The ends of a range, from transparent just under it, stand for the built-in ramp.
Point(value, color, alpha) == Dict([value |-> One(value), color |-> One(color), alpha |-> One(alpha)])
RampPoints(cfg) ==
    IF Has(cfg, "color_ramp") THEN cfg["color_ramp"].v
    ELSE LET range == cfg["range"].v
         IN <<Point(range[1] - 1, 0, 0), Point(range[1], 0, 1), Point(range[2], 255, 1)>>
RampLegend(cfg, ramp) ==
    LET legend == Opt(cfg, "legend", NoItems)
        ways == {"ticks_every", "tick_count", "ticks"} \cap DOMAIN legend
    IN RefusedIf(\/ Opt(legend, "decimal_places", 1) < 0
                 \/ Cardinality(ways) > 1
                 \/ Opt(legend, "ticks_every", 1) <= 0
                 \/ Opt(legend, "tick_count", 1) < 0
                 \/ \E t \in Range(Opt(legend, "ticks", <<>>)) :
                        t < LegendBegin(legend, ramp) \/ t > LegendEnd(legend, ramp)
                 \/ {"major_ticks", "offset", "scale_by", "radix_point"} \cap DOMAIN legend # {})
\* ColorRamp: the points, or the ends of a range.
RampOutcome(cfg) ==
    IF ~Has(cfg, "color_ramp") /\ ~Has(cfg, "range") THEN "missing"
    ELSE RampLegend(cfg, RampPoints(cfg))

(* ---- value maps ----                                                         *)
\* A rule of several dates lists its inverts, flags or values by date; that the
\* values are as many as the dates is not looked at.
DatedRuleOutcome(rule, dates) ==
    LET inverts == Opt(rule, "invert", [i \in 1..dates |-> FALSE])
        flags == Opt(rule, "flags", <<>>)
        values == Opt(rule, "values", <<>>)
    IN RefusedIf(\/ Len(inverts) # dates
                 \/ Has(rule, "flags") /\ Len(flags) # dates
                 \/ \E i \in DOMAIN flags : BothWays(flags[i].v)
                 \/ (flags = <<>>) = (values = <<>>))
\* Rules for a picture, whatever dates it was made from.
Undated == 0
\* Every rule looks its band up in the layer's aliases, which a layer that takes
\* its bands from its product does not know yet.
ValueMapOutcome(cfg, bandMap, lyr, dates) ==
    LET map == cfg["value_map"].v
        unknown(b) == map[b].v # <<>> /\ Local(bandMap, b) \notin DOMAIN lyr.aliases
        own(r) == IF dates = Undated THEN RuleOutcome(r) ELSE DatedRuleOutcome(r, dates)
        checked(r) == FirstBad(<<own(r.v), Required(r.v, "title"), Required(r.v, "color")>>)
    IN IF ~Has(cfg, "value_map") THEN "missing"
       ELSE AnyOf(DOMAIN map,
                  LAMBDA b : IF unknown(b) THEN "refused" ELSE FirstOf(map[b].v, checked))

(* ---- multi-date handlers ----                                                *)
Aggregated(h) == Has(h, "aggregator_function") \/ On(h, "animate")
HandlerRange(h) == h["allowed_count_range"].v
MapHandler(h, bandMap, lyr) ==
    LET range == HandlerRange(h)
    IN IF On(h, "animate") THEN RefusedIf(Has(h, "value_map"))
       ELSE IF Aggregated(h) THEN ValueMapOutcome(h, bandMap, lyr, Undated)
       ELSE IF Has(h, "value_map") /\ range[1] # range[2] THEN "refused"
       ELSE ValueMapOutcome(h, bandMap, lyr, range[2])
HandlerOutcome(h, kind, bandMap, lyr) ==
    LET range == HandlerRange(h)
    IN IF ~Has(h, "allowed_count_range") \/ Len(range) > 2 THEN "refused"
       ELSE IF Len(range) < 2 THEN "crash"
       ELSE FirstBad(<<
           RefusedIf(range[2] < range[1]),
           OptionalFunction(h, "aggregator_function"),
           RefusedIf(~Aggregated(h) /\ kind # "map"),
           LegendUrls(h, lyr),
           FunctionsOutcome(h, "custom_includes"),
           CASE kind = "map" -> MapHandler(h, bandMap, lyr)
             [] kind \in {"ramp", "hybrid"} /\ ~On(h, "animate") -> RampOutcome(h)
             [] OTHER -> "ok">>)

(* ---- what the subclasses read ----                                           *)
ComponentsOutcome(cfg) ==
    LET comps == cfg["components"].v
    IN IF ~Has(cfg, "components") THEN "missing"
       ELSE IF ~({"red", "green", "blue"} \subseteq DOMAIN comps) THEN "refused"
       ELSE AnyOf(DOMAIN comps,
                  LAMBDA c : IF Has(comps[c].v, "function")
                               THEN FirstBad(<<FunctionOutcome(comps[c]),
                                               RefusedIf(~Has(cfg, "additional_bands"))>>)
                               ELSE "ok")
\* An expression is the list of the bands it names, <<>> for one that names none or
\* does what is not supported.  Its bands are looked up when it is parsed, which
\* fails in a layer that takes its bands from its product.
Expression(cfg) == Opt(cfg, "index_expression", <<>>)
Mapped(cfg, b) == Local(Opt(cfg, "band_map", NoItems), b)
IndexOutcome(cfg, lyr) ==
    IF Has(cfg, "index_function")
    THEN FirstBad(<<FunctionOutcome(cfg["index_function"]), Required(cfg, "needed_bands")>>)
    ELSE RefusedIf(\/ Expression(cfg) = <<>>
                   \/ \E b \in Range(Expression(cfg)) : Mapped(cfg, b) \notin DOMAIN lyr.aliases)
KindOutcome(cfg, lyr) ==
    CASE Kind(cfg) = "component" -> ComponentsOutcome(cfg)
      [] Kind(cfg) = "map"    -> FirstBad(<<RefusedIf(Opt(Opt(cfg, "legend", NoItems), "ncols", 1) < 1),
                                            ValueMapOutcome(cfg, Opt(cfg, "band_map", NoItems), lyr, Undated)>>)
      [] Kind(cfg) = "ramp"   -> FirstBad(<<RampOutcome(cfg), IndexOutcome(cfg, lyr)>>)
      [] Kind(cfg) = "hybrid" -> FirstBad(<<ComponentsOutcome(cfg), RampOutcome(cfg), IndexOutcome(cfg, lyr),
                                            RefusedIf(cfg["component_ratio"].v \notin 0..100)>>)
ComponentBands(cfg) ==
    LET comps == Opt(cfg, "components", NoItems)
    IN UNION {IF Has(comps[c].v, "function") THEN Range(Opt(cfg, "additional_bands", <<>>))
              ELSE DOMAIN comps[c].v \ {"scale_range"} : c \in DOMAIN comps}
IndexBands(cfg, lyr) ==
    IF Has(cfg, "index_function") THEN Range(Opt(cfg, "needed_bands", <<>>))
    ELSE {lyr.aliases[Mapped(cfg, b)] : b \in Range(Expression(cfg))}
\* raw_needed_bands, as the style names them, save those of an expression.
RawNeededBands(cfg, lyr) ==
    CASE Kind(cfg) = "component" -> ComponentBands(cfg)
      [] Kind(cfg) = "map"       -> DOMAIN cfg["value_map"].v
      [] Kind(cfg) = "ramp"      -> IndexBands(cfg, lyr)
      [] Kind(cfg) = "hybrid"    -> ComponentBands(cfg) \cup IndexBands(cfg, lyr)

(* ---- a style ----                                                            *)
Masks(cfg) == LET masks == Opt(cfg, "pq_masks", <<>>) IN [i \in DOMAIN masks |-> masks[i].v]
BandNamed(fbs, n) == CHOOSE fb \in Range(fbs) : fb.band = n
MaskFlagBands(cfg, fbs) == [i \in DOMAIN Masks(cfg) |-> BandNamed(fbs, Masks(cfg)[i]["band"].v)]
MaskOutcome(mask, fbs) ==
    IF ~Has(mask, "band") THEN "missing"
    ELSE FirstBad(<<RuleOutcome(mask), RefusedIf(\A fb \in Range(fbs) : fb.band # mask["band"].v)>>)
Handlers(cfg) == LET hs == Opt(cfg, "multi_date", <<>>) IN [i \in DOMAIN hs |-> hs[i].v]

\* The style a style inherits from is looked up among those of a layer parsed
\* before or, in the layer being parsed, among its styles so far; an "inherits"
\* without a style is itself what is inherited.
StyleParents(cfg, siblings, lyr) ==
    LET from == cfg["inherits"].v
        layer == Opt(from, "layer", lyr.name)
        styles == IF layer = lyr.name THEN siblings
                  ELSE IF Has(lyr.index, layer) THEN lyr.index[layer].styles ELSE NoItems
    IN IF ~Has(from, "style") THEN {from}
       ELSE {styles[s].raw : s \in {from["style"].v} \cap DOMAIN styles}
NewStyle(cfg, lyr) ==
    [raw |-> cfg, kind |-> Kind(cfg), masks |-> Masks(cfg), needed |-> RawNeededBands(cfg, lyr),
     groups |-> GroupedByProducts(MaskFlagBands(cfg, lyr.flags)), handlers |-> Handlers(cfg),
     bandMap |-> Opt(cfg, "band_map", NoItems)]
StyleOutcome(cfg, lyr) ==
    IF Kind(cfg) = "none" THEN "refused"
    ELSE LET handler(h) == HandlerOutcome(h, Kind(cfg), Opt(cfg, "band_map", NoItems), lyr)
             masks == FirstOf(Masks(cfg), LAMBDA m : MaskOutcome(m, lyr.flags))
             own == FirstBad(<<Required(cfg, "name"), masks,
                               FunctionsOutcome(cfg, "custom_includes"), LegendUrls(cfg, lyr),
                               FirstOf(Handlers(cfg), handler), KindOutcome(cfg, lyr)>>)
         IN Then(KeyErrorRefused(own),
                 GroupsOutcome(GroupedByProducts(MaskFlagBands(cfg, lyr.flags))))

\* parse_styling: the styles in order, the later of two of one name in the index.
Register(acc, outcome, cfg, lyr) ==
    IF outcome # "ok" THEN [acc EXCEPT !.outcome = outcome]
    ELSE [acc EXCEPT !.order = Append(@, cfg["name"].v),
                     !.styles = WithEntry(@, cfg["name"].v, NewStyle(cfg, lyr))]
AddStyle(acc, raw, lyr) ==
    LET parents == IF Has(raw, "inherits") THEN StyleParents(raw, acc.styles, lyr) ELSE {raw}
        parent == CHOOSE p \in parents : TRUE
        cfg == IF Has(raw, "inherits") THEN DeepInherit(parent, raw) ELSE raw
        outcome == IF parents = {} THEN "refused"
                   ELSE IF Has(raw, "inherits") /\ InheritClash(parent, raw) THEN "crash"
                   ELSE StyleOutcome(cfg, lyr)
    IN IF acc.outcome # "ok" THEN acc ELSE Register(acc, outcome, cfg, lyr)
WithDefault(styling, parsed) ==
    IF parsed.outcome # "ok" THEN parsed
    ELSE IF Has(styling, "default_style")
    THEN IF Has(parsed.styles, styling["default_style"].v)
         THEN [parsed EXCEPT !.default = styling["default_style"].v]
         ELSE [parsed EXCEPT !.outcome = "refused"]
    ELSE IF parsed.order = <<>> THEN [parsed EXCEPT !.outcome = "crash"]
    ELSE [parsed EXCEPT !.default = parsed.order[1]]
Styling(cfg, lyr) ==
    LET styling == Opt(cfg, "styling", NoItems)
        none == [outcome |-> IF Has(styling, "styles") THEN "ok" ELSE "refused",
                 order |-> <<>>, styles |-> NoItems, default |-> NoName]
    IN WithDefault(styling, FoldLeft(LAMBDA acc, s : AddStyle(acc, s.v, lyr),
                                     none, Opt(styling, "styles", <<>>)))
===============================================================================
