----------------------------- MODULE StyleDrawing -----------------------------
(* What a style that was made ready draws: to_mask, transform_data of each kind *)
(* of style with its multi-date handlers, and apply_mask_to_image.  An image is *)
(* one pixel; the data of a band is its values on the dates requested, oldest   *)
(* first, and `valid` says on which dates the extent mask has the pixel.        *)
EXTENDS ConfigReady

CONSTANTS
    Drawn,      \* the configurations whose styles are drawn
    Values,     \* what a pixel of a band may be
    Weight,     \* flag -> the value of its bit
    Computed,   \* what index functions and component functions may return
    Dates       \* the numbers of dates requested

ASSUME DatesAssumption == Dates \subseteq Nat \ {0}

VARIABLE drawn  \* the last picture: layer, style, dates, data, valid, result,
                \* the frames as painted, and as masked

Channels == {"red", "green", "blue"}
Colour(rgb, alpha) == [rgb |-> rgb, alpha |-> alpha]
Grey(x) == [c \in Channels |-> x]
Transparent == Colour(Grey(0), 0)

(* ---- rules: AbstractMaskRule.create_mask, MultiDateValueMapRule.create_mask - *)
Flagged(v, flag) == (v \div Weight[flag]) % 2 = 1
Meets(flags, values, v) ==
    /\ values # <<>> => v \in Range(values)
    /\ LET wanted == Wanted(flags)
           agrees(f) == Flagged(v, f) = wanted[f].v
       IN IF AnyFlag(flags) /\ wanted # NoItems THEN \E f \in DOMAIN wanted : agrees(f)
          ELSE \A f \in DOMAIN wanted : agrees(f)
Matches(rule, v) == Meets(Opt(rule, "flags", NoItems), Opt(rule, "values", <<>>), v)
                        # Opt(rule, "invert", FALSE)
\* zip stops at the shortest: dates without values go unchecked.
MatchesDates(rule, vs) ==
    LET values == Opt(rule, "values", <<>>)
        flags == Opt(rule, "flags", <<>>)
        inverts == Opt(rule, "invert", [i \in DOMAIN vs |-> FALSE])
    IN \A i \in DOMAIN vs \cap DOMAIN inverts \cap (DOMAIN values \cup DOMAIN flags) :
          Meets(IF flags = <<>> THEN NoItems ELSE flags[i].v,
                IF values = <<>> THEN <<>> ELSE values[i], vs[i]) # inverts[i]
Shows(rule, v, dated) == IF dated THEN MatchesDates(rule, v) ELSE Matches(rule, v)

(* ---- value maps: apply_value_map ----                                        *)
\* The rules of a band are painted over each other from the last to the first.
\* Mutant: the rules are painted in their own order.
InOwnOrder(rules) == rules
PaintOrder(rules) == Reverse(rules)
PaintBand(rules, v, dated) ==
    FoldLeft(LAMBDA under, r : IF Shows(r.v, v, dated)
                               THEN Colour(Grey(r.v["color"].v), IF On(r.v, "mask") THEN 0
                                                                 ELSE Opt(r.v, "alpha", 255))
                               ELSE under,
             Transparent, PaintOrder(rules))
\* The band painted last shows; the order of a dictionary is left open here.
ValueMapped(map, at, dated) ==
    LET hit == {b \in DOMAIN map : \E r \in Range(map[b].v) : Shows(r.v, at[b], dated)}
    IN IF hit = {} THEN {Transparent} ELSE {PaintBand(map[b].v, at[b], dated) : b \in hit}
\* Value maps read the band the layer knows under the name; band_map is not asked.
Columns(lyr, map, data) == [b \in DOMAIN map |-> data[Aliases(lyr)[b]]]

(* ---- components: ComponentStyleDef.transform_single_date_data ----           *)
Clip(x, lo, hi) == IF x < lo THEN lo ELSE IF x > hi THEN hi ELSE x
Compressed(x, range) ==
    ((Clip(x, range[1], range[2]) - range[1]) * 255) \div (range[2] - range[1])
ScaleRange(raw, comp) ==
    Opt(comp, "scale_range",
        Opt(raw, "scale_range", IF Has(raw, "scale_factor") THEN <<0, 255 * raw["scale_factor"].v>>
                                ELSE <<>>))
Scaled(raw) == \A c \in Channels : LET comp == raw["components"].v[c].v
                                   IN Has(comp, "function") \/ ScaleRange(raw, comp) # <<>>
Components(st) == st.raw["components"].v
Intensities(comp) == DOMAIN comp \ {"scale_range"}
Loaded(lyr, st, at, b) == at[Aliases(lyr)[Local(st.bandMap, b)]]
Total(lyr, st, c, at) ==
    LET comp == Components(st)[c].v
        term(b) == Loaded(lyr, st, at, b) * comp[b].v
    IN MapThenSumSet(term, Intensities(comp))
Component(lyr, st, c, at, computed) ==
    LET comp == Components(st)[c].v
    IN IF Has(comp, "function") THEN computed % 256
       ELSE IF c = "alpha" THEN Total(lyr, st, c, at) % 256
       ELSE Compressed(Total(lyr, st, c, at), ScaleRange(st.raw, comp))
Composed(lyr, st, at, computed) ==
    Colour([c \in Channels |-> Component(lyr, st, c, at, computed)],
           IF Has(Components(st), "alpha") THEN Component(lyr, st, "alpha", at, computed) ELSE 255)

(* ---- colour ramps: ColorRamp, numpy.interp over its points ----              *)
PointColour(p) == p["color"].v
PointAlpha(p) == Opt(p, "alpha", 1) * 255
Interpolated(ramp, x, part) ==
    LET Of(p) == IF part = "color" THEN PointColour(p) ELSE PointAlpha(p)
        below == {i \in DOMAIN ramp : Value(ramp, i) <= x}
        i == Max(below)
    IN IF below = {} THEN Of(ramp[1].v)
       ELSE IF i = Len(ramp) THEN Of(ramp[i].v)
       ELSE Of(ramp[i].v) + ((Of(ramp[i + 1].v) - Of(ramp[i].v)) * (x - Value(ramp, i)))
                                \div (Value(ramp, i + 1) - Value(ramp, i))
\* An automatic legend adds a point where it ends, always after the last one.  Of
\* points that are out of order interpolation makes one or the other.
InOrder(cfg, ramp) == LegendEnd(Opt(cfg, "legend", NoItems), ramp) >= Value(ramp, Len(ramp))
Ramped(cfg, autoLegend, x) ==
    LET ramp == RampPoints(cfg)
    IN IF InOrder(cfg, ramp) \/ ~autoLegend
       THEN {Colour(Grey(Interpolated(ramp, x, "color")), Interpolated(ramp, x, "alpha"))}
       ELSE {Colour(Grey(PointColour(p.v)), PointAlpha(p.v)) : p \in Range(ramp)}

(* ---- hybrids: HybridStyleDef.transform_single_date_data ----                 *)
\* The sum so far is compressed again with every band that is added.
Recompressed(lyr, st, c, at, order) ==
    LET comp == Components(st)[c].v
    IN FoldLeft(LAMBDA sum, b : Compressed(sum + Loaded(lyr, st, at, b) * comp[b].v,
                                           ScaleRange(st.raw, comp)),
                0, order)
Blended(lyr, st, at, computed) ==
    LET ratio == st.raw["component_ratio"].v
        orders(c) == SetToSeqs(Intensities(Components(st)[c].v))
        mix(ramp, component) == (ramp * (100 - ratio) + component * ratio) \div 100
    IN {Colour([c \in Channels |-> mix(ramped.rgb[c], Recompressed(lyr, st, c, at, order[c]))],
               IF Has(Components(st), "alpha")
               THEN mix(ramped.alpha, Total(lyr, st, "alpha", at)) % 256 ELSE 255) :
           ramped \in Ramped(st.raw, FALSE, computed),
           order \in {o \in [Channels -> UNION {orders(c) : c \in Channels}] :
                         \A c \in Channels : o[c] \in orders(c)}}

(* ---- transform_data ----                                                     *)
\* The first handler that applies handles the dates.
HandlersFor(st, d) == {i \in DOMAIN st.handlers :
                          d \in HandlerRange(st.handlers[i])[1]..HandlerRange(st.handlers[i])[2]}
HandlerFor(st, d) == st.handlers[Min(HandlersFor(st, d))]
MapOf(st, h) == IF Has(h, "value_map") THEN h["value_map"].v ELSE st.raw["value_map"].v
\* The colours one date may get.
OneDate(lyr, st, at, computed) ==
    CASE st.kind = "map"       -> ValueMapped(MapOf(st, NoItems),
                                              Columns(lyr, MapOf(st, NoItems), at), FALSE)
      [] st.kind = "component" -> {Composed(lyr, st, at, computed)}
      [] st.kind = "ramp"      -> Ramped(st.raw, TRUE, computed)
      [] st.kind = "hybrid"    -> Blended(lyr, st, at, computed)
At(data, i) == [b \in DOMAIN data |-> data[b][i]]
\* A component style gives its handlers all the dates, whatever they aggregate.
PerDate(st, h) == On(h, "animate") \/ st.kind = "component"
\* The sequences of colours a handler may give, an aggregator any values.
Handled(lyr, st, h, data, d, computed) ==
    LET date(i) == IF st.kind = "hybrid" THEN Ramped(st.raw, FALSE, computed[i])
                   ELSE OneDate(lyr, st, At(data, i), computed[i])
        map == MapOf(st, h)
    IN IF PerDate(st, h)
       THEN {slices \in [1..d -> UNION {date(i) : i \in 1..d}] : \A i \in 1..d : slices[i] \in date(i)}
       ELSE IF st.kind # "map" THEN {<<c>> : c \in Ramped(h, st.kind = "ramp", computed[1])}
       ELSE IF Aggregated(h)
       THEN UNION {{<<c>> : c \in ValueMapped(map, Columns(lyr, map, agg), FALSE)} :
                      agg \in [DOMAIN data -> Values]}
       ELSE {<<c>> : c \in ValueMapped(map, Columns(lyr, map, data), TRUE)}
\* An animated value map without a match anywhere has no dates left.
Collapsed(st, slices) ==
    IF st.kind = "map" /\ Range(slices) = {Transparent} THEN <<Transparent>> ELSE slices
Transformed(lyr, st, data, d, computed) ==
    IF HandlersFor(st, d) = {} THEN {<<c>> : c \in OneDate(lyr, st, At(data, 1), computed[1])}
    ELSE {Collapsed(st, slices) : slices \in
             Handled(lyr, st, HandlerFor(st, d), data, d, computed)}

(* ---- to_mask and apply_mask_to_image ----                                    *)
\* The extent mask, narrowed by the masks of the style one after the other.
ToMask(st, data, valid) ==
    FoldLeft(LAMBDA result, m : [i \in DOMAIN valid |->
                                    result[i] /\ Matches(m, data[m["band"].v][i])],
             valid, st.masks)
\* The mask of the first date, narrowed by those of the other dates.
\* Mutant: the mask of each date takes the place of the one before.
FlatOfLast(mask) == FoldLeft(LAMBDA flat, slice : slice, Head(mask), Tail(mask))
FlatMask(mask) == FoldLeft(LAMBDA flat, slice : flat /\ slice, Head(mask), Tail(mask))
ApplyMask(mask, slices) ==
    LET flat == Len(slices) = 1 /\ Len(mask) > 1
        shown(i) == IF flat THEN FlatMask(mask) ELSE mask[i]
    IN [i \in DOMAIN slices |-> IF shown(i) THEN slices[i] ELSE Colour(slices[i].rgb, 0)]

(* ---- what drawing reads ----                                                 *)
HandlerOf(st, d) == IF HandlersFor(st, d) = {} THEN NoItems ELSE HandlerFor(st, d)
\* A handler of a hybrid draws the ramp only, and one may pass the data by the index.
Composes(st, h) == st.kind = "component" \/ (st.kind = "hybrid" /\ h = NoItems)
Evaluates(st, h) == /\ st.kind \in {"ramp", "hybrid"} /\ ~Has(st.raw, "index_function")
                    /\ On(h, "animate") \/ ~On(h, "pass_raw_data")
Linear(st) == {comp \in {Components(st)[c].v : c \in DOMAIN Components(st)} : ~Has(comp, "function")}
Reading(how, names) == [how : {how}, name : names]
\* What the functions of a configuration read is their own affair.
Reads(st, h) ==
    Reading("mask", {m["band"].v : m \in Range(st.masks)})
    \cup (IF st.kind = "map" THEN Reading("map", DOMAIN MapOf(st, h)) ELSE {})
    \cup (IF Composes(st, h) THEN Reading("component", UNION {Intensities(comp) : comp \in Linear(st)})
          ELSE {})
    \cup (IF Evaluates(st, h) THEN Reading("expression", Range(Expression(st.raw))) ELSE {})
\* Masks read their own name and value maps what the layer knows under it; for the
\* others band_map comes first.
Finds(lyr, st, loaded, read) ==
    LET b == IF read.how = "map" THEN read.name ELSE Local(st.bandMap, read.name)
    IN IF read.how = "mask" THEN read.name \in loaded
       ELSE b \in DOMAIN Aliases(lyr) /\ Aliases(lyr)[b] \in loaded
Missed(lyr, st, loaded, d) == {read \in Reads(st, HandlerOf(st, d)) : ~Finds(lyr, st, loaded, read)}

(* ---- a request ----                                                          *)
\* Without a scale there is nothing to compress to, and a hybrid blends neither
\* functions nor components without bands.
Fails(lyr, st, loaded, d) ==
    LET h == HandlerOf(st, d)
        comps == {Components(st)[c].v : c \in DOMAIN Components(st)}
    IN \/ Missed(lyr, st, loaded, d) # {}
       \/ Composes(st, h) /\ ~Scaled(st.raw)
       \/ /\ st.kind = "hybrid" /\ h = NoItems
          /\ \E comp \in comps : Has(comp, "function") \/ Intensities(comp) = {}
NoPicture == [result |-> "none"]
Unseen(n, s, d, result) ==
    [layer |-> n, style |-> s, dates |-> d, data |-> [b \in ready[n].styles[s].data |-> <<>>],
     valid |-> <<>>, result |-> result, painted |-> <<>>, slices |-> <<>>]
Picture(n, s, d, data, valid, painted) ==
    [layer |-> n, style |-> s, dates |-> d, data |-> data, valid |-> valid, result |-> "image",
     painted |-> painted, slices |-> ApplyMask(ToMask(Layer(n).styles[s], data, valid), painted)]

Draw(n, s, d) ==
    LET lyr == Layer(n)
        st == lyr.styles[s]
        bands == ready[n].styles[s].data
        handled == d = 1 \/ HandlersFor(st, d) # {}
    IN \/ ~handled /\ drawn' = Unseen(n, s, d, "refused")
       \/ handled /\ Fails(lyr, st, bands, d) /\ drawn' = Unseen(n, s, d, "error")
       \/ /\ handled /\ ~Fails(lyr, st, bands, d)
          /\ \E data \in [bands -> [1..d -> Values]], valid \in [1..d -> BOOLEAN],
                computed \in [1..d -> Computed] :
                \E painted \in Transformed(lyr, st, data, d, computed) :
                   drawn' = Picture(n, s, d, data, valid, painted)

DrawInit == ConfigInit /\ drawn = NoPicture
DrawNext ==
    \/ ConfigNext /\ UNCHANGED drawn
    \/ /\ stage = "up" /\ config \in Drawn /\ drawn = NoPicture
       /\ \E n \in DOMAIN ready : \E s \in DOMAIN ready[n].styles, d \in Dates :
              ~ready[n].hidden /\ Draw(n, s, d)
       /\ UNCHANGED vars
DrawSpec == DrawInit /\ [][DrawNext]_<<vars, drawn>>

(* ---- properties ----                                                        *)
DrawnStyle == Layer(drawn.layer).styles[drawn.style]

(* A pixel of a value map has the colour of the first rule of a band that        *)
(* matches, whatever rules after it match too (apply_value_map paints them in   *)
(* the reverse order).                                                          *)
FirstRuleWins ==
    drawn.result = "image" /\ DrawnStyle.kind = "map" /\ HandlersFor(DrawnStyle, drawn.dates) = {} =>
        LET map == DrawnStyle.raw["value_map"].v
            at == Columns(Layer(drawn.layer), map, At(drawn.data, 1))
            matching(b) == {i \in DOMAIN map[b].v : Matches(map[b].v[i].v, at[b])}
            rgb == drawn.slices[1].rgb
        IN \/ rgb = Grey(0) /\ \A b \in DOMAIN map : matching(b) = {}
           \/ \E b \in DOMAIN map : /\ matching(b) # {}
                                   /\ rgb = Grey(map[b].v[Min(matching(b))].v["color"].v)

\* The extent has the pixel on the date, and every mask of the style lets it pass.
Unmasked(i) == /\ drawn.valid[i]
               /\ \A m \in Range(DrawnStyle.masks) : Matches(m, drawn.data[m["band"].v][i])
(* Masks take out what they should and nothing else: a frame of an animation is *)
(* transparent where its own date fails a mask or the extent, a picture made of *)
(* several dates where any of them does, and what passes shows as it was        *)
(* painted (to_mask, apply_mask_to_image).                                      *)
MaskedExactly ==
    drawn.result = "image" =>
        \A i \in DOMAIN drawn.painted :
            drawn.slices[i].alpha =
                IF \A j \in 1..drawn.dates : Len(drawn.painted) = 1 \/ j = i => Unmasked(j)
                THEN drawn.painted[i].alpha ELSE 0

\* What make_ready overlooks: it resolves the names of masks, which read the data
\* under their own; it looks at the value map of the style and not at those of its
\* handlers, and through band_map, which value maps do not ask; and it sends the
\* bands of an expression through band_map once more.
Overlooked(lyr, st, read) ==
    LET b == read.name
        own == Aliases(lyr)[Local(st.bandMap, b)]
    IN CASE read.how = "mask"       -> MainFlag(lyr, BandNamed(lyr.flags, b)) /\ own # b
         [] read.how = "map"        -> Local(st.bandMap, b) # b \/ b \notin DOMAIN st.raw["value_map"].v
         [] read.how = "expression" -> Aliases(lyr)[Local(st.bandMap, own)] # own
         [] read.how = "component"  -> FALSE
(* A style of a layer that got ready finds every band it reads among those a    *)
(* request for it loads, from the products of the layer and those of its flag   *)
(* bands and under the names the data has: all of its components', and those of *)
(* its masks, value maps and index expression but for the names make_ready      *)
(* overlooks (make_ready of the style, style_queries, to_mask, transform_data). *)
LoadedSuffices ==
    drawn.result = "error" =>
        LET lyr == Layer(drawn.layer)
        IN \A read \in Missed(lyr, DrawnStyle, DOMAIN drawn.data, drawn.dates) :
              Overlooked(lyr, DrawnStyle, read)
===============================================================================
