--------------------------- MODULE CoverageRequests ---------------------------
(***************************************************************************)
(* WCS DescribeCoverage and GetCoverage, versions 1 and 2: how a request   *)
(* becomes a grid, dates, bands and a format, and how it is refused.  What *)
(* is then loaded and counted is in DataRequests.                          *)
(*                                                                         *)
(* A request is a function from the names of the arguments that were given *)
(* to their values; those of version 2 are what its decoder (a library)    *)
(* makes of them: subsets, scales and range subset are sequences.          *)
(***************************************************************************)
EXTENDS WCSScaler, SequencesExt

CONSTANTS
    Layers,      \* layer_index: [name -> layer record]
    Formats,     \* wcs_formats_by_name: [name -> [mime, multiTime, versions]]
    CRSURNs,     \* [URL or URN of a CRS -> its name]
    Requests     \* requests that may come: [op, args]

IsSequence(list) == list \in Seq(Range(list))
Ascends(list) == \A i, j \in DOMAIN list : i <= j => list[i] <= list[j]

\* A name or an alias stands for one band (add_aliases refuses others), and a
\* style needs bands of the layer.
BandsSound(layer) ==
    LET called(i) == {layer.bands[i].name} \cup layer.bands[i].aliases
    IN  /\ IsSequence(layer.bands)
        /\ \A i, j \in DOMAIN layer.bands : called(i) \cap called(j) # {} => i = j
        /\ \A style \in DOMAIN layer.styles :
               layer.styles[style] \subseteq {band.name : band \in Range(layer.bands)}

ASSUME LayersAssumption ==
    \A n \in DOMAIN Layers : /\ Layers[n].native \in DOMAIN CRSs
                             /\ Layers[n].extent \in Region /\ Layers[n].resolution \in Place
                             /\ Sound(Layers[n])
                             /\ IsSequence(Layers[n].times) /\ Layers[n].times # <<>>
                             /\ Range(Layers[n].times) \subseteq Int /\ Ascends(Layers[n].times)
                             /\ Layers[n].default \in Int
                             /\ Layers[n].format \in DOMAIN Formats
                             /\ BandsSound(Layers[n])

\* The label of a band stands for no other band.  The configuration does not see
\* to that: labels are translated.
LabelsClear ==
    \A n \in DOMAIN Layers : \A i, j \in DOMAIN Layers[n].bands :
        LET other == Layers[n].bands[j]
        IN  Layers[n].bands[i].label \in {other.name, other.label} \cup other.aliases => i = j

\* With "time", they are the dimensions of one array.
ASSUME AxesAssumption ==
    \A c \in DOMAIN CRSs : /\ CRSs[c].horizontal # CRSs[c].vertical
                           /\ {CRSs[c].horizontal, CRSs[c].vertical} \cap {"time", "k"} = {}

SubsetSound(subset) ==
    \/ subset.kind = "slice" /\ subset.at \in Int
    \/ subset.kind = "trim" /\ {subset.low, subset.high} \subseteq Int \cup {Unset}
FieldSound(item) == item.single => item.from = item.to
TimeSound(item) == item \in Int \cup {Unset}
ScaleSound(scale) ==
    \/ scale.kind = "factor" /\ scale.num \in Int /\ scale.den \in Nat \ {0}
    \/ scale.kind = "size" /\ scale.num \in Int
    \/ scale.kind = "extent" /\ {scale.low, scale.high} \subseteq Int

\* A box has four numbers; a subset has bounds, of which one may be open, or a
\* point; a scale is a factor, a size or an extent; a size or a resolution of
\* version 1 is a number or not; a time is a date or "now".
ASSUME RequestsAssumption ==
    \A r \in Requests :
        LET has(name) == name \in DOMAIN r.args
            list(name, Item(_)) == has(name) => /\ IsSequence(r.args[name])
                                                /\ \A item \in Range(r.args[name]) : Item(item)
        IN  /\ r.op \in {"Describe1", "Describe2", "GetCoverage1", "GetCoverage2"}
            /\ has("bbox") => r.args["bbox"] \in Region
            /\ list("subset", SubsetSound) /\ list("scale", ScaleSound)
            /\ list("rangesubset", FieldSound) /\ list("time", TimeSound)
            /\ \A name \in {"width", "height", "resx", "resy"} :
                   has(name) => r.args[name] \in [number : BOOLEAN, val : Int]

VARIABLES
    request,   \* operation and arguments
    stage,     \* what is done next
    todo,      \* checks, subsets or scales still to come
    scaler,    \* WCS 2: the scaler
    times,     \* the dates selected so far
    bands,     \* the set of bands selected
    result     \* [outcome, grid]

vars == <<request, stage, todo, scaler, times, bands, result>>

args == request.args
Given(name) == name \in DOMAIN args
Arg(name, default) == IF Given(name) THEN args[name] ELSE default
Word == [number |-> FALSE, val |-> 0]
Num(n) == [number |-> TRUE, val |-> n]
Positive(name) == args[name].number /\ args[name].val > 0

Coverage == Layers[args["coverage"]]
Version == IF request.op = "GetCoverage1" THEN 1 ELSE 2
NoGrid == <<>>
NoResult == [outcome |-> "none", grid |-> NoGrid]

Finish(outcome, grid) ==
    /\ result' = [outcome |-> outcome, grid |-> grid]
    /\ stage' = "done" /\ todo' = <<>>
    /\ UNCHANGED <<request, scaler, times, bands>>
Refused == Finish("refused", NoGrid)    \* an exception of the service
Error == Finish("error", NoGrid)        \* any other

-----------------------------------------------------------------------------
(* Lists of dates *)

\* The places of a list in an order, a set of pairs: each at the count of those
\* up to it.
Ordered(places, order) ==
    [i \in 1 .. Cardinality(places) |->
        CHOOSE p \in places : Cardinality({q \in places : <<q, p>> \in order}) = i]

\* The list in that order of its places.
Listed(list, places, order) ==
    [i \in 1 .. Cardinality(places) |-> list[Ordered(places, order)[i]]]

Along(list) == {p \in (DOMAIN list) \X (DOMAIN list) : p[1] <= p[2]}
Upwards(list) == {p \in (DOMAIN list) \X (DOMAIN list) :
                     list[p[1]] < list[p[2]] \/ (list[p[1]] = list[p[2]] /\ p[1] <= p[2])}

\* A comprehension with a condition, and list.sort.
Selected(list, places) == Listed(list, places, Along(list))
Sorted(list) == Listed(list, DOMAIN list, Upwards(list))

-----------------------------------------------------------------------------
(* Bands: BandIndex.  A band has a name, aliases and a label; a label that *)
(* was translated need not be one of the aliases.                          *)

Labels(layer) == [i \in DOMAIN layer.bands |-> layer.bands[i].label]

BandNamed(layer, name) ==
    {i \in DOMAIN layer.bands : name = layer.bands[i].name \/ name \in layer.bands[i].aliases}

\* By name or alias, else by label.
LocaleBand(layer, name) ==
    IF BandNamed(layer, name) # {} THEN BandNamed(layer, name)
    ELSE {i \in DOMAIN layer.bands : name = layer.bands[i].label}

\* dtype_size knows no labels.
Sized(layer, names) == \A n \in names : BandNamed(layer, n) # {}

-----------------------------------------------------------------------------
(* The resulting grid *)

Grid(crs, min, max, size) == [crs |-> crs, min |-> min, max |-> max, size |-> size]

\* Affine and GeoBox, the selection of the format's renderer (after the data
\* is loaded), the sizes of the bands.
Answer(format, grid) ==
    IF \/ \E a \in Axes : grid.size[a] = 0
       \/ ~Sized(Coverage, bands) \/ Version \notin Formats[format].versions
    THEN Error ELSE Finish("accepted", grid)

-----------------------------------------------------------------------------
(* Version 1: WCS1GetCoverageRequest *)

Steps1 == <<"coverage", "format", "crs", "response_crs", "bbox", "time", "bands",
            "exceptions", "interpolation", "size">>

KnownCoverage == Given("coverage") /\ args["coverage"] \in DOMAIN Layers /\ Coverage.wcs
KnownFormat   == Given("format") /\ args["format"] \in DOMAIN Formats
RequestCRS    == args["crs"]
ResponseCRS   == Arg("response_crs", RequestCRS)

\* The box in the response's CRS.
Extent1 == Reproject(args["bbox"], RequestCRS, ResponseCRS)
Bounds1 == IF RequestCRS = ResponseCRS THEN args["bbox"] ELSE Extent1

\* The dates asked for; "now" (Unset) is passed over.
Dates(list) == Selected(list, {i \in DOMAIN list : list[i] # Unset})
Asked1 == Dates(args["time"])
Times1 == IF Given("time") THEN Sorted(Asked1) ELSE <<Coverage.default>>

\* Dates only are looked up, so none is found among the times of a sub-day
\* layer.  Too many dates for the format are an error: the message takes the
\* format for a dictionary.
TimeOutcome ==
    IF ~Given("time") THEN "ok"
    ELSE IF \/ \E t \in Range(Asked1) : Coverage.subday \/ ~Contains(Coverage.times, t)
            \/ Asked1 = <<>> THEN "refuse"
    ELSE IF Len(Asked1) > 1 /\ ~Formats[args["format"]].multiTime THEN "error" ELSE "ok"

\* Measurements, else the bands of a style, else all.
\* A list of nothing but commas selects no bands at all.
Written(list) == Range(list) \ {""}
Measurements == Written(args["measurements"])
BandsOutcome ==
    IF Given("measurements")
    THEN IF \/ args["measurements"] = <<"">>
            \/ \E n \in Measurements : LocaleBand(Coverage, n) = {}
         THEN "refuse" ELSE "ok"
    ELSE IF Len(Arg("styles", <<>>)) > 1 THEN "refuse" ELSE "ok"
StyleBands ==
    LET styles == Arg("styles", <<>>)
    IN  IF styles = <<>> \/ styles[1] \notin DOMAIN Coverage.styles THEN {}
        ELSE Coverage.styles[styles[1]]
Bands1 ==
    IF Given("measurements")
    THEN {Coverage.bands[Min(LocaleBand(Coverage, n))].name : n \in Measurements}
    ELSE IF StyleBands # {} THEN StyleBands ELSE Range(Labels(Coverage))

\* WIDTH and HEIGHT, or RESX and RESY, both positive.
SizeOutcome ==
    IF \/ {"width", "height"} \subseteq DOMAIN args /\ ~Given("resx") /\ ~Given("resy")
          /\ Positive("width") /\ Positive("height")
       \/ {"resx", "resy"} \subseteq DOMAIN args /\ ~Given("width") /\ ~Given("height")
          /\ Positive("resx") /\ Positive("resy")
    THEN "ok" ELSE "refuse"

\* Mutant: not rounded.
PixelsDown(extent, res) == extent \div res

\* int(... + 0.5), which rounds towards zero.
Pixels(extent, res) ==
    LET twice == 2 * extent + res
    IN  IF twice < 0 THEN -((-twice) \div (2 * res)) ELSE twice \div (2 * res)

Grid1 ==
    Grid(ResponseCRS, Bounds1.min, Bounds1.max,
         IF Given("width") THEN [x |-> args["width"].val, y |-> args["height"].val]
         ELSE [x |-> Pixels(Bounds1.max.x - Bounds1.min.x, args["resx"].val),
               y |-> Pixels(Bounds1.max.y - Bounds1.min.y, args["resy"].val)])

Outcome1(step) ==
    LET check(ok) == IF ok THEN "ok" ELSE "refuse"
    IN  CASE step = "coverage" -> check(KnownCoverage)
          [] step = "format" -> check(KnownFormat)
          [] step = "crs" -> check(Given("crs") /\ args["crs"] \in DOMAIN CRSs)
          [] step = "response_crs" -> check(ResponseCRS \in DOMAIN CRSs)
          [] step = "bbox" -> check(Given("bbox"))
          [] step = "time" -> TimeOutcome
          [] step = "bands" -> BandsOutcome
          [] step = "exceptions" -> check(Arg("exceptions", "xml") = "xml")
          [] step = "interpolation" -> check(Arg("interpolation", "nearest") = "nearest")
          [] step = "size" -> SizeOutcome

Check1 ==
    /\ stage = "check1" /\ todo # <<>>
    /\ \/ Outcome1(todo[1]) = "refuse" /\ Refused
       \/ Outcome1(todo[1]) = "error" /\ Error
       \/ /\ Outcome1(todo[1]) = "ok"
          /\ todo' = Tail(todo)
          /\ times' = IF todo[1] = "time" THEN Times1 ELSE times
          /\ bands' = IF todo[1] = "bands" THEN Bands1 ELSE bands
          /\ UNCHANGED <<request, stage, scaler, result>>

Grid1Done ==
    /\ stage = "check1" /\ todo = <<>>
    /\ Answer(args["format"], Grid1)

-----------------------------------------------------------------------------
(* Version 2: get_coverage_data *)

UniformCRS(name) == IF name \in DOMAIN CRSURNs THEN CRSURNs[name] ELSE name
SubsettingCRS == UniformCRS(Arg("subsettingcrs", Coverage.native))
OutputCRS == UniformCRS(Arg("outputcrs", SubsettingCRS))

Distinct(names) == Cardinality(Range(names)) = Len(names)
Subsets == Arg("subset", <<>>)
Scales == Arg("scale", <<>>)

Begin2 ==
    /\ stage = "begin2"
    /\ IF \/ ~KnownCoverage
          \/ SubsettingCRS \notin DOMAIN CRSs \/ OutputCRS \notin DOMAIN CRSs
          \/ ~Distinct([i \in DOMAIN Subsets |-> Subsets[i].axis])
       THEN Refused
       ELSE /\ scaler' = NewScaler(SubsettingCRS)
            /\ times' = Coverage.times
            /\ stage' = "subset" /\ todo' = Subsets
            /\ UNCHANGED <<request, bands, result>>

Continue(next, rest) ==
    /\ stage' = next /\ todo' = rest /\ UNCHANGED <<request, bands, result>>

\* Mutant: the upper bound left out.
TrimmedBelow(all, trim) ==
    Selected(all, {i \in DOMAIN all : /\ trim.low = Unset \/ trim.low <= all[i]
                                      /\ all[i] < trim.high})

\* An open lower bound selects from the first date on.
TrimmedTimes(all, trim) ==
    Selected(all, {i \in DOMAIN all : /\ trim.low = Unset \/ trim.low <= all[i]
                                      /\ all[i] <= trim.high})

\* A point in time is not looked up, and the day of it is taken whatever the
\* layer's dates are.
SubsetTime ==
    /\ stage = "subset" /\ todo # <<>> /\ todo[1].axis = "time"
    /\ IF todo[1].kind = "slice"
       THEN times' = <<todo[1].at>> /\ UNCHANGED scaler /\ Continue("subset", Tail(todo))
       ELSE IF todo[1].high = Unset \/ (todo[1].low = Unset /\ Coverage.subday)
       THEN Error
       ELSE /\ times' = TrimmedTimes(times, todo[1])
            /\ UNCHANGED scaler /\ Continue("subset", Tail(todo))

SubsetAxis ==
    /\ stage = "subset" /\ todo # <<>> /\ todo[1].axis # "time"
    /\ LET axis == AxisOf(Coverage, scaler.names, todo[1].axis)
       IN  IF axis = "unknown" THEN Refused
           ELSE /\ scaler' = IF todo[1].kind = "slice"
                             THEN Slice(scaler, axis, todo[1].at)
                             ELSE Trim(scaler, axis, todo[1].low, todo[1].high)
                /\ UNCHANGED times /\ Continue("subset", Tail(todo))

ToOutputCRS ==
    /\ stage = "subset" /\ todo = <<>>
    /\ IF ~Convertible(Coverage, scaler, OutputCRS) THEN Error
       ELSE IF ~Distinct([i \in DOMAIN Scales |-> Scales[i].axis]) THEN Refused
       ELSE /\ scaler' = ToCRS(Coverage, scaler, OutputCRS)
            /\ UNCHANGED times /\ Continue("scale", Scales)

\* An unknown axis, a size set twice and a size of 0 are not caught.
Scale ==
    /\ stage = "scale" /\ todo # <<>>
    /\ LET scale == todo[1]
           axis == AxisOf(Coverage, scaler.names, scale.axis)
           num == CASE scale.kind = "factor" -> NativeSize(Coverage, scaler, axis, scale.num)
                    [] scale.kind = "size"   -> scale.num
                    [] scale.kind = "extent" -> scale.high - scale.low
           den == IF scale.kind = "factor" THEN AxisDen(Coverage, scaler, axis, scale.den) ELSE 1
       IN  IF scale.axis \in {"time", "k"} THEN Refused
           ELSE IF axis = "unknown" THEN Error
           ELSE IF ~Sizable(scaler, axis, num) THEN Error
           ELSE /\ scaler' = SetSize(scaler, axis, num, den)
                /\ UNCHANGED times /\ Continue("scale", Tail(todo))

\* Python's list[start:stop], where a negative stop counts from the end.
PySlice(seq, start, stop) ==
    LET last == IF stop < 0 THEN Len(seq) + stop ELSE stop IN SubSeq(seq, start + 1, last)

\* Mutant: without the last band of a range.
IntervalShort(labels, first, last) == PySlice(labels, first, last)

\* The bands from one to another; if they are the same or in reverse order,
\* the end lies one before the last.
Interval(labels, first, last) ==
    PySlice(labels, first, IF last > first THEN last + 1 ELSE last - 1)

\* Python's list.index, from 1.
IndexOf(list, value) == SelectInSeq(list, LAMBDA v : v = value)

BandsOf(labels, item) ==
    IF item.from = item.to /\ item.single THEN <<item.from>>
    ELSE Interval(labels, IndexOf(labels, item.from) - 1, IndexOf(labels, item.to) - 1)

RangeSubset == Arg("rangesubset", <<>>)
Bands2 ==
    LET labels == Labels(Coverage)
    IN  IF RangeSubset = <<>> THEN Range(labels)
        ELSE UNION {Range(BandsOf(labels, r)) : r \in Range(RangeSubset)}
Format2 == Arg("format", Coverage.format)

Fields ==
    /\ stage = "scale" /\ todo = <<>>
    /\ IF \/ \E r \in Range(RangeSubset) : ~({r.from, r.to} \subseteq Range(Labels(Coverage)))
          \/ Format2 \notin DOMAIN Formats
          \/ Len(times) > 1 /\ ~Formats[Format2].multiTime
       THEN Refused
       ELSE bands' = Bands2 /\ stage' = "grid" /\ UNCHANGED <<request, todo, scaler, times, result>>

Grid2Done ==
    /\ stage = "grid"
    /\ LET s == Completed(Coverage, scaler)
       IN  Answer(Format2, Grid(s.crs, s.min, s.max, s.size))

-----------------------------------------------------------------------------
(* DescribeCoverage *)

\* Version 1 describes all coverages if none is named, and has to find one;
\* version 2 names them, and its version has an encoder.
Describe ==
    /\ stage = "describe"
    /\ LET served == {n \in DOMAIN Layers : Layers[n].wcs}
           named == Arg("coverages", <<>>)
       IN  IF ~(Range(named) \subseteq served) THEN Refused
           ELSE IF request.op = "Describe1" /\ named = <<>> /\ served = {} THEN Error
           ELSE IF request.op = "Describe2" /\ args["version"] \notin {"2.0", "2.1"} THEN Refused
           ELSE Finish("described", NoGrid)

FirstStage == [Describe1 |-> "describe", Describe2 |-> "describe",
               GetCoverage1 |-> "check1", GetCoverage2 |-> "begin2"]

Init ==
    /\ request \in Requests
    /\ stage = FirstStage[request.op]
    /\ todo = IF request.op = "GetCoverage1" THEN Steps1 ELSE <<>>
    /\ scaler = <<>> /\ times = <<>> /\ bands = {} /\ result = NoResult

Done == stage = "done" /\ UNCHANGED vars

Next ==
    \/ Check1 \/ Grid1Done \/ Begin2 \/ SubsetTime \/ SubsetAxis \/ ToOutputCRS \/ Scale
    \/ Fields \/ Grid2Done \/ Describe \/ Done

Spec == Init /\ [][Next]_vars

-----------------------------------------------------------------------------
(* Properties *)

Accepted == result.outcome = "accepted"

\* Where there is data, at least.
DataPoints(layer) == [x : layer.extent.min.x .. layer.extent.max.x,
                      y : layer.extent.min.y .. layer.extent.max.y]

InBox(p, box) == \A a \in Axes : box.min[a] <= p[a] /\ p[a] <= box.max[a]

SubsetAsks(p, subset) ==
    LET v == p[AxisOf(Coverage, SubsettingCRS, subset.axis)]
    IN  IF subset.kind = "slice" THEN v = subset.at ELSE subset.low <= v /\ v <= subset.high

AskedFor(p) ==
    IF Version = 1 THEN InBox(Project(p, Coverage.native, RequestCRS), args["bbox"])
    ELSE \A i \in DOMAIN Subsets : Subsets[i].axis # "time" =>
             SubsetAsks(Project(p, Coverage.native, SubsettingCRS), Subsets[i])

\* A grid of one pixel may lie beside what was asked for.
Holds(grid, p) ==
    \A a \in Axes :
        LET slack == IF Version = 2 /\ grid.size[a] = 1
                     THEN 3 * Size(Resolution(Coverage, grid.crs)[a]) ELSE 0
        IN  /\ 2 * Min({grid.min[a], grid.max[a]}) - slack <= 2 * p[a]
            /\ 2 * p[a] <= 2 * Max({grid.min[a], grid.max[a]}) + slack

\* Whatever the CRSs of the request, of the response and of the data are, and
\* whichever axes are subsetted, the grid holds every place of the layer that
\* was asked for, or is the pixel next to it if less than 1.5 pixels were
\* asked for (WCSScaler.to_crs, WCS1GetCoverageRequest).
GridCovers ==
    Accepted => \A p \in DataPoints(Coverage) :
        AskedFor(p) => Holds(result.grid, Project(p, Coverage.native, result.grid.crs))

\* What create_coverage_description says of an axis.
Announced(layer) ==
    [a \in Axes |-> [label |-> IF a = "x" THEN CRSs[layer.native].horizontal
                                          ELSE CRSs[layer.native].vertical,
                     lower |-> layer.extent.min[a], upper |-> layer.extent.max[a],
                     pixel |-> Size(layer.resolution[a])]]

Within(layer, subset) ==
    IF subset.axis = "time"
    THEN subset.kind = "trim" /\ subset.high # Unset /\ (subset.low # Unset \/ ~layer.subday)
         /\ \E t \in Range(layer.times) : (subset.low = Unset \/ subset.low <= t) /\ t <= subset.high
    ELSE \E a \in Axes :
             LET axis == Announced(layer)[a]
             IN  /\ axis.label = subset.axis /\ subset.kind = "trim"
                 /\ Unset \notin {subset.low, subset.high}
                 /\ axis.lower <= subset.low /\ subset.high <= axis.upper
                 /\ subset.low < subset.high

\* What the subsets leave of an axis.
Remaining(layer, a) ==
    LET axis == Announced(layer)[a]
    IN  Min({axis.upper - axis.lower} \cup
            {s.high - s.low : s \in {r \in Range(Subsets) : r.axis = axis.label}})

\* A scale of an axis that is not too short leaves at least a pixel of it.
Sensible(layer, scale) ==
    \E a \in Axes :
        LET axis == Announced(layer)[a]
            extent == Remaining(layer, a)
        IN  /\ scale.axis = axis.label /\ 2 * extent >= 3 * axis.pixel
            /\ CASE scale.kind = "factor" -> 2 * extent * scale.num >= axis.pixel * scale.den
                 [] scale.kind = "size"   -> scale.num >= 1
                 [] scale.kind = "extent" -> scale.high > scale.low

FormatFits(format, count) ==
    format \in DOMAIN Formats => /\ Version \in Formats[format].versions
                                 /\ count > 1 => Formats[format].multiTime

Reasonable2 ==
    /\ request.op = "GetCoverage2" /\ KnownCoverage
    /\ \A b \in Range(Coverage.bands) : b.label \in b.aliases
    /\ SubsettingCRS = Coverage.native /\ OutputCRS \in {SubsettingCRS} \cap Coverage.boxed
    /\ Format2 \in DOMAIN Formats /\ FormatFits(Format2, Len(times))
    /\ Distinct([i \in DOMAIN Subsets |-> Subsets[i].axis])
    /\ Distinct([i \in DOMAIN Scales |-> Scales[i].axis])
    /\ \A s \in Range(Subsets) : Within(Coverage, s)
    /\ \A s \in Range(Scales) : Sensible(Coverage, s)
    /\ \A r \in Range(RangeSubset) : {r.from, r.to} \subseteq Range(Labels(Coverage))

Reasonable1 ==
    /\ request.op = "GetCoverage1" /\ KnownCoverage /\ KnownFormat
    /\ \A b \in Range(Coverage.bands) : b.label \in b.aliases
    /\ {"crs", "bbox"} \subseteq DOMAIN args
    /\ {RequestCRS, ResponseCRS} \subseteq DOMAIN CRSs
    /\ \A a \in Axes : args["bbox"].min[a] < args["bbox"].max[a]
    /\ Given("time") => ~Coverage.subday /\ Asked1 # <<>> /\ Range(Asked1) \subseteq Range(Coverage.times)
    /\ FormatFits(args["format"], IF Given("time") THEN Len(Asked1) ELSE 1)
    /\ BandsOutcome = "ok" /\ SizeOutcome = "ok"
    /\ Given("resx") => \A a \in Axes :
           2 * (args["bbox"].max[a] - args["bbox"].min[a])
               >= args[IF a = "x" THEN "resx" ELSE "resy"].val
    /\ ~Given("exceptions") /\ ~Given("interpolation")

\* A request that keeps to what the coverage's description announces (axes and
\* their bounds, dates, fields, formats, at least half a pixel after scaling)
\* is never refused and never fails: it ends with a grid that has pixels
\* (wcs2.create_coverage_description against get_coverage_data; the WCS 1
\* parameters).
DescribedIsServed ==
    (stage = "done" /\ (Reasonable1 \/ Reasonable2)) =>
        Accepted /\ \A a \in Axes : result.grid.size[a] > 0

\* The dates of an accepted request are the advertised ones in the interval
\* asked for, in order, or the ones listed; a point in time stands for itself;
\* and a format of one date never gets more (wcs2_utils.py, wcs1_utils.py).
DatesAsAsked ==
    Accepted =>
        LET trims == {s \in Range(Subsets) : s.axis = "time" /\ s.kind = "trim"}
            points == {s.at : s \in {r \in Range(Subsets) : r.axis = "time" /\ r.kind = "slice"}}
            from(s) == IF s.low = Unset THEN Coverage.times[1] ELSE s.low
        IN  /\ Len(times) > 1 =>
                   Formats[IF Version = 1 THEN args["format"] ELSE Format2].multiTime
            /\ \A i \in DOMAIN times : i > 1 => times[i - 1] <= times[i]
            /\ IF Version = 1
               THEN Range(times) = IF Given("time") THEN Range(Asked1) ELSE {Coverage.default}
               ELSE IF points # {} THEN Range(times) = points
               ELSE Range(times) = {t \in Range(Coverage.times) :
                                    \A s \in trims : t \in from(s) .. s.high}

\* Every band asked for is delivered, under whatever name it was asked for,
\* and no other: for single fields and for ranges in the announced order
\* (get_coverage_data, BandIndex).
FieldsAsAsked ==
    Accepted =>
        LET labels == Labels(Coverage)
            at(name) == IndexOf(labels, name)
            delivered == UNION {BandNamed(Coverage, b) : b \in bands}
            forward == \A r \in Range(RangeSubset) : r.single \/ at(r.from) < at(r.to)
        IN  IF Version = 1
            THEN Given("measurements") =>
                     delivered = UNION {LocaleBand(Coverage, n) : n \in Measurements}
            ELSE forward /\ RangeSubset # <<>> =>
                     delivered = UNION {at(r.from) .. at(r.to) : r \in Range(RangeSubset)}
=============================================================================
