-------------------------- MODULE MCCoverageRequests --------------------------
(* Three coverages, three CRSs that have boxes and one that has none, and      *)
(* requests of version 1 and 2 with up to two subsets and two scales.          *)
EXTENDS CoverageRequests

MCCRSs == [n |-> [horizontal |-> "x", vertical |-> "y"],
           a |-> [horizontal |-> "longitude", vertical |-> "latitude"],
           b |-> [horizontal |-> "east", vertical |-> "north"],
           off |-> [horizontal |-> "x", vertical |-> "y"]]
MCShear == [n |-> 0, a |-> 1, b |-> -1, off |-> 2]
MCURNs == [urn_a |-> "a"]
P(x, y) == [x |-> x, y |-> y]
Box(x1, y1, x2, y2) == [min |-> P(x1, y1), max |-> P(x2, y2)]
Band(n, l) == [name |-> n, aliases |-> {n, l}, label |-> l]

MCLayers ==
    [land |-> [native |-> "n", extent |-> Box(0, 0, 12, 12), resolution |-> P(2, -2),
               boxed |-> {"n", "a", "b"}, wcs |-> TRUE, times |-> <<1, 3, 4>>, default |-> 4,
               subday |-> FALSE, format |-> "tiff", styles |-> [rgb |-> {"r", "g"}],
               bands |-> <<Band("r", "red"), Band("g", "green"), Band("i", "nir")>>],
     sea  |-> [native |-> "a", extent |-> Box(-4, -4, 8, 8), resolution |-> P(3, -3),
               boxed |-> {"a", "n"}, wcs |-> TRUE, times |-> <<2>>, default |-> 2,
               subday |-> TRUE, format |-> "netcdf", styles |-> [rgb |-> {"r"}],
               bands |-> <<Band("r", "red"), [Band("g", "green") EXCEPT !.label = "vert"]>>],
     air  |-> [native |-> "n", extent |-> Box(0, 0, 4, 4), resolution |-> P(1, -1),
               boxed |-> {"n"}, wcs |-> FALSE, times |-> <<2>>, default |-> 2,
               subday |-> FALSE, format |-> "tiff", styles |-> [rgb |-> {"r"}],
               bands |-> <<Band("r", "red")>>]]
MCFormats == [tiff |-> [multiTime |-> FALSE, versions |-> {1, 2}],
              netcdf |-> [multiTime |-> TRUE, versions |-> {1, 2}],
              old |-> [multiTime |-> TRUE, versions |-> {1}]]

TrimOf(a, l, h) == [axis |-> a, kind |-> "trim", low |-> l, high |-> h]
PointOf(a, v) == [axis |-> a, kind |-> "slice", at |-> v]
AxisSubsets(names) ==
    {TrimOf(a, i[1], i[2]) : a \in names, i \in {<<2, 9>>, <<4, 6>>, <<3, 5>>, <<0, 12>>, <<9, 2>>}}
    \cup {TrimOf(a, 3, Unset) : a \in names} \cup {PointOf(a, 4) : a \in names}
TimeSubsets == {TrimOf("time", 1, 1), TrimOf("time", 2, 4), TrimOf("time", Unset, 3),
                TrimOf("time", 2, Unset), PointOf("time", 3), PointOf("time", 7)}
NoSubsets == {<<>>, <<PointOf("height", 1)>>}
SubsetLists == {<<s>> : s \in AxisSubsets({"x", "y"}) \cup TimeSubsets}
               \cup {<<s, t>> : s \in AxisSubsets({"x", "longitude", "i"}), t \in AxisSubsets({"y"})}
               \cup {<<s, t>> : s \in AxisSubsets({"y"}), t \in TimeSubsets}
               \cup {<<s, s>> : s \in TimeSubsets} \cup {<<TrimOf("x", 0, 4), PointOf("i", 6)>>}

ScaleOf(a, n, d) == [axis |-> a, kind |-> "factor", num |-> n, den |-> d]
SizeOf(a, n) == [axis |-> a, kind |-> "size", num |-> n]
ExtentOf(a, l, h) == [axis |-> a, kind |-> "extent", low |-> l, high |-> h]
AxisScales(a) == {ScaleOf(a, 2, 1), ScaleOf(a, 1, 2), ScaleOf(a, 1, 20), SizeOf(a, 5), SizeOf(a, 0),
                  ExtentOf(a, 2, 6), ExtentOf(a, 6, 2)}
ScaleLists == {<<>>} \cup {<<s>> : s \in AxisScales("x") \cup AxisScales("j") \cup AxisScales("time")
                                         \cup AxisScales("depth")}
              \cup {<<s, t>> : s \in AxisScales("x"), t \in AxisScales("y")}
              \cup {<<s, s>> : s \in AxisScales("x")} \cup {<<SizeOf("x", 2), SizeOf("i", 2)>>}

Field(f) == [from |-> f, to |-> f, single |-> TRUE]
FieldRange(f, t) == [from |-> f, to |-> t, single |-> FALSE]
Labels0 == {"red", "green", "nir"}
RangeLists == {<<Field(f)>> : f \in Labels0 \cup {"blue"}}
              \cup {<<FieldRange(f, t)>> : f, t \in Labels0}
              \cup {<<Field("nir"), FieldRange("red", "green")>>}

Two == [coverage |-> "land"]
Coverages == {"land", "sea", "air", "nowhere"}
CRSNames == {"n", "a", "b", "off", "urn_a", "nonsense"}
With(name, values, given) == {[x \in {name} |-> v] @@ g : v \in values, g \in given}
Requests2 ==
    LET subset == With("subset", SubsetLists \cup NoSubsets, {Two, [coverage |-> "sea"]})
        crs == With("outputcrs", CRSNames, With("subsettingcrs", CRSNames, {Two}))
        far == With("subset", SubsetLists, With("outputcrs", {"n", "a", "b"},
                                                With("subsettingcrs", {"n", "a", "b"}, {Two})))
        scale == With("scale", ScaleLists, {Two} \cup
                     With("subset", {<<TrimOf("x", 2, 9)>>, <<TrimOf("x", 4, 6)>>,
                                     <<TrimOf("x", 3, 7), TrimOf("y", 3, 8)>>}, {Two}))
        fields == With("rangesubset", RangeLists, {Two})
    IN  {[coverage |-> c] : c \in Coverages} \cup crs
        \cup With("format", {"tiff", "netcdf", "old", "png"},
                  subset \cup fields \cup scale \cup far \cup {[coverage |-> "sea"]})

One == [coverage |-> "land", format |-> "tiff", crs |-> "n", bbox |-> Box(2, 2, 9, 8),
        width |-> Num(5), height |-> Num(4)]
Res(x, y) == [resx |-> x, resy |-> y]
           @@ [k \in {"coverage", "format", "crs", "bbox"} |-> One[k]]
Values(name) ==
    CASE name = "coverage" -> Coverages
      [] name = "format" -> {"tiff", "netcdf", "png"}
      [] name \in {"crs", "response_crs"} -> {"n", "a", "b", "nonsense"}
      [] name = "bbox" -> {Box(2, 2, 9, 8), Box(9, 2, 2, 8), Box(0, 0, 1, 12), Box(4, 4, 4, 6)}
      [] name = "time" -> {<<1>>, <<3, 1>>, <<1, Unset>>, <<2>>, <<Unset>>}
      [] name = "measurements" -> {<<"red">>, <<"g", "nir">>, <<"blue">>, <<"">>, <<"", "">>}
      [] name = "styles" -> {<<"rgb">>, <<"none">>, <<"rgb", "rgb">>}
      [] name = "exceptions" -> {"xml", "html"}
      [] name = "interpolation" -> {"nearest", "cubic"}
      [] name \in {"width", "height", "resx", "resy"} -> {Num(3), Num(7), Num(0), Word}
Names1 == {"coverage", "format", "crs", "response_crs", "bbox", "time", "measurements", "styles",
           "exceptions", "interpolation", "width", "height", "resx", "resy"}
Requests1 ==
    LET base == {One, Res(Num(2), Num(2)), Res(Num(3), Num(9)), Res(Num(20), Num(2))}
        once == UNION {With(n, Values(n), base) : n \in Names1}
    IN  base \cup once
        \cup {[k \in DOMAIN g \ {n} |-> g[k]] : g \in {One, Res(Num(2), Num(2))}, n \in Names1}
        \cup UNION {With(p[1], Values(p[1]), With(p[2], Values(p[2]), base)) :
                    p \in {<<"crs", "response_crs">>, <<"format", "time">>, <<"resx", "resy">>,
                           <<"bbox", "crs">>, <<"bbox", "response_crs">>, <<"coverage", "measurements">>}}
Descriptions ==
    {[coverages |-> c, version |-> v] : v \in {"2.0", "2.1", "2.2"},
                                        c \in {<<"land">>, <<"land", "sea">>, <<"air">>}}
MCRequests ==
    [op : {"GetCoverage2"}, args : Requests2] \cup [op : {"GetCoverage1"}, args : Requests1]
    \cup [op : {"Describe2"}, args : Descriptions]
    \cup [op : {"Describe1"}, args : {<<>>} \cup Descriptions]
=============================================================================
