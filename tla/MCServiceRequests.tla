--------------------------- MODULE MCServiceRequests ---------------------------
(* Small layers, tile matrix sets and requests for ServiceRequests: requests   *)
(* that are right, and those with up to two arguments changed or left out.     *)
EXTENDS ServiceRequests

MCZoneOffset == [l \in -48 .. 48 |-> 4 * ((l + 2) \div 4) - 1]
ASSUME ZonesAssumption == ZonesNear

MCCRSs == [p3857 |-> [verticalFirst |-> FALSE, epsg3857 |-> TRUE],
           p4326 |-> [verticalFirst |-> TRUE, epsg3857 |-> FALSE]]

Irregular == [interval |-> 0, start |-> {}, end |-> {}]
Regular   == [interval |-> 2, start |-> {1}, end |-> {}]
DS(b, e, l) == [begin |-> b, end |-> e, lon |-> l]

\* Solar: around local midnight of two days, East and West.  Sub-day: the same
\* second twice, and the next.  Summary: periods that begin on two dates.
SolarData   == {DS(96, 96, 36), DS(150, 152, 36), DS(70, 72, 36), DS(160, 160, -40),
                DS(232, 234, 36)}
SubdayData  == {DS(101, 101, 0), DS(100, 100, 4), DS(102, 102, 0), DS(190, 190, 0)}
SummaryData == {DS(96, 191, 0), DS(192, 380, 0), DS(288, 290, 0)}
Layer(resolution, axis, data) ==
    [resolution |-> resolution, axis |-> axis, datasets |-> data,
     styles |-> {"rgb", "ndvi"}, default |-> "rgb", multi |-> {2},
     userMath |-> resolution = "solar"]
MCLayers == [solar |-> Layer("solar", Irregular, SolarData),
             subday |-> Layer("subday", Irregular, SubdayData),
             summary |-> Layer("summary", Irregular, SummaryData),
             regular |-> Layer("summary", Regular, SummaryData)]

MCTileSets ==
    [world  |-> [crs |-> "p3857", wkss |-> "google", origin |-> <<-180, 180>>,
                 spans |-> <<360, 180, 90, 45>>],
     latlon |-> [crs |-> "p4326", wkss |-> "None", origin |-> <<-180, 90>>,
                 spans |-> <<180, 90, 45>>]]

NumberPart(n)  == [pure |-> TRUE, digits |-> {n}]
LeadingPart(n) == [pure |-> FALSE, digits |-> {n}]
OtherPart      == [pure |-> FALSE, digits |-> {}]
MCVersionParts ==
    LET N(n) == NumberPart(n)
    IN  [v \in {"1.3.0", "1.1.1", "1", "2.0", "2.0.1", "2.1.0", "3", "0.9", "1.9.9",
                "2.1.0.5", "2.0a.9", "x.1"} |->
         CASE v = "1.3.0" -> <<N(1), N(3), N(0)>>  [] v = "1.1.1" -> <<N(1), N(1), N(1)>>
           [] v = "1" -> <<N(1)>>                  [] v = "2.0" -> <<N(2), N(0)>>
           [] v = "2.0.1" -> <<N(2), N(0), N(1)>>  [] v = "2.1.0" -> <<N(2), N(1), N(0)>>
           [] v = "3" -> <<N(3)>>                  [] v = "0.9" -> <<N(0), N(9)>>
           [] v = "1.9.9" -> <<N(1), N(9), N(9)>>
           [] v = "2.1.0.5" -> <<N(2), N(1), N(0), N(5)>>
           [] v = "2.0a.9" -> <<N(2), LeadingPart(0), N(9)>>
           [] v = "x.1" -> <<OtherPart, N(1)>>]

\* Boxes in the order of the CRS: inside, at and across the anti-meridian.
Boxes(vertical) ==
    {IF vertical THEN <<-10, x[1], 10, x[2]>> ELSE <<x[1], -10, x[2], 10>> :
     x \in {<<130, 140>>, <<-170, -130>>, <<170, 200>>, <<-200, -150>>, <<-180, 180>>,
            <<117, 180>>, <<-270, -120>>, <<-117, -90>>, <<100, 240>>, <<310, 350>>}}

DayTime(d) == TimeItem(DayLen * d + 40)
DayEnd(d)  == Instant(DayLen * d, DayLen * d + 93)
Times == {<<NoItem>>, <<Junk>>, <<DayTime(1), DayTime(2)>>, <<DayTime(1), NoItem, DayTime(2)>>}
         \cup {<<DayTime(d)>> : d \in 0 .. 4}
         \cup {<<TimeItem(t)>> : t \in {100, 101, 102, 103, 190, 191, 90}}
         \cup {<<RangeItem(a, b)>> : a, b \in {DayEnd(0), DayEnd(1), DayEnd(3),
                                               Duration(96), Present}}

MapArgs == [service |-> "wms", request |-> "GETMAP", version |-> "1.3.0", layers |-> <<"solar">>,
            crs |-> "p3857", bbox |-> <<130, -10, 140, 10>>, width |-> Num(2),
            height |-> Num(2), styles |-> <<"">>, format |-> "image/png"]
InfoArgs == [query_layers |-> <<"solar">>, info_format |-> "text/html", i |-> Num(0),
             j |-> Num(1)] @@ [MapArgs EXCEPT !.request = "GETFEATUREINFO"]
LegendArgs == [service |-> "wms", request |-> "GETLEGENDGRAPHIC", layer |-> <<"solar">>,
               format |-> "image/png", styles |-> <<"ndvi">>]
TileArgs0 == [service |-> "wmts", request |-> "GETTILE", layer |-> <<"solar">>,
              style |-> <<"">>, format |-> "image/png", tilematrixset |-> "world",
              tilematrix |-> Num(2), tilerow |-> Num(1), tilecol |-> Num(3)]
TileInfoArgs == [i |-> Num(0), j |-> Num(0), infoformat |-> "application/json"]
                @@ [TileArgs0 EXCEPT !.request = "GETFEATUREINFO"]
CapabilityArgs(s) == [service |-> s, request |-> "GETCAPABILITIES"]
CoverageArgs == [service |-> "wcs", request |-> "GETCOVERAGE", version |-> "2.0.1"]

Values(name) ==
    CASE name = "service" -> {"wms", "wmts", "wcs", "foo"}
      [] name = "request" -> {"GETMAP", "GETTILE", "GETCOVERAGE", "GETFEATUREINFO", "FOO"}
      [] name = "version" -> DOMAIN MCVersionParts
      [] name \in {"layers", "query_layers", "layer"} ->
             {<<l>> : l \in DOMAIN MCLayers \cup {"nosuch"}} \cup {<<"solar", "subday">>}
      [] name \in {"crs", "srs"} -> {"p3857", "p4326", "p1"}
      [] name = "bbox" -> Boxes(FALSE) \cup Boxes(TRUE) \cup {<<>>, <<1, 1, 1, 2>>}
      [] name = "width" -> {Num(0), Num(3), Num(9), NaN}
      [] name = "height" -> {Num(9), NaN}
      [] name \in {"styles", "style"} -> {<<"">>, <<"ndvi">>, <<"nosuch">>, <<"rgb", "rgb">>}
      [] name \in {"format", "info_format", "infoformat"} -> {"image/png", "text/html", "other"}
      [] name = "time" -> Times
      [] name \in {"i", "j", "x", "y"} -> {Num(1), NaN}
      [] name = "tilematrixset" -> {"world", "google", "latlon", "nosuch"}
      [] name = "tilematrix" -> {Num(0), Num(3), Num(4), NaN}
      [] name = "tilerow" -> {Num(0), Num(2), Num(9), NaN}
      [] name = "tilecol" -> {Num(0), Num(1), Num(7), NaN}
      [] name = "section" -> {<<"all">>, <<"contents", "themes">>, <<"/">>, <<"nosuch">>}
      [] name = "code" -> {"valid", "bad"}
      [] name = "colorscheme" -> {"viridis", "bad"}
      [] name = "colorscalerange" -> {<<Num(0), Num(2)>>, <<Num(2), Num(1)>>, <<NaN>>}

Names == {"service", "request", "version", "layers", "query_layers", "layer", "crs", "srs",
          "bbox", "width", "height", "styles", "style", "format", "info_format", "time",
          "i", "j", "x", "tilematrixset", "tilematrix", "tilerow", "tilecol", "section",
          "colorscheme", "code", "colorscalerange"}

With(given, name)    == {[a \in {name} |-> v] @@ given : v \in Values(name)}
Without(given, name) == [a \in DOMAIN given \ {name} |-> given[a]]

Base == {MapArgs, InfoArgs, LegendArgs, TileArgs0, TileInfoArgs, CoverageArgs}
        \cup {CapabilityArgs(s) : s \in {"wms", "wmts", "wcs"}}
Once(given) == {Without(given, n) : n \in DOMAIN given} \cup UNION {With(given, n) : n \in Names}
Pairs == {<<"crs", "bbox">>, <<"layers", "time">>, <<"tilematrixset", "tilecol">>,
          <<"tilerow", "tilematrix">>, <<"service", "version">>, <<"layers", "bbox">>,
          <<"version", "srs">>, <<"version", "section">>, <<"tilematrix", "tilecol">>}
Both(given, p) == UNION {With(b, p[1]) : b \in With(given, p[2])}
Maths == {[code |-> c, colorscheme |-> r, colorscalerange |-> g] @@ MapArgs :
          c \in Values("code"), r \in Values("colorscheme"), g \in Values("colorscalerange")}
LegendPaths == {[layer_name |-> l, style_name |-> s] : l \in {"solar", "nosuch"}, s \in {"rgb", "nosuch"}}
               \cup {[layer_name |-> "solar", style_name |-> "rgb", ndates |-> NaN]}

Sent == Base \cup UNION {Once(b) : b \in Base} \cup UNION {Both(b, p) : b \in Base, p \in Pairs}
        \cup Maths
NoService(given) == Without(given, "service")
MCRequests ==
    [path : {"/"}, args : Sent \cup {NoService(a) : a \in Base} \cup {<<>>}]
    \cup [path : {"/wms", "/wmts", "/wcs"}, args : {NoService(a) : a \in Base}
                                                   \cup UNION {With(a, "service") : a \in Base}]
    \cup [path : {"/ping"}, args : {<<>>}] \cup [path : {"/legend"}, args : LegendPaths]
=============================================================================
