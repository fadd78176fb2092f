---------------------------- MODULE ServiceRequests ----------------------------
(***************************************************************************)
(* One HTTP request, from its route to its response: which service and     *)
(* which version of it is addressed, which handler runs, the handler's     *)
(* checks in their order, and which family of exception reports an error.  *)
(*                                                                         *)
(* What a handler does once its parameters are accepted is the subject of  *)
(* other modules (DataRequests, CoverageRequests, ConfigReadiness); here   *)
(* it succeeds, raises an exception of its service, or fails unexpectedly. *)
(* Requests share nothing, so one at a time is enough.                     *)
(***************************************************************************)
EXTENDS MapParameters

CONSTANTS
    Activated,     \* the services switched on in the configuration
    VersionParts,  \* [version text -> its parts, split at the dots]
    Requests       \* requests that may come: [path, args]

ASSUME ActivatedAssumption == Activated \subseteq {"wms", "wmts", "wcs"}

\* A part of a version is a number, or digits and then something else, or
\* neither: whether it is a number, and the one its digits make.
ASSUME VersionPartsAssumption ==
    \A text \in DOMAIN VersionParts :
        /\ VersionParts[text] \in Seq([pure : BOOLEAN, digits : SUBSET Nat])
        /\ \A part \in Range(VersionParts[text]) :
               /\ \A m, n \in part.digits : m = n
               /\ part.pure => part.digits # {}

\* A box that cannot be read as four numbers is the empty one.
ASSUME RequestsAssumption ==
    \A r \in Requests :
        /\ Get(r.args, "version", "") \in DOMAIN VersionParts \cup {""}
        /\ Has(r.args, "bbox") => r.args["bbox"] = <<>> \/ r.args["bbox"] \in [1 .. 4 -> Int]
        /\ Has(r.args, "width") => r.args["width"].val \in Nat
        /\ \A name \in {"i", "x"} : Has(r.args, name) => r.args[name].val \in Int
        /\ Has(r.args, "time") => \A item \in Range(r.args["time"]) :
               /\ item.kind \in {"none", "time", "range", "junk"}
               /\ item.kind = "time" => item.at \in Int

VARIABLES
    config,   \* get_config returns; if not, it raises
    request,  \* the request: path and arguments
    stage,    \* what is done next
    svc,      \* the service, once routed
    version,  \* the negotiated version of it
    op,       \* the operation, once the handler is entered
    args,     \* the arguments; those of GetMap once a tile is translated
    todo,     \* the checks still to be made
    resp      \* the response

vars == <<config, request, stage, svc, version, op, args, todo, resp>>

-----------------------------------------------------------------------------
(* Services and versions: OWS_SUPPORTED *)

Supported == [wms  |-> << [parts |-> <<1, 3, 0>>, class |-> "WMS"] >>,
              wmts |-> << [parts |-> <<1, 0, 0>>, class |-> "WMTS"] >>,
              wcs  |-> << [parts |-> <<1, 0, 0>>, class |-> "WCS1"],
                          [parts |-> <<2, 0, 0>>, class |-> "WCS2"],
                          [parts |-> <<2, 1, 0>>, class |-> "WCS2"] >>]
DefaultClass(s) == Supported[s][1].class

\* Mutant: not filled up.
ShortParts(parts) == [i \in 1 .. Len(parts) |-> Max({0} \cup parts[i].digits)]

\* _clean_version_parts: up to the first part that is not a number, the digits
\* it starts with included; filled up with zeros to three.
CleanParts(parts) ==
    LET impure == {i \in DOMAIN parts : ~parts[i].pure}
        last == IF impure = {} THEN Len(parts) ELSE Min(impure)
        taken == {i \in 1 .. last : parts[i].digits # {}}
    IN  [i \in 1 .. Max({3} \cup taken) |->
            IF i \in taken THEN CHOOSE n \in parts[i].digits : TRUE ELSE 0]

\* Python's order of lists: the first difference, else the length.
Below(a, b) ==
    \/ \E i \in DOMAIN a \cap DOMAIN b :
           a[i] < b[i] /\ \A j \in 1 .. i - 1 : a[j] = b[j]
    \/ IsStrictPrefix(a, b)

\* negotiated_version: the highest that is not above the version asked for,
\* the highest of all if none is given, and the lowest if all are above.
Negotiated(s, text) ==
    LET versions == Supported[s]
        asked == CleanParts(VersionParts[text])
        fitting == {i \in DOMAIN versions : ~Below(asked, versions[i].parts)}
    IN  IF text = "" THEN Len(versions)
        ELSE IF fitting = {} THEN 1 ELSE Max(fitting)

Class == Supported[svc][version].class

-----------------------------------------------------------------------------
(* Responses *)

NoResponse == [family |-> "none", status |-> 0]
Answer(family, status) ==
    /\ resp' = [family |-> family, status |-> status]
    /\ stage' = "done"
    /\ todo' = <<>>
    /\ UNCHANGED <<config, request, svc, version, op, args>>

\* Around the router: an OGC exception answers for itself, anything else is
\* reported with status 500 as an exception of the version.
Failed(e) == Answer(IF e.class = "error" THEN Class ELSE e.class, e.status)

\* Mutant: as it was raised.
Unwrapped(e) == e

\* get_tile and get_feature_info of WMTS raise a WMS exception again as theirs.
Rewrapped(e) == IF svc = "wmts" /\ e.class = "WMS" THEN [e EXCEPT !.class = "WMTS"] ELSE e
HandlerFails(e) == Failed(Rewrapped(e))

\* Without a configuration no exception can be reported: the headers of the
\* report are the configuration's, and asking for it raises again.
Unhandled == Answer("unhandled", 500)

-----------------------------------------------------------------------------
(* Routes *)

Init ==
    /\ config \in BOOLEAN /\ request \in Requests
    /\ stage = "route" /\ svc = "none" /\ version = 0 /\ op = "none"
    /\ args = request.args /\ todo = <<>> /\ resp = NoResponse

Operation == Get(args, "request", "")
Service   == Get(args, "service", "")

WMSRequests == {"GETMAP", "GETFEATUREINFO", "GETLEGENDGRAPHIC"}
WCSRequests == {"DESCRIBECOVERAGE", "GETCOVERAGE"}

\* What "/" makes of a request: the service it names, else one that has the
\* operation.
DerivedService ==
    IF Service # "" THEN {Service}
    ELSE IF Operation \in WMSRequests THEN {"wms"}
    ELSE IF Operation \in WCSRequests THEN {"wcs"} ELSE {}

PathService == [p \in {"/wms", "/wmts", "/wcs"} |->
    CASE p = "/wms" -> "wms" [] p = "/wmts" -> "wmts" [] p = "/wcs" -> "wcs"]

ToService(s) ==
    /\ svc' = s
    /\ stage' = "service"
    /\ UNCHANGED <<config, request, version, op, args, todo, resp>>

RouteByPath ==
    /\ stage = "route" /\ request.path \in DOMAIN PathService
    /\ ToService(PathService[request.path])

RouteRoot ==
    /\ stage = "route" /\ request.path = "/"
    /\ \/ \E s \in DerivedService : ToService(s)
       \/ DerivedService = {} /\ ~config /\ Unhandled
       \/ DerivedService = {} /\ config /\ Operation # "" /\ Answer("WMS", 400)
       \/ DerivedService = {} /\ config /\ Operation = "" /\ Answer("html", 200)

\* A configuration that cannot be made ready is outside the try; then the
\* database is asked for one row of ows.layer_ranges.
Ping ==
    /\ stage = "route" /\ request.path = "/ping"
    /\ \E row \in BOOLEAN :
           IF ~config THEN Unhandled
           ELSE Answer("html", IF row THEN 200 ELSE 500)

\* /legend/<layer>/<style>/legend.png; a style without a legend is unknown too.
Legend ==
    /\ stage = "route" /\ request.path = "/legend"
    /\ \E image, url \in BOOLEAN :
           IF ~config THEN Unhandled
           ELSE IF args["layer_name"] \notin DOMAIN Layers THEN Answer("text", 404)
           ELSE IF ~Get(args, "ndates", Num(0)).number THEN Unhandled
           ELSE IF args["style_name"] \notin Layers[args["layer_name"]].styles THEN Answer("text", 404)
           ELSE IF ~url THEN Answer("text", 400)
           ELSE IF image THEN Answer("image", 200) ELSE Answer("text", 404)

\* ogc_svc_impl: is the service known, switched on, and the one named?
Select ==
    /\ stage = "service"
    /\ IF ~config THEN Unhandled
       ELSE IF svc \notin DOMAIN Supported THEN Answer("WMS", 400)
       ELSE IF svc \notin Activated \/ Get(args, "service", svc) # svc
       THEN Answer(DefaultClass(svc), 400)
       ELSE /\ version' = Negotiated(svc, Get(args, "version", ""))
            /\ stage' = "handle"
            /\ UNCHANGED <<config, request, svc, op, args, todo, resp>>

-----------------------------------------------------------------------------
(* Handlers *)

OperationsOf(s) ==
    CASE s = "wms"  -> WMSRequests \cup {"GETCAPABILITIES"}
      [] s = "wmts" -> {"GETCAPABILITIES", "GETTILE", "GETFEATUREINFO"}
      [] s = "wcs"  -> WCSRequests \cup {"GETCAPABILITIES"}

Enter(next, steps) ==
    /\ op' = Operation
    /\ stage' = next /\ todo' = steps
    /\ UNCHANGED <<config, request, svc, version, args, resp>>

Handle ==
    /\ stage = "handle"
    /\ IF Operation \notin OperationsOf(svc) THEN Answer(Class, 400)
       ELSE IF Operation = "GETCAPABILITIES" THEN Enter("capabilities", <<>>)
       ELSE IF svc = "wms" THEN Enter("check", StepsOf(Operation))
       ELSE IF svc = "wmts" THEN Enter("translate", <<>>)
       ELSE Enter("coverage", <<>>)

\* The sections of WMTS and of WCS 1; WCS 2 ignores a section it does not know.
WMTSSections == {"all", "serviceidentification", "serviceprovider",
                 "operationsmetadata", "contents", "themes"}
WCS1Sections == {"/", "/wcs_capabilities/service", "/wcs_capabilities/capability",
                 "/wcs_capabilities/contentmetadata"}
BadSection ==
    /\ Has(args, "section")
    /\ \/ Class = "WMTS" /\ ~(Range(args["section"]) \subseteq WMTSSections)
       \/ Class = "WCS1" /\ ~(Len(args["section"]) = 1
                              /\ args["section"][1] \in WCS1Sections)

Capabilities ==
    /\ stage = "capabilities"
    /\ IF BadSection THEN Failed([class |-> Class, status |-> 400])
       ELSE \E status \in {200, 500} :    \* the template may fail
                Answer(IF status = 200 THEN "xml" ELSE Class, status)

\* wmts_args_to_wms
Translate ==
    /\ stage = "translate"
    /\ LET outcome == CheckTile(args)
           wmsOp == IF op = "GETTILE" THEN "GETMAP" ELSE "GETFEATUREINFO"
       IN  CASE outcome = "refuse" -> Failed([class |-> "WMTS", status |-> 400])
             [] outcome = "error"  -> Failed(Error)
             [] outcome = "ok"     ->
                    /\ args' = TileArgs(args)
                    /\ op' = wmsOp
                    /\ stage' = "check" /\ todo' = StepsOf(wmsOp)
                    /\ UNCHANGED <<config, request, svc, version, resp>>

CheckParameter ==
    /\ stage = "check" /\ todo # <<>>
    /\ LET outcome == Check(todo[1], op, args)
       IN  IF outcome # OK THEN HandlerFails(outcome)
           ELSE /\ todo' = Tail(todo)
                /\ UNCHANGED <<config, request, stage, svc, version, op, args, resp>>

\* Several dates need a handler of the style; the rest is in DataRequests.  A
\* legend may be missing (404) or its URL fail.
Serve ==
    /\ stage = "check" /\ todo = <<>>
    /\ LET layer == LayerOf(op, args)
           dates == Len(AcceptedTimes(args, layer))
       IN  IF /\ op = "GETMAP" /\ dates > 1
              /\ ~UserMath(args, layer) => dates \notin layer.multi
           THEN HandlerFails(Refuse)
           ELSE \/ Answer(IF op = "GETMAP" THEN "image" ELSE "data", 200)
                \/ HandlerFails(Error)
                \/ op # "GETFEATUREINFO" /\ HandlerFails(Refuse)
                \/ op = "GETLEGENDGRAPHIC" /\ HandlerFails(WMSError(404))

\* DescribeCoverage and GetCoverage: CoverageRequests.
Coverage ==
    /\ stage = "coverage"
    /\ \/ Answer("data", 200)
       \/ Failed([class |-> Class, status |-> 400])
       \/ Failed(Error)

Done == stage = "done" /\ UNCHANGED vars

Next ==
    \/ RouteByPath \/ RouteRoot \/ Ping \/ Legend \/ Select \/ Handle
    \/ Capabilities \/ Translate \/ CheckParameter \/ Serve \/ Coverage
    \/ Done

Spec == Init /\ [][Next]_vars

-----------------------------------------------------------------------------
(* Properties *)

\* The service the client addressed, from its request alone.
OwsPath == request.path \in DOMAIN PathService \cup {"/"}
Addressed ==
    LET sent == request.args  operation == Get(sent, "request", "")
    IN  IF request.path # "/" THEN PathService[request.path]
        ELSE IF Get(sent, "service", "") # "" THEN sent["service"]
        ELSE IF operation \in WCSRequests THEN "wcs" ELSE "wms"

\* The order of versions: a part that is missing counts as zero, and a fourth
\* does not count.
NotAbove(v, w) ==
    LET at(parts, i) == IF i \in DOMAIN parts THEN parts[i] ELSE 0
    IN  \/ at(v, 1) < at(w, 1)
        \/ at(v, 1) = at(w, 1) /\ at(v, 2) < at(w, 2)
        \/ at(v, 1) = at(w, 1) /\ at(v, 2) = at(w, 2) /\ at(v, 3) <= at(w, 3)

\* The version the client asks for, if it consists of numbers.
AskedVersion == LET parts == VersionParts[request.args["version"]]
                IN  [i \in DOMAIN parts |-> CHOOSE n \in parts[i].digits : TRUE]
PlainVersion == /\ Get(request.args, "version", "") # ""
                /\ \A i \in DOMAIN VersionParts[request.args["version"]] :
                       VersionParts[request.args["version"]][i].pure

\* However a request fails, in its route, its parameters, its tile or its
\* handler, the error is reported as an exception of the service the client
\* addressed, and to a client of WCS 2 as one of WCS 2 (ogc_svc_impl, and the
\* conversions in wmts.py), as long as the configuration can be read.
FamilyKept ==
    (stage = "done" /\ config /\ OwsPath /\ resp.status >= 400) =>
        /\ resp.family \in IF Addressed \in DOMAIN Supported
                            THEN {v.class : v \in Range(Supported[Addressed])}
                            ELSE {"WMS"}
        /\ (/\ Addressed = "wcs" /\ "wcs" \in Activated
            /\ Get(request.args, "service", "wcs") = "wcs"
            /\ PlainVersion /\ NotAbove(<<2, 0, 0>>, AskedVersion)) => resp.family = "WCS2"

\* Whatever parts a version has, the client gets the version it asked for if
\* it is supported, and never skips a nearer one: no supported version lies
\* above the negotiated one and not above the requested one
\* (protocol_versions.py).
VersionHonoured ==
    (version # 0 /\ PlainVersion) =>
        LET versions == Supported[svc]
            given == versions[version].parts
        IN  /\ \A i \in DOMAIN versions :
                   NotAbove(versions[i].parts, AskedVersion) => NotAbove(versions[i].parts, given)
            /\ ~NotAbove(given, AskedVersion) => version = 1

Parsed == stage = "check" /\ todo = <<>>

\* Where the client asked for data: a tile's place is origin plus rows and
\* columns of its matrix, whatever the axis order of the CRS.
AskedArea ==
    LET sent == request.args
        tms == TileSet(sent)
        span == tms.spans[sent["tilematrix"].val + 1]
        left == tms.origin[1] + span * sent["tilecol"].val
        top == tms.origin[2] - span * sent["tilerow"].val
    IN  IF svc = "wmts"
        THEN [minx |-> left, maxx |-> left + span, miny |-> top - span, maxy |-> top]
        ELSE Corners(sent, CRSOf(sent))

\* The Pacific projection ends at 30 degrees West.  An area that crosses that
\* meridian again, a whole turn after its nearest crossing, has no place in it.
CrossesAgain ==
    LET turn(x) == (x + 30) \div 360
        first == turn(AskedArea.minx)  last == turn(AskedArea.maxx)
    IN  first # last /\ (first >= 0 \/ last < 0)

\* The grid that is loaded covers the area the client asked for: through the
\* tile arithmetic, the axis order of the CRS (applied twice for a tile) and
\* the projection of requests near the anti-meridian to another CRS, for every
\* tile, inside its matrix or not
\* (tile_matrix_sets.py, wmts.py, wms_utils.py).
FootprintKept ==
    (Parsed /\ op # "GETLEGENDGRAPHIC" /\ ~CrossesAgain) =>
        LET box == Geobox(args, CRSOf(args))
            west == IF box.pacific THEN FromPacific(box.west) ELSE box.west
        IN  /\ (west - AskedArea.minx) % 360 = 0
            /\ ~box.pacific => west = AskedArea.minx
            /\ box.east - box.west = AskedArea.maxx - AskedArea.minx
            /\ box.south = AskedArea.miny /\ box.north = AskedArea.maxy

\* The longitude of what is searched: of the middle of the map, and for feature
\* information of the pixel asked for (a negative column counts from the right;
\* one outside the map fails before the search).
Longitude ==
    LET box == AskedArea
        width == args["width"].val
        column == args[PointNames(args)[1]].val % width
    IN  IF op = "GETFEATUREINFO"
        THEN box.minx + ((2 * column + 1) * (box.maxx - box.minx)) \div (2 * width)
        ELSE (box.minx + box.maxx) \div 2

\* The solar time there.
Centre == SolarTime(((Longitude + 180) % 360) - 180)

\* Bounds of what the search by time zone can be expected to find: datasets in
\* the same hour's strip as what is searched, taken at least the margin away
\* from midnight.
Near(ds)  == ds.lon - Centre \in -HourLen .. HourLen
Margin    == 2 * HourLen
Clear(ds) == Day(ds.begin + ds.lon - Margin) = Day(ds.end + ds.lon + Margin)

Advertises(layer, t, ds) ==
    IF layer.resolution = "subday" THEN Second(ds.begin) = Second(t)
                                   ELSE DateOf(layer.resolution, ds) = t

\* A date the layer advertises and the request's parser accepts (by equality,
\* by range, by default or to the second) is one for which the index search
\* returns the datasets that made it a date, and none of another date: the
\* rules of product_ranges.py, wms_utils.py, time_utils.py and mv_index.py
\* agree.  Of the datasets of a sub-day layer, those within the second that the
\* time lies in are meant, and the search starts at the time itself.
AcceptedTimesFindData ==
    (Parsed /\ op # "GETLEGENDGRAPHIC") =>
        LET layer == LayerOf(op, args)
            solar == layer.resolution = "solar"
        IN  \A t \in Range(AcceptedTimes(args, layer)) :
                LET found == Found(layer.resolution, layer.datasets, Centre, t)
                IN  /\ layer.axis.interval = 0 =>
                           \E ds \in layer.datasets : Advertises(layer, t, ds)
                    /\ \A ds \in layer.datasets :
                           /\ Advertises(layer, t, ds)
                           /\ solar => Near(ds) /\ Clear(ds)
                           /\ layer.resolution = "subday" => ds.begin >= t
                           => ds \in found
                    /\ \A ds \in found :
                           /\ solar => Near(ds) /\ Clear(ds)
                           /\ layer.resolution = "subday" => t % SecondLen = 0
                           => Advertises(layer, t, ds)
=============================================================================
