----------------------------- MODULE MapParameters -----------------------------
(***************************************************************************)
(* The parameters of WMS GetMap, GetFeatureInfo and GetLegendGraphic, and  *)
(* the translation of WMTS tiles into them.  A request's arguments are a   *)
(* function from the names that were given to values; each check below is  *)
(* one block of a constructor and answers with OK, with the WMS exception  *)
(* it raises or, where the code does not look, with an unexpected error.   *)
(*                                                                         *)
(* Numbers are records, so that something else than a number can be given. *)
(* Map coordinates are whole degrees; the projected coordinates of Web     *)
(* Mercator are proportional to the longitude, which is all that the       *)
(* anti-meridian rule depends on.                                          *)
(***************************************************************************)
EXTENDS TimeDimension

CONSTANTS
    CRSs,        \* published_CRSs: [name -> [verticalFirst, epsg3857 : BOOLEAN]]
    Layers,      \* layer_index: [name -> layer record]
    TileSets,    \* tile_matrix_sets: [name -> tile matrix set record]
    Ramps,       \* the colour ramps matplotlib knows
    MaxWidth, MaxHeight

ASSUME CRSsAssumption ==
    \A c \in DOMAIN CRSs : CRSs[c] \in [verticalFirst : BOOLEAN, epsg3857 : BOOLEAN]
ASSUME LayersAssumption ==
    \A n \in DOMAIN Layers :
        /\ Layers[n].resolution \in Resolutions
        /\ Layers[n].datasets # {} /\ IsFiniteSet(Layers[n].datasets)
        /\ \A ds \in Layers[n].datasets :
               ds.begin \in Int /\ ds.end \in Int /\ ds.lon \in Int /\ ds.begin <= ds.end
        /\ Layers[n].default \in Layers[n].styles
        /\ Layers[n].resolution = "subday" => Layers[n].axis.interval = 0
ASSUME TileSetsAssumption ==
    \A s \in DOMAIN TileSets :
        /\ TileSets[s].crs \in DOMAIN CRSs
        /\ TileSets[s].origin \in [1 .. 2 -> Int] /\ TileSets[s].spans \in Seq(Int)

Num(n) == [number |-> TRUE, val |-> n]
NaN    == [number |-> FALSE, val |-> 0]

Has(args, name) == name \in DOMAIN args
Get(args, name, default) == IF Has(args, name) THEN args[name] ELSE default

OK     == [class |-> "ok", status |-> 200]
WMSError(status) == [class |-> "WMS", status |-> status]
Refuse == WMSError(400)
Error  == [class |-> "error", status |-> 500]

-----------------------------------------------------------------------------
(* get_arg, get_layer_from_arg *)

\* A parameter a WMTS request lacks is handed over as None: nothing to lower().
Permitted(args, name, values) ==
    IF Get(args, name, "") = "None" THEN Error
    ELSE IF Get(args, name, "") \in values THEN OK ELSE Refuse

\* A layer argument is a sequence of names, what follows "__" in each cut off.
None == <<"None">>

LayerNames(args, name) == Get(args, name, <<"">>)

CheckLayer(args, name) ==
    LET names == LayerNames(args, name)
    IN  IF names = None THEN Error
        ELSE IF Len(names) = 1 /\ names[1] \in DOMAIN Layers THEN OK ELSE Refuse

-----------------------------------------------------------------------------
(* The bounding box *)

Corners(args, crs) ==
    LET b == args["bbox"]
    IN  IF CRSs[crs].verticalFirst
        THEN [miny |-> b[1], minx |-> b[2], maxy |-> b[3], maxx |-> b[4]]
        ELSE [minx |-> b[1], miny |-> b[2], maxx |-> b[3], maxy |-> b[4]]

\* Nearer to the anti-meridian than to the prime meridian: 13,000,000 m.
FarFromPrime  == 117
\* Mutant: boxes that merely reach beyond it, on either side.
ReachesAntimeridian(box) == box.minx < -FarFromPrime \/ box.maxx > FarFromPrime
NearAntimeridian(box) == box.maxx < -FarFromPrime \/ box.minx > FarFromPrime

\* EPSG:3832, Web Mercator around 150 degrees East.
ToPacific(x) == ((x - 150 + 180) % 360) - 180
FromPacific(x) == x + 150

Geobox(args, crs) ==
    LET box == Corners(args, crs)
        pacific == CRSs[crs].epsg3857 /\ NearAntimeridian(box)
        place(x) == IF pacific THEN ToPacific(x) ELSE x
    IN  [pacific |-> pacific, west |-> place(box.minx), east |-> place(box.maxx),
         south |-> box.miny, north |-> box.maxy]

CheckBox(args, crs) ==
    IF ~Has(args, "bbox") \/ Get(args, "bbox", <<>>) = <<>> THEN Error ELSE OK

CheckGeobox(args, crs) ==
    LET width == Get(args, "width", NaN)  height == Get(args, "height", NaN)
        box == Corners(args, crs)
    IN  IF ~width.number \/ ~height.number THEN Error
        ELSE IF box.minx = box.maxx \/ box.miny = box.maxy THEN Refuse
        ELSE IF width.val = 0 \/ height.val = 0 THEN Error ELSE OK

CheckSize(args) ==
    IF args["width"].val > MaxWidth \/ args["height"].val > MaxHeight
    THEN Refuse ELSE OK

-----------------------------------------------------------------------------
(* Times *)

TimesOf(layer) == DatesOf(layer.resolution, layer.datasets)

ParsedTimes(args, layer) ==
    LET items == Get(args, "time", <<NoItem>>)
    IN  [i \in DOMAIN items |-> ParseTimeItem(layer, TimesOf(layer), items[i])]

\* The items are parsed in order: the first bad one decides.
CheckTimes(args, layer) ==
    LET parsed == ParsedTimes(args, layer)
        bad == {i \in DOMAIN parsed : parsed[i].kind # "time"}
    IN  IF bad = {} THEN OK
        ELSE IF parsed[Min(bad)].kind = "invalid" THEN Refuse ELSE Error

AcceptedTimes(args, layer) ==
    LET parsed == ParsedTimes(args, layer) IN [i \in DOMAIN parsed |-> parsed[i].at]

-----------------------------------------------------------------------------
(* Styles: single_style_from_args *)

UserMath(args, layer) == layer.userMath /\ Has(args, "code") /\ Has(args, "colorscheme")

CheckUserMath(args) ==
    LET range == Get(args, "colorscalerange", <<Num(0), Num(1)>>)
    IN  IF /\ args["colorscheme"] \in Ramps
           /\ Len(range) = 2 /\ range[1].number /\ range[2].number
           /\ range[1].val < range[2].val
           /\ args["code"] = "valid"
        THEN OK ELSE Refuse

CheckStyle(args, layer) ==
    LET names == Get(args, "styles", <<"">>)
    IN  IF UserMath(args, layer) THEN CheckUserMath(args)
        ELSE IF names = None THEN Error
        ELSE IF Len(names) = 1 /\ names[1] \in layer.styles \cup {""}
        THEN OK ELSE Refuse

-----------------------------------------------------------------------------
(* GetFeatureInfo's pixel *)

PointNames(args) == IF args["version"] = "1.1.1" THEN <<"x", "y">> ELSE <<"i", "j">>

CheckPoint(args) ==
    LET names == PointNames(args)
    IN  IF ~Has(args, names[1]) \/ ~Has(args, names[2]) THEN Refuse
        ELSE IF args[names[1]].number /\ args[names[2]].number THEN OK ELSE Error

-----------------------------------------------------------------------------
(* The constructors: the checks in the order they are made *)

CommonSteps == <<"version", "crs", "layer", "bbox", "geobox", "times">>

StepsOf(op) ==
    CASE op = "GETMAP" -> CommonSteps \o <<"format", "style", "size">>
      [] op = "GETFEATUREINFO" -> CommonSteps \o <<"info_format", "point", "style">>
      [] op = "GETLEGENDGRAPHIC" -> <<"layer", "format", "style", "times">>

LayerArg(op) ==
    CASE op = "GETMAP" -> "layers"
      [] op = "GETFEATUREINFO" -> "query_layers"
      [] op = "GETLEGENDGRAPHIC" -> "layer"

CRSArg(args) == IF args["version"] = "1.1.1" THEN "srs" ELSE "crs"
CRSOf(args) == args[CRSArg(args)]
LayerOf(op, args) == Layers[LayerNames(args, LayerArg(op))[1]]

Check(step, op, args) ==
    CASE step = "version" -> Permitted(args, "version", {"1.1.1", "1.3.0"})
      [] step = "crs"     -> Permitted(args, CRSArg(args), DOMAIN CRSs)
      [] step = "layer"   -> CheckLayer(args, LayerArg(op))
      [] step = "bbox"    -> CheckBox(args, CRSOf(args))
      [] step = "geobox"  -> CheckGeobox(args, CRSOf(args))
      [] step = "times"   -> CheckTimes(args, LayerOf(op, args))
      [] step = "format"  -> Permitted(args, "format", {"image/png"})
      [] step = "style"   -> CheckStyle(args, LayerOf(op, args))
      [] step = "size"    -> CheckSize(args)
      [] step = "info_format" ->
             Permitted(args, "info_format", {"application/json", "text/html"})
      [] step = "point"   -> CheckPoint(args)

-----------------------------------------------------------------------------
(* Tiles.  A tile matrix set has a CRS, possibly a well known name, the     *)
(* origin of its matrices and, for each scale, the width of a tile.         *)

\* By identifier, else by well known scale set; a name that is neither is
\* refused, and a missing one cannot be quoted in the refusal.
TileSetNamed(name) ==
    IF name \in DOMAIN TileSets THEN {name}
    ELSE {s \in DOMAIN TileSets : TileSets[s].wkss = name}

TileSetArg(args) == TileSetNamed(Get(args, "tilematrixset", "None"))
TileSet(args) == TileSets[CHOOSE s \in TileSetArg(args) : TRUE]

TileNumber(args, name, values) ==
    IF ~Has(args, name) THEN "error"
    ELSE IF args[name].number /\ args[name].val \in values THEN "ok" ELSE "refuse"

CheckTile(args) ==
    LET numbers == <<TileNumber(args, "tilematrix", 0 .. Len(TileSet(args).spans) - 1),
                     TileNumber(args, "tilerow", Int),
                     TileNumber(args, "tilecol", Int)>>
        bad == {i \in 1 .. 3 : numbers[i] # "ok"}
    IN  IF TileSetArg(args) = {}
        THEN IF Has(args, "tilematrixset") THEN "refuse" ELSE "error"
        ELSE IF bad = {} THEN "ok" ELSE numbers[Min(bad)]

\* wms_bbox_coords: rows are counted downwards (unit coefficient -1).
TileBox(tms, matrix, row, col) ==
    LET span == tms.spans[matrix + 1]
        mins == <<tms.origin[1] + col * span, tms.origin[2] - row * span>>
        maxs == <<mins[1] + span, mins[2] - span>>
    IN  IF CRSs[tms.crs].verticalFirst
        THEN <<maxs[2], mins[1], mins[2], maxs[1]>>
        ELSE <<mins[1], maxs[2], maxs[1], mins[2]>>

\* The box is written with six decimals and read again, which changes nothing
\* in whole degrees.
TileArgs(args) ==
    LET tms == TileSet(args)
        translated ==
            [version |-> "1.3.0", crs |-> tms.crs, width |-> Num(256), height |-> Num(256),
             bbox |-> TileBox(tms, args["tilematrix"].val,
                              args["tilerow"].val, args["tilecol"].val),
             layers |-> Get(args, "layer", None), query_layers |-> Get(args, "layer", None),
             styles |-> Get(args, "style", None), format |-> Get(args, "format", "None"),
             time |-> Get(args, "time", <<NoItem>>),
             i |-> Get(args, "i", NaN), j |-> Get(args, "j", NaN),
             info_format |-> Get(args, "infoformat", "")]
        lacking == IF Has(args, "i") THEN {} ELSE {"i", "j", "info_format"}
    IN  [name \in DOMAIN translated \ lacking |-> translated[name]]
=============================================================================
