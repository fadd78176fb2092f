------------------------------- MODULE WCSScaler -------------------------------
(***************************************************************************)
(* The grid of a WCS 2 coverage: the subsets and scales of a request, one  *)
(* after the other, applied to a scaler, and the pixel grid it ends with.  *)
(*                                                                         *)
(* A scaler, a box and a pixel size have a value for each axis, "x" or     *)
(* "y".  The scaler's bounds and sizes are Unset at first.  Coordinates    *)
(* are integers; the projection from one CRS to another is a shear, so     *)
(* that, as with the real ones, a rectangle does not stay a rectangle and  *)
(* boxes grow when they are projected.                                     *)
(***************************************************************************)
EXTENDS Integers, Sequences, FiniteSetsExt

CONSTANTS
    Unset,     \* no bound or no size (Python's None)
    CRSs,      \* published_CRSs: [name -> [horizontal, vertical : axis names]]
    Shear      \* [name of a CRS -> shear from a common CRS]

ASSUME UnsetAssumption == Unset \notin Int
ASSUME ShearAssumption == Shear \in [DOMAIN CRSs -> Int]

Axes == {"x", "y"}
Place == [Axes -> Int]
Region == [min : Place, max : Place]
Size(n) == IF n < 0 THEN -n ELSE n

\* Both ends of a box on each axis.
Corners(box) == {[x |-> box[i].x, y |-> box[j].y] : i, j \in {"min", "max"}}
Hull(points) == [min |-> [a \in Axes |-> Min({p[a] : p \in points})],
                 max |-> [a \in Axes |-> Max({p[a] : p \in points})]]

Project(p, from, to) == [x |-> p.x + (Shear[to] - Shear[from]) * p.y, y |-> p.y]
Reproject(box, from, to) == Hull({Project(p, from, to) : p \in Corners(box)})

-----------------------------------------------------------------------------
(* A layer's grids.  A layer has a native CRS, an extent and a resolution  *)
(* in it, and the CRSs its row of layer_ranges has a box for.              *)

BoxIn(layer, crs) == Reproject(layer.extent, layer.native, crs)

\* ready_wcs refuses a layer unless these are positive.
GridHigh(layer) ==
    [a \in Axes |-> (layer.extent.max[a] - layer.extent.min[a]) \div Size(layer.resolution[a])]
Sound(layer) == /\ \A a \in Axes : GridHigh(layer)[a] > 0
                /\ layer.resolution.y < 0 /\ layer.resolution.x # 0

\* Elsewhere the same number of pixels; the vertical resolution is negative
\* in the native CRS only.
Resolution(layer, crs) ==
    IF crs = layer.native THEN layer.resolution
    ELSE LET box == BoxIn(layer, crs)
         IN  [a \in Axes |-> (box.max[a] - box.min[a]) \div GridHigh(layer)[a]]

-----------------------------------------------------------------------------
(* The scaler *)

NewScaler(crs) == [crs |-> crs, names |-> crs,
                   min |-> [a \in Axes |-> Unset], max |-> [a \in Axes |-> Unset],
                   size |-> [a \in Axes |-> Unset], subsetted |-> [a \in Axes |-> FALSE]]

\* The axis that a name stands for: the names of the CRS the scaler was made
\* for, those of the native CRS, or common ones, in this order.
AxisOf(layer, crs, name) ==
    LET known == << <<{CRSs[crs].horizontal}, "x">>, <<{CRSs[crs].vertical}, "y">>,
                    <<{CRSs[layer.native].horizontal}, "x">>,
                    <<{CRSs[layer.native].vertical}, "y">>,
                    <<{"x", "i", "lon", "long", "lng", "longitude"}, "x">>,
                    <<{"y", "j", "lat", "latitude"}, "y">> >>
        fitting == {n \in DOMAIN known : name \in known[n][1]}
    IN  IF fitting = {} THEN "unknown" ELSE known[Min(fitting)][2]

Trim(s, axis, low, high) ==
    [s EXCEPT !.min[axis] = low, !.max[axis] = high, !.subsetted[axis] = TRUE]
Slice(s, axis, value) == Trim(s, axis, value, value)

\* Bounds of the axes that are not subsetted.
Filled(layer, s, crs) ==
    LET box == BoxIn(layer, crs)
        bound(end, a) == IF s.subsetted[a] THEN s[end][a] ELSE box[end][a]
    IN  [min |-> [a \in Axes |-> bound("min", a)], max |-> [a \in Axes |-> bound("max", a)]]

\* quantise_to_resolution: an axis shorter than 1.5 pixels becomes one pixel.
Quantise(layer, crs, s) ==
    LET res == Resolution(layer, crs)
        narrow == {a \in Axes : 2 * Size(s.max[a] - s.min[a]) < 3 * Size(res[a])}
    IN  [s EXCEPT !.max = [a \in Axes |-> IF a \in narrow THEN s.min[a] + res[a] ELSE @[a]],
                  !.size = [a \in Axes |-> IF a \in narrow THEN 1 ELSE @[a]]]

\* to_crs cannot do without the boxes of the CRS, nor with open bounds.
Convertible(layer, s, new) ==
    /\ new \in layer.boxed
    /\ (\E a \in Axes : s.subsetted[a]) /\ (\E a \in Axes : ~s.subsetted[a]) => s.crs \in layer.boxed
    /\ \A a \in Axes : s.subsetted[a] => Unset \notin {s.min[a], s.max[a]}

\* Mutant: the bounds of a projected box taken from two of its corners.
ToCRSDiagonal(layer, s, new) ==
    LET here == Filled(layer, s, s.crs)
        ends == {Project(here.min, s.crs, new), Project(here.max, s.crs, new)}
        box == IF \E a \in Axes : s.subsetted[a] THEN Hull(ends) ELSE BoxIn(layer, new)
    IN  Quantise(layer, new, [s EXCEPT !.crs = new, !.min = box.min, !.max = box.max])

\* to_crs: nothing subsetted, the same CRS, a point, or the bounding box of
\* the projected region, where axes that are not subsetted stay whole.
ToCRS(layer, s, new) ==
    LET res == Resolution(layer, new)
        here == Filled(layer, s, s.crs)
        box == Filled(layer, s, new)
        projected == Reproject(here, s.crs, new)
        at(end, a) == IF s.subsetted[a] THEN projected[end][a] ELSE box[end][a]
        point == Project(here.min, s.crs, new)
        bounds(min, max) == [s EXCEPT !.crs = new, !.min = min, !.max = max]
    IN  CASE \A a \in Axes : ~s.subsetted[a] -> Quantise(layer, new, bounds(box.min, box.max))
          [] (\E a \in Axes : s.subsetted[a]) /\ s.crs = new ->
                 Quantise(layer, new, bounds(here.min, here.max))
          [] (\A a \in Axes : s.subsetted[a]) /\ s.crs # new /\ here.min = here.max ->
                 [bounds(point, [a \in Axes |-> point[a] + res[a]])
                     EXCEPT !.size = [a \in Axes |-> 1]]
          [] (\E a \in Axes : s.subsetted[a]) /\ s.crs # new
             /\ ((\E a \in Axes : ~s.subsetted[a]) \/ here.min # here.max) ->
                 Quantise(layer, new, bounds([a \in Axes |-> at("min", a)],
                                             [a \in Axes |-> at("max", a)]))

\* set_size can be used once for an axis, with a positive size; a fraction
\* below one half is rounded to 0.  The size is num / den.
Sizable(s, axis, num) == s.size[axis] = Unset /\ num > 0
SetSize(s, axis, num, den) == [s EXCEPT !.size[axis] = (2 * num + den) \div (2 * den)]

\* The size of an axis at native resolution times a factor, num / den.
NativeSize(layer, s, axis, num) == Size((s.max[axis] - s.min[axis]) * num)
AxisDen(layer, s, axis, den) == Size(Resolution(layer, s.crs)[axis]) * den

\* affine: sizes that are still unset get the native resolution.
Completed(layer, s) ==
    [s EXCEPT !.size = [a \in Axes |->
        IF @[a] # Unset THEN @[a]
        ELSE SetSize(s, a, NativeSize(layer, s, a, 1), AxisDen(layer, s, a, 1)).size[a]]]
=============================================================================
