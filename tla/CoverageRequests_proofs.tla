------------------------ MODULE CoverageRequests_proofs ------------------------
(***************************************************************************)
(* Proofs about coverages, for any layers, CRSs and requests.              *)
(*                                                                         *)
(* What was asked for follows the scaler: while there are subsets to come, *)
(* its bounds are those of subsets (Backed); what all the subsets ask for  *)
(* lies within them (Subsetted); what is projected lies in the box around  *)
(* the projected corners, or beside it if the box was made one pixel       *)
(* (Beside); and scales change the size of an axis but not its bounds.     *)
(* Bands and dates are selected once, from what was asked for.             *)
(***************************************************************************)
EXTENDS CoverageRequests, SequenceTheorems, FiniteSetTheorems, WellFoundedInduction, TLAPS

-----------------------------------------------------------------------------
(* Boxes and their projections *)

\* The least and the greatest of four numbers.
LEMMA BoundsOfFour ==
  ASSUME NEW a \in Int, NEW b \in Int, NEW c \in Int, NEW d \in Int
  PROVE  /\ Min({a, b, c, d}) \in Int /\ Max({a, b, c, d}) \in Int
         /\ \A n \in {a, b, c, d} : Min({a, b, c, d}) <= n /\ n <= Max({a, b, c, d})
<1>1. \E m \in {a, b, c, d} : \A n \in {a, b, c, d} : m <= n
  OBVIOUS
<1>2. \E m \in {a, b, c, d} : \A n \in {a, b, c, d} : m >= n
  OBVIOUS
<1> DEFINE S == {a, b, c, d}
<1>3. S \subseteq Int
  OBVIOUS
<1> HIDE DEF S
<1>4. Min(S) \in S /\ \A n \in S : Min(S) <= n
  BY <1>1 DEF Min, S
<1>5. Max(S) \in S /\ \A n \in S : Max(S) >= n
  BY <1>2 DEF Max, S
<1>6. Min(S) \in Int /\ Max(S) \in Int /\ \A n \in S : Min(S) <= n /\ n <= Max(S)
  BY <1>3, <1>4, <1>5
<1> QED BY <1>6 DEF S

\* The least and the greatest of two.
LEMMA BoundsOfTwo ==
  ASSUME NEW a \in Int, NEW b \in Int
  PROVE  /\ Min({a, b}) \in Int /\ Max({a, b}) \in Int
         /\ Min({a, b}) <= a /\ Min({a, b}) <= b /\ a <= Max({a, b}) /\ b <= Max({a, b})
<1>1. {a, b} = {a, b, b, b}
  OBVIOUS
<1> QED BY <1>1, BoundsOfFour

\* A multiple of a number between two lies between the multiples of these.
LEMMA MultipleBetween ==
  ASSUME NEW k \in Int, NEW low \in Int, NEW n \in Int, NEW high \in Int, low <= n, n <= high
  PROVE  \/ k * low <= k * n /\ k * n <= k * high
         \/ k * high <= k * n /\ k * n <= k * low
<1>1. \A a, b \in Nat : a * b \in Nat
  OBVIOUS
<1>2. CASE k >= 0
  <2>1. k * (n - low) \in Nat /\ k * (high - n) \in Nat
    BY <1>1, <1>2
  <2>2. k * (n - low) = k * n - k * low /\ k * (high - n) = k * high - k * n
    OBVIOUS
  <2> QED BY <2>1, <2>2
<1>3. CASE k < 0
  <2>1. (-k) * (n - low) \in Nat /\ (-k) * (high - n) \in Nat
    BY <1>1, <1>3
  <2>2. (-k) * (n - low) = k * low - k * n /\ (-k) * (high - n) = k * n - k * high
    OBVIOUS
  <2> QED BY <2>1, <2>2
<1> QED BY <1>2, <1>3

\* A place stays one in any CRS.
LEMMA PlaceProjected ==
  ASSUME NEW p \in Place, NEW from \in DOMAIN CRSs, NEW to \in DOMAIN CRSs
  PROVE  Project(p, from, to) \in Place
<1>1. Shear[from] \in Int /\ Shear[to] \in Int
  BY ShearAssumption
<1> QED BY <1>1 DEF Project, Place, Axes

\* Projecting from one CRS to another and on to a third is projecting once.
LEMMA ProjectedTwice ==
  ASSUME NEW p \in Place, NEW a \in DOMAIN CRSs, NEW b \in DOMAIN CRSs, NEW c \in DOMAIN CRSs
  PROVE  Project(Project(p, a, b), b, c) = Project(p, a, c)
<1>1. Shear[a] \in Int /\ Shear[b] \in Int /\ Shear[c] \in Int
  BY ShearAssumption
<1>2. p.x \in Int /\ p.y \in Int
  BY DEF Place, Axes
<1>3. \A i, j, k, x, y \in Int : (x + (j - i) * y) + (k - j) * y = x + (k - i) * y
  OBVIOUS
<1> QED BY <1>1, <1>2, <1>3 DEF Project

\* The projection of a box holds those of its four corners.
LEMMA CornersHeld ==
  ASSUME NEW box \in Region, NEW from \in DOMAIN CRSs, NEW to \in DOMAIN CRSs,
         NEW x \in {box.min.x, box.max.x}, NEW y \in {box.min.y, box.max.y}
  PROVE  /\ Reproject(box, from, to) \in Region
         /\ InBox(Project([x |-> x, y |-> y], from, to), Reproject(box, from, to))
<1> DEFINE Corner(i, j) == Project([x |-> box[i].x, y |-> box[j].y], from, to)
           points == {Project(p, from, to) : p \in Corners(box)}
           Values(a) == {p[a] : p \in points}
<1>1. \A i, j \in {"min", "max"} : Corner(i, j) \in Place
  <2> SUFFICES ASSUME NEW i \in {"min", "max"}, NEW j \in {"min", "max"}
               PROVE  Corner(i, j) \in Place
    OBVIOUS
  <2>1. [x |-> box[i].x, y |-> box[j].y] \in Place
    BY DEF Region, Place, Axes
  <2> QED BY <2>1, PlaceProjected
<1>2. points = {Corner("min", "min"), Corner("min", "max"), Corner("max", "min"), Corner("max", "max")}
  BY DEF Corners
<1>3. \A a \in Axes : Values(a) = {Corner("min", "min")[a], Corner("min", "max")[a],
                                  Corner("max", "min")[a], Corner("max", "max")[a]}
  <2> HIDE DEF Corner, points
  <2> QED BY <1>2
<1>4. \A a \in Axes : /\ Min(Values(a)) \in Int /\ Max(Values(a)) \in Int
                      /\ \A v \in Values(a) : Min(Values(a)) <= v /\ v <= Max(Values(a))
  <2> HIDE DEF Corner, points
  <2> SUFFICES ASSUME NEW a \in Axes
               PROVE  /\ Min(Values(a)) \in Int /\ Max(Values(a)) \in Int
                      /\ \A v \in Values(a) : Min(Values(a)) <= v /\ v <= Max(Values(a))
    OBVIOUS
  <2>1. \A i, j \in {"min", "max"} : Corner(i, j)[a] \in Int
    BY <1>1 DEF Place
  <2> HIDE DEF Values
  <2>2. ASSUME NEW v \in Int, NEW w \in Int, NEW u \in Int, NEW z \in Int,
               Values(a) = {v, w, u, z}
        PROVE  /\ Min(Values(a)) \in Int /\ Max(Values(a)) \in Int
               /\ \A n \in Values(a) : Min(Values(a)) <= n /\ n <= Max(Values(a))
    <3>1. /\ Min({v, w, u, z}) \in Int /\ Max({v, w, u, z}) \in Int
          /\ \A n \in {v, w, u, z} : Min({v, w, u, z}) <= n /\ n <= Max({v, w, u, z})
      BY BoundsOfFour
    <3> QED BY Zenon, <2>2, <3>1
  <2> QED BY <1>3, <2>1, <2>2
<1>5. Reproject(box, from, to) = [min |-> [a \in Axes |-> Min(Values(a))],
                                  max |-> [a \in Axes |-> Max(Values(a))]]
  BY DEF Reproject, Hull
<1>6. Project([x |-> x, y |-> y], from, to) \in points
  BY DEF Corners
<1>7. \A a \in Axes : Project([x |-> x, y |-> y], from, to)[a] \in Values(a)
  BY <1>6
<1> HIDE DEF Values
<1> QED BY <1>4, <1>5, <1>7 DEF Region, Place, InBox

\* The projection of a box holds those of all its places.
LEMMA BoxProjected ==
  ASSUME NEW box \in Region, NEW from \in DOMAIN CRSs, NEW to \in DOMAIN CRSs,
         NEW p \in Place, InBox(p, box)
  PROVE  /\ Reproject(box, from, to) \in Region
         /\ InBox(Project(p, from, to), Reproject(box, from, to))
<1> DEFINE k == Shear[to] - Shear[from]
           there == Reproject(box, from, to)
           Corner(x, y) == Project([x |-> x, y |-> y], from, to)
<1>1. k \in Int
  BY ShearAssumption
<1>2. /\ box.min.x \in Int /\ box.max.x \in Int /\ box.min.y \in Int /\ box.max.y \in Int
      /\ p.x \in Int /\ p.y \in Int
      /\ box.min.x <= p.x /\ p.x <= box.max.x /\ box.min.y <= p.y /\ p.y <= box.max.y
  BY DEF Region, Place, Axes, InBox
<1>3. \/ k * box.min.y <= k * p.y /\ k * p.y <= k * box.max.y
      \/ k * box.max.y <= k * p.y /\ k * p.y <= k * box.min.y
  BY <1>1, <1>2, MultipleBetween
<1>4. /\ there \in Region
      /\ \A x \in {box.min.x, box.max.x}, y \in {box.min.y, box.max.y} : InBox(Corner(x, y), there)
  BY CornersHeld
<1>5. \A x, y : Corner(x, y).x = x + k * y /\ Corner(x, y).y = y
  BY DEF Project
<1>6. Project(p, from, to).x = p.x + k * p.y /\ Project(p, from, to).y = p.y
  BY DEF Project
<1> HIDE DEF k, there, Corner
<1>7. \A x \in {box.min.x, box.max.x}, y \in {box.min.y, box.max.y} :
         /\ there.min.x <= x + k * y /\ x + k * y <= there.max.x
         /\ there.min.y <= y /\ y <= there.max.y
  BY <1>4, <1>5 DEF InBox, Axes
<1>8. /\ there.min.x \in Int /\ there.max.x \in Int /\ there.min.y \in Int /\ there.max.y \in Int
      /\ k * box.min.y \in Int /\ k * box.max.y \in Int /\ k * p.y \in Int
  BY <1>1, <1>2, <1>4 DEF Region, Place, Axes
<1>9. there.min.x <= p.x + k * p.y /\ p.x + k * p.y <= there.max.x
  BY <1>2, <1>3, <1>7, <1>8
<1>10. there.min.y <= p.y /\ p.y <= there.max.y
  BY <1>2, <1>7, <1>8
<1> QED BY <1>4, <1>6, <1>9, <1>10 DEF InBox, Axes, there
\* What is known of a layer and of its boxes.
LEMMA LayerKnown ==
  ASSUME NEW n \in DOMAIN Layers, NEW crs \in DOMAIN CRSs
  PROVE  /\ Layers[n].native \in DOMAIN CRSs
         /\ BoxIn(Layers[n], crs) \in Region /\ Resolution(Layers[n], crs) \in Place
         /\ \A p \in DataPoints(Layers[n]) :
                /\ p \in Place
                /\ InBox(Project(p, Layers[n].native, crs), BoxIn(Layers[n], crs))
<1> DEFINE layer == Layers[n]
<1>1. /\ layer.native \in DOMAIN CRSs /\ layer.extent \in Region /\ layer.resolution \in Place
      /\ \A a \in Axes : GridHigh(layer)[a] > 0
  BY LayersAssumption DEF Sound
<1> HIDE DEF layer
<1>2. layer.extent.min \in Place /\ layer.extent.max \in Place
  BY <1>1 DEF Region
<1>3. ASSUME NEW p \in DataPoints(layer) PROVE p \in Place /\ InBox(p, layer.extent)
  BY <1>2, <1>3 DEF DataPoints, Place, InBox, Axes
<1>4. BoxIn(layer, crs) \in Region
  BY <1>1, CornersHeld DEF BoxIn
<1>5. \A p \in DataPoints(layer) : InBox(Project(p, layer.native, crs), BoxIn(layer, crs))
  BY <1>1, <1>3, BoxProjected DEF BoxIn
<1>6. \A a \in Axes : GridHigh(layer)[a] \in Int
  <2>1. ASSUME NEW a \in Axes PROVE Size(layer.resolution[a]) \in Nat
    BY <1>1, <2>1 DEF Size, Place
  <2>2. ASSUME NEW a \in Axes PROVE Size(layer.resolution[a]) > 0
    BY <1>1, LayersAssumption DEF Sound, Size, Axes, Place, layer
  <2> QED BY <1>2, <2>1, <2>2 DEF GridHigh, Place
<1>7. Resolution(layer, crs) \in Place
  <2> DEFINE box == BoxIn(layer, crs)
             high == GridHigh(layer)
  <2>1. \A a \in Axes : box.min[a] \in Int /\ box.max[a] \in Int
    BY <1>4 DEF Region, Place
  <2>2. Resolution(layer, crs) = layer.resolution
        \/ Resolution(layer, crs) = [a \in Axes |-> (box.max[a] - box.min[a]) \div high[a]]
    BY DEF Resolution
  <2> HIDE DEF box, high
  <2>3. \A a \in Axes : (box.max[a] - box.min[a]) \div high[a] \in Int
    BY <1>1, <1>6, <2>1 DEF high
  <2> QED BY <1>1, <2>2, <2>3 DEF Place
<1> QED BY <1>1, <1>3, <1>4, <1>5, <1>7 DEF layer

-----------------------------------------------------------------------------
(* The scaler *)

Open == Int \cup {Unset}
Scalers == [crs : DOMAIN CRSs, names : DOMAIN CRSs, min : [Axes -> Open], max : [Axes -> Open],
            size : [Axes -> Open], subsetted : [Axes -> BOOLEAN]]

\* The scaler's bounds hold the place, or its grid is a pixel next to it.
Beside(layer, s, p) ==
    \A a \in Axes :
        LET q == Project(p, layer.native, s.crs)[a]
            slack == 3 * Size(Resolution(layer, s.crs)[a])
        IN  \/ s.min[a] <= q /\ q <= s.max[a]
            \/ /\ s.size[a] = 1
               /\ 2 * Min({s.min[a], s.max[a]}) - slack <= 2 * q
               /\ 2 * q <= 2 * Max({s.min[a], s.max[a]}) + slack

\* A place within bounds is not lost when narrow axes become pixels.
LEMMA QuantiseHolds ==
  ASSUME NEW n \in DOMAIN Layers, NEW s \in Scalers, s.min \in Place, s.max \in Place
  PROVE  LET t == Quantise(Layers[n], s.crs, s)
         IN  /\ t \in Scalers /\ t.min \in Place /\ t.max \in Place /\ t.crs = s.crs
             /\ \A p \in DataPoints(Layers[n]) :
                    InBox(Project(p, Layers[n].native, s.crs), [min |-> s.min, max |-> s.max]) =>
                        Beside(Layers[n], t, p)
<1> DEFINE layer == Layers[n]
           res == Resolution(layer, s.crs)
           narrow == {a \in Axes : 2 * Size(s.max[a] - s.min[a]) < 3 * Size(res[a])}
           t == Quantise(layer, s.crs, s)
           max == [a \in Axes |-> IF a \in narrow THEN s.min[a] + res[a] ELSE s.max[a]]
           size == [a \in Axes |-> IF a \in narrow THEN 1 ELSE s.size[a]]
<1>1. s.crs \in DOMAIN CRSs /\ s.size \in [Axes -> Open]
  BY DEF Scalers
<1>2. res \in Place /\ \A p \in DataPoints(layer) : Project(p, layer.native, s.crs) \in Place
  BY <1>1, LayerKnown, PlaceProjected
<1>3. t = [s EXCEPT !.max = max, !.size = size]
  BY DEF Quantise
<1>4. max \in Place /\ size \in [Axes -> Open]
  BY <1>1, <1>2 DEF Place, Open
<1>5. t \in Scalers /\ t.crs = s.crs /\ t.min = s.min /\ t.max = max /\ t.size = size
  BY <1>3, <1>4 DEF Scalers, Place, Open
<1> HIDE DEF t, res
<1>6. ASSUME NEW p \in DataPoints(layer), NEW a \in Axes,
             s.min[a] <= Project(p, layer.native, s.crs)[a],
             Project(p, layer.native, s.crs)[a] <= s.max[a],
             a \in narrow
      PROVE  /\ size[a] = 1
             /\ 2 * Min({s.min[a], max[a]}) - 3 * Size(res[a]) <= 2 * Project(p, layer.native, s.crs)[a]
             /\ 2 * Project(p, layer.native, s.crs)[a] <= 2 * Max({s.min[a], max[a]}) + 3 * Size(res[a])
  <2> DEFINE q == Project(p, layer.native, s.crs)[a]
  <2>1. /\ s.min[a] \in Int /\ s.max[a] \in Int /\ max[a] \in Int /\ res[a] \in Int /\ q \in Int
    BY <1>2, <1>4 DEF Place
  <2>2. size[a] = 1
    BY <1>6
  <2>3. 2 * Size(s.max[a] - s.min[a]) < 3 * Size(res[a])
    BY <1>6
  <2>4. s.min[a] <= q /\ q <= s.max[a]
    BY <1>6
  <2> HIDE DEF q, max, size, narrow
  <2>5. Size(s.max[a] - s.min[a]) = s.max[a] - s.min[a]
    BY <2>1, <2>4 DEF Size
  <2>6. Size(res[a]) \in Int
    BY <2>1 DEF Size
  <2>7. Min({s.min[a], max[a]}) \in Int /\ Max({s.min[a], max[a]}) \in Int
        /\ Min({s.min[a], max[a]}) <= s.min[a] /\ s.min[a] <= Max({s.min[a], max[a]})
    BY <2>1, BoundsOfTwo
  <2> QED BY <2>1, <2>2, <2>3, <2>4, <2>5, <2>6, <2>7 DEF q
<1>7. ASSUME NEW p \in DataPoints(layer),
             InBox(Project(p, layer.native, s.crs), [min |-> s.min, max |-> s.max])
      PROVE  Beside(layer, t, p)
  <2>1. ASSUME NEW a \in Axes, a \notin narrow PROVE max[a] = s.max[a]
    BY <2>1
  <2> HIDE DEF max, size, narrow
  <2>2. \A a \in Axes : s.min[a] <= Project(p, layer.native, s.crs)[a]
                        /\ Project(p, layer.native, s.crs)[a] <= s.max[a]
    BY <1>7 DEF InBox
  <2> QED BY <1>5, <1>6, <2>1, <2>2 DEF Beside, res
<1> HIDE DEF max, size, narrow
<1> QED BY <1>4, <1>5, <1>7 DEF t
\* The bounds of the axes that are subsetted hold the place.
Subsetted(layer, s, p) ==
    \A a \in Axes : s.subsetted[a] =>
        LET q == Project(p, layer.native, s.crs)[a] IN s.min[a] <= q /\ q <= s.max[a]

\* No bound of a subsetted axis is open.
Bounded(s) == \A a \in Axes : s.subsetted[a] => Unset \notin {s.min[a], s.max[a]}

\* With the bounds of the layer on the other axes, a place is held.
LEMMA FilledHolds ==
  ASSUME NEW n \in DOMAIN Layers, NEW s \in Scalers, NEW crs \in DOMAIN CRSs, Bounded(s)
  PROVE  /\ Filled(Layers[n], s, crs) \in Region
         /\ \A a \in Axes : ~s.subsetted[a] =>
                /\ Filled(Layers[n], s, crs).min[a] = BoxIn(Layers[n], crs).min[a]
                /\ Filled(Layers[n], s, crs).max[a] = BoxIn(Layers[n], crs).max[a]
         /\ \A p \in DataPoints(Layers[n]) : Subsetted(Layers[n], s, p) /\ crs = s.crs =>
                InBox(Project(p, Layers[n].native, crs), Filled(Layers[n], s, crs))
<1> DEFINE layer == Layers[n]
           box == BoxIn(layer, crs)
           there == Filled(layer, s, crs)
<1>1. \A a \in Axes : /\ there.min[a] = IF s.subsetted[a] THEN s.min[a] ELSE box.min[a]
                      /\ there.max[a] = IF s.subsetted[a] THEN s.max[a] ELSE box.max[a]
  BY DEF Filled
<1>2. \A a \in Axes : s.subsetted[a] => s.min[a] \in Int /\ s.max[a] \in Int
  BY DEF Bounded, Scalers, Open
<1>3. box \in Region /\ \A p \in DataPoints(layer) : InBox(Project(p, layer.native, crs), box)
  BY LayerKnown
<1>4. there = [min |-> [a \in Axes |-> IF s.subsetted[a] THEN s.min[a] ELSE box.min[a]],
               max |-> [a \in Axes |-> IF s.subsetted[a] THEN s.max[a] ELSE box.max[a]]]
  BY DEF Filled
<1> HIDE DEF box, there
<1>5. there \in Region
  BY <1>2, <1>3, <1>4 DEF Region, Place
<1>6. ASSUME NEW p \in DataPoints(layer), Subsetted(layer, s, p), crs = s.crs
      PROVE  InBox(Project(p, layer.native, crs), there)
  BY <1>1, <1>3, <1>6 DEF InBox, Subsetted
<1> QED BY <1>1, <1>5, <1>6 DEF there, box

\* to_crs loses no place that was asked for.
LEMMA ConvertedHolds ==
  ASSUME NEW n \in DOMAIN Layers, NEW s \in Scalers, NEW new \in DOMAIN CRSs, Bounded(s)
  PROVE  LET t == ToCRS(Layers[n], s, new)
         IN  /\ t \in Scalers /\ t.min \in Place /\ t.max \in Place /\ t.crs = new
             /\ \A p \in DataPoints(Layers[n]) :
                    Subsetted(Layers[n], s, p) => Beside(Layers[n], t, p)
<1> DEFINE layer == Layers[n]
           res == Resolution(layer, new)
           here == Filled(layer, s, s.crs)
           box == Filled(layer, s, new)
           projected == Reproject(here, s.crs, new)
           point == Project(here.min, s.crs, new)
           low == [a \in Axes |-> IF s.subsetted[a] THEN projected.min[a] ELSE box.min[a]]
           high == [a \in Axes |-> IF s.subsetted[a] THEN projected.max[a] ELSE box.max[a]]
           beyond == [a \in Axes |-> point[a] + res[a]]
           Bounds(min, max) == [s EXCEPT !.crs = new, !.min = min, !.max = max]
           t == ToCRS(layer, s, new)
           Good == /\ t \in Scalers /\ t.min \in Place /\ t.max \in Place /\ t.crs = new
                   /\ \A p \in DataPoints(layer) : Subsetted(layer, s, p) => Beside(layer, t, p)
<1> SUFFICES Good
  OBVIOUS
<1>1. /\ layer.native \in DOMAIN CRSs /\ s.crs \in DOMAIN CRSs
      /\ \A p \in DataPoints(layer) : p \in Place
      /\ res \in Place
  BY LayerKnown DEF Scalers
<1>2. /\ here \in Region
      /\ \A p \in DataPoints(layer) :
             Subsetted(layer, s, p) => InBox(Project(p, layer.native, s.crs), here)
  BY <1>1, FilledHolds
<1>3. /\ box \in Region
      /\ \A p \in DataPoints(layer) : \A a \in Axes : ~s.subsetted[a] =>
             /\ box.min[a] <= Project(p, layer.native, new)[a]
             /\ Project(p, layer.native, new)[a] <= box.max[a]
  BY FilledHolds, LayerKnown DEF InBox
<1>4. ASSUME NEW p \in DataPoints(layer)
      PROVE  /\ Project(p, layer.native, s.crs) \in Place
             /\ Project(p, layer.native, new) \in Place
             /\ Project(Project(p, layer.native, s.crs), s.crs, new) = Project(p, layer.native, new)
  BY <1>1, PlaceProjected, ProjectedTwice
<1>5. /\ projected \in Region
      /\ \A p \in DataPoints(layer) :
             Subsetted(layer, s, p) => InBox(Project(p, layer.native, new), projected)
  <2>1. projected \in Region
    BY <1>1, <1>2, CornersHeld
  <2> HIDE DEF here
  <2>2. ASSUME NEW p \in DataPoints(layer), Subsetted(layer, s, p)
        PROVE  InBox(Project(p, layer.native, new), projected)
    BY <1>1, <1>2, <1>4, <2>2, BoxProjected
  <2> QED BY <2>1, <2>2
<1>6. point \in Place
  BY <1>1, <1>2, PlaceProjected DEF Region
<1>7. t = CASE \A a \in Axes : ~s.subsetted[a] -> Quantise(layer, new, Bounds(box.min, box.max))
            [] (\E a \in Axes : s.subsetted[a]) /\ s.crs = new ->
                   Quantise(layer, new, Bounds(here.min, here.max))
            [] (\A a \in Axes : s.subsetted[a]) /\ s.crs # new /\ here.min = here.max ->
                   [Bounds(point, beyond) EXCEPT !.size = [a \in Axes |-> 1]]
            [] (\E a \in Axes : s.subsetted[a]) /\ s.crs # new
               /\ ((\E a \in Axes : ~s.subsetted[a]) \/ here.min # here.max) ->
                   Quantise(layer, new, Bounds(low, high))
  BY DEF ToCRS
<1>8. ASSUME NEW min \in Place, NEW max \in Place
      PROVE  /\ Bounds(min, max) \in Scalers /\ Bounds(min, max).crs = new
             /\ Bounds(min, max).min = min /\ Bounds(min, max).max = max
  BY DEF Scalers, Place, Open
<1> HIDE DEF res, here, box, projected, point, Bounds, t, layer
<1>9. ASSUME NEW min \in Place, NEW max \in Place, t = Quantise(layer, new, Bounds(min, max)),
             \A p \in DataPoints(layer) : Subsetted(layer, s, p) =>
                 InBox(Project(p, layer.native, new), [min |-> min, max |-> max])
      PROVE  Good
  BY <1>8, <1>9, QuantiseHolds DEF layer
<1>10. low \in Place /\ high \in Place /\ beyond \in Place
  BY <1>1, <1>3, <1>5, <1>6 DEF Region, Place
<1> HIDE DEF Good, low, high, beyond
<1>11. CASE \A a \in Axes : ~s.subsetted[a]
  <2>1. t = Quantise(layer, new, Bounds(box.min, box.max))
    BY <1>7, <1>11 DEF Axes
  <2>2. box.min \in Place /\ box.max \in Place
    BY <1>3 DEF Region
  <2>3. \A p \in DataPoints(layer) :
           InBox(Project(p, layer.native, new), [min |-> box.min, max |-> box.max])
    BY <1>3, <1>11 DEF InBox
  <2> QED BY <1>9, <2>1, <2>2, <2>3
<1>12. CASE (\E a \in Axes : s.subsetted[a]) /\ s.crs = new
  <2>1. t = Quantise(layer, new, Bounds(here.min, here.max))
    BY <1>7, <1>12
  <2>2. here.min \in Place /\ here.max \in Place
    BY <1>2 DEF Region
  <2>3. \A p \in DataPoints(layer) : Subsetted(layer, s, p) =>
           InBox(Project(p, layer.native, new), [min |-> here.min, max |-> here.max])
    BY <1>2, <1>12 DEF InBox
  <2> QED BY <1>9, <2>1, <2>2, <2>3
<1>13. CASE (\A a \in Axes : s.subsetted[a]) /\ s.crs # new /\ here.min = here.max
  <2>1. t = [Bounds(point, beyond) EXCEPT !.size = [a \in Axes |-> 1]]
    BY <1>7, <1>13 DEF Axes
  <2>2. /\ t \in Scalers /\ t.crs = new /\ t.min = point /\ t.max = beyond
        /\ t.size = [a \in Axes |-> 1]
    <3>1. /\ Bounds(point, beyond) \in Scalers /\ Bounds(point, beyond).crs = new
          /\ Bounds(point, beyond).min = point /\ Bounds(point, beyond).max = beyond
      BY <1>6, <1>8, <1>10
    <3>2. [a \in Axes |-> 1] \in [Axes -> Open]
      BY DEF Open
    <3> QED BY <2>1, <3>1, <3>2 DEF Scalers
  <2>3. ASSUME NEW p \in DataPoints(layer), Subsetted(layer, s, p) PROVE Beside(layer, t, p)
    <3>1. Project(p, layer.native, s.crs) = here.min
      <4>1. \A a \in Axes : Project(p, layer.native, s.crs)[a] = here.min[a]
        BY <1>2, <1>4, <1>13, <2>3 DEF InBox, Region, Place
      <4> QED BY <1>2, <1>4, <4>1 DEF Region, Place
    <3>2. Project(p, layer.native, new) = point
      BY <1>4, <3>1 DEF point
    <3>3. ASSUME NEW a \in Axes
          PROVE  /\ 2 * Min({point[a], beyond[a]}) - 3 * Size(res[a]) <= 2 * point[a]
                 /\ 2 * point[a] <= 2 * Max({point[a], beyond[a]}) + 3 * Size(res[a])
      <4>1. point[a] \in Int /\ beyond[a] \in Int /\ Size(res[a]) \in Nat
        BY <1>1, <1>6, <1>10 DEF Place, Size
      <4>2. /\ Min({point[a], beyond[a]}) \in Int /\ Max({point[a], beyond[a]}) \in Int
            /\ Min({point[a], beyond[a]}) <= point[a] /\ point[a] <= Max({point[a], beyond[a]})
        BY <4>1, BoundsOfTwo
      <4> QED BY <4>1, <4>2
    <3> QED BY <2>2, <3>2, <3>3 DEF Beside, res
  <2> QED BY <1>6, <1>10, <2>2, <2>3 DEF Good
<1>14. CASE /\ (\E a \in Axes : s.subsetted[a]) /\ s.crs # new
            /\ (\E a \in Axes : ~s.subsetted[a]) \/ here.min # here.max
  <2>1. t = Quantise(layer, new, Bounds(low, high))
    BY <1>7, <1>14
  <2>2. \A p \in DataPoints(layer) : Subsetted(layer, s, p) =>
            InBox(Project(p, layer.native, new), [min |-> low, max |-> high])
    BY <1>3, <1>5 DEF InBox, low, high
  <2> QED BY <1>9, <1>10, <2>1, <2>2
<1> QED BY <1>11, <1>12, <1>13, <1>14
-----------------------------------------------------------------------------
(* What is asked for *)

\* Among natural numbers there is a least one.
LEMMA LeastNumber ==
  ASSUME NEW s \in SUBSET Nat, s # {} PROVE Min(s) \in s /\ \A n \in s : Min(s) <= n
<1>1. PICK m \in s : \A n \in s : <<n, m>> \notin OpToRel(<, Nat)
  BY NatLessThanWellFounded, WFMin
<1>2. \A n \in s : ~(n < m)
  BY <1>1 DEF OpToRel
<1>3. \E x \in s : \A y \in s : x <= y
  BY <1>2
<1> QED BY <1>3 DEF Min

\* A name stands for an axis, or for none.
LEMMA AxisKnown ==
  ASSUME NEW layer, NEW crs, NEW name PROVE AxisOf(layer, crs, name) \in Axes \cup {"unknown"}
<1> DEFINE known == << <<{CRSs[crs].horizontal}, "x">>, <<{CRSs[crs].vertical}, "y">>,
                       <<{CRSs[layer.native].horizontal}, "x">>,
                       <<{CRSs[layer.native].vertical}, "y">>,
                       <<{"x", "i", "lon", "long", "lng", "longitude"}, "x">>,
                       <<{"y", "j", "lat", "latitude"}, "y">> >>
           fitting == {n \in DOMAIN known : name \in known[n][1]}
<1>1. DOMAIN known = 1 .. 6 /\ \A n \in 1 .. 6 : known[n][2] \in Axes
  BY DEF Axes
<1>2. AxisOf(layer, crs, name) = IF fitting = {} THEN "unknown" ELSE known[Min(fitting)][2]
  BY Zenon DEF AxisOf
<1> HIDE DEF known
<1>3. fitting \in SUBSET (1 .. 6)
  BY <1>1
<1> HIDE DEF fitting
<1>4. fitting # {} => Min(fitting) \in 1 .. 6
  <2>1. fitting \in SUBSET Nat
    BY <1>3
  <2>2. fitting # {} => Min(fitting) \in fitting
    BY <2>1, LeastNumber
  <2> QED BY Zenon, <1>3, <2>2
<1> QED BY <1>1, <1>2, <1>4

\* What a request asks for is a matter of the request alone.
LEMMA AskingStands ==
  ASSUME request' = request
  PROVE  /\ Coverage' = Coverage /\ Version' = Version /\ Subsets' = Subsets
         /\ SubsettingCRS' = SubsettingCRS /\ OutputCRS' = OutputCRS
         /\ KnownCoverage' = KnownCoverage /\ args' = args
         /\ \A p : AskedFor(p)' = AskedFor(p)
<1>1. /\ Coverage' = Coverage /\ Version' = Version /\ Subsets' = Subsets /\ args' = args
      /\ RequestCRS' = RequestCRS
  BY DEF Coverage, Version, Subsets, RequestCRS, Arg, Given, args
<1>2. SubsettingCRS' = SubsettingCRS
  BY <1>1 DEF SubsettingCRS, UniformCRS, Arg, Given
<1>3. OutputCRS' = OutputCRS
  BY <1>1, <1>2 DEF OutputCRS, UniformCRS, Arg, Given
<1>4. KnownCoverage' = KnownCoverage
  BY <1>1 DEF KnownCoverage, Given
<1>5. \A p, subset : SubsetAsks(p, subset)' = SubsetAsks(p, subset)
  BY <1>1, <1>2 DEF SubsetAsks
<1>6. \A p : AskedFor(p)' = AskedFor(p)
  BY <1>1, <1>2, <1>5 DEF AskedFor
<1> QED BY <1>1, <1>2, <1>3, <1>4, <1>6

\* A grid that holds what was asked for keeps the promise.
LEMMA GridHolds ==
  ASSUME NEW format, NEW grid, Answer(format, grid),
         \A p \in DataPoints(Coverage) :
             AskedFor(p) => Holds(grid, Project(p, Coverage.native, grid.crs))
  PROVE  GridCovers'
<1>1. request' = request
  BY DEF Answer, Error, Finish
<1>2. result'.outcome = "accepted" => result'.grid = grid
  BY DEF Answer, Error, Finish
<1>3. \A p : Holds(grid, p)' = Holds(grid, p)
  BY <1>1, AskingStands DEF Holds
<1> QED BY <1>1, <1>2, <1>3, AskingStands DEF GridCovers, Accepted
-----------------------------------------------------------------------------
(* The grid covers what is asked for *)

\* The bounds of a subsetted axis are those of some subset.
Backed(s) ==
    \A a \in Axes : s.subsetted[a] =>
        \E i \in DOMAIN Subsets :
            /\ Subsets[i].axis # "time" /\ AxisOf(Coverage, SubsettingCRS, Subsets[i].axis) = a
            /\ \/ /\ Subsets[i].kind = "slice"
                  /\ s.min[a] = Subsets[i].at /\ s.max[a] = Subsets[i].at
               \/ /\ Subsets[i].kind # "slice"
                  /\ s.min[a] = Subsets[i].low /\ s.max[a] = Subsets[i].high

\* The subsets are those of a coverage of the layer.
Subsetting ==
    /\ scaler \in Scalers /\ scaler.names = SubsettingCRS /\ scaler.crs = SubsettingCRS
    /\ IsSequence(todo) /\ Range(todo) \subseteq Range(Subsets) /\ Backed(scaler)

\* A scaler that holds what was asked for.
Holding(s) ==
    /\ DOMAIN s = {"crs", "names", "min", "max", "size", "subsetted"} /\ DOMAIN s.size = Axes
    /\ s.crs \in DOMAIN CRSs /\ s.min \in Place /\ s.max \in Place
    /\ \A p \in DataPoints(Coverage) : AskedFor(p) => Beside(Coverage, s, p)

\* The CRSs and the box of version 1 are checked before the grid is made.
Checked1 ==
    /\ IsSequence(todo)
    /\ KnownCoverage \/ "coverage" \in Range(todo)
    /\ (Given("crs") /\ RequestCRS \in DOMAIN CRSs) \/ "crs" \in Range(todo)
    /\ ResponseCRS \in DOMAIN CRSs \/ "response_crs" \in Range(todo)
    /\ Given("bbox") \/ "bbox" \in Range(todo)

GridInv ==
    /\ request \in Requests
    /\ result.outcome = "accepted" => stage = "done"
    /\ stage = "check1" => request.op = "GetCoverage1" /\ Checked1
    /\ stage \in {"begin2", "subset", "scale", "grid"} => request.op = "GetCoverage2"
    /\ stage \in {"subset", "scale", "grid"} =>
           /\ KnownCoverage /\ SubsettingCRS \in DOMAIN CRSs /\ OutputCRS \in DOMAIN CRSs
    /\ stage = "subset" => Subsetting
    /\ stage \in {"scale", "grid"} => Holding(scaler)
    /\ GridCovers

\* What is known of subsets, scalers and checks stands with what they are about.
LEMMA KnowledgeStands ==
  ASSUME request' = request
  PROVE  /\ \A s : Backed(s)' = Backed(s) /\ Holding(s)' = Holding(s)
         /\ (todo' = todo /\ scaler' = scaler) => (Subsetting' = Subsetting /\ Checked1' = Checked1)
<1>1. \A s : Backed(s)' = Backed(s)
  BY AskingStands DEF Backed
<1>2. \A s : Holding(s)' = Holding(s)
  BY AskingStands DEF Holding
<1>3. (todo' = todo /\ scaler' = scaler) => (Subsetting' = Subsetting /\ Checked1' = Checked1)
  BY <1>1, AskingStands DEF Subsetting, Checked1, RequestCRS, ResponseCRS, Arg, Given, args
<1> QED BY <1>1, <1>2, <1>3

\* What is left of a list was in it.
LEMMA RestOfList ==
  ASSUME NEW list, IsSequence(list), list # <<>>
  PROVE  /\ list[1] \in Range(list) /\ IsSequence(Tail(list)) /\ Range(Tail(list)) \subseteq Range(list)
         /\ Range(list) \subseteq Range(Tail(list)) \cup {list[1]}
<1> DEFINE S == Range(list)
<1> HIDE DEF S
<1>1. list \in Seq(S)
  BY DEF IsSequence, S
<1>2. /\ Tail(list) \in Seq(S) /\ Len(Tail(list)) = Len(list) - 1
      /\ \A i \in 1 .. Len(Tail(list)) : Tail(list)[i] = list[i + 1]
  BY <1>1, HeadTailProperties
<1>3. Len(list) \in Nat /\ Len(list) # 0 /\ DOMAIN list = 1 .. Len(list)
      /\ DOMAIN Tail(list) = 1 .. Len(Tail(list))
  BY <1>1, <1>2, LenProperties, EmptySeq
<1>4. ASSUME NEW i \in DOMAIN Tail(list)
      PROVE  i + 1 \in DOMAIN list /\ Tail(list)[i] = list[i + 1]
  BY <1>2, <1>3
<1>5. Range(Tail(list)) \subseteq Range(list)
  BY <1>4 DEF Range
<1>6. ASSUME NEW i \in DOMAIN list, i # 1
      PROVE  i - 1 \in DOMAIN Tail(list) /\ list[i] = Tail(list)[i - 1]
  <2>1. i - 1 \in 1 .. Len(Tail(list)) /\ (i - 1) + 1 = i
    BY <1>2, <1>3, <1>6
  <2> QED BY <1>2, <1>3, <2>1
<1>7. Range(list) \subseteq Range(Tail(list)) \cup {list[1]}
  BY <1>6 DEF Range
<1>8. list[1] \in Range(list)
  BY <1>3 DEF Range
<1>9. IsSequence(Tail(list))
  BY <1>2, RangeOfSeq, SeqOfRange DEF IsSequence
<1> QED BY <1>5, <1>7, <1>8, <1>9

\* A request that comes has no grid yet.
LEMMA GridInit == Init => GridInv
<1> SUFFICES ASSUME Init PROVE GridInv
  OBVIOUS
<1>1. request \in Requests /\ stage = FirstStage[request.op] /\ result.outcome = "none"
  BY DEF Init, NoResult
<1>2. request.op \in {"Describe1", "Describe2", "GetCoverage1", "GetCoverage2"}
  BY <1>1, RequestsAssumption
<1>3. stage \in {"describe", "check1", "begin2"}
      /\ (stage = "check1" => request.op = "GetCoverage1")
      /\ (stage = "begin2" => request.op = "GetCoverage2")
  BY <1>1, <1>2 DEF FirstStage
<1>4. stage = "check1" => Checked1
  <2>0. /\ DOMAIN Steps1 = 1 .. 10
        /\ Steps1[1] = "coverage" /\ Steps1[3] = "crs" /\ Steps1[4] = "response_crs"
        /\ Steps1[5] = "bbox"
    BY DEF Steps1
  <2>1. Steps1 = [i \in 1 .. 10 |-> Steps1[i]]
    BY DEF Steps1
  <2>2. IsSequence(Steps1)
    <3>1. Steps1 \in [1 .. 10 -> Range(Steps1)]
      BY <2>0, <2>1 DEF Range
    <3> QED BY <3>1, SeqDef DEF IsSequence
  <2>3. {"coverage", "crs", "response_crs", "bbox"} \subseteq Range(Steps1)
    BY <2>0 DEF Range
  <2>4. stage = "check1" => todo = Steps1
    BY <1>3 DEF Init
  <2> QED BY <2>2, <2>3, <2>4 DEF Checked1
<1>5. GridCovers
  BY <1>1 DEF GridCovers, Accepted
<1> QED BY <1>1, <1>3, <1>4, <1>5 DEF GridInv
\* Subsets are within their types.
LEMMA SubsetsKnown ==
  ASSUME request \in Requests
  PROVE  IsSequence(Subsets) /\ \A subset \in Range(Subsets) : SubsetSound(subset)
<1>1. <<>> \in Seq(Range(<<>>)) /\ Range(<<>>) = {}
  BY DEF Range
<1> QED BY <1>1, RequestsAssumption DEF Subsets, Arg, Given, args, IsSequence

\* A trimmed axis is backed by the subset at hand.
LEMMA TrimBacked ==
  ASSUME NEW s \in Scalers, Backed(s), NEW i \in DOMAIN Subsets, NEW axis \in Axes,
         NEW low \in Open, NEW high \in Open,
         Subsets[i].axis # "time", AxisOf(Coverage, SubsettingCRS, Subsets[i].axis) = axis,
         \/ Subsets[i].kind = "slice" /\ low = Subsets[i].at /\ high = Subsets[i].at
         \/ Subsets[i].kind # "slice" /\ low = Subsets[i].low /\ high = Subsets[i].high
  PROVE  LET t == Trim(s, axis, low, high)
         IN  t \in Scalers /\ t.names = s.names /\ t.crs = s.crs /\ Backed(t)
<1> DEFINE t == Trim(s, axis, low, high)
<1>1. /\ t \in Scalers /\ t.names = s.names /\ t.crs = s.crs
      /\ t.min = [s.min EXCEPT ![axis] = low] /\ t.max = [s.max EXCEPT ![axis] = high]
      /\ t.subsetted = [s.subsetted EXCEPT ![axis] = TRUE]
  BY DEF Trim, Scalers
<1> HIDE DEF t
<1>2. t.min[axis] = low /\ t.max[axis] = high
  BY <1>1 DEF Scalers
<1>3. ASSUME NEW a \in Axes, a # axis
      PROVE  t.min[a] = s.min[a] /\ t.max[a] = s.max[a] /\ t.subsetted[a] = s.subsetted[a]
  BY <1>1, <1>3 DEF Scalers
<1>4. Backed(t)
  BY <1>2, <1>3 DEF Backed
<1> QED BY <1>1, <1>4 DEF t

\* A subset is taken into the scaler or refused.
LEMMA SubsetKeeps ==
  ASSUME GridInv, SubsetAxis
  PROVE  \/ result'.outcome # "accepted" /\ stage' = "done" /\ request' = request
         \/ stage' = "subset" /\ request' = request /\ result' = result /\ Subsetting'
<1> DEFINE axis == AxisOf(Coverage, scaler.names, todo[1].axis)
<1>1. /\ stage = "subset" /\ todo # <<>> /\ todo[1].axis # "time" /\ Subsetting
      /\ request \in Requests
  BY DEF SubsetAxis, GridInv
<1>2. CASE axis = "unknown"
  BY <1>2 DEF SubsetAxis, Refused, Finish
<1>3. CASE axis # "unknown"
  <2>1. axis \in Axes
    BY <1>3, AxisKnown
  <2>2. /\ scaler' = IF todo[1].kind = "slice" THEN Slice(scaler, axis, todo[1].at)
                     ELSE Trim(scaler, axis, todo[1].low, todo[1].high)
        /\ stage' = "subset" /\ todo' = Tail(todo) /\ request' = request /\ result' = result
    BY <1>3 DEF SubsetAxis, Continue
  <2> HIDE DEF axis
  <2>3. /\ todo[1] \in Range(todo) /\ IsSequence(Tail(todo))
        /\ Range(Tail(todo)) \subseteq Range(Subsets)
    BY <1>1, RestOfList DEF Subsetting
  <2>4. PICK i \in DOMAIN Subsets : Subsets[i] = todo[1]
    BY <1>1, <2>3 DEF Subsetting, Range
  <2>5. SubsetSound(todo[1])
    BY <1>1, <2>3, SubsetsKnown DEF Subsetting
  <2>6. AxisOf(Coverage, SubsettingCRS, Subsets[i].axis) = axis
    BY <1>1, <2>4 DEF axis, Subsetting
  <2>7. scaler \in Scalers /\ Backed(scaler) /\ scaler.names = SubsettingCRS
        /\ scaler.crs = SubsettingCRS
    BY <1>1 DEF Subsetting
  <2>8. /\ scaler' \in Scalers /\ scaler'.names = SubsettingCRS /\ scaler'.crs = SubsettingCRS
        /\ Backed(scaler')
    <3>1. CASE todo[1].kind = "slice"
      <4>1. todo[1].at \in Open
        BY <2>5, <3>1 DEF SubsetSound, Open
      <4> QED BY <1>1, <2>1, <2>2, <2>4, <2>6, <2>7, <3>1, <4>1, TrimBacked DEF Slice
    <3>2. CASE todo[1].kind # "slice"
      <4>1. todo[1].low \in Open /\ todo[1].high \in Open
        BY <2>5, <3>2 DEF SubsetSound, Open
      <4> QED BY <1>1, <2>1, <2>2, <2>4, <2>6, <2>7, <3>2, <4>1, TrimBacked
    <3> QED BY <3>1, <3>2
  <2>9. Backed(scaler') = Backed(scaler)'
    BY <2>2, AskingStands DEF Backed
  <2>10. Subsets' = Subsets /\ SubsettingCRS' = SubsettingCRS
    BY <2>2, AskingStands
  <2>11. Subsetting'
    BY <2>2, <2>3, <2>8, <2>9, <2>10 DEF Subsetting
  <2> QED BY <2>2, <2>11
<1> QED BY <1>2, <1>3
\* The subsets on the way hold the places that are asked for.
LEMMA SubsettingAsks ==
  ASSUME GridInv, stage = "subset", NEW p \in DataPoints(Coverage), AskedFor(p)
  PROVE  Subsetted(Coverage, scaler, p)
<1>1. /\ Version = 2 /\ Subsetting
  BY DEF GridInv, Version
<1>2. SUFFICES ASSUME NEW a \in Axes, scaler.subsetted[a]
               PROVE  LET q == Project(p, Coverage.native, SubsettingCRS)[a]
                      IN  scaler.min[a] <= q /\ q <= scaler.max[a]
  BY <1>1 DEF Subsetted, Subsetting
<1> DEFINE there == Project(p, Coverage.native, SubsettingCRS)
<1>3. PICK i \in DOMAIN Subsets :
         /\ Subsets[i].axis # "time" /\ AxisOf(Coverage, SubsettingCRS, Subsets[i].axis) = a
         /\ \/ /\ Subsets[i].kind = "slice"
               /\ scaler.min[a] = Subsets[i].at /\ scaler.max[a] = Subsets[i].at
            \/ /\ Subsets[i].kind # "slice"
               /\ scaler.min[a] = Subsets[i].low /\ scaler.max[a] = Subsets[i].high
  BY <1>1, <1>2 DEF Subsetting, Backed
<1>4. SubsetAsks(there, Subsets[i])
  BY <1>1, <1>3 DEF AskedFor
<1>5. there[a] \in Int
  <2>1. Coverage.native \in DOMAIN CRSs /\ p \in Place /\ SubsettingCRS \in DOMAIN CRSs
    BY LayerKnown DEF GridInv, Coverage, KnownCoverage
  <2> QED BY <2>1, PlaceProjected DEF Place
<1> HIDE DEF there
<1>6. IF Subsets[i].kind = "slice" THEN there[a] = Subsets[i].at
      ELSE Subsets[i].low <= there[a] /\ there[a] <= Subsets[i].high
  BY <1>3, <1>4 DEF SubsetAsks
<1>7. scaler.min[a] <= there[a] /\ there[a] <= scaler.max[a]
  BY <1>3, <1>5, <1>6
<1> QED BY <1>7 DEF there

\* What the scaler holds does not get lost when a size is set.
LEMMA SizeKeeps ==
  ASSUME NEW s, Holding(s), NEW axis \in Axes, NEW num, NEW den, s.size[axis] = Unset
  PROVE  Holding(SetSize(s, axis, num, den))
<1> DEFINE t == SetSize(s, axis, num, den)
<1>1. /\ DOMAIN t = DOMAIN s /\ t.crs = s.crs /\ t.min = s.min /\ t.max = s.max
      /\ t.size = [s.size EXCEPT ![axis] = (2 * num + den) \div (2 * den)]
  BY DEF SetSize, Holding
<1> HIDE DEF t
<1>2. DOMAIN t.size = Axes /\ \A a \in Axes : a # axis => t.size[a] = s.size[a]
  BY <1>1 DEF Holding
<1>3. s.size[axis] # 1
  BY UnsetAssumption
<1>4. \A p : Beside(Coverage, s, p) => Beside(Coverage, t, p)
  BY <1>1, <1>2, <1>3 DEF Beside
<1>5. Holding(t)
  BY <1>1, <1>2, <1>4 DEF Holding
<1> QED BY <1>5 DEF t

\* Nor when the sizes that are left are computed: the grid holds what it should.
LEMMA CompletedHolds ==
  ASSUME Holding(scaler), KnownCoverage, Version = 2, NEW p \in DataPoints(Coverage), AskedFor(p)
  PROVE  LET s == Completed(Coverage, scaler)
             grid == Grid(s.crs, s.min, s.max, s.size)
         IN  Holds(grid, Project(p, Coverage.native, grid.crs))
<1> DEFINE s == Completed(Coverage, scaler)
           grid == Grid(s.crs, s.min, s.max, s.size)
           Of(a) == SetSize(scaler, a, NativeSize(Coverage, scaler, a, 1),
                            AxisDen(Coverage, scaler, a, 1)).size[a]
           q == Project(p, Coverage.native, scaler.crs)
<1>1. s = [scaler EXCEPT !.size = [a \in Axes |-> IF scaler.size[a] # Unset THEN scaler.size[a]
                                                   ELSE Of(a)]]
  BY DEF Completed
<1> HIDE DEF Of, s
<1>2. /\ grid.crs = scaler.crs /\ grid.min = scaler.min /\ grid.max = scaler.max
      /\ \A a \in Axes : scaler.size[a] # Unset => grid.size[a] = scaler.size[a]
  BY <1>1 DEF Holding, Grid
<1>3. Beside(Coverage, scaler, p)
  BY DEF Holding
<1>4. q \in Place /\ Resolution(Coverage, scaler.crs) \in Place
  BY PlaceProjected, LayerKnown DEF Holding, KnownCoverage, Coverage
<1> HIDE DEF grid
<1>5. ASSUME NEW a \in Axes
      PROVE  LET slack == IF Version = 2 /\ grid.size[a] = 1
                          THEN 3 * Size(Resolution(Coverage, grid.crs)[a]) ELSE 0
             IN  /\ 2 * Min({grid.min[a], grid.max[a]}) - slack <= 2 * q[a]
                 /\ 2 * q[a] <= 2 * Max({grid.min[a], grid.max[a]}) + slack
  <2> DEFINE margin == 3 * Size(Resolution(Coverage, grid.crs)[a])
             low == Min({grid.min[a], grid.max[a]})
             high == Max({grid.min[a], grid.max[a]})
  <2>1. margin \in Nat
    <3>1. Resolution(Coverage, grid.crs)[a] \in Int
      BY <1>2, <1>4 DEF Place
    <3> HIDE DEF grid
    <3> QED BY <3>1 DEF Size
  <2>2. /\ q[a] \in Int /\ grid.min[a] \in Int /\ grid.max[a] \in Int
        /\ low \in Int /\ high \in Int
        /\ low <= grid.min[a] /\ grid.max[a] <= high
    <3>1. q[a] \in Int /\ grid.min[a] \in Int /\ grid.max[a] \in Int
      BY <1>2, <1>4 DEF Holding, Place
    <3> HIDE DEF q
    <3> QED BY <3>1, BoundsOfTwo
  <2>3. \/ grid.min[a] <= q[a] /\ q[a] <= grid.max[a]
        \/ grid.size[a] = 1 /\ 2 * low - margin <= 2 * q[a] /\ 2 * q[a] <= 2 * high + margin
    BY <1>2, <1>3, UnsetAssumption DEF Beside
  <2> HIDE DEF q, margin, low, high
  <2>4. CASE grid.size[a] = 1
    <3>1. 2 * low - margin <= 2 * q[a] /\ 2 * q[a] <= 2 * high + margin
      BY <2>1, <2>2, <2>3
    <3> QED BY <2>4, <3>1 DEF margin, low, high
  <2>5. CASE grid.size[a] # 1
    <3>1. 2 * low - 0 <= 2 * q[a] /\ 2 * q[a] <= 2 * high + 0
      BY <2>1, <2>2, <2>3, <2>5
    <3> QED BY <2>5, <3>1 DEF low, high
  <2> QED BY <2>4, <2>5
<1> HIDE DEF q
<1>6. Holds(grid, q)
  BY <1>5 DEF Holds
<1> QED BY <1>2, <1>6 DEF grid, s, q
\* The box of version 1 holds the places that are asked for, in the CRS of the
\* response too.
LEMMA BoxHolds ==
  ASSUME GridInv, stage = "check1", todo = <<>>, NEW p \in DataPoints(Coverage), AskedFor(p)
  PROVE  Holds(Grid1, Project(p, Coverage.native, Grid1.crs))
<1> DEFINE bbox == args["bbox"]
           there == Project(p, Coverage.native, ResponseCRS)
<1>1. /\ request \in Requests /\ Version = 1 /\ Range(todo) = {}
  BY DEF GridInv, Version, Range
<1>2. /\ KnownCoverage /\ RequestCRS \in DOMAIN CRSs /\ ResponseCRS \in DOMAIN CRSs
      /\ "bbox" \in DOMAIN args
  BY <1>1 DEF GridInv, Checked1, Given
<1>3. bbox \in Region
  BY <1>1, <1>2, RequestsAssumption DEF args
<1>4. Coverage.native \in DOMAIN CRSs /\ p \in Place
  BY <1>2, LayerKnown DEF KnownCoverage, Coverage
<1>5. InBox(Project(p, Coverage.native, RequestCRS), bbox)
  BY <1>1 DEF AskedFor
<1>6. there \in Place
  BY <1>2, <1>4, PlaceProjected
<1>7. Bounds1 \in Region /\ InBox(there, Bounds1)
  <2>1. CASE RequestCRS = ResponseCRS
    BY <1>3, <1>5, <2>1 DEF Bounds1
  <2>2. CASE RequestCRS # ResponseCRS
    <3>1. /\ Project(p, Coverage.native, RequestCRS) \in Place
          /\ Project(Project(p, Coverage.native, RequestCRS), RequestCRS, ResponseCRS) = there
      BY <1>2, <1>4, PlaceProjected, ProjectedTwice
    <3>2. /\ Reproject(bbox, RequestCRS, ResponseCRS) \in Region
          /\ InBox(there, Reproject(bbox, RequestCRS, ResponseCRS))
      <4> HIDE DEF bbox, there
      <4> QED BY <1>2, <1>3, <1>5, <3>1, BoxProjected
    <3> QED BY <2>2, <3>2 DEF Bounds1, Extent1
  <2> QED BY <2>1, <2>2
<1>8. Grid1.crs = ResponseCRS /\ Grid1.min = Bounds1.min /\ Grid1.max = Bounds1.max
  BY DEF Grid1, Grid
<1> HIDE DEF bbox, there
<1>9. ASSUME NEW a \in Axes
      PROVE  /\ 2 * Min({Grid1.min[a], Grid1.max[a]}) - 0 <= 2 * there[a]
             /\ 2 * there[a] <= 2 * Max({Grid1.min[a], Grid1.max[a]}) + 0
  <2>1. /\ Grid1.min[a] \in Int /\ Grid1.max[a] \in Int /\ there[a] \in Int
        /\ Grid1.min[a] <= there[a] /\ there[a] <= Grid1.max[a]
    BY <1>6, <1>7, <1>8 DEF Region, Place, InBox
  <2>2. /\ Min({Grid1.min[a], Grid1.max[a]}) \in Int /\ Max({Grid1.min[a], Grid1.max[a]}) \in Int
        /\ Min({Grid1.min[a], Grid1.max[a]}) <= Grid1.min[a]
        /\ Grid1.max[a] <= Max({Grid1.min[a], Grid1.max[a]})
    BY <2>1, BoundsOfTwo
  <2> QED BY <2>1, <2>2
<1>10. Holds(Grid1, there)
  BY <1>1, <1>9 DEF Holds
<1> QED BY <1>8, <1>10 DEF there

\* A check passes on, or ends the request.
LEMMA CheckKeeps ==
  ASSUME GridInv, Check1
  PROVE  \/ result'.outcome # "accepted" /\ stage' = "done" /\ request' = request
         \/ stage' = "check1" /\ request' = request /\ result' = result /\ Checked1'
<1>1. /\ stage = "check1" /\ todo # <<>> /\ request.op = "GetCoverage1" /\ Checked1
  BY DEF Check1, GridInv
<1>2. CASE Refused \/ Error
  BY <1>2 DEF Refused, Error, Finish
<1>3. CASE /\ Outcome1(todo[1]) = "ok" /\ todo' = Tail(todo)
           /\ UNCHANGED <<request, stage, scaler, result>>
  <2>1. /\ IsSequence(Tail(todo)) /\ Range(todo) \subseteq Range(Tail(todo)) \cup {todo[1]}
    BY <1>1, RestOfList DEF Checked1
  <2>2. /\ todo[1] = "coverage" => KnownCoverage
        /\ todo[1] = "crs" => Given("crs") /\ RequestCRS \in DOMAIN CRSs
        /\ todo[1] = "response_crs" => ResponseCRS \in DOMAIN CRSs
        /\ todo[1] = "bbox" => Given("bbox")
    BY <1>3 DEF Outcome1, RequestCRS
  <2>3. /\ KnownCoverage' = KnownCoverage /\ args' = args /\ RequestCRS' = RequestCRS
        /\ ResponseCRS' = ResponseCRS /\ \A name : Given(name)' = Given(name)
    BY <1>3, AskingStands DEF RequestCRS, ResponseCRS, Arg, Given
  <2>4. Checked1'
    BY <1>1, <1>3, <2>1, <2>2, <2>3 DEF Checked1
  <2> QED BY <1>1, <1>3, <2>4
<1> QED BY <1>2, <1>3 DEF Check1
\* Every step keeps what is known of the grid.
LEMMA GridNext == ASSUME GridInv, [Next]_vars PROVE GridInv'
<1> USE DEF GridInv
<1>1. ASSUME request' = request, stage' \in {"done", "check1", "subset", "scale", "grid"},
             result'.outcome # "accepted",
             stage' = "check1" => request.op = "GetCoverage1" /\ Checked1',
             stage' \in {"subset", "scale", "grid"} =>
                 /\ request.op = "GetCoverage2" /\ KnownCoverage
                 /\ SubsettingCRS \in DOMAIN CRSs /\ OutputCRS \in DOMAIN CRSs,
             stage' = "subset" => Subsetting', stage' \in {"scale", "grid"} => Holding(scaler)'
      PROVE  GridInv'
  BY <1>1, AskingStands DEF GridCovers, Accepted
<1>2. ASSUME UNCHANGED vars PROVE GridInv'
  <2>1. GridCovers'
    <3>1. \A p : Holds(result.grid, p)' = Holds(result.grid, p)
      BY <1>2, AskingStands DEF vars, Holds
    <3> QED BY <1>2, <3>1, AskingStands DEF vars, GridCovers, Accepted
  <2>2. Holding(scaler)' = Holding(scaler)
    BY <1>2, AskingStands DEF vars, Holding
  <2> QED BY <1>2, <2>1, <2>2, KnowledgeStands, AskingStands DEF vars
<1>3. ASSUME request' = request, stage' = "done", GridCovers' PROVE GridInv'
  BY <1>3
<1>4. ASSUME NEW outcome, outcome # "accepted", Finish(outcome, NoGrid) PROVE GridInv'
  BY <1>1, <1>4 DEF Finish
<1>5. (Refused => GridInv') /\ (Error => GridInv')
  BY <1>4 DEF Refused, Error
<1>6. CASE Check1
  <2>1. request.op = "GetCoverage1"
    BY <1>6 DEF Check1
  <2>2. result.outcome # "accepted"
    BY <1>6 DEF Check1
  <2> QED BY <1>1, <1>6, <2>1, <2>2, CheckKeeps
<1>7. CASE Grid1Done
  <2>1. GridCovers'
    BY <1>7, BoxHolds, GridHolds DEF Grid1Done
  <2> QED BY <1>3, <1>7, <2>1 DEF Grid1Done, Answer, Error, Finish
<1>8. CASE Begin2
  <2>1. CASE Refused
    BY <1>5, <2>1
  <2>2. CASE /\ KnownCoverage /\ SubsettingCRS \in DOMAIN CRSs /\ OutputCRS \in DOMAIN CRSs
             /\ scaler' = NewScaler(SubsettingCRS) /\ stage' = "subset" /\ todo' = Subsets
             /\ UNCHANGED <<request, result>>
    <3>1. scaler' \in Scalers /\ scaler'.names = SubsettingCRS /\ scaler'.crs = SubsettingCRS
          /\ \A a \in Axes : ~scaler'.subsetted[a]
      BY <2>2 DEF NewScaler, Scalers, Open
    <3>2. Subsetting'
      BY <2>2, <3>1, AskingStands, SubsetsKnown DEF Subsetting, Backed
    <3> QED BY <1>1, <1>8, <2>2, <3>2 DEF Begin2
  <2> QED BY <1>8, <2>1, <2>2 DEF Begin2
<1>9. CASE SubsetTime
  <2>1. CASE Error
    BY <1>5, <2>1
  <2>2. CASE scaler' = scaler /\ Continue("subset", Tail(todo))
    <3>1. Subsetting'
      BY <1>9, <2>2, AskingStands, KnowledgeStands, RestOfList DEF SubsetTime, Continue, Subsetting
    <3> QED BY <1>1, <1>9, <2>2, <3>1 DEF SubsetTime, Continue
  <2> QED BY <1>9, <2>1, <2>2 DEF SubsetTime
<1>10. CASE SubsetAxis
  <2>1. stage = "subset"
    BY <1>10 DEF SubsetAxis
  <2> QED BY <1>1, <1>10, <2>1, SubsetKeeps
<1>11. CASE ToOutputCRS
  <2>1. CASE Refused \/ Error
    BY <1>5, <2>1
  <2>2. CASE /\ Convertible(Coverage, scaler, OutputCRS) /\ stage = "subset"
             /\ scaler' = ToCRS(Coverage, scaler, OutputCRS) /\ Continue("scale", Scales)
    <3>1. /\ Bounded(scaler) /\ scaler \in Scalers /\ OutputCRS \in DOMAIN CRSs /\ KnownCoverage
      BY <2>2 DEF Convertible, Bounded, Subsetting
    <3>2. /\ scaler' \in Scalers /\ scaler'.min \in Place /\ scaler'.max \in Place
          /\ \A p \in DataPoints(Coverage) :
                 Subsetted(Coverage, scaler, p) => Beside(Coverage, scaler', p)
      BY <2>2, <3>1, ConvertedHolds DEF KnownCoverage, Coverage
    <3>3. \A p \in DataPoints(Coverage) : AskedFor(p) => Beside(Coverage, scaler', p)
      BY <2>2, <3>2, SubsettingAsks
    <3>4. Holding(scaler)'
      BY <2>2, <3>2, <3>3, AskingStands DEF Continue, Holding, Scalers
    <3> QED BY <1>1, <2>2, <3>4 DEF Continue
  <2> QED BY <1>11, <2>1, <2>2 DEF ToOutputCRS
<1>12. CASE Scale
  <2> DEFINE axis == AxisOf(Coverage, scaler.names, todo[1].axis)
  <2>1. CASE Refused \/ Error
    BY <1>5, <2>1
  <2>2. CASE \E num, den : /\ axis # "unknown" /\ Sizable(scaler, axis, num)
                           /\ scaler' = SetSize(scaler, axis, num, den)
                           /\ Continue("scale", Tail(todo))
    <3>1. stage = "scale" /\ Holding(scaler)
      BY <1>12 DEF Scale
    <3>2. axis \in Axes
      BY <2>2, AxisKnown
    <3> HIDE DEF axis
    <3>3. Holding(scaler')
      BY <2>2, <3>1, <3>2, SizeKeeps DEF Sizable
    <3>4. Holding(scaler)'
      BY <2>2, <3>3, AskingStands DEF Holding, Continue
    <3> QED BY <1>1, <2>2, <3>1, <3>4 DEF Continue
  <2> QED BY <1>12, <2>1, <2>2 DEF Scale
<1>13. CASE Fields
  <2>1. CASE Refused
    BY <1>5, <2>1
  <2>2. CASE stage' = "grid" /\ UNCHANGED <<request, todo, scaler, times, result>>
    <3>1. stage = "scale" /\ Holding(scaler)
      BY <1>13 DEF Fields
    <3>2. Holding(scaler)'
      BY <2>2, <3>1, AskingStands DEF Holding
    <3> QED BY <1>1, <2>2, <3>1, <3>2
  <2> QED BY <1>13, <2>1, <2>2 DEF Fields
<1>14. CASE Grid2Done
  <2>1. stage = "grid" /\ Version = 2 /\ KnownCoverage /\ Holding(scaler)
    BY <1>14 DEF Grid2Done, Version
  <2>2. GridCovers'
    BY <1>14, <2>1, CompletedHolds, GridHolds DEF Grid2Done
  <2> QED BY <1>3, <1>14, <2>2 DEF Grid2Done, Answer, Error, Finish
<1>15. CASE Describe
  <2>1. Refused \/ Error \/ Finish("described", NoGrid)
    BY <1>15 DEF Describe
  <2> QED BY <1>4, <1>5, <2>1
<1>16. CASE Done
  BY <1>2, <1>16 DEF Done
<1> QED BY <1>2, <1>6, <1>7, <1>8, <1>9, <1>10, <1>11, <1>12, <1>13, <1>14, <1>15, <1>16 DEF Next

\* Whatever the CRSs, boxes, subsets and scales of a request are, and in whatever
\* order they come, the grid of a coverage holds every place of the layer that
\* was asked for, or is the pixel next to it (WCSScaler, WCS1GetCoverageRequest):
\* for any layers and any shear between the CRSs.
THEOREM GridAlwaysCovers == Spec => []GridCovers
<1>1. GridInv => GridCovers
  BY DEF GridInv
<1> QED BY <1>1, GridInit, GridNext, PTL DEF Spec
-----------------------------------------------------------------------------
(* A request that keeps to the description is served *)

\* Nothing that a request of version 1 has to pass fails.
LEMMA ReasonablePasses ==
  ASSUME Reasonable1, NEW step \in Range(Steps1) PROVE Outcome1(step) = "ok"
<1>1. /\ KnownCoverage /\ KnownFormat /\ Given("crs") /\ args["crs"] \in DOMAIN CRSs
      /\ ResponseCRS \in DOMAIN CRSs /\ Given("bbox")
      /\ Arg("exceptions", "xml") = "xml" /\ Arg("interpolation", "nearest") = "nearest"
      /\ BandsOutcome = "ok" /\ SizeOutcome = "ok"
  BY DEF Reasonable1, RequestCRS, Given, Arg
<1>2. TimeOutcome = "ok"
  <2>1. CASE Given("time")
    <3>1. /\ ~Coverage.subday /\ Asked1 # <<>> /\ Range(Asked1) \subseteq Range(Coverage.times)
          /\ Len(Asked1) > 1 => Formats[args["format"]].multiTime
      BY <2>1 DEF Reasonable1, FormatFits, KnownFormat
    <3>2. Coverage.times \in Seq(Range(Coverage.times))
      BY <1>1, LayersAssumption DEF KnownCoverage, Coverage, IsSequence
    <3>3. \A t \in Range(Asked1) : Contains(Coverage.times, t)
      <4>1. \A t \in Range(Coverage.times) : Contains(Coverage.times, t)
        BY <3>2 DEF Range, Contains
      <4> QED BY <3>1, <4>1
    <3> QED BY <2>1, <3>1, <3>3 DEF TimeOutcome
  <2> QED BY <2>1 DEF TimeOutcome
<1>3. step \in {"coverage", "format", "crs", "response_crs", "bbox", "time", "bands",
                "exceptions", "interpolation", "size"}
  BY DEF Range, Steps1
<1> QED BY <1>1, <1>2, <1>3 DEF Outcome1

\* A band has a name, and the label of a band that is among its aliases.
LEMMA BandsNamed ==
  ASSUME KnownCoverage
  PROVE  /\ IsSequence(Coverage.bands)
         /\ \A i \in DOMAIN Coverage.bands : BandNamed(Coverage, Coverage.bands[i].name) # {}
         /\ (\A b \in Range(Coverage.bands) : b.label \in b.aliases)
                => Sized(Coverage, Range(Labels(Coverage)))
<1>1. IsSequence(Coverage.bands)
  BY LayersAssumption DEF KnownCoverage, Coverage, BandsSound
<1>2. \A i \in DOMAIN Coverage.bands : BandNamed(Coverage, Coverage.bands[i].name) # {}
  BY DEF BandNamed
<1>3. ASSUME \A b \in Range(Coverage.bands) : b.label \in b.aliases, NEW n \in Range(Labels(Coverage))
      PROVE  BandNamed(Coverage, n) # {}
  <2>1. PICK i \in DOMAIN Coverage.bands : n = Coverage.bands[i].label
    BY DEF Range, Labels
  <2>2. Coverage.bands[i].label \in Coverage.bands[i].aliases
    BY <1>3 DEF Range
  <2> QED BY <2>1, <2>2 DEF BandNamed
<1> QED BY <1>1, <1>2, <1>3 DEF Sized

\* The bands of version 1 are known by the names they are delivered under.
LEMMA BandsSized1 == ASSUME Reasonable1 PROVE Sized(Coverage, Bands1)
<1>1. KnownCoverage /\ BandsOutcome = "ok"
  BY DEF Reasonable1
<1>2. CASE Given("measurements")
  <2>1. \A n \in Measurements : LocaleBand(Coverage, n) # {}
    BY Zenon, <1>1, <1>2 DEF BandsOutcome
  <2>2. ASSUME NEW n \in Measurements
        PROVE  BandNamed(Coverage, Coverage.bands[Min(LocaleBand(Coverage, n))].name) # {}
    <3>1. LocaleBand(Coverage, n) \in SUBSET DOMAIN Coverage.bands
      BY DEF LocaleBand, BandNamed
    <3>2. LocaleBand(Coverage, n) \in SUBSET Nat
      BY <1>1, <3>1, BandsNamed DEF IsSequence
    <3>3. Min(LocaleBand(Coverage, n)) \in DOMAIN Coverage.bands
      BY <2>1, <3>1, <3>2, LeastNumber
    <3> QED BY <1>1, <3>3, BandsNamed
  <2> QED BY <1>2, <2>2 DEF Sized, Bands1
<1>3. CASE ~Given("measurements") /\ StyleBands # {}
  <2>1. \E style \in DOMAIN Coverage.styles : StyleBands = Coverage.styles[style]
    BY Zenon, <1>3 DEF StyleBands
  <2>2. StyleBands \subseteq {band.name : band \in Range(Coverage.bands)}
    BY <1>1, <2>1, LayersAssumption DEF KnownCoverage, Coverage, BandsSound
  <2>3. \A n \in StyleBands : BandNamed(Coverage, n) # {}
    BY <1>1, <2>2, BandsNamed DEF Range
  <2> QED BY <1>3, <2>3 DEF Sized, Bands1
<1>4. CASE ~Given("measurements") /\ StyleBands = {}
  BY <1>1, <1>4, BandsNamed DEF Reasonable1, Bands1
<1> QED BY <1>2, <1>3, <1>4
\* A quotient of a number by one that is not greater.
LEMMA QuotientPositive ==
  ASSUME NEW n \in Int, NEW d \in Int, 0 < d, d <= n PROVE n \div d \in Int /\ n \div d > 0
OBVIOUS

\* At least half a pixel is a pixel.
LEMMA PixelsPositive ==
  ASSUME NEW extent \in Int, NEW res \in Int, 0 < res, res <= 2 * extent
  PROVE  Pixels(extent, res) \in Int /\ Pixels(extent, res) > 0
<1>1. /\ 2 * extent + res \in Int /\ 2 * res \in Int /\ 0 < 2 * res /\ 2 * res <= 2 * extent + res
      /\ ~(2 * extent + res < 0)
  OBVIOUS
<1>2. (2 * extent + res) \div (2 * res) \in Int /\ (2 * extent + res) \div (2 * res) > 0
  BY <1>1, QuotientPositive
<1> QED BY <1>1, <1>2 DEF Pixels

\* A box does not become narrower or lower when it is projected.
LEMMA BoxGrows ==
  ASSUME NEW box \in Region, NEW from \in DOMAIN CRSs, NEW to \in DOMAIN CRSs, NEW a \in Axes
  PROVE  LET there == Reproject(box, from, to)
         IN  /\ there \in Region
             /\ box.max[a] - box.min[a] <= there.max[a] - there.min[a]
<1> DEFINE there == Reproject(box, from, to)
           near == Project([x |-> box.min.x, y |-> box.min.y], from, to)
           aside == Project([x |-> box.max.x, y |-> box.min.y], from, to)
           above == Project([x |-> box.min.x, y |-> box.max.y], from, to)
<1>1. there \in Region /\ InBox(near, there) /\ InBox(aside, there) /\ InBox(above, there)
  BY CornersHeld
<1>2. box.min.x \in Int /\ box.min.y \in Int /\ box.max.x \in Int /\ box.max.y \in Int
  BY DEF Region, Place, Axes
<1>3. Shear[to] - Shear[from] \in Int
  BY ShearAssumption
<1>4. PICK shift \in Int : near.x = box.min.x + shift /\ aside.x = box.max.x + shift
  <2>1. \A n \in Int : (Shear[to] - Shear[from]) * n \in Int
    BY <1>3
  <2> QED BY <1>2, <2>1 DEF Project
<1>5. near.y = box.min.y /\ above.y = box.max.y
  BY DEF Project
<1> HIDE DEF there, near, aside, above
<1>6. /\ there.min.x \in Int /\ there.max.x \in Int /\ there.min.y \in Int /\ there.max.y \in Int
      /\ there.min.x <= near.x /\ aside.x <= there.max.x
      /\ there.min.y <= near.y /\ above.y <= there.max.y
  BY <1>1 DEF Region, Place, Axes, InBox
<1>7. /\ box.max.x - box.min.x <= there.max.x - there.min.x
      /\ box.max.y - box.min.y <= there.max.y - there.min.y
  BY <1>2, <1>4, <1>5, <1>6
<1>8. a = "x" \/ a = "y"
  BY DEF Axes
<1> QED BY <1>1, <1>7, <1>8 DEF there

\* The grid of version 1 has pixels.
LEMMA PixelsOfBox ==
  ASSUME Reasonable1, request \in Requests, NEW a \in Axes
  PROVE  Grid1.size[a] \in Int /\ Grid1.size[a] > 0
<1> DEFINE bbox == args["bbox"]
<1>1. /\ "bbox" \in DOMAIN args /\ RequestCRS \in DOMAIN CRSs /\ ResponseCRS \in DOMAIN CRSs
      /\ SizeOutcome = "ok"
  BY DEF Reasonable1
<1>2. bbox \in Region
  BY <1>1, RequestsAssumption DEF args
<1>3. /\ Bounds1 \in Region
      /\ \A b \in Axes : bbox.max[b] - bbox.min[b] <= Bounds1.max[b] - Bounds1.min[b]
  <2>1. CASE RequestCRS = ResponseCRS
    <3>1. \A b \in Axes : bbox.max[b] - bbox.min[b] <= bbox.max[b] - bbox.min[b]
      BY <1>2 DEF Region, Place
    <3> QED BY <1>2, <2>1, <3>1 DEF Bounds1
  <2>2. CASE RequestCRS # ResponseCRS
    <3>1. Bounds1 = Reproject(bbox, RequestCRS, ResponseCRS)
      BY <2>2 DEF Bounds1, Extent1
    <3> HIDE DEF bbox
    <3>2. "x" \in Axes
      BY DEF Axes
    <3> QED BY <1>1, <1>2, <3>1, <3>2, BoxGrows
  <2> QED BY <2>1, <2>2
<1>4. \/ /\ Given("width") /\ Given("height") /\ Positive("width") /\ Positive("height")
      \/ /\ Given("resx") /\ Given("resy") /\ ~Given("width") /\ Positive("resx") /\ Positive("resy")
  BY <1>1 DEF SizeOutcome, Given
<1>5. \A name \in {"width", "height", "resx", "resy"} :
          Given(name) => args[name] \in [number : BOOLEAN, val : Int]
  BY RequestsAssumption DEF Given, args
<1>6. CASE Given("width") /\ Given("height") /\ Positive("width") /\ Positive("height")
  <2>1. Grid1.size = [x |-> args["width"].val, y |-> args["height"].val]
    BY <1>6 DEF Grid1, Grid
  <2> QED BY <1>5, <1>6, <2>1 DEF Positive, Axes
<1>7. CASE Given("resx") /\ Given("resy") /\ ~Given("width") /\ Positive("resx") /\ Positive("resy")
  <2> DEFINE name == IF a = "x" THEN "resx" ELSE "resy"
  <2>1. Grid1.size = [x |-> Pixels(Bounds1.max.x - Bounds1.min.x, args["resx"].val),
                      y |-> Pixels(Bounds1.max.y - Bounds1.min.y, args["resy"].val)]
    BY <1>7 DEF Grid1, Grid
  <2>2. args[name].val \in Int /\ 0 < args[name].val
    BY <1>5, <1>7 DEF Positive
  <2>3. 2 * (bbox.max[a] - bbox.min[a]) >= args[name].val
    BY <1>7 DEF Reasonable1
  <2>4. Grid1.size[a] = Pixels(Bounds1.max[a] - Bounds1.min[a], args[name].val)
    BY <2>1 DEF Axes
  <2> HIDE DEF name, bbox
  <2>5. /\ bbox.max[a] - bbox.min[a] \in Int /\ Bounds1.max[a] - Bounds1.min[a] \in Int
        /\ bbox.max[a] - bbox.min[a] <= Bounds1.max[a] - Bounds1.min[a]
    BY <1>2, <1>3 DEF Region, Place
  <2>6. args[name].val <= 2 * (Bounds1.max[a] - Bounds1.min[a])
    BY <2>2, <2>3, <2>5
  <2> QED BY <2>2, <2>4, <2>5, <2>6, PixelsPositive
<1> QED BY <1>4, <1>6, <1>7
\* What a request of version 2 keeps to, whatever dates it ends with.
Announcing ==
    /\ request.op = "GetCoverage2" /\ KnownCoverage
    /\ \A b \in Range(Coverage.bands) : b.label \in b.aliases
    /\ SubsettingCRS = Coverage.native /\ OutputCRS \in {SubsettingCRS} \cap Coverage.boxed
    /\ Format2 \in DOMAIN Formats /\ Version \in Formats[Format2].versions
    /\ Distinct([i \in DOMAIN Subsets |-> Subsets[i].axis])
    /\ Distinct([i \in DOMAIN Scales |-> Scales[i].axis])
    /\ \A s \in Range(Subsets) : Within(Coverage, s)
    /\ \A s \in Range(Scales) : Sensible(Coverage, s)
    /\ \A r \in Range(RangeSubset) : {r.from, r.to} \subseteq Range(Labels(Coverage))

\* The name of an axis.
Label(a) == Announced(Coverage)[a].label

\* A list whose items are as many as its places holds none twice.
LEMMA DistinctInjective ==
  ASSUME NEW names, IsSequence(names), Distinct(names)
  PROVE  \A i, j \in DOMAIN names : names[i] = names[j] => i = j
<1> DEFINE S == Range(names)
           n == Len(names)
<1>1. n \in Nat /\ DOMAIN names = 1 .. n /\ names \in [1 .. n -> S]
  <2>1. names \in Seq(S)
    BY DEF IsSequence
  <2> HIDE DEF S
  <2> QED BY <2>1, LenProperties
<1>2. \A x \in S : \E i \in 1 .. n : names[i] = x
  BY <1>1 DEF Range
<1>3. Cardinality(S) = n
  BY DEF Distinct
<1> HIDE DEF S, n
<1>4. names \in Surjection(1 .. n, S)
  BY <1>1, <1>2 DEF Surjection
<1>5. IsFiniteSet(1 .. n) /\ Cardinality(1 .. n) = n
  BY <1>1, FS_Interval
<1>6. names \in Injection(1 .. n, S)
  BY <1>3, <1>4, <1>5, FS_SurjSameCardinalityImpliesInj
<1>7. \A i, j \in 1 .. n : names[i] = names[j] => i = j
  BY Zenon, <1>6 DEF Injection, IsInjective
<1> QED BY <1>1, <1>7

\* The name that is announced for an axis stands for it.
LEMMA LabelsAxes ==
  ASSUME KnownCoverage, NEW a \in Axes
  PROVE  /\ AxisOf(Coverage, Coverage.native, Label(a)) = a
         /\ Label(a) \notin {"time", "k"}
         /\ \A b \in Axes : Label(a) = Label(b) => a = b
<1> DEFINE crs == Coverage.native
           name == Label(a)
           known == << <<{CRSs[crs].horizontal}, "x">>, <<{CRSs[crs].vertical}, "y">>,
                       <<{CRSs[crs].horizontal}, "x">>, <<{CRSs[crs].vertical}, "y">>,
                       <<{"x", "i", "lon", "long", "lng", "longitude"}, "x">>,
                       <<{"y", "j", "lat", "latitude"}, "y">> >>
           fitting == {n \in DOMAIN known : name \in known[n][1]}
<1>1. crs \in DOMAIN CRSs
  BY LayersAssumption DEF KnownCoverage, Coverage
<1>2. /\ CRSs[crs].horizontal # CRSs[crs].vertical
      /\ CRSs[crs].horizontal \notin {"time", "k"} /\ CRSs[crs].vertical \notin {"time", "k"}
  BY <1>1, AxesAssumption
<1>3. \A b \in Axes : Label(b) = IF b = "x" THEN CRSs[crs].horizontal ELSE CRSs[crs].vertical
  BY DEF Label, Announced
<1>4. a = "x" \/ a = "y"
  BY DEF Axes
<1>5. AxisOf(Coverage, crs, name) = IF fitting = {} THEN "unknown" ELSE known[Min(fitting)][2]
  BY Zenon DEF AxisOf
<1>6. /\ DOMAIN known = 1 .. 6 /\ known[1][2] = "x" /\ known[2][2] = "y"
      /\ known[1][1] = {CRSs[crs].horizontal} /\ known[2][1] = {CRSs[crs].vertical}
  OBVIOUS
<1> HIDE DEF known, crs, name
<1>7. fitting \in SUBSET Nat
  BY <1>6
<1>8. CASE a = "x"
  <2>1. 1 \in fitting
    BY <1>3, <1>6, <1>8 DEF name
  <2>2. \A n \in fitting : n >= 1
    BY <1>6
  <2> HIDE DEF fitting
  <2>3. Min(fitting) = 1
    <3>1. Min(fitting) \in fitting /\ \A n \in fitting : Min(fitting) <= n
      BY Zenon, <1>7, <2>1, LeastNumber
    <3>2. Min(fitting) \in Nat /\ Min(fitting) <= 1
      BY <1>7, <2>1, <3>1
    <3> QED BY <2>1, <2>2, <3>1, <3>2
  <2>4. AxisOf(Coverage, crs, name) = a
    BY <1>5, <1>6, <1>8, <2>1, <2>3
  <2> QED BY <1>2, <1>3, <1>8, <2>4 DEF name, crs, Axes
<1>9. CASE a = "y"
  <2>1. 2 \in fitting /\ 1 \notin fitting
    BY <1>2, <1>3, <1>6, <1>9 DEF name
  <2>2. \A n \in fitting : n >= 1
    BY <1>6
  <2> HIDE DEF fitting
  <2>3. Min(fitting) = 2
    <3>1. Min(fitting) \in fitting /\ \A n \in fitting : Min(fitting) <= n
      BY Zenon, <1>7, <2>1, LeastNumber
    <3>2. Min(fitting) \in Nat /\ Min(fitting) <= 2
      BY <1>7, <2>1, <3>1
    <3> QED BY <2>1, <2>2, <3>1, <3>2
  <2>4. AxisOf(Coverage, crs, name) = a
    BY <1>5, <1>6, <1>9, <2>1, <2>3
  <2> QED BY <1>2, <1>3, <1>9, <2>4 DEF name, crs, Axes
<1> QED BY <1>4, <1>8, <1>9
\* A subset within the announced bounds is a proper interval of its axis.
LEMMA SubsetKnown ==
  ASSUME Announcing, request \in Requests, NEW subset \in Range(Subsets), subset.axis # "time"
  PROVE  /\ subset.kind = "trim" /\ subset.low \in Int /\ subset.high \in Int
         /\ subset.low < subset.high
         /\ \E a \in Axes : subset.axis = Label(a)
<1>1. SubsetSound(subset) /\ Within(Coverage, subset)
  BY SubsetsKnown DEF Announcing
<1>2. /\ subset.kind = "trim" /\ Unset \notin {subset.low, subset.high}
      /\ subset.low < subset.high /\ \E a \in Axes : subset.axis = Label(a)
  BY <1>1 DEF Within, Label
<1> QED BY <1>1, <1>2 DEF SubsetSound

\* Subsets leave something of every axis, and not more than each of them does.
LEMMA RemainingKnown ==
  ASSUME Announcing, request \in Requests, NEW a \in Axes
  PROVE  /\ Remaining(Coverage, a) \in Nat /\ Remaining(Coverage, a) > 0
         /\ Remaining(Coverage, a) <= Coverage.extent.max[a] - Coverage.extent.min[a]
         /\ \A s \in Range(Subsets) : s.axis = Label(a) => Remaining(Coverage, a) <= s.high - s.low
<1> DEFINE full == Announced(Coverage)[a].upper - Announced(Coverage)[a].lower
           cut == {s.high - s.low : s \in {r \in Range(Subsets) : r.axis = Announced(Coverage)[a].label}}
<1>1. /\ Coverage.extent.max[a] \in Int /\ Coverage.extent.min[a] \in Int
      /\ Coverage.resolution[a] \in Int /\ Coverage.resolution[a] # 0
      /\ GridHigh(Coverage)[a] > 0
  BY LayersAssumption DEF Announcing, KnownCoverage, Coverage, Region, Place, Sound, Axes
<1>2. full = Coverage.extent.max[a] - Coverage.extent.min[a]
  BY DEF Announced
<1>3. full \in Nat /\ full > 0
  <2>1. GridHigh(Coverage)[a] = full \div Size(Coverage.resolution[a])
    BY <1>2 DEF GridHigh
  <2>2. Size(Coverage.resolution[a]) \in Nat /\ Size(Coverage.resolution[a]) > 0
    BY <1>1 DEF Size
  <2> DEFINE res == Size(Coverage.resolution[a])
  <2>3. full \in Int /\ full \div res > 0
    BY <1>1, <1>2, <2>1
  <2> HIDE DEF full, res
  <2>4. \A n, d \in Int : d > 0 /\ n \div d > 0 => n > 0
    OBVIOUS
  <2> QED BY <2>2, <2>3, <2>4 DEF res
<1>4. Remaining(Coverage, a) = Min({full} \cup cut)
  BY Zenon DEF Remaining
<1>5. ASSUME NEW s \in Range(Subsets), s.axis = Label(a)
      PROVE  s.high - s.low \in Nat /\ s.high - s.low > 0 /\ s.high - s.low \in cut
  <2>1. s.axis # "time"
    BY <1>5, LabelsAxes DEF Announcing
  <2>2. s.high \in Int /\ s.low \in Int /\ s.low < s.high
    BY <2>1, SubsetKnown
  <2> QED BY <1>5, <2>2 DEF Label
<1>6. \A n \in cut : n \in Nat /\ n > 0
  BY <1>5 DEF Label
<1> HIDE DEF full, cut
<1>7. {full} \cup cut \in SUBSET Nat
  BY <1>3, <1>6
<1>8. Remaining(Coverage, a) \in {full} \cup cut
      /\ \A n \in {full} \cup cut : Remaining(Coverage, a) <= n
  BY Zenon, <1>4, <1>7, LeastNumber
<1> QED BY <1>2, <1>3, <1>5, <1>6, <1>8

\* The sizes that are set are positive, and the axes of the others are not narrow.
Scaling(s) ==
    /\ s.names = Coverage.native /\ s.crs = Coverage.native
    /\ \A a \in Axes :
           \/ s.size[a] \in Nat \ {0}
           \/ /\ s.size[a] = Unset
              /\ Remaining(Coverage, a) <= s.max[a] - s.min[a]
              /\ 3 * Size(Coverage.resolution[a]) <= 2 * Size(s.max[a] - s.min[a])

\* The scales still to come are for axes without a size, each for another.
ScalesLeft ==
    /\ IsSequence(todo) /\ Range(todo) \subseteq Range(Scales)
    /\ \A i, j \in DOMAIN todo : todo[i].axis = todo[j].axis => i = j
    /\ \A scale \in Range(todo), a \in Axes : scale.axis = Label(a) => scaler.size[a] = Unset

\* The subsetted axes are those of subsets.
LEMMA SubsettedKnown ==
  ASSUME Announcing, request \in Requests, Subsetting, NEW a \in Axes, scaler.subsetted[a]
  PROVE  /\ scaler.min[a] \in Int /\ scaler.max[a] \in Int
         /\ Remaining(Coverage, a) <= scaler.max[a] - scaler.min[a]
<1>1. PICK i \in DOMAIN Subsets :
          /\ Subsets[i].axis # "time" /\ AxisOf(Coverage, SubsettingCRS, Subsets[i].axis) = a
          /\ \/ Subsets[i].kind = "slice"
             \/ scaler.min[a] = Subsets[i].low /\ scaler.max[a] = Subsets[i].high
  BY DEF Subsetting, Backed
<1> DEFINE subset == Subsets[i]
<1>2. subset \in Range(Subsets)
  BY DEF Range
<1> HIDE DEF subset
<1>3. /\ subset.kind = "trim" /\ subset.low \in Int /\ subset.high \in Int
      /\ \E b \in Axes : subset.axis = Label(b)
  BY <1>1, <1>2, SubsetKnown DEF subset
<1>4. subset.axis = Label(a)
  BY <1>1, <1>3, LabelsAxes DEF Announcing, subset
<1>5. Remaining(Coverage, a) <= subset.high - subset.low
  BY <1>2, <1>4, RemainingKnown
<1> QED BY <1>1, <1>3, <1>5 DEF subset
\* In one CRS, a scaler with subsets of a layer is converted to one whose axes
\* are as long as the subsets left them, unless that is less than 1.5 pixels.
LEMMA ConvertedScales ==
  ASSUME Announcing, request \in Requests, Subsetting, \A a \in Axes : scaler.size[a] = Unset
  PROVE  LET t == ToCRS(Coverage, scaler, OutputCRS)
         IN  /\ Convertible(Coverage, scaler, OutputCRS) /\ Scaling(t)
             /\ \A a \in Axes : 3 * Size(Coverage.resolution[a]) <= 2 * Remaining(Coverage, a)
                    => t.size[a] = Unset
<1> DEFINE new == Coverage.native
           here == Filled(Coverage, scaler, new)
           u == [scaler EXCEPT !.crs = new, !.min = here.min, !.max = here.max]
           t == ToCRS(Coverage, scaler, new)
           res == Resolution(Coverage, new)
           narrow == {a \in Axes : 2 * Size(u.max[a] - u.min[a]) < 3 * Size(res[a])}
           max == [a \in Axes |-> IF a \in narrow THEN u.min[a] + res[a] ELSE u.max[a]]
           size == [a \in Axes |-> IF a \in narrow THEN 1 ELSE u.size[a]]
<1>1. /\ OutputCRS = new /\ SubsettingCRS = new /\ new \in Coverage.boxed
      /\ scaler \in Scalers /\ scaler.crs = new /\ scaler.names = new /\ KnownCoverage
  BY DEF Announcing, Subsetting
<1>2. Bounded(scaler)
  BY SubsettedKnown, UnsetAssumption DEF Bounded
<1>3. Convertible(Coverage, scaler, new)
  BY <1>1, <1>2 DEF Convertible, Bounded
<1>4. res = Coverage.resolution
  BY DEF Resolution
<1>5. /\ new \in DOMAIN CRSs /\ Coverage.extent \in Region /\ Coverage.resolution \in Place
      /\ \A a \in Axes : Coverage.resolution[a] # 0
  BY <1>1, LayersAssumption DEF KnownCoverage, Coverage, Sound, Place, Axes
<1>6. here \in Region
  BY <1>1, <1>2, <1>5, FilledHolds DEF KnownCoverage, Coverage
<1>7. ASSUME NEW a \in Axes PROVE Remaining(Coverage, a) <= here.max[a] - here.min[a]
  <2>1. CASE scaler.subsetted[a]
    <3>1. here.max[a] = scaler.max[a] /\ here.min[a] = scaler.min[a]
      BY <2>1 DEF Filled
    <3> QED BY <2>1, <3>1, SubsettedKnown
  <2>2. CASE ~scaler.subsetted[a]
    <3> DEFINE box == BoxIn(Coverage, new)
    <3>1. here.max[a] = box.max[a] /\ here.min[a] = box.min[a]
      BY <2>2 DEF Filled
    <3>2. box \in Region
          /\ Coverage.extent.max[a] - Coverage.extent.min[a] <= box.max[a] - box.min[a]
      BY <1>5, BoxGrows DEF BoxIn
    <3>3. /\ Coverage.extent.max[a] \in Int /\ Coverage.extent.min[a] \in Int
          /\ box.max[a] \in Int /\ box.min[a] \in Int
      BY <1>5, <3>2 DEF Region, Place
    <3> HIDE DEF here, box
    <3> QED BY <3>1, <3>2, <3>3, RemainingKnown
  <2> QED BY <2>1, <2>2
<1>8. t = Quantise(Coverage, new, u)
  BY <1>1 DEF ToCRS
<1> HIDE DEF here
<1>9. /\ u.crs = new /\ u.names = new /\ u.min = here.min /\ u.max = here.max
      /\ u.size = scaler.size /\ DOMAIN u = DOMAIN scaler
  BY <1>1 DEF Scalers
<1>10. t = [u EXCEPT !.max = max, !.size = size]
  <2> HIDE DEF u, t
  <2>1. t = [u EXCEPT !.max = [a \in Axes |-> IF a \in narrow THEN u.min[a] + res[a] ELSE @[a]],
                      !.size = [a \in Axes |-> IF a \in narrow THEN 1 ELSE @[a]]]
    BY <1>8 DEF Quantise
  <2> QED BY <2>1
<1> HIDE DEF u
<1>11. /\ t.crs = new /\ t.names = new /\ t.min = here.min /\ t.max = max /\ t.size = size
  <2>1. DOMAIN u = {"crs", "names", "min", "max", "size", "subsetted"}
    BY <1>1, <1>9 DEF Scalers
  <2> HIDE DEF t, max, size
  <2> QED BY <1>9, <1>10, <2>1
<1> HIDE DEF t
<1>12. ASSUME NEW a \in Axes
       PROVE  \/ t.size[a] = 1 /\ ~(3 * Size(res[a]) <= 2 * Remaining(Coverage, a))
              \/ /\ t.size[a] = Unset
                 /\ Remaining(Coverage, a) <= t.max[a] - t.min[a]
                 /\ 3 * Size(res[a]) <= 2 * Size(t.max[a] - t.min[a])
  <2> DEFINE width == here.max[a] - here.min[a]
  <2>1. /\ width \in Int /\ res[a] \in Int /\ Size(res[a]) \in Nat /\ Size(width) \in Nat
    BY <1>4, <1>5, <1>6 DEF Region, Place, Size
  <2>2. Remaining(Coverage, a) \in Nat /\ Remaining(Coverage, a) <= width /\ Size(width) = width
    BY <1>7, <2>1, RemainingKnown DEF Size
  <2>3. a \in narrow <=> 2 * Size(width) < 3 * Size(res[a])
    BY <1>9
  <2>4. CASE a \in narrow
    <3>1. size[a] = 1
      BY <2>4
    <3>2. 2 * Size(width) < 3 * Size(res[a])
      BY <2>3, <2>4
    <3> HIDE DEF size, narrow, width
    <3> QED BY <1>11, <2>1, <2>2, <3>1, <3>2
  <2>5. CASE a \notin narrow
    <3>1. size[a] = Unset /\ max[a] = here.max[a]
      BY <1>9, <2>5
    <3>2. ~(2 * Size(width) < 3 * Size(res[a]))
      BY <2>3, <2>5
    <3>3. t.size[a] = Unset /\ t.max[a] - t.min[a] = width
      BY <1>11, <3>1
    <3> HIDE DEF size, max, narrow, width
    <3> QED BY <2>1, <2>2, <3>2, <3>3
  <2> QED BY <2>4, <2>5
<1>13. Scaling(t)
  BY <1>4, <1>11, <1>12 DEF Scaling
<1>14. \A a \in Axes : 3 * Size(Coverage.resolution[a]) <= 2 * Remaining(Coverage, a)
           => t.size[a] = Unset
  BY <1>4, <1>12
<1> QED BY <1>1, <1>3, <1>13, <1>14 DEF t
\* A product of natural numbers, and of greater ones.
LEMMA Products ==
  ASSUME NEW m \in Nat, NEW n \in Nat, NEW k \in Nat, m <= n
  PROVE  m * k \in Nat /\ n * k \in Nat /\ m * k <= n * k /\ (m > 0 /\ k > 0 => m * k > 0)
<1>1. m * k \in Nat /\ n * k \in Nat /\ (n - m) * k \in Nat
  <2>1. \A a, b \in Nat : a * b \in Nat
    OBVIOUS
  <2> QED BY <2>1
<1>2. n * k = m * k + (n - m) * k
  OBVIOUS
<1>3. m > 0 /\ k > 0 => m * k > 0
  OBVIOUS
<1> QED BY <1>1, <1>2, <1>3

\* A factor that leaves half a pixel of what subsets leave of an axis leaves it
\* of the axis.
LEMMA FactorPositive ==
  ASSUME NEW rest \in Nat, rest > 0, NEW width \in Int, rest <= width,
         NEW pixel \in Nat, pixel > 0, NEW n \in Int, NEW d \in Nat, d > 0,
         2 * rest * n >= pixel * d
  PROVE  /\ pixel * d \in Nat /\ pixel * d > 0
         /\ Size(width * n) \in Nat /\ Size(width * n) > 0 /\ pixel * d <= 2 * Size(width * n)
<1>1. pixel * d \in Nat /\ pixel * d > 0
  BY Products
<1>2. 2 * rest * n = 2 * (rest * n)
  OBVIOUS
<1>3. n > 0
  <2> SUFFICES ASSUME n <= 0 PROVE FALSE
    OBVIOUS
  <2>1. rest * (-n) \in Nat
    <3>1. \A a, b \in Nat : a * b \in Nat
      OBVIOUS
    <3> QED BY <3>1
  <2>2. rest * n = -(rest * (-n))
    OBVIOUS
  <2>3. \A p, q, r \in Int : p = -q /\ q >= 0 /\ 2 * p >= r /\ r > 0 => FALSE
    OBVIOUS
  <2>4. rest * n \in Int /\ rest * (-n) \in Int /\ pixel * d \in Int
    BY <1>1, <2>1, <2>2
  <2> QED BY <1>1, <1>2, <2>1, <2>2, <2>3, <2>4
<1>4. rest * n \in Nat /\ width * n \in Nat /\ rest * n <= width * n /\ rest * n > 0
  <2>1. width \in Nat /\ n \in Nat
    BY <1>3
  <2> QED BY <1>3, <2>1, Products
<1>5. Size(width * n) = width * n
  BY <1>4 DEF Size
<1>6. \A p, q, r \in Int : p <= q /\ 2 * p >= r => r <= 2 * q
  OBVIOUS
<1>7. pixel * d <= 2 * (width * n)
  <2>1. 2 * (rest * n) >= pixel * d
    BY <1>2
  <2>2. rest * n \in Int /\ width * n \in Int /\ pixel * d \in Int
    BY <1>1, <1>4
  <2> HIDE <1>2
  <2> QED BY <1>4, <1>6, <2>1, <2>2
<1>8. \A p, q \in Int : p > 0 /\ p <= q => q > 0
  OBVIOUS
<1> QED BY <1>1, <1>4, <1>5, <1>7, <1>8
\* The scales are a list of factors, sizes and extents.
LEMMA ScalesKnown ==
  ASSUME request \in Requests
  PROVE  IsSequence(Scales) /\ \A scale \in Range(Scales) : ScaleSound(scale)
<1>1. <<>> \in Seq(Range(<<>>)) /\ Range(<<>>) = {}
  BY DEF Range
<1> QED BY <1>1, RequestsAssumption DEF Scales, Arg, Given, args, IsSequence

\* A size that rounds at least one half.
LEMMA SizePositive ==
  ASSUME NEW num \in Nat, NEW den \in Nat, den > 0, den <= 2 * num
  PROVE  (2 * num + den) \div (2 * den) \in Nat \ {0}
<1>1. /\ 2 * num + den \in Int /\ 2 * den \in Int /\ 0 < 2 * den /\ 2 * den <= 2 * num + den
  OBVIOUS
<1>2. (2 * num + den) \div (2 * den) \in Int /\ (2 * num + den) \div (2 * den) > 0
  BY <1>1, QuotientPositive
<1> QED BY <1>2

\* A sensible scale is taken, and sets the size of its axis.
LEMMA ScaleTaken ==
  ASSUME Announcing, request \in Requests, Holding(scaler), Scaling(scaler), ScalesLeft,
         stage = "scale", Scale
  PROVE  /\ stage' = "scale" /\ todo' = Tail(todo) /\ todo # <<>>
         /\ UNCHANGED <<request, bands, times, result>>
         /\ \E axis \in Axes, size \in Nat \ {0} :
                todo[1].axis = Label(axis) /\ scaler' = [scaler EXCEPT !.size[axis] = size]
<1> DEFINE scale == todo[1]
           axis == AxisOf(Coverage, scaler.names, scale.axis)
           num == CASE scale.kind = "factor" -> NativeSize(Coverage, scaler, axis, scale.num)
                    [] scale.kind = "size"   -> scale.num
                    [] scale.kind = "extent" -> scale.high - scale.low
           den == IF scale.kind = "factor" THEN AxisDen(Coverage, scaler, axis, scale.den) ELSE 1
<1>1. /\ todo # <<>>
      /\ \/ scale.axis \in {"time", "k"} /\ Refused
         \/ scale.axis \notin {"time", "k"} /\ axis = "unknown" /\ Error
         \/ scale.axis \notin {"time", "k"} /\ axis # "unknown" /\ ~Sizable(scaler, axis, num) /\ Error
         \/ /\ scaler' = SetSize(scaler, axis, num, den)
            /\ times' = times /\ Continue("scale", Tail(todo))
  BY Zenon DEF Scale
<1>2. scale \in Range(Scales) /\ scale \in Range(todo)
  BY <1>1, RestOfList DEF ScalesLeft
<1>3. ScaleSound(scale) /\ Sensible(Coverage, scale)
  BY <1>2, ScalesKnown DEF Announcing
<1> DEFINE rest(a) == Remaining(Coverage, a)
           pixel(a) == Size(Coverage.resolution[a])
<1>4. PICK a \in Axes :
        /\ scale.axis = Label(a) /\ 2 * rest(a) >= 3 * pixel(a)
        /\ CASE scale.kind = "factor" -> 2 * rest(a) * scale.num >= pixel(a) * scale.den
             [] scale.kind = "size"   -> scale.num >= 1
             [] scale.kind = "extent" -> scale.high > scale.low
  BY <1>3 DEF Sensible, Label, Announced
<1>5. axis = a /\ scale.axis \notin {"time", "k"} /\ KnownCoverage
  BY <1>4, LabelsAxes DEF Announcing, Scaling
<1>6. scaler.size[a] = Unset
  BY <1>2, <1>4 DEF ScalesLeft
<1> DEFINE width == scaler.max[a] - scaler.min[a]
<1>7. width \in Int /\ rest(a) <= width /\ rest(a) \in Nat /\ rest(a) > 0
  <2>1. width \in Int
    BY DEF Holding, Place
  <2>2. rest(a) <= width
    BY <1>6, UnsetAssumption DEF Scaling
  <2> QED BY <2>1, <2>2, RemainingKnown
<1>8. pixel(a) \in Nat /\ pixel(a) > 0
  BY <1>5, LayersAssumption DEF KnownCoverage, Coverage, Sound, Place, Axes, Size
<1>9. /\ NativeSize(Coverage, scaler, a, scale.num) = Size(width * scale.num)
      /\ AxisDen(Coverage, scaler, a, scale.den) = pixel(a) * scale.den
  BY DEF NativeSize, AxisDen, Resolution, Scaling
<1> HIDE DEF scale, axis, rest, pixel, width
<1>10. num \in Nat /\ num > 0 /\ den \in Nat /\ den > 0 /\ den <= 2 * num
  <2>1. CASE scale.kind = "factor"
    <3>1. scale.num \in Int /\ scale.den \in Nat /\ scale.den > 0
      BY <1>3, <2>1 DEF ScaleSound
    <3>2. 2 * rest(a) * scale.num >= pixel(a) * scale.den
      BY <1>4, <2>1
    <3>3. num = Size(width * scale.num) /\ den = pixel(a) * scale.den
      BY <1>5, <1>9, <2>1
    <3> HIDE DEF num, den
    <3> QED BY <1>7, <1>8, <3>1, <3>2, <3>3, FactorPositive
  <2>2. CASE scale.kind = "size"
    <3>1. scale.num \in Int /\ scale.num >= 1 /\ num = scale.num /\ den = 1
      BY <1>3, <1>4, <2>2 DEF ScaleSound
    <3> HIDE DEF num, den
    <3> QED BY <3>1
  <2>3. CASE scale.kind = "extent"
    <3>1. /\ scale.low \in Int /\ scale.high \in Int /\ scale.high > scale.low
          /\ num = scale.high - scale.low /\ den = 1
      BY <1>3, <1>4, <2>3 DEF ScaleSound
    <3> HIDE DEF num, den
    <3> QED BY <3>1
  <2> QED BY <1>3, <2>1, <2>2, <2>3 DEF ScaleSound
<1> HIDE DEF num, den
<1>11. Sizable(scaler, axis, num) /\ axis # "unknown"
  BY <1>5, <1>6, <1>10 DEF Sizable, Axes
<1>12. scaler' = SetSize(scaler, axis, num, den) /\ times' = times /\ Continue("scale", Tail(todo))
  BY <1>1, <1>5, <1>11
<1> DEFINE size == (2 * num + den) \div (2 * den)
<1>13. size \in Nat \ {0} /\ scaler' = [scaler EXCEPT !.size[a] = size]
  BY <1>5, <1>10, <1>12, SizePositive DEF SetSize
<1> HIDE DEF size
<1> QED BY <1>1, <1>4, <1>12, <1>13 DEF Continue, scale
\* The other axes are as they were when the size of one is set.
LEMMA ScalingKeeps ==
  ASSUME Holding(scaler), Scaling(scaler), NEW axis \in Axes, NEW size \in Nat \ {0}
  PROVE  LET t == [scaler EXCEPT !.size[axis] = size]
         IN  /\ Scaling(t) /\ \A a \in Axes : a # axis => t.size[a] = scaler.size[a]
<1> DEFINE t == [scaler EXCEPT !.size[axis] = size]
<1>1. /\ t.names = scaler.names /\ t.crs = scaler.crs /\ t.min = scaler.min /\ t.max = scaler.max
      /\ t.size = [scaler.size EXCEPT ![axis] = size]
  BY DEF Holding
<1> HIDE DEF t
<1>2. t.size[axis] = size /\ \A a \in Axes : a # axis => t.size[a] = scaler.size[a]
  BY <1>1 DEF Holding
<1> QED BY <1>1, <1>2 DEF Scaling, t

\* The scales that are left are for other axes.
LEMMA ScalesShorten ==
  ASSUME KnownCoverage, ScalesLeft, todo # <<>>, NEW axis \in Axes, todo[1].axis = Label(axis),
         NEW t, \A a \in Axes : a # axis => t.size[a] = scaler.size[a]
  PROVE  /\ IsSequence(Tail(todo)) /\ Range(Tail(todo)) \subseteq Range(Scales)
         /\ \A i, j \in DOMAIN Tail(todo) : Tail(todo)[i].axis = Tail(todo)[j].axis => i = j
         /\ \A scale \in Range(Tail(todo)), a \in Axes : scale.axis = Label(a) => t.size[a] = Unset
<1> DEFINE rest == Tail(todo)
           S == Range(todo)
<1>1. IsSequence(rest) /\ Range(rest) \subseteq Range(todo) /\ Range(todo) \subseteq Range(Scales)
  BY RestOfList DEF ScalesLeft
<1>2. todo \in Seq(S)
  BY DEF ScalesLeft, IsSequence
<1> HIDE DEF S
<1>3. /\ Len(todo) \in Nat /\ Len(todo) > 0 /\ DOMAIN todo = 1 .. Len(todo)
      /\ DOMAIN rest = 1 .. Len(todo) - 1
      /\ \A i \in 1 .. Len(todo) - 1 : rest[i] = todo[i + 1]
  BY <1>2, HeadTailProperties, LenProperties, EmptySeq
<1> HIDE DEF rest
<1>4. \A i, j \in DOMAIN todo : todo[i].axis = todo[j].axis => i = j
  BY DEF ScalesLeft
<1>5. ASSUME NEW i \in DOMAIN rest, NEW j \in DOMAIN rest, rest[i].axis = rest[j].axis PROVE i = j
  <2>1. i + 1 \in DOMAIN todo /\ j + 1 \in DOMAIN todo /\ i \in Int /\ j \in Int
    BY <1>3
  <2>2. todo[i + 1].axis = todo[j + 1].axis
    BY <1>3, <1>5
  <2>3. i + 1 = j + 1
    BY <1>4, <2>1, <2>2
  <2> QED BY <2>1, <2>3
<1>6. ASSUME NEW i \in DOMAIN rest PROVE rest[i].axis # todo[1].axis
  <2>1. i + 1 \in DOMAIN todo /\ 1 \in DOMAIN todo /\ i + 1 # 1 /\ rest[i] = todo[i + 1]
    BY <1>3
  <2> QED BY <1>4, <2>1
<1>7. ASSUME NEW scale \in Range(rest), NEW a \in Axes, scale.axis = Label(a)
      PROVE  t.size[a] = Unset
  <2>1. scale.axis # todo[1].axis
    BY <1>6, <1>7 DEF Range
  <2>2. a # axis
    BY <1>7, <2>1
  <2>3. scaler.size[a] = Unset
    BY <1>1, <1>7 DEF ScalesLeft
  <2> QED BY <2>2, <2>3
<1> QED BY <1>1, <1>5, <1>7 DEF rest

\* The grid of version 2 has pixels.
LEMMA CompletedPositive ==
  ASSUME KnownCoverage, Holding(scaler), Scaling(scaler), NEW a \in Axes
  PROVE  Completed(Coverage, scaler).size[a] \in Nat \ {0}
<1> DEFINE width == Size((scaler.max[a] - scaler.min[a]) * 1)
           pixel == Size(Coverage.resolution[a]) * 1
<1>1. Completed(Coverage, scaler).size =
        [b \in Axes |-> IF scaler.size[b] # Unset THEN scaler.size[b]
                        ELSE SetSize(scaler, b, NativeSize(Coverage, scaler, b, 1),
                                     AxisDen(Coverage, scaler, b, 1)).size[b]]
  BY DEF Completed, Holding
<1>2. CASE scaler.size[a] # Unset
  BY <1>1, <1>2 DEF Scaling
<1>3. CASE scaler.size[a] = Unset
  <2>1. NativeSize(Coverage, scaler, a, 1) = width /\ AxisDen(Coverage, scaler, a, 1) = pixel
    BY DEF NativeSize, AxisDen, Resolution, Scaling
  <2>2. SetSize(scaler, a, width, pixel).size[a] = (2 * width + pixel) \div (2 * pixel)
    <3> HIDE DEF width, pixel
    <3> QED BY DEF SetSize, Holding
  <2>3. /\ scaler.max[a] - scaler.min[a] \in Int /\ Coverage.resolution[a] \in Int
        /\ Coverage.resolution[a] # 0
    BY LayersAssumption DEF KnownCoverage, Coverage, Sound, Place, Axes, Holding
  <2>4. width = Size(scaler.max[a] - scaler.min[a]) /\ pixel = Size(Coverage.resolution[a])
    BY <2>3 DEF Size
  <2>5. width \in Nat /\ pixel \in Nat /\ pixel > 0
    BY <2>3, <2>4 DEF Size
  <2>6. 3 * pixel <= 2 * width
    BY <1>3, <2>4, UnsetAssumption DEF Scaling
  <2> HIDE DEF width, pixel
  <2>7. (2 * width + pixel) \div (2 * pixel) \in Nat \ {0}
    BY <2>5, <2>6, SizePositive
  <2> QED BY <1>1, <1>3, <2>1, <2>2, <2>7
<1> QED BY <1>2, <1>3
\* The place of a value that a list holds.
LEMMA IndexKnown ==
  ASSUME NEW list, IsSequence(list), NEW value \in Range(list)
  PROVE  IndexOf(list, value) \in DOMAIN list /\ list[IndexOf(list, value)] = value
<1> DEFINE S == Range(list)
           at == {i \in 1 .. Len(list) : list[i] = value}
<1>1. Len(list) \in Nat /\ DOMAIN list = 1 .. Len(list)
  <2>1. list \in Seq(S)
    BY DEF IsSequence
  <2> HIDE DEF S
  <2> QED BY <2>1, LenProperties
<1>2. IndexOf(list, value) = IF at # {} THEN Min(at) ELSE 0
  BY Zenon DEF IndexOf, SelectInSeq
<1>3. at # {} /\ at \in SUBSET Nat
  BY <1>1 DEF Range
<1> HIDE DEF at
<1>4. IndexOf(list, value) \in at
  BY <1>2, <1>3, LeastNumber
<1> QED BY <1>1, <1>4 DEF at

\* The names of the bands from one to another.
LEMMA BandsOfKnown ==
  ASSUME NEW labels, IsSequence(labels), NEW item, {item.from, item.to} \subseteq Range(labels)
  PROVE  /\ Range(BandsOf(labels, item)) \subseteq Range(labels)
         /\ item.single /\ item.from = item.to => Range(BandsOf(labels, item)) = {item.from}
         /\ ~item.single /\ IndexOf(labels, item.from) < IndexOf(labels, item.to) =>
                Range(BandsOf(labels, item)) =
                    {labels[i] : i \in IndexOf(labels, item.from) .. IndexOf(labels, item.to)}
<1> DEFINE first == IndexOf(labels, item.from)
           final == IndexOf(labels, item.to)
           last == IF final - 1 > first - 1 THEN (final - 1) + 1 ELSE (final - 1) - 1
           stop == IF last < 0 THEN Len(labels) + last ELSE last
           S == Range(labels)
           part == SubSeq(labels, (first - 1) + 1, stop)
<1>1. labels \in Seq(S) /\ Len(labels) \in Nat /\ DOMAIN labels = 1 .. Len(labels)
  <2>1. labels \in Seq(S)
    BY DEF IsSequence
  <2> HIDE DEF S
  <2> QED BY <2>1, LenProperties
<1>2. first \in DOMAIN labels /\ final \in DOMAIN labels
  BY IndexKnown
<1>3. CASE item.from = item.to /\ item.single
  <2>1. BandsOf(labels, item) = <<item.from>>
    BY <1>3 DEF BandsOf
  <2>2. Range(<<item.from>>) = {item.from}
    BY DEF Range
  <2> QED BY <1>3, <2>1, <2>2
<1>4. CASE ~(item.from = item.to /\ item.single)
  <2>1. BandsOf(labels, item) = part
    BY Zenon, <1>4 DEF BandsOf, Interval, PySlice
  <2> HIDE DEF S, first, final
  <2>2. /\ (first - 1) + 1 = first /\ first \in 1 .. Len(labels) /\ final \in 1 .. Len(labels)
        /\ stop \in Int /\ stop <= Len(labels)
        /\ first < final => stop = final
    BY <1>1, <1>2
  <2> HIDE DEF last, stop
  <2> DEFINE indexes == first .. stop
  <2>3. /\ part = SubSeq(labels, first, stop)
        /\ \A i \in first .. stop : labels[i] \in S
    BY <1>1, <2>2
  <2>4. /\ SubSeq(labels, first, stop) \in Seq(S)
        /\ Len(SubSeq(labels, first, stop)) = IF first <= stop THEN stop - first + 1 ELSE 0
        /\ \A i \in 1 .. stop - first + 1 : SubSeq(labels, first, stop)[i] = labels[first + i - 1]
    BY <1>1, <2>2, <2>3, SubSeqProperties
  <2> HIDE DEF part
  <2>5. DOMAIN part = 1 .. Len(part)
    BY <2>3, <2>4, LenProperties
  <2>6. ASSUME NEW x \in Range(part) PROVE \E i \in indexes : x = labels[i]
    <3>1. PICK k \in DOMAIN part : x = part[k]
      BY DEF Range
    <3>2. k \in 1 .. stop - first + 1 /\ first + k - 1 \in first .. stop
      BY <2>2, <2>3, <2>4, <2>5, <3>1
    <3> QED BY <2>3, <2>4, <3>1, <3>2
  <2>7. ASSUME NEW i \in indexes PROVE labels[i] \in Range(part)
    <3>1. /\ i - first + 1 \in 1 .. stop - first + 1 /\ first + (i - first + 1) - 1 = i
          /\ i - first + 1 \in DOMAIN part
      BY <2>2, <2>3, <2>4, <2>5
    <3>2. part[i - first + 1] = labels[i]
      BY <2>3, <2>4, <3>1
    <3> QED BY <3>1, <3>2 DEF Range
  <2>8. Range(part) = {labels[i] : i \in indexes}
    BY <2>6, <2>7
  <2>9. Range(part) \subseteq Range(labels)
    BY <2>3, <2>6 DEF S
  <2>10. first < final => Range(part) = {labels[i] : i \in first .. final}
    BY <2>2, <2>8
  <2>11. Range(BandsOf(labels, item)) = Range(part)
    BY <2>1
  <2> HIDE DEF indexes
  <2> QED BY <1>4, <2>9, <2>10, <2>11 DEF first, final
<1> QED BY <1>3, <1>4

\* The labels are a list, one for each band.
LEMMA LabelsList ==
  ASSUME KnownCoverage
  PROVE  LET labels == Labels(Coverage)
         IN  /\ IsSequence(labels) /\ DOMAIN labels = DOMAIN Coverage.bands
             /\ DOMAIN labels \subseteq Int
             /\ \A i, j \in DOMAIN labels : i .. j \subseteq DOMAIN labels
<1> DEFINE labels == Labels(Coverage)
           S == Range(Coverage.bands)
<1>1. IsSequence(Coverage.bands)
  BY LayersAssumption DEF KnownCoverage, Coverage, BandsSound
<1>2. Coverage.bands \in Seq(S)
  BY <1>1 DEF IsSequence
<1> HIDE DEF S
<1>3. Len(Coverage.bands) \in Nat /\ DOMAIN Coverage.bands = 1 .. Len(Coverage.bands)
  BY <1>2, LenProperties
<1>4. labels = [i \in 1 .. Len(Coverage.bands) |-> Coverage.bands[i].label]
  BY <1>3 DEF Labels
<1>5. labels \in [1 .. Len(Coverage.bands) -> Range(labels)]
  BY <1>4 DEF Range
<1> HIDE DEF labels
<1>6. IsSequence(labels)
  BY <1>3, <1>5, SeqDef DEF IsSequence
<1>7. DOMAIN labels = 1 .. Len(Coverage.bands)
  BY <1>5
<1> QED BY <1>3, <1>6, <1>7 DEF labels

\* The bands of version 2 are known by the labels that were asked for.
LEMMA BandsSized2 == ASSUME Announcing PROVE Sized(Coverage, Bands2)
<1> DEFINE labels == Labels(Coverage)
<1>1. Sized(Coverage, Range(labels))
  BY BandsNamed DEF Announcing
<1>2. IsSequence(labels)
  BY LabelsList DEF Announcing
<1> HIDE DEF labels
<1>3. \A r \in Range(RangeSubset) : Range(BandsOf(labels, r)) \subseteq Range(labels)
  BY <1>2, BandsOfKnown DEF Announcing, labels
<1>4. Bands2 \subseteq Range(labels)
  BY <1>3 DEF Bands2, labels
<1> QED BY <1>1, <1>4 DEF Sized

\* What a request of version 1 has passed.
Passing ==
    /\ Range(todo) \subseteq Range(Steps1)
    /\ bands = Bands1 \/ "bands" \in Range(todo)

ServedInv ==
    /\ GridInv
    /\ stage = "describe" => request.op \in {"Describe1", "Describe2"}
    /\ stage = "check1" => IsSequence(todo) /\ (Reasonable1 => Passing)
    /\ stage = "subset" => \A a \in Axes : scaler.size[a] = Unset
    /\ stage \in {"scale", "grid"} /\ Announcing => Scaling(scaler)
    /\ stage = "scale" /\ Announcing => ScalesLeft
    /\ stage = "grid" /\ Announcing => Sized(Coverage, bands)
    /\ DescribedIsServed

\* What a request keeps to is a matter of the request, and of its dates.
LEMMA KeepingStands ==
  ASSUME request' = request
  PROVE  /\ Reasonable1' = Reasonable1 /\ Announcing' = Announcing /\ Bands1' = Bands1
         /\ (Reasonable2 <=> Announcing /\ FormatFits(Format2, Len(times)))
         /\ times' = times => Reasonable2' = Reasonable2
         /\ Reasonable2' => Announcing
         /\ \A s : Scaling(s)' = Scaling(s)
         /\ Scales' = Scales /\ Format2' = Format2 /\ \A a : Label(a)' = Label(a)
<1>1. /\ args' = args /\ Coverage' = Coverage /\ Version' = Version /\ Subsets' = Subsets
      /\ SubsettingCRS' = SubsettingCRS /\ OutputCRS' = OutputCRS /\ KnownCoverage' = KnownCoverage
  BY AskingStands
<1>2. /\ \A name : Given(name)' = Given(name)
      /\ \A name, default : Arg(name, default)' = Arg(name, default)
  BY <1>1 DEF Given, Arg
<1>3. /\ Scales' = Scales /\ Format2' = Format2 /\ RangeSubset' = RangeSubset
      /\ RequestCRS' = RequestCRS /\ ResponseCRS' = ResponseCRS /\ KnownFormat' = KnownFormat
      /\ Asked1' = Asked1 /\ Measurements' = Measurements
  BY <1>1, <1>2 DEF Scales, Format2, RangeSubset, RequestCRS, ResponseCRS, KnownFormat, Asked1, Measurements
<1>4. /\ \A a : Label(a)' = Label(a)
      /\ \A layer, a : Remaining(layer, a)' = Remaining(layer, a)
  BY <1>1 DEF Label, Remaining
<1>5. /\ \A layer, scale : Sensible(layer, scale)' = Sensible(layer, scale)
      /\ \A s : Scaling(s)' = Scaling(s)
      /\ \A format, count : FormatFits(format, count)' = FormatFits(format, count)
  BY <1>1, <1>4 DEF Sensible, Scaling, FormatFits
<1>6. Announcing' = Announcing
  BY <1>1, <1>3, <1>5 DEF Announcing
<1>7. /\ BandsOutcome' = BandsOutcome /\ StyleBands' = StyleBands
  BY Zenon, <1>1, <1>2, <1>3 DEF BandsOutcome, StyleBands
<1>8. Bands1' = Bands1
  BY <1>1, <1>2, <1>3, <1>7 DEF Bands1
<1>9. SizeOutcome' = SizeOutcome
  BY <1>1, <1>2 DEF SizeOutcome, Positive
<1>10. Reasonable1' = Reasonable1
  BY <1>1, <1>2, <1>3, <1>5, <1>7, <1>9 DEF Reasonable1
<1>11. /\ Reasonable2 <=> Announcing /\ FormatFits(Format2, Len(times))
       /\ Reasonable2' <=> Announcing' /\ FormatFits(Format2, Len(times))'
  BY DEF Reasonable2, Announcing, FormatFits
<1>12. times' = times => FormatFits(Format2, Len(times))' = FormatFits(Format2, Len(times))
  BY <1>1, <1>3 DEF FormatFits
<1>13. times' = times => Reasonable2' = Reasonable2
  BY <1>1, <1>3, <1>5, <1>12 DEF Reasonable2
<1>14. Reasonable2' => Announcing
  BY <1>6, <1>11
<1> QED BY <1>3, <1>4, <1>5, <1>6, <1>8, <1>10, <1>11, <1>13, <1>14
\* An answer with pixels and known bands is no failure.
LEMMA AnswerServes ==
  ASSUME NEW format, NEW grid, Answer(format, grid), Sized(Coverage, bands),
         Version \in Formats[format].versions,
         \A a \in Axes : grid.size[a] \in Int /\ grid.size[a] > 0
  PROVE  DescribedIsServed' /\ stage' = "done"
<1>1. Finish("accepted", grid)
  BY DEF Answer
<1>2. result'.outcome = "accepted" /\ result'.grid = grid /\ stage' = "done"
  BY <1>1 DEF Finish
<1> QED BY <1>2 DEF DescribedIsServed, Accepted

\* A request that comes has nothing done.
LEMMA ServedInit == Init => ServedInv
<1> SUFFICES ASSUME Init PROVE ServedInv
  OBVIOUS
<1>1. GridInv /\ request \in Requests /\ stage = FirstStage[request.op]
  BY GridInit DEF GridInv, Init
<1>2. request.op \in {"Describe1", "Describe2", "GetCoverage1", "GetCoverage2"}
  BY <1>1, RequestsAssumption
<1>3. /\ stage \in {"describe", "check1", "begin2"}
      /\ stage = "describe" => request.op \in {"Describe1", "Describe2"}
      /\ stage = "check1" => request.op = "GetCoverage1"
  BY <1>1, <1>2 DEF FirstStage
<1>4. stage = "check1" => todo = Steps1
  BY <1>3 DEF Init
<1>5. "bands" \in Range(Steps1) /\ IsSequence(Steps1)
  <2>1. /\ DOMAIN Steps1 = 1 .. 10 /\ Steps1[7] = "bands"
        /\ Steps1 = [i \in 1 .. 10 |-> Steps1[i]]
    BY DEF Steps1
  <2>2. Steps1 \in [1 .. 10 -> Range(Steps1)]
    BY <2>1 DEF Range
  <2> QED BY <2>1, <2>2, SeqDef DEF IsSequence, Range
<1> QED BY <1>1, <1>3, <1>4, <1>5 DEF ServedInv, Passing, DescribedIsServed

\* Every step of version 1 serves what keeps to the description.
LEMMA ServedCheck1 == ASSUME ServedInv, Check1, GridInv' PROVE ServedInv'
<1>1. /\ stage = "check1" /\ todo # <<>> /\ request.op = "GetCoverage1"
      /\ IsSequence(todo) /\ (Reasonable1 => Passing)
  BY DEF ServedInv, GridInv, Check1
<1>2. ~Announcing /\ ~Announcing' /\ request' = request
  BY <1>1 DEF Announcing, Check1, Refused, Error, Finish
<1>3. ~Reasonable2'
  BY <1>2, KeepingStands
<1>4. CASE Refused \/ Error
  <2>1. ~Reasonable1
    <3> SUFFICES ASSUME Reasonable1 PROVE FALSE
      OBVIOUS
    <3>1. todo[1] \in Range(Steps1)
      BY <1>1, RestOfList DEF Passing
    <3>2. Outcome1(todo[1]) = "ok"
      BY <3>1, ReasonablePasses
    <3>3. todo' = Tail(todo) /\ UNCHANGED <<stage, result>>
      BY <3>2 DEF Check1
    <3> QED BY <1>1, <1>4, <3>3 DEF Refused, Error, Finish
  <2>2. ~Reasonable1' /\ stage' = "done"
    BY <1>2, <1>4, <2>1, KeepingStands DEF Refused, Error, Finish
  <2> QED BY <1>3, <2>2 DEF ServedInv, DescribedIsServed
<1>5. CASE /\ todo' = Tail(todo) /\ stage' = "check1"
           /\ bands' = IF todo[1] = "bands" THEN Bands1 ELSE bands
  <2>1. /\ IsSequence(Tail(todo)) /\ Range(Tail(todo)) \subseteq Range(todo)
        /\ Range(todo) \subseteq Range(Tail(todo)) \cup {todo[1]}
    BY <1>1, RestOfList
  <2>2. Bands1' = Bands1 /\ Reasonable1' = Reasonable1
    BY <1>2, KeepingStands
  <2>3. Reasonable1' => Passing'
    BY <1>1, <1>5, <2>1, <2>2 DEF Passing
  <2> QED BY <1>5, <2>1, <2>3 DEF ServedInv, DescribedIsServed
<1> QED BY <1>1, <1>4, <1>5 DEF Check1

\* And its last one.
LEMMA ServedGrid1 == ASSUME ServedInv, Grid1Done, GridInv' PROVE ServedInv'
<1>1. /\ stage = "check1" /\ todo = <<>> /\ request.op = "GetCoverage1" /\ request \in Requests
      /\ (Reasonable1 => Passing) /\ Answer(args["format"], Grid1)
  BY DEF ServedInv, GridInv, Grid1Done
<1>2. /\ stage' = "done" /\ request' = request /\ ~Announcing
  BY <1>1 DEF Answer, Error, Finish, Announcing
<1>3. ~Reasonable2' /\ Reasonable1' = Reasonable1
  BY <1>2, KeepingStands
<1>4. Reasonable1 => DescribedIsServed'
  <2> SUFFICES ASSUME Reasonable1 PROVE DescribedIsServed'
    OBVIOUS
  <2>1. Sized(Coverage, bands)
    BY <1>1, BandsSized1 DEF Passing, Range
  <2>2. Version \in Formats[args["format"]].versions
    BY DEF Reasonable1, FormatFits, KnownFormat
  <2>3. \A a \in Axes : Grid1.size[a] \in Int /\ Grid1.size[a] > 0
    BY <1>1, PixelsOfBox
  <2> QED BY <1>1, <2>1, <2>2, <2>3, AnswerServes
<1>5. DescribedIsServed'
  BY <1>3, <1>4 DEF DescribedIsServed
<1> QED BY <1>2, <1>5 DEF ServedInv
\* What does not keep to the description may be refused.
LEMMA UnservedEnds ==
  ASSUME GridInv', request' = request, stage' = "done", request.op # "GetCoverage1",
         Reasonable2' => FALSE
  PROVE  ServedInv'
<1>1. ~Reasonable1'
  BY DEF Reasonable1
<1> QED BY <1>1 DEF ServedInv, DescribedIsServed

\* A request that keeps to the description names a coverage and CRSs that there
\* are, and each axis once.
LEMMA ServedBegin2 == ASSUME ServedInv, Begin2, GridInv' PROVE ServedInv'
<1>1. stage = "begin2" /\ request.op = "GetCoverage2" /\ request' = request
  BY DEF ServedInv, GridInv, Begin2, Refused, Finish
<1>2. CASE Refused
  <2>1. ~Announcing
    <3> SUFFICES ASSUME Announcing PROVE FALSE
      OBVIOUS
    <3>1. Coverage.native \in DOMAIN CRSs
      BY LayersAssumption DEF Announcing, KnownCoverage, Coverage
    <3>2. /\ KnownCoverage /\ SubsettingCRS \in DOMAIN CRSs /\ OutputCRS \in DOMAIN CRSs
          /\ Distinct([i \in DOMAIN Subsets |-> Subsets[i].axis])
      BY <3>1 DEF Announcing
    <3>3. stage' = "subset"
      BY <3>2 DEF Begin2
    <3> QED BY <1>2, <3>3 DEF Refused, Finish
  <2>2. ~Reasonable2' /\ stage' = "done"
    BY <1>1, <1>2, <2>1, KeepingStands DEF Refused, Finish
  <2> QED BY <1>1, <2>2, UnservedEnds
<1>3. CASE scaler' = NewScaler(SubsettingCRS) /\ stage' = "subset"
  BY <1>3 DEF ServedInv, DescribedIsServed, NewScaler
<1> QED BY <1>2, <1>3 DEF Begin2

\* Its intervals of time are not open.
LEMMA ServedTime == ASSUME ServedInv, SubsetTime, GridInv' PROVE ServedInv'
<1>1. /\ stage = "subset" /\ request.op = "GetCoverage2" /\ request' = request
      /\ todo # <<>> /\ todo[1].axis = "time" /\ Subsetting
      /\ \A a \in Axes : scaler.size[a] = Unset
  BY DEF ServedInv, GridInv, SubsetTime, Error, Finish, Continue
<1>2. CASE Error
  <2>1. ~Announcing
    <3> SUFFICES ASSUME Announcing PROVE FALSE
      OBVIOUS
    <3>1. todo[1] \in Range(Subsets)
      BY <1>1, RestOfList DEF Subsetting
    <3>2. Within(Coverage, todo[1])
      BY <3>1 DEF Announcing
    <3>3. /\ todo[1].kind = "trim" /\ todo[1].high # Unset
          /\ todo[1].low # Unset \/ ~Coverage.subday
      BY <1>1, <3>2 DEF Within
    <3>4. stage' = "subset"
      BY <3>3 DEF SubsetTime, Continue
    <3> QED BY <1>2, <3>4 DEF Error, Finish
  <2>2. ~Reasonable2' /\ stage' = "done"
    BY <1>1, <1>2, <2>1, KeepingStands DEF Error, Finish
  <2> QED BY <1>1, <2>2, UnservedEnds
<1>3. CASE scaler' = scaler /\ stage' = "subset"
  BY <1>1, <1>3 DEF ServedInv, DescribedIsServed
<1> QED BY <1>2, <1>3 DEF SubsetTime, Continue

\* Its other subsets are of an axis.
LEMMA ServedAxis == ASSUME ServedInv, SubsetAxis, GridInv' PROVE ServedInv'
<1> DEFINE axis == AxisOf(Coverage, scaler.names, todo[1].axis)
<1>1. /\ stage = "subset" /\ request.op = "GetCoverage2" /\ request \in Requests
      /\ todo # <<>> /\ todo[1].axis # "time" /\ Subsetting
      /\ \A a \in Axes : scaler.size[a] = Unset
  BY DEF ServedInv, GridInv, SubsetAxis
<1>2. \/ axis = "unknown" /\ Refused
      \/ /\ axis # "unknown" /\ Continue("subset", Tail(todo))
         /\ \/ scaler' = Slice(scaler, axis, todo[1].at)
            \/ scaler' = Trim(scaler, axis, todo[1].low, todo[1].high)
  BY DEF SubsetAxis
<1>3. request' = request
  BY <1>2 DEF Refused, Finish, Continue
<1> HIDE DEF axis
<1>4. CASE axis = "unknown" /\ Refused
  <2>1. ~Announcing
    <3> SUFFICES ASSUME Announcing PROVE FALSE
      OBVIOUS
    <3>1. todo[1] \in Range(Subsets)
      BY <1>1, RestOfList DEF Subsetting
    <3>2. PICK a \in Axes : todo[1].axis = Label(a)
      BY <1>1, <3>1, SubsetKnown
    <3>3. scaler.names = Coverage.native
      BY <1>1 DEF Subsetting, Announcing
    <3>4. axis = a
      BY <3>2, <3>3, LabelsAxes DEF axis, Announcing
    <3> QED BY <1>4, <3>4 DEF Axes
  <2>2. ~Reasonable2' /\ stage' = "done"
    BY <1>3, <1>4, <2>1, KeepingStands DEF Refused, Finish
  <2> QED BY <1>1, <1>3, <2>2, UnservedEnds
<1>5. CASE \/ scaler' = Slice(scaler, axis, todo[1].at) /\ Continue("subset", Tail(todo))
           \/ /\ scaler' = Trim(scaler, axis, todo[1].low, todo[1].high)
              /\ Continue("subset", Tail(todo))
  <2>1. scaler'.size = scaler.size
    BY <1>1, <1>5 DEF Slice, Trim, Subsetting, Scalers
  <2>2. stage' = "subset"
    BY <1>5 DEF Continue
  <2> QED BY <1>1, <2>1, <2>2 DEF ServedInv, DescribedIsServed
<1> QED BY <1>2, <1>4, <1>5

\* Its scales are each for another axis that has no size yet.
LEMMA ScalesStart ==
  ASSUME Announcing, request \in Requests, NEW t,
         \A a \in Axes : 3 * Size(Coverage.resolution[a]) <= 2 * Remaining(Coverage, a)
             => t.size[a] = Unset
  PROVE  /\ IsSequence(Scales)
         /\ \A i, j \in DOMAIN Scales : Scales[i].axis = Scales[j].axis => i = j
         /\ \A scale \in Range(Scales), a \in Axes : scale.axis = Label(a) => t.size[a] = Unset
<1> DEFINE names == [i \in DOMAIN Scales |-> Scales[i].axis]
<1>1. IsSequence(Scales)
  BY ScalesKnown
<1>2. IsSequence(names)
  <2> DEFINE S == Range(Scales)
  <2>1. Scales \in Seq(S)
    BY <1>1 DEF IsSequence
  <2> HIDE DEF S
  <2>2. Len(Scales) \in Nat /\ DOMAIN Scales = 1 .. Len(Scales)
    BY <2>1, LenProperties
  <2>3. names \in [1 .. Len(Scales) -> Range(names)]
    BY <2>2 DEF Range
  <2> HIDE DEF names
  <2> QED BY <2>2, <2>3, SeqDef DEF IsSequence
<1>3. Distinct(names)
  BY DEF Announcing
<1>4. \A i, j \in DOMAIN names : names[i] = names[j] => i = j
  <2> HIDE DEF names
  <2> QED BY <1>2, <1>3, DistinctInjective
<1>5. ASSUME NEW scale \in Range(Scales), NEW a \in Axes, scale.axis = Label(a)
      PROVE  t.size[a] = Unset
  <2>1. Sensible(Coverage, scale)
    BY DEF Announcing
  <2>2. PICK b \in Axes : /\ scale.axis = Label(b)
                          /\ 2 * Remaining(Coverage, b) >= 3 * Size(Coverage.resolution[b])
    BY <2>1 DEF Sensible, Label, Announced
  <2>3. a = b
    BY <1>5, <2>2, LabelsAxes DEF Announcing
  <2>4. Remaining(Coverage, b) \in Nat /\ Size(Coverage.resolution[b]) \in Nat
    <3>1. Coverage.resolution[b] \in Int
      BY LayersAssumption DEF Announcing, KnownCoverage, Coverage, Place
    <3> QED BY <3>1, RemainingKnown DEF Size
  <2> QED BY <2>2, <2>3, <2>4
<1> QED BY <1>1, <1>4, <1>5

\* In its CRS it is converted, and each of its scales is for another axis.
LEMMA ServedToOutput == ASSUME ServedInv, ToOutputCRS, GridInv' PROVE ServedInv'
<1>1. /\ stage = "subset" /\ request.op = "GetCoverage2" /\ request \in Requests /\ Subsetting
      /\ \A a \in Axes : scaler.size[a] = Unset
  BY DEF ServedInv, GridInv, ToOutputCRS
<1>2. request' = request
  BY DEF ToOutputCRS, Refused, Error, Finish, Continue
<1>3. CASE Refused \/ Error
  <2>1. ~Announcing
    <3> SUFFICES ASSUME Announcing PROVE FALSE
      OBVIOUS
    <3>1. Convertible(Coverage, scaler, OutputCRS)
      BY <1>1, ConvertedScales
    <3>2. Distinct([i \in DOMAIN Scales |-> Scales[i].axis])
      BY DEF Announcing
    <3>3. stage' = "scale"
      BY <3>1, <3>2 DEF ToOutputCRS, Continue
    <3> QED BY <1>3, <3>3 DEF Refused, Error, Finish
  <2>2. ~Reasonable2' /\ stage' = "done"
    BY <1>2, <1>3, <2>1, KeepingStands DEF Refused, Error, Finish
  <2> QED BY <1>1, <1>2, <2>2, UnservedEnds
<1>4. CASE /\ scaler' = ToCRS(Coverage, scaler, OutputCRS) /\ stage' = "scale" /\ todo' = Scales
  <2>1. Announcing => Scaling(scaler') /\ ScalesLeft'
    <3> SUFFICES ASSUME Announcing PROVE Scaling(scaler') /\ ScalesLeft'
      OBVIOUS
    <3>1. /\ Scaling(scaler')
          /\ \A a \in Axes : 3 * Size(Coverage.resolution[a]) <= 2 * Remaining(Coverage, a)
                 => scaler'.size[a] = Unset
      BY <1>1, <1>4, ConvertedScales
    <3>2. /\ IsSequence(Scales)
          /\ \A i, j \in DOMAIN Scales : Scales[i].axis = Scales[j].axis => i = j
          /\ \A scale \in Range(Scales), a \in Axes :
                 scale.axis = Label(a) => scaler'.size[a] = Unset
      BY <1>1, <3>1, ScalesStart
    <3>3. Scales' = Scales /\ \A a : Label(a)' = Label(a)
      BY <1>2, KeepingStands
    <3>4. ScalesLeft'
      BY <1>4, <3>2, <3>3 DEF ScalesLeft
    <3> QED BY <3>1, <3>4
  <2>2. Scaling(scaler)' <=> Scaling(scaler')
    BY <1>2, KeepingStands DEF Scaling
  <2>3. Announcing' = Announcing
    BY <1>2, KeepingStands
  <2> QED BY <1>4, <2>1, <2>2, <2>3 DEF ServedInv, DescribedIsServed
<1> QED BY <1>3, <1>4 DEF ToOutputCRS, Continue
\* A scale sets the size of its axis, and leaves the others to come.
LEMMA ServedScale == ASSUME ServedInv, Scale, GridInv' PROVE ServedInv'
<1>1. /\ stage = "scale" /\ request.op = "GetCoverage2" /\ request \in Requests
      /\ Holding(scaler) /\ (Announcing => Scaling(scaler) /\ ScalesLeft)
  BY DEF ServedInv, GridInv, Scale
<1>2. /\ request' = request /\ stage' \in {"done", "scale"}
  BY DEF Scale, Refused, Error, Finish, Continue
<1>3. CASE ~Announcing
  <2>1. ~Announcing' /\ ~Reasonable2' /\ ~Reasonable1'
    BY <1>1, <1>2, <1>3, KeepingStands DEF Reasonable1
  <2> QED BY <1>2, <2>1 DEF ServedInv, DescribedIsServed
<1>4. CASE Announcing
  <2>1. /\ stage' = "scale" /\ todo' = Tail(todo) /\ todo # <<>>
        /\ \E axis \in Axes, size \in Nat \ {0} :
               todo[1].axis = Label(axis) /\ scaler' = [scaler EXCEPT !.size[axis] = size]
    BY <1>1, <1>4, ScaleTaken
  <2>2. PICK axis \in Axes, size \in Nat \ {0} :
            todo[1].axis = Label(axis) /\ scaler' = [scaler EXCEPT !.size[axis] = size]
    BY <2>1
  <2>3. Scaling(scaler') /\ \A a \in Axes : a # axis => scaler'.size[a] = scaler.size[a]
    BY <1>1, <1>4, <2>2, ScalingKeeps
  <2>4. /\ IsSequence(Tail(todo)) /\ Range(Tail(todo)) \subseteq Range(Scales)
        /\ \A i, j \in DOMAIN Tail(todo) : Tail(todo)[i].axis = Tail(todo)[j].axis => i = j
        /\ \A scale \in Range(Tail(todo)), a \in Axes :
               scale.axis = Label(a) => scaler'.size[a] = Unset
    <3>1. /\ KnownCoverage /\ ScalesLeft /\ todo # <<>> /\ todo[1].axis = Label(axis)
          /\ \A a \in Axes : a # axis => scaler'.size[a] = scaler.size[a]
      BY <1>1, <1>4, <2>1, <2>2, <2>3 DEF Announcing
    <3>2. PICK t : t = scaler'
      OBVIOUS
    <3>3. \A a \in Axes : a # axis => t.size[a] = scaler.size[a]
      BY <3>1, <3>2
    <3>4. /\ IsSequence(Tail(todo)) /\ Range(Tail(todo)) \subseteq Range(Scales)
          /\ \A i, j \in DOMAIN Tail(todo) : Tail(todo)[i].axis = Tail(todo)[j].axis => i = j
          /\ \A scale \in Range(Tail(todo)), a \in Axes : scale.axis = Label(a) => t.size[a] = Unset
      BY Zenon, <3>1, <3>3, ScalesShorten
    <3> QED BY <3>2, <3>4
  <2>5. Scales' = Scales /\ \A a : Label(a)' = Label(a)
    BY <1>2, KeepingStands
  <2>6. ScalesLeft'
    BY <2>1, <2>4, <2>5 DEF ScalesLeft
  <2>7. Scaling(scaler)' <=> Scaling(scaler')
    BY <1>2, KeepingStands DEF Scaling
  <2> QED BY <2>1, <2>3, <2>6, <2>7 DEF ServedInv, DescribedIsServed
<1> QED BY <1>3, <1>4

\* Its fields are labels of the bands, and its format takes its dates.
LEMMA ServedFields == ASSUME ServedInv, Fields, GridInv' PROVE ServedInv'
<1>1. /\ stage = "scale" /\ request.op = "GetCoverage2"
      /\ (Announcing => Scaling(scaler))
  BY DEF ServedInv, GridInv, Fields
<1>2. request' = request
  BY DEF Fields, Refused, Finish
<1>3. CASE Refused
  <2>1. times' = times /\ stage' = "done"
    BY <1>3 DEF Refused, Finish
  <2>2. ~Reasonable2
    <3> SUFFICES ASSUME Reasonable2 PROVE FALSE
      OBVIOUS
    <3>1. /\ \A r \in Range(RangeSubset) : {r.from, r.to} \subseteq Range(Labels(Coverage))
          /\ Format2 \in DOMAIN Formats /\ (Len(times) > 1 => Formats[Format2].multiTime)
      BY DEF Reasonable2, FormatFits
    <3>2. stage' = "grid"
      BY <3>1 DEF Fields
    <3> QED BY <2>1, <3>2
  <2>3. ~Reasonable2'
    BY <1>2, <2>1, <2>2, KeepingStands
  <2> QED BY <1>1, <1>2, <2>1, <2>3, UnservedEnds
<1>4. CASE bands' = Bands2 /\ stage' = "grid" /\ scaler' = scaler
  <2>1. Announcing => Sized(Coverage, Bands2)
    BY BandsSized2
  <2>2. /\ Announcing' = Announcing /\ Coverage' = Coverage
        /\ (Scaling(scaler)' <=> Scaling(scaler'))
    BY <1>2, KeepingStands, AskingStands DEF Scaling
  <2>3. Sized(Coverage, bands)' <=> Sized(Coverage, Bands2)
    BY <1>4, <2>2 DEF Sized
  <2> QED BY <1>1, <1>4, <2>1, <2>2, <2>3 DEF ServedInv, DescribedIsServed
<1> QED BY <1>3, <1>4 DEF Fields

\* Its grid has pixels, and its bands have a size.
LEMMA ServedGrid2 == ASSUME ServedInv, Grid2Done, GridInv' PROVE ServedInv'
<1> DEFINE s == Completed(Coverage, scaler)
           grid == Grid(s.crs, s.min, s.max, s.size)
<1>1. /\ stage = "grid" /\ request.op = "GetCoverage2" /\ KnownCoverage /\ Holding(scaler)
      /\ (Announcing => Scaling(scaler) /\ Sized(Coverage, bands)) /\ Answer(Format2, grid)
  BY DEF ServedInv, GridInv, Grid2Done
<1>2. grid.size = s.size
  BY DEF Grid
<1> HIDE DEF grid, s
<1>3. request' = request /\ stage' = "done"
  BY <1>1 DEF Answer, Error, Finish
<1>4. CASE ~Announcing
  BY <1>1, <1>3, <1>4, KeepingStands, UnservedEnds
<1>5. CASE Announcing
  <2>1. \A a \in Axes : grid.size[a] \in Int /\ grid.size[a] > 0
    <3>1. \A a \in Axes : s.size[a] \in Nat \ {0}
      BY <1>1, <1>5, CompletedPositive DEF s
    <3> QED BY <1>2, <3>1
  <2>2. Version \in Formats[Format2].versions /\ Sized(Coverage, bands)
    BY <1>1, <1>5 DEF Announcing
  <2>3. DescribedIsServed'
    BY <1>1, <2>1, <2>2, AnswerServes
  <2> QED BY <1>3, <2>3 DEF ServedInv
<1> QED BY <1>4, <1>5

\* Every step serves what keeps to the description.
LEMMA ServedNext == ASSUME ServedInv, [Next]_vars PROVE ServedInv'
<1>1. GridInv'
  BY GridNext DEF ServedInv
<1>2. CASE Describe
  <2>1. request.op # "GetCoverage2" /\ request.op # "GetCoverage1"
    BY <1>2 DEF ServedInv, Describe
  <2>2. request' = request /\ stage' = "done"
    BY <1>2 DEF Describe, Refused, Error, Finish
  <2>3. ~Reasonable2'
    BY <2>1, <2>2, KeepingStands DEF Announcing
  <2> QED BY <1>1, <2>1, <2>2, <2>3, UnservedEnds
<1>3. ASSUME UNCHANGED vars PROVE ServedInv'
  <2>1. /\ request' = request /\ stage' = stage /\ todo' = todo /\ scaler' = scaler
        /\ times' = times /\ bands' = bands /\ result' = result
    BY <1>3 DEF vars
  <2>2. /\ Reasonable1' = Reasonable1 /\ Reasonable2' = Reasonable2 /\ Announcing' = Announcing
        /\ Bands1' = Bands1 /\ Scales' = Scales /\ Coverage' = Coverage
        /\ \A a : Label(a)' = Label(a)
    BY <2>1, KeepingStands, AskingStands
  <2>3. /\ Passing' <=> Passing
        /\ ScalesLeft' <=> ScalesLeft
        /\ Scaling(scaler)' <=> Scaling(scaler)
        /\ Sized(Coverage, bands)' <=> Sized(Coverage, bands)
    <3>1. Passing' <=> Passing
      BY <2>1, <2>2 DEF Passing
    <3>2. ScalesLeft' <=> ScalesLeft
      BY <2>1, <2>2 DEF ScalesLeft
    <3>3. Scaling(scaler)' <=> Scaling(scaler)
      BY <2>1, KeepingStands DEF Scaling
    <3>4. Sized(Coverage, bands)' <=> Sized(Coverage, bands)
      BY <2>1, <2>2 DEF Sized
    <3> QED BY <3>1, <3>2, <3>3, <3>4
  <2>4. DescribedIsServed'
    BY <2>1, <2>2 DEF ServedInv, DescribedIsServed, Accepted
  <2>5. IsSequence(todo)' <=> IsSequence(todo)
    BY <2>1
  <2> QED BY <1>1, <2>1, <2>2, <2>3, <2>4, <2>5 DEF ServedInv
<1> QED BY <1>1, <1>2, <1>3, ServedCheck1, ServedGrid1, ServedBegin2, ServedTime, ServedAxis,
           ServedToOutput, ServedScale, ServedFields, ServedGrid2 DEF Next, Done

\* Whatever layers are configured, a request that keeps to what the description
\* of a coverage announces is never refused and never fails, and its grid has
\* pixels (wcs2.create_coverage_description against get_coverage_data).
THEOREM DescribedAlwaysServed == Spec => []DescribedIsServed
<1>1. ServedInv => DescribedIsServed
  BY DEF ServedInv
<1> QED BY <1>1, ServedInit, ServedNext, PTL DEF Spec-----------------------------------------------------------------------------
(* The fields are those that were asked for *)

\* The name of a band stands for it alone, and so does its label if it stands
\* for any.
LEMMA BandAlone ==
  ASSUME KnownCoverage, NEW i \in DOMAIN Coverage.bands
  PROVE  /\ BandNamed(Coverage, Coverage.bands[i].name) = {i}
         /\ LabelsClear /\ BandNamed(Coverage, Labels(Coverage)[i]) # {} =>
                BandNamed(Coverage, Labels(Coverage)[i]) = {i}
<1>1. BandsSound(Coverage)
  BY LayersAssumption DEF KnownCoverage, Coverage
<1>2. ASSUME NEW j \in DOMAIN Coverage.bands,
             \/ Coverage.bands[i].name = Coverage.bands[j].name
             \/ Coverage.bands[i].name \in Coverage.bands[j].aliases
      PROVE  i = j
  BY <1>1, <1>2 DEF BandsSound
<1>3. BandNamed(Coverage, Coverage.bands[i].name) = {i}
  BY <1>2 DEF BandNamed
<1>4. ASSUME LabelsClear, NEW j \in DOMAIN Coverage.bands,
             \/ Coverage.bands[i].label = Coverage.bands[j].name
             \/ Coverage.bands[i].label \in Coverage.bands[j].aliases
      PROVE  i = j
  BY <1>4 DEF LabelsClear, KnownCoverage, Coverage
<1>5. ASSUME LabelsClear, BandNamed(Coverage, Labels(Coverage)[i]) # {}
      PROVE  BandNamed(Coverage, Labels(Coverage)[i]) = {i}
  <2>1. Labels(Coverage)[i] = Coverage.bands[i].label
    BY DEF Labels
  <2>2. \A j \in BandNamed(Coverage, Labels(Coverage)[i]) : j = i
    BY <1>4, <1>5, <2>1 DEF BandNamed
  <2> QED BY <1>5, <2>2
<1> QED BY <1>3, <1>5

\* What a name or a label stands for is one band.
LEMMA LocaleAlone ==
  ASSUME KnownCoverage, LabelsClear, NEW name, LocaleBand(Coverage, name) # {}
  PROVE  LET i == Min(LocaleBand(Coverage, name))
         IN  BandNamed(Coverage, Coverage.bands[i].name) = LocaleBand(Coverage, name)
<1> DEFINE i == Min(LocaleBand(Coverage, name))
<1>1. BandsSound(Coverage)
  BY LayersAssumption DEF KnownCoverage, Coverage
<1>2. LocaleBand(Coverage, name) \subseteq DOMAIN Coverage.bands
  BY DEF LocaleBand, BandNamed
<1>3. DOMAIN Coverage.bands \subseteq Nat
  <2> DEFINE S == Range(Coverage.bands)
  <2>1. Coverage.bands \in Seq(S)
    BY <1>1 DEF BandsSound, IsSequence
  <2> HIDE DEF S
  <2> QED BY <2>1, LenProperties
<1>4. i \in LocaleBand(Coverage, name)
  BY <1>2, <1>3, LeastNumber
<1>5. ASSUME NEW j \in LocaleBand(Coverage, name), NEW k \in LocaleBand(Coverage, name) PROVE j = k
  <2>1. j \in DOMAIN Coverage.bands /\ k \in DOMAIN Coverage.bands
    BY <1>2
  <2>2. CASE BandNamed(Coverage, name) # {}
    <3>1. j \in BandNamed(Coverage, name) /\ k \in BandNamed(Coverage, name)
      BY <2>2 DEF LocaleBand
    <3> QED BY <1>1, <3>1 DEF BandsSound, BandNamed
  <2>3. CASE BandNamed(Coverage, name) = {}
    <3>1. name = Coverage.bands[j].label /\ name = Coverage.bands[k].label
      BY <2>3 DEF LocaleBand
    <3> QED BY <2>1, <3>1 DEF LabelsClear, KnownCoverage, Coverage
  <2> QED BY <2>2, <2>3
<1>6. BandNamed(Coverage, Coverage.bands[i].name) = {i}
  BY <1>2, <1>4, BandAlone
<1> HIDE DEF i
<1>7. LocaleBand(Coverage, name) = {i}
  BY <1>4, <1>5
<1> QED BY <1>6, <1>7 DEF i

\* The bands of version 1 are those of the names that were asked for.
LEMMA Delivered1 ==
  ASSUME KnownCoverage, LabelsClear, Given("measurements"), BandsOutcome = "ok"
  PROVE  UNION {BandNamed(Coverage, b) : b \in Bands1}
             = UNION {LocaleBand(Coverage, n) : n \in Measurements}
<1> DEFINE Of(n) == Coverage.bands[Min(LocaleBand(Coverage, n))].name
<1>1. \A n \in Measurements : LocaleBand(Coverage, n) # {}
  BY Zenon DEF BandsOutcome
<1>2. \A n \in Measurements : BandNamed(Coverage, Of(n)) = LocaleBand(Coverage, n)
  BY <1>1, LocaleAlone
<1>3. Bands1 = {Of(n) : n \in Measurements}
  BY DEF Bands1
<1> HIDE DEF Of
<1>4. ASSUME NEW i
      PROVE  i \in UNION {BandNamed(Coverage, b) : b \in Bands1} <=>
             i \in UNION {LocaleBand(Coverage, n) : n \in Measurements}
  <2>1. i \in UNION {BandNamed(Coverage, b) : b \in Bands1} <=>
            \E n \in Measurements : i \in BandNamed(Coverage, Of(n))
    BY <1>3
  <2>2. i \in UNION {LocaleBand(Coverage, n) : n \in Measurements} <=>
            \E n \in Measurements : i \in LocaleBand(Coverage, n)
    OBVIOUS
  <2> QED BY <1>2, <2>1, <2>2
<1> QED BY <1>4

\* Every field is a label of a band.
FieldsKnown == \A r \in Range(RangeSubset) : {r.from, r.to} \subseteq Range(Labels(Coverage))

\* The bands of version 2 are those of the fields, or between them.
LEMMA Delivered2 ==
  ASSUME KnownCoverage, LabelsClear, request \in Requests, FieldsKnown, Sized(Coverage, Bands2),
         RangeSubset # <<>>,
         \A r \in Range(RangeSubset) :
             r.single \/ IndexOf(Labels(Coverage), r.from) < IndexOf(Labels(Coverage), r.to)
  PROVE  UNION {BandNamed(Coverage, b) : b \in Bands2} =
             UNION {IndexOf(Labels(Coverage), r.from) .. IndexOf(Labels(Coverage), r.to) :
                    r \in Range(RangeSubset)}
<1> DEFINE labels == Labels(Coverage)
           at(name) == IndexOf(labels, name)
<1>1. IsSequence(labels) /\ DOMAIN labels = DOMAIN Coverage.bands /\ DOMAIN labels \subseteq Int
      /\ \A i, j \in DOMAIN labels : i .. j \subseteq DOMAIN labels
  BY LabelsList
<1>2. \A r \in Range(RangeSubset) : r.single => r.from = r.to
  BY RequestsAssumption DEF RangeSubset, Arg, Given, args, FieldSound, Range
<1>3. \A i \in DOMAIN labels : labels[i] \in Bands2 => BandNamed(Coverage, labels[i]) = {i}
  BY <1>1, BandAlone DEF Sized
<1>4. Bands2 = UNION {Range(BandsOf(labels, r)) : r \in Range(RangeSubset)}
  BY DEF Bands2
<1> HIDE DEF labels
<1>5. ASSUME NEW r \in Range(RangeSubset)
      PROVE  /\ Range(BandsOf(labels, r)) = {labels[i] : i \in at(r.from) .. at(r.to)}
             /\ at(r.from) .. at(r.to) \subseteq DOMAIN labels
  <2>1. {r.from, r.to} \subseteq Range(labels)
    BY DEF FieldsKnown, labels
  <2>2. /\ at(r.from) \in DOMAIN labels /\ at(r.to) \in DOMAIN labels
        /\ labels[at(r.from)] = r.from
    BY <1>1, <2>1, IndexKnown
  <2>3. CASE r.single
    <3>1. r.from = r.to /\ Range(BandsOf(labels, r)) = {r.from}
      BY <1>1, <1>2, <2>1, <2>3, BandsOfKnown
    <3> HIDE DEF at
    <3>2. at(r.from) .. at(r.to) = {at(r.from)}
      BY <1>1, <2>2, <3>1
    <3> QED BY <1>1, <2>2, <3>1, <3>2
  <2>4. CASE ~r.single
    <3>1. at(r.from) < at(r.to)
      BY <2>4 DEF labels
    <3> QED BY <1>1, <2>1, <2>2, <2>4, <3>1, BandsOfKnown
  <2> QED BY <2>3, <2>4
<1> HIDE DEF at
<1>6. ASSUME NEW r \in Range(RangeSubset), NEW i \in at(r.from) .. at(r.to)
      PROVE  labels[i] \in Bands2 /\ BandNamed(Coverage, labels[i]) = {i}
  BY <1>3, <1>4, <1>5
<1>7. ASSUME NEW i
      PROVE  i \in UNION {BandNamed(Coverage, b) : b \in Bands2} <=>
             i \in UNION {at(r.from) .. at(r.to) : r \in Range(RangeSubset)}
  <2>1. ASSUME NEW b \in Bands2, i \in BandNamed(Coverage, b)
        PROVE  \E r \in Range(RangeSubset) : i \in at(r.from) .. at(r.to)
    <3>1. PICK r \in Range(RangeSubset) : b \in Range(BandsOf(labels, r))
      BY <1>4
    <3>2. PICK j \in at(r.from) .. at(r.to) : b = labels[j]
      BY <1>5, <3>1
    <3> QED BY <1>6, <2>1, <3>2
  <2>2. ASSUME NEW r \in Range(RangeSubset), i \in at(r.from) .. at(r.to)
        PROVE  \E b \in Bands2 : i \in BandNamed(Coverage, b)
    BY <1>6, <2>2
  <2> QED BY <2>1, <2>2
<1>8. UNION {BandNamed(Coverage, b) : b \in Bands2} =
          UNION {at(r.from) .. at(r.to) : r \in Range(RangeSubset)}
  BY <1>7
<1> QED BY <1>8 DEF at, labels

\* The bands are selected before the answer, and from what was asked for.
FieldsInv ==
    /\ GridInv
    /\ stage = "check1" => (BandsOutcome = "ok" /\ bands = Bands1) \/ "bands" \in Range(todo)
    /\ stage = "grid" => bands = Bands2 /\ FieldsKnown
    /\ FieldsAsAsked

\* What was asked for is a matter of the request alone.
LEMMA FieldsStand ==
  ASSUME request' = request
  PROVE  /\ BandsOutcome' = BandsOutcome /\ Bands1' = Bands1 /\ Bands2' = Bands2
         /\ FieldsKnown' = FieldsKnown /\ RangeSubset' = RangeSubset /\ Measurements' = Measurements
         /\ \A name : Given(name)' = Given(name)
<1>1. args' = args /\ Coverage' = Coverage
  BY AskingStands
<1>2. /\ \A name : Given(name)' = Given(name)
      /\ \A name, default : Arg(name, default)' = Arg(name, default)
  BY <1>1 DEF Given, Arg
<1>3. RangeSubset' = RangeSubset /\ Measurements' = Measurements
  BY <1>1, <1>2 DEF RangeSubset, Measurements
<1>4. BandsOutcome' = BandsOutcome /\ StyleBands' = StyleBands
  BY Zenon, <1>1, <1>2, <1>3 DEF BandsOutcome, StyleBands
<1>5. Bands1' = Bands1
  BY <1>1, <1>2, <1>3, <1>4 DEF Bands1
<1>6. Bands2' = Bands2 /\ FieldsKnown' = FieldsKnown
  BY <1>1, <1>3 DEF Bands2, FieldsKnown
<1> QED BY <1>2, <1>3, <1>4, <1>5, <1>6

\* An answer to version 1 has the bands of the names.
LEMMA FieldsAnswer1 ==
  ASSUME LabelsClear, FieldsInv, Grid1Done PROVE FieldsAsAsked'
<1>1. /\ stage = "check1" /\ todo = <<>> /\ Version = 1 /\ Answer(args["format"], Grid1) /\ Checked1
  BY DEF FieldsInv, GridInv, Grid1Done, Version
<1>2. KnownCoverage /\ BandsOutcome = "ok" /\ bands = Bands1
  BY <1>1 DEF FieldsInv, Checked1, Range
<1>3. request' = request /\ bands' = bands
  BY <1>1 DEF Answer, Error, Finish
<1>4. Version' = 1 /\ Coverage' = Coverage
  BY <1>1, <1>3, AskingStands
<1>5. Given("measurements") => UNION {BandNamed(Coverage, b) : b \in bands}
                                 = UNION {LocaleBand(Coverage, n) : n \in Measurements}
  BY <1>2, Delivered1
<1>6. Given("measurements")' => UNION {BandNamed(Coverage, b) : b \in bands}'
                                  = UNION {LocaleBand(Coverage, n) : n \in Measurements}'
  BY <1>3, <1>4, <1>5, FieldsStand
<1> QED BY <1>4, <1>6 DEF FieldsAsAsked

\* And one to version 2 those of the fields.
LEMMA FieldsAnswer2 ==
  ASSUME LabelsClear, FieldsInv, Grid2Done PROVE FieldsAsAsked'
<1> DEFINE labels == Labels(Coverage)
           forward == \A r \in Range(RangeSubset) :
                          r.single \/ IndexOf(labels, r.from) < IndexOf(labels, r.to)
           delivered == UNION {BandNamed(Coverage, b) : b \in bands}
           asked == UNION {IndexOf(labels, r.from) .. IndexOf(labels, r.to) : r \in Range(RangeSubset)}
<1>1. /\ stage = "grid" /\ Version = 2 /\ KnownCoverage /\ request \in Requests
      /\ bands = Bands2 /\ FieldsKnown
      /\ \E grid : Answer(Format2, grid)
  BY DEF FieldsInv, GridInv, Grid2Done, Version
<1>2. /\ request' = request /\ bands' = bands
      /\ Accepted' => Sized(Coverage, bands)
  BY <1>1 DEF Answer, Error, Finish, Accepted
<1>3. Accepted' /\ forward /\ RangeSubset # <<>> => delivered = asked
  BY <1>1, <1>2, Delivered2
<1>4. Version' = 2 /\ Coverage' = Coverage /\ RangeSubset' = RangeSubset
  BY <1>1, <1>2, AskingStands, FieldsStand
<1>5. Accepted' /\ forward' /\ RangeSubset' # <<>> => delivered' = asked'
  BY <1>2, <1>3, <1>4
<1> QED BY <1>4, <1>5 DEF FieldsAsAsked

\* A request that comes has no bands yet.
LEMMA FieldsInit == Init => FieldsInv
<1> SUFFICES ASSUME Init PROVE FieldsInv
  OBVIOUS
<1>1. GridInv /\ request \in Requests /\ stage = FirstStage[request.op] /\ result = NoResult
  BY GridInit DEF Init
<1>2. request.op \in {"Describe1", "Describe2", "GetCoverage1", "GetCoverage2"}
  BY <1>1, RequestsAssumption
<1>3. stage # "grid" /\ (stage = "check1" => todo = Steps1)
  BY <1>1, <1>2 DEF FirstStage, Init
<1>4. "bands" \in Range(Steps1)
  BY DEF Steps1, Range
<1>5. ~Accepted
  BY <1>1 DEF Accepted, NoResult
<1> QED BY <1>1, <1>3, <1>4, <1>5 DEF FieldsInv, FieldsAsAsked

\* Every step keeps what is known of the bands.
LEMMA FieldsNext == ASSUME LabelsClear, FieldsInv, [Next]_vars PROVE FieldsInv'
<1>1. GridInv' /\ (result.outcome = "accepted" => stage = "done")
  BY GridNext DEF FieldsInv, GridInv
<1>2. ASSUME result'.outcome # "accepted", stage' \notin {"check1", "grid"} PROVE FieldsInv'
  BY <1>1, <1>2 DEF FieldsInv, FieldsAsAsked, Accepted
<1>3. ASSUME NEW outcome, outcome # "accepted", Finish(outcome, NoGrid) PROVE FieldsInv'
  BY <1>2, <1>3 DEF Finish
<1>4. (Refused => FieldsInv') /\ (Error => FieldsInv')
  BY <1>3 DEF Refused, Error
<1>5. CASE UNCHANGED vars
  <2>1. /\ request' = request /\ stage' = stage /\ todo' = todo /\ bands' = bands /\ result' = result
    BY <1>5 DEF vars
  <2>2. Coverage' = Coverage /\ Version' = Version
    BY <2>1, AskingStands
  <2>3. FieldsAsAsked' = FieldsAsAsked
    BY <2>1, <2>2, FieldsStand DEF FieldsAsAsked, Accepted
  <2> QED BY <1>1, <2>1, <2>3, FieldsStand DEF FieldsInv
<1>6. CASE Check1
  <2>1. /\ stage = "check1" /\ todo # <<>> /\ Checked1
        /\ (BandsOutcome = "ok" /\ bands = Bands1) \/ "bands" \in Range(todo)
        /\ request' = request
    BY <1>6 DEF Check1, FieldsInv, GridInv, Refused, Error, Finish
  <2>2. CASE /\ Outcome1(todo[1]) = "ok" /\ todo' = Tail(todo)
             /\ bands' = IF todo[1] = "bands" THEN Bands1 ELSE bands
             /\ stage' = "check1" /\ result' = result
    <3>1. Range(todo) \subseteq Range(Tail(todo)) \cup {todo[1]}
      BY <2>1, RestOfList DEF Checked1
    <3>2. todo[1] = "bands" => BandsOutcome = "ok"
      BY <2>2 DEF Outcome1
    <3>3. \/ BandsOutcome = "ok" /\ bands' = Bands1
          \/ "bands" \in Range(todo')
      BY <2>1, <2>2, <3>1, <3>2
    <3>4. ~Accepted'
      BY <1>1, <2>1, <2>2 DEF Accepted
    <3>5. BandsOutcome' = BandsOutcome /\ Bands1' = Bands1
      BY <2>1, FieldsStand
    <3>6. (BandsOutcome = "ok" /\ bands = Bands1)' \/ ("bands" \in Range(todo))'
      BY <3>3, <3>5
    <3> QED BY <1>1, <2>2, <3>4, <3>6 DEF FieldsInv, FieldsAsAsked
  <2> QED BY <1>4, <1>6, <2>1, <2>2 DEF Check1
<1>7. CASE Grid1Done
  <2>1. stage' = "done"
    BY <1>7 DEF Grid1Done, Answer, Error, Finish
  <2> QED BY <1>1, <1>7, <2>1, FieldsAnswer1 DEF FieldsInv
<1>8. CASE Grid2Done
  <2>1. stage' = "done"
    BY <1>8 DEF Grid2Done, Answer, Error, Finish
  <2> QED BY <1>1, <1>8, <2>1, FieldsAnswer2 DEF FieldsInv
<1>9. CASE Fields
  <2>1. CASE /\ \A r \in Range(RangeSubset) : {r.from, r.to} \subseteq Range(Labels(Coverage))
             /\ bands' = Bands2 /\ stage' = "grid" /\ UNCHANGED <<request, result>>
    <3>1. stage = "scale"
      BY <1>9 DEF Fields
    <3>2. Bands2' = Bands2 /\ FieldsKnown' = FieldsKnown /\ ~Accepted'
      BY <1>1, <2>1, <3>1, FieldsStand DEF Accepted
    <3> QED BY <1>1, <2>1, <3>2 DEF FieldsInv, FieldsAsAsked, FieldsKnown
  <2> QED BY <1>4, <1>9, <2>1 DEF Fields
<1>10. CASE Begin2 \/ SubsetTime \/ SubsetAxis \/ ToOutputCRS \/ Scale
  <2>1. stage # "done"
    BY <1>10 DEF Begin2, SubsetTime, SubsetAxis, ToOutputCRS, Scale
  <2>2. \/ Refused \/ Error
        \/ result' = result /\ stage' \in {"subset", "scale"}
    BY <1>10 DEF Begin2, SubsetTime, SubsetAxis, ToOutputCRS, Scale, Continue
  <2> QED BY <1>1, <1>2, <1>4, <2>1, <2>2
<1>11. CASE Describe
  <2>1. Refused \/ Error \/ Finish("described", NoGrid)
    BY <1>11 DEF Describe
  <2> QED BY <1>3, <1>4, <2>1
<1> QED BY <1>5, <1>6, <1>7, <1>8, <1>9, <1>10, <1>11 DEF Next, Done

\* If no label of a band stands for another one, an accepted request gets the
\* bands it asked for, by whatever names, and no others (get_coverage_data,
\* BandIndex): for any layers and any lists of fields.
THEOREM ClearFieldsAsAsked == ASSUME LabelsClear PROVE Spec => []FieldsAsAsked
<1>1. FieldsInv => FieldsAsAsked
  BY DEF FieldsInv
<1>2. FieldsInv /\ [Next]_vars => FieldsInv'
  BY FieldsNext
<1> QED BY <1>1, <1>2, FieldsInit, PTL DEF Spec
-----------------------------------------------------------------------------
(* The dates are those asked for *)

\* A set of pairs that puts places in an order.
Orders(order, places) ==
    /\ \A p \in places : <<p, p>> \in order
    /\ \A p, q \in places : <<p, q>> \in order \/ <<q, p>> \in order
    /\ \A p, q \in places : <<p, q>> \in order /\ <<q, p>> \in order => p = q
    /\ \A p, q, r \in places : <<p, q>> \in order /\ <<q, r>> \in order => <<p, r>> \in order

\* Every place comes once, in that order.
LEMMA OrderedPlaces ==
  ASSUME NEW places, IsFiniteSet(places), NEW order, Orders(order, places)
  PROVE  /\ Cardinality(places) \in Nat
         /\ \A i \in 1 .. Cardinality(places) : Ordered(places, order)[i] \in places
         /\ \A p \in places : \E i \in 1 .. Cardinality(places) : Ordered(places, order)[i] = p
         /\ \A i, j \in 1 .. Cardinality(places) :
                i <= j => <<Ordered(places, order)[i], Ordered(places, order)[j]>> \in order
<1> DEFINE UpTo(p) == {q \in places : <<q, p>> \in order}
           rank == [p \in places |-> Cardinality(UpTo(p))]
           size == Cardinality(places)
           At(i) == Ordered(places, order)[i]
<1>1. size \in Nat
  BY FS_CardinalityType
<1>2. ASSUME NEW p \in places PROVE IsFiniteSet(UpTo(p)) /\ Cardinality(UpTo(p)) \in 1 .. size
  <2>1. UpTo(p) \in SUBSET places /\ p \in UpTo(p)
    BY DEF Orders
  <2> HIDE DEF UpTo
  <2>2. IsFiniteSet(UpTo(p)) /\ Cardinality(UpTo(p)) <= size
    BY <2>1, FS_Subset
  <2>3. Cardinality(UpTo(p)) \in Nat /\ Cardinality(UpTo(p)) # 0
    BY <2>1, <2>2, FS_CardinalityType, FS_EmptySet
  <2> QED BY <1>1, <2>2, <2>3
<1>3. ASSUME NEW p \in places, NEW q \in places, p # q, <<p, q>> \in order
      PROVE  rank[p] < rank[q]
  <2>1. UpTo(p) \in SUBSET UpTo(q) /\ q \in UpTo(q) /\ q \notin UpTo(p)
    BY <1>3 DEF Orders
  <2>2. UpTo(p) # UpTo(q)
    BY <2>1
  <2> HIDE DEF UpTo
  <2>3. Cardinality(UpTo(p)) <= Cardinality(UpTo(q)) /\ Cardinality(UpTo(p)) # Cardinality(UpTo(q))
    BY <1>2, <2>1, <2>2, FS_Subset
  <2>4. Cardinality(UpTo(p)) \in Int /\ Cardinality(UpTo(q)) \in Int
    BY <1>1, <1>2
  <2> QED BY <2>3, <2>4
<1>4. rank \in Injection(places, 1 .. size)
  <2>1. rank \in [places -> 1 .. size]
    <3> HIDE DEF UpTo, size
    <3> QED BY <1>2
  <2>2. \A p \in places : rank[p] \in Int
    BY <2>1
  <2> HIDE DEF rank
  <2>3. \A p, q \in places : <<p, q>> \in order \/ <<q, p>> \in order
    BY DEF Orders
  <2>4. ASSUME NEW p \in places, NEW q \in places, rank[p] = rank[q] PROVE p = q
    <3>1. ~(rank[p] < rank[q]) /\ ~(rank[q] < rank[p])
      BY <2>2, <2>4
    <3> QED BY <1>3, <2>3, <3>1
  <2> QED BY <2>1, <2>4 DEF Injection, IsInjective
<1>5. rank \in Surjection(places, 1 .. size)
  <2>1. IsFiniteSet(1 .. size) /\ Cardinality(1 .. size) = size
    BY <1>1, FS_Interval
  <2> HIDE DEF rank
  <2> QED BY <1>4, <2>1, FS_Injection
<1>6. ASSUME NEW i \in 1 .. size PROVE At(i) \in places /\ rank[At(i)] = i
  <2>1. PICK p \in places : rank[p] = i
    <3> HIDE DEF rank
    <3> QED BY <1>5 DEF Surjection
  <2>2. Cardinality({q \in places : <<q, p>> \in order}) = i
    BY <2>1
  <2>3. At(i) = CHOOSE r \in places : Cardinality({q \in places : <<q, r>> \in order}) = i
    BY DEF Ordered
  <2>4. At(i) \in places /\ Cardinality({q \in places : <<q, At(i)>> \in order}) = i
    BY <2>2, <2>3
  <2> QED BY <2>4
<1> HIDE DEF At, rank, size
<1>7. ASSUME NEW p \in places PROVE \E i \in 1 .. size : At(i) = p
  <2>1. rank[p] \in 1 .. size
    BY <1>4 DEF Injection
  <2>2. At(rank[p]) \in places /\ rank[At(rank[p])] = rank[p]
    BY <1>6, <2>1
  <2>3. At(rank[p]) = p
    BY Zenon, <1>4, <2>2 DEF Injection, IsInjective
  <2> QED BY <2>1, <2>3
<1>8. ASSUME NEW i \in 1 .. size, NEW j \in 1 .. size, i <= j
      PROVE  <<At(i), At(j)>> \in order
  <2>1. At(i) \in places /\ At(j) \in places /\ rank[At(i)] = i /\ rank[At(j)] = j
    BY <1>6
  <2>2. CASE At(i) = At(j)
    BY <2>1, <2>2 DEF Orders
  <2>3. CASE At(i) # At(j)
    <3>1. ~(j < i)
      BY <1>8
    <3>2. <<At(j), At(i)>> \in order => j < i
      BY <1>3, <2>1, <2>3
    <3> QED BY <2>1, <3>1, <3>2 DEF Orders
  <2> QED BY <2>2, <2>3
<1> QED BY <1>1, <1>6, <1>7, <1>8 DEF At, size

ValuesAt(list, places) == {list[p] : p \in places}

\* The new list has values of the list, in the order of their places.
InOrder(new, list, places, order) ==
    \A i, j \in DOMAIN new : i <= j =>
        \E p, q \in places : <<p, q>> \in order /\ new[i] = list[p] /\ new[j] = list[q]

\* A list in another order of its places, or of some of them, has their values.
LEMMA ListedPlaces ==
  ASSUME NEW list, IsSequence(list), NEW places \in SUBSET DOMAIN list,
         NEW order, Orders(order, places)
  PROVE  LET new == Listed(list, places, order)
         IN  /\ IsSequence(new) /\ Range(new) = ValuesAt(list, places)
             /\ Len(new) = Cardinality(places) /\ InOrder(new, list, places, order)
<1> DEFINE new == Listed(list, places, order)
           size == Cardinality(places)
           at == Ordered(places, order)
           S == Range(list)
<1>1. IsFiniteSet(places)
  <2>1. list \in Seq(S)
    BY DEF IsSequence
  <2> HIDE DEF S
  <2>2. DOMAIN list = 1 .. Len(list) /\ Len(list) \in Nat
    BY <2>1, LenProperties
  <2>3. IsFiniteSet(DOMAIN list)
    BY <2>2, FS_Interval
  <2> QED BY <2>3, FS_Subset
<1>2. /\ size \in Nat
      /\ \A i \in 1 .. size : at[i] \in places
      /\ \A p \in places : \E i \in 1 .. size : at[i] = p
      /\ \A i, j \in 1 .. size : i <= j => <<at[i], at[j]>> \in order
  BY <1>1, OrderedPlaces
<1> HIDE DEF at, size, S
<1>3. new = [i \in 1 .. size |-> list[at[i]]]
  BY DEF Listed, at, size
<1> HIDE DEF new
<1>4. DOMAIN new = 1 .. size /\ \A i \in 1 .. size : new[i] = list[at[i]]
  BY <1>3
<1>5. Range(new) = ValuesAt(list, places)
  <2>1. ASSUME NEW v \in Range(new) PROVE \E p \in places : v = list[p]
    <3>1. PICK i \in 1 .. size : v = new[i]
      BY <1>4 DEF Range
    <3> QED BY <1>2, <1>4, <3>1
  <2>2. ASSUME NEW p \in places PROVE list[p] \in Range(new)
    <3>1. PICK i \in 1 .. size : at[i] = p
      BY <1>2
    <3> QED BY <1>4, <3>1 DEF Range
  <2> QED BY <2>1, <2>2 DEF ValuesAt
<1>6. new \in Seq(Range(new)) /\ Len(new) = size
  <2> DEFINE R == Range(new)
  <2>1. \A i \in 1 .. size : new[i] \in R
    BY <1>4 DEF Range
  <2> HIDE DEF R
  <2>2. new \in [1 .. size -> R]
    BY <1>3, <1>4, <2>1
  <2>3. new \in Seq(R)
    BY <1>2, <2>2, SeqDef
  <2>4. Len(new) = size
    BY <1>2, <1>4, <2>3, LenProperties
  <2> QED BY <2>3, <2>4 DEF R
<1>7. ASSUME NEW i \in DOMAIN new, NEW j \in DOMAIN new, i <= j
      PROVE  \E p, q \in places : <<p, q>> \in order /\ new[i] = list[p] /\ new[j] = list[q]
  BY <1>2, <1>4, <1>7
<1>8. InOrder(new, list, places, order)
  BY <1>7 DEF InOrder
<1> QED BY <1>5, <1>6, <1>8 DEF IsSequence, new, size

\* What is selected from a list has the values at those places, in order if
\* the list is.
LEMMA SelectedPlaces ==
  ASSUME NEW list, IsSequence(list), NEW places \in SUBSET DOMAIN list
  PROVE  LET new == Selected(list, places)
         IN  /\ IsSequence(new) /\ Range(new) = ValuesAt(list, places)
             /\ Ascends(list) => Ascends(new)
<1>1. DOMAIN list \subseteq Nat
  <2> DEFINE S == Range(list)
  <2>1. list \in Seq(S)
    BY DEF IsSequence
  <2> HIDE DEF S
  <2> QED BY <2>1, LenProperties
<1>2. \A p, q \in DOMAIN list : <<p, q>> \in Along(list) <=> p <= q
  BY DEF Along
<1>3. Orders(Along(list), places)
  <2>1. \A p, q, r \in places : p \in Nat /\ q \in Nat /\ r \in Nat
    BY <1>1
  <2> QED BY <1>2, <2>1 DEF Orders
<1> DEFINE new == Selected(list, places)
           order == Along(list)
<1> HIDE DEF order, new
<1>4. Orders(order, places) /\ \A p, q \in DOMAIN list : <<p, q>> \in order <=> p <= q
  BY <1>2, <1>3 DEF order
<1>5. IsSequence(new) /\ Range(new) = ValuesAt(list, places) /\ InOrder(new, list, places, order)
  <2>1. Orders(order, places) /\ new = Listed(list, places, order)
    BY <1>4 DEF Selected, new, order
  <2> QED BY <2>1, ListedPlaces
<1>6. Ascends(list) => Ascends(new)
  <2>1. ASSUME Ascends(list), NEW i \in DOMAIN new, NEW j \in DOMAIN new, i <= j
        PROVE  new[i] <= new[j]
    <3>1. PICK p \in places, q \in places : <<p, q>> \in order /\ new[i] = list[p] /\ new[j] = list[q]
      BY <1>5, <2>1 DEF InOrder
    <3>2. list[p] <= list[q]
      BY <1>4, <2>1, <3>1 DEF Ascends
    <3> QED BY <3>1, <3>2
  <2> QED BY <2>1 DEF Ascends
<1> QED BY <1>5, <1>6 DEF new

\* A sorted list has the values of the list, as many of them, in order.
LEMMA SortedPlaces ==
  ASSUME NEW list, IsSequence(list), Range(list) \subseteq Int
  PROVE  /\ IsSequence(Sorted(list)) /\ Range(Sorted(list)) = Range(list)
         /\ Len(Sorted(list)) = Len(list) /\ Ascends(Sorted(list))
<1> DEFINE S == Range(list)
           places == DOMAIN list
           order == Upwards(list)
           new == Sorted(list)
<1>1. places = 1 .. Len(list) /\ Len(list) \in Nat
  <2>1. list \in Seq(S)
    BY DEF IsSequence
  <2> HIDE DEF S
  <2> QED BY <2>1, LenProperties
<1>2. \A p \in places : p \in Int /\ list[p] \in Int
  BY <1>1 DEF Range
<1>3. \A p, q \in places : <<p, q>> \in order <=> list[p] < list[q] \/ (list[p] = list[q] /\ p <= q)
  BY DEF Upwards
<1> HIDE DEF order
<1>4. Orders(order, places)
  <2> DEFINE Before(v, p, w, q) == v < w \/ (v = w /\ p <= q)
  <2>1. \A v, w, u, p, q, r \in Int :
            /\ Before(v, p, v, p) /\ (Before(v, p, w, q) \/ Before(w, q, v, p))
            /\ Before(v, p, w, q) /\ Before(w, q, v, p) => p = q
            /\ Before(v, p, w, q) /\ Before(w, q, u, r) => Before(v, p, u, r)
    OBVIOUS
  <2>2. \A p, q \in places : <<p, q>> \in order <=> Before(list[p], p, list[q], q)
    BY <1>3
  <2> HIDE DEF Before, places
  <2> QED BY <1>2, <2>1, <2>2 DEF Orders
<1>5. /\ IsSequence(new) /\ Range(new) = ValuesAt(list, places) /\ Len(new) = Cardinality(places)
      /\ InOrder(new, list, places, order)
  BY <1>4, ListedPlaces DEF Sorted, order
<1>6. Cardinality(places) = Len(list)
  <2>1. \A n \in Nat : Cardinality(1 .. n) = n
    BY FS_Interval
  <2> HIDE DEF places
  <2> QED BY <1>1, <2>1
<1>7. Range(list) = ValuesAt(list, places)
  BY DEF Range, ValuesAt
<1> HIDE DEF new
<1>8. Ascends(new)
  <2>1. ASSUME NEW i \in DOMAIN new, NEW j \in DOMAIN new, i <= j PROVE new[i] <= new[j]
    <3>1. PICK p \in places, q \in places : <<p, q>> \in order /\ new[i] = list[p] /\ new[j] = list[q]
      BY <1>5, <2>1 DEF InOrder
    <3>2. list[p] < list[q] \/ list[p] = list[q]
      BY <1>3, <3>1
    <3>3. list[p] \in Int /\ list[q] \in Int
      BY <1>2
    <3> QED BY <3>1, <3>2, <3>3
  <2> QED BY <2>1 DEF Ascends
<1> QED BY <1>5, <1>6, <1>7, <1>8 DEF new

\* The advertised dates from one to another are those of a trim.
LEMMA DatesTrimmed ==
  ASSUME KnownCoverage, NEW s, s.low \in Int \cup {Unset}, s.high \in Int
  PROVE  LET new == TrimmedTimes(Coverage.times, s)
             from == IF s.low = Unset THEN Coverage.times[1] ELSE s.low
         IN  /\ IsSequence(new) /\ Ascends(new)
             /\ Range(new) = {t \in Range(Coverage.times) : t \in from .. s.high}
<1> DEFINE all == Coverage.times
           places == {i \in DOMAIN all : /\ s.low = Unset \/ s.low <= all[i]
                                         /\ all[i] <= s.high}
           new == TrimmedTimes(all, s)
           from == IF s.low = Unset THEN all[1] ELSE s.low
<1>1. IsSequence(all) /\ all # <<>> /\ Range(all) \subseteq Int /\ Ascends(all)
  BY LayersAssumption DEF KnownCoverage, Coverage
<1>2. places \in SUBSET DOMAIN all /\ new = Selected(all, places)
  BY DEF TrimmedTimes
<1>3. 1 \in DOMAIN all /\ \A i \in DOMAIN all : 1 <= i
  <2> DEFINE S == Range(all)
  <2>1. all \in Seq(S)
    BY <1>1 DEF IsSequence
  <2> HIDE DEF S
  <2>2. DOMAIN all = 1 .. Len(all) /\ Len(all) \in Nat /\ Len(all) # 0
    BY <1>1, <2>1, LenProperties, EmptySeq
  <2> QED BY <2>2
<1>4. \A i \in DOMAIN all : all[i] \in Int /\ all[1] <= all[i]
  BY <1>1, <1>3 DEF Range, Ascends
<1> HIDE DEF all
<1>5. \A i \in DOMAIN all : i \in places <=> all[i] \in from .. s.high
  <2> SUFFICES ASSUME NEW i \in DOMAIN all PROVE i \in places <=> all[i] \in from .. s.high
    OBVIOUS
  <2>1. all[i] \in Int /\ all[1] <= all[i] /\ all[1] \in Int
    BY <1>3, <1>4
  <2>2. from \in Int /\ (from <= all[i] <=> (s.low = Unset \/ s.low <= all[i]))
    BY <2>1, UnsetAssumption
  <2>3. all[i] \in from .. s.high <=> from <= all[i] /\ all[i] <= s.high
    BY <2>1, <2>2
  <2> QED BY <2>2, <2>3
<1> HIDE DEF new, places, from
<1>6. IsSequence(new) /\ Range(new) = ValuesAt(all, places) /\ Ascends(new)
  BY <1>1, <1>2, SelectedPlaces
<1>7. ValuesAt(all, places) = {t \in Range(all) : t \in from .. s.high}
  <2>1. \A i \in places : i \in DOMAIN all
    BY <1>2
  <2> QED BY <1>5, <2>1 DEF ValuesAt, Range
<1> QED BY <1>6, <1>7 DEF all, new, from

\* The dates of version 1 are those that were listed, in their order.
LEMMA DatesListed ==
  ASSUME KnownCoverage, request \in Requests
  PROVE  /\ IsSequence(Times1) /\ Ascends(Times1)
         /\ Range(Times1) = IF Given("time") THEN Range(Asked1) ELSE {Coverage.default}
         /\ Len(Times1) = IF Given("time") THEN Len(Asked1) ELSE 1
<1>1. CASE Given("time")
  <2> DEFINE list == args["time"]
             places == {i \in DOMAIN list : list[i] # Unset}
  <2>1. IsSequence(list) /\ \A item \in Range(list) : item \in Int \cup {Unset}
    BY <1>1, RequestsAssumption DEF Given, args, TimeSound
  <2>2. places \in SUBSET DOMAIN list /\ \A i \in places : list[i] \in Int
    BY <2>1 DEF Range
  <2>3. Asked1 = Selected(list, places)
    BY DEF Asked1, Dates
  <2>4. Times1 = Sorted(Asked1)
    BY <1>1 DEF Times1
  <2> HIDE DEF list, places
  <2>5. IsSequence(Asked1) /\ Range(Asked1) = ValuesAt(list, places)
    BY <2>1, <2>2, <2>3, SelectedPlaces
  <2>6. Range(Asked1) \subseteq Int
    BY <2>2, <2>5 DEF ValuesAt
  <2> QED BY <1>1, <2>4, <2>5, <2>6, SortedPlaces
<1>2. CASE ~Given("time")
  <2> DEFINE date == Coverage.default
  <2>1. Times1 = <<date>>
    BY <1>2 DEF Times1
  <2> HIDE DEF date
  <2>2. /\ IsSequence(<<date>>) /\ Range(<<date>>) = {date} /\ Len(<<date>>) = 1
        /\ DOMAIN <<date>> = {1}
    BY DEF IsSequence, Range
  <2>3. date \in Int
    BY LayersAssumption DEF KnownCoverage, Coverage, date
  <2>4. Ascends(<<date>>)
    BY <2>2, <2>3 DEF Ascends
  <2> QED BY <1>2, <2>1, <2>2, <2>4 DEF date
<1> QED BY <1>1, <1>2


TimeSubsets == {s \in Range(Subsets) : s.axis = "time"}

\* The only subset in time has selected the dates.
TimeTaken ==
    \E s \in TimeSubsets :
        /\ TimeSubsets = {s} /\ (s.kind = "slice" \/ s.high # Unset)
        /\ times = IF s.kind = "slice" THEN <<s.at>> ELSE TrimmedTimes(Coverage.times, s)
AllTimes == times = Coverage.times

\* The dates are selected by the only subset in time, or all there are, and
\* version 2 counts them before the answer.
DatesInv ==
    /\ GridInv
    /\ stage = "check1" => (TimeOutcome = "ok" /\ times = Times1) \/ "time" \in Range(todo)
    /\ stage = "subset" =>
           /\ \A i, j \in DOMAIN todo : todo[i].axis = todo[j].axis => i = j
           /\ \/ AllTimes /\ TimeSubsets \subseteq Range(todo)
              \/ TimeTaken /\ \A subset \in Range(todo) : subset.axis # "time"
    /\ stage \in {"scale", "grid"} => (AllTimes /\ TimeSubsets = {}) \/ TimeTaken
    /\ stage = "grid" => (Len(times) > 1 => Formats[Format2].multiTime)
    /\ DatesAsAsked

\* Which dates are asked for is a matter of the request alone.
LEMMA DatesStand ==
  ASSUME request' = request
  PROVE  /\ Asked1' = Asked1 /\ Times1' = Times1 /\ TimeOutcome' = TimeOutcome
         /\ TimeSubsets' = TimeSubsets /\ Format2' = Format2
         /\ \A name : Given(name)' = Given(name)
         /\ times' = times => TimeTaken' = TimeTaken /\ AllTimes' = AllTimes
         /\ times' = times /\ result' = result => DatesAsAsked' = DatesAsAsked
<1>1. args' = args /\ Coverage' = Coverage /\ Subsets' = Subsets /\ Version' = Version
  BY AskingStands
<1>2. /\ \A name : Given(name)' = Given(name)
      /\ \A name, default : Arg(name, default)' = Arg(name, default)
  BY <1>1 DEF Given, Arg
<1>3. Asked1' = Asked1 /\ TimeSubsets' = TimeSubsets /\ Format2' = Format2
  BY <1>1, <1>2 DEF Asked1, TimeSubsets, Format2
<1>4. Times1' = Times1
  BY <1>1, <1>2, <1>3 DEF Times1
<1>5. TimeOutcome' = TimeOutcome
  BY <1>1, <1>2, <1>3 DEF TimeOutcome
<1>6. times' = times => TimeTaken' = TimeTaken /\ AllTimes' = AllTimes
  BY <1>1, <1>3 DEF TimeTaken, AllTimes
<1>7. times' = times /\ result' = result => DatesAsAsked' = DatesAsAsked
  BY <1>1, <1>2, <1>3 DEF DatesAsAsked, Accepted
<1> QED BY <1>2, <1>3, <1>4, <1>5, <1>6, <1>7

\* A list that ascends does so from each item to the next.
LEMMA NextAscends ==
  ASSUME NEW list, IsSequence(list), Ascends(list)
  PROVE  \A i \in DOMAIN list : i > 1 => list[i - 1] <= list[i]
<1> DEFINE S == Range(list)
<1>1. list \in Seq(S)
  BY DEF IsSequence
<1> HIDE DEF S
<1>2. DOMAIN list = 1 .. Len(list) /\ Len(list) \in Nat
  BY <1>1, LenProperties
<1>3. \A i \in DOMAIN list : i > 1 => i - 1 \in DOMAIN list /\ i - 1 <= i
  BY <1>2
<1> QED BY <1>3 DEF Ascends

\* An answer to version 1 has the dates of the list.
LEMMA DatesAnswer1 == ASSUME DatesInv, Grid1Done PROVE DatesAsAsked'
<1>1. /\ stage = "check1" /\ todo = <<>> /\ Version = 1 /\ Answer(args["format"], Grid1) /\ Checked1
      /\ request \in Requests
  BY DEF DatesInv, GridInv, Grid1Done, Version
<1>2. KnownCoverage /\ TimeOutcome = "ok" /\ times = Times1
  BY <1>1 DEF DatesInv, Checked1, Range
<1>3. request' = request /\ times' = times
  BY <1>1 DEF Answer, Error, Finish
<1>4. Version' = 1 /\ Coverage' = Coverage /\ args' = args
  BY <1>1, <1>3, AskingStands
<1>5. /\ IsSequence(times) /\ Ascends(times)
      /\ Range(times) = IF Given("time") THEN Range(Asked1) ELSE {Coverage.default}
      /\ Len(times) = IF Given("time") THEN Len(Asked1) ELSE 1
  BY <1>1, <1>2, DatesListed
<1>6. Len(times) > 1 => Formats[args["format"]].multiTime
  BY <1>2, <1>5 DEF TimeOutcome
<1>7. \A i \in DOMAIN times : i > 1 => times[i - 1] <= times[i]
  BY <1>5, NextAscends
<1>8. Asked1' = Asked1 /\ Given("time")' = Given("time")
  BY <1>3, DatesStand
<1> QED BY <1>3, <1>4, <1>5, <1>6, <1>7, <1>8 DEF DatesAsAsked

\* The subsets in time that are trims, and the points of those that are not.
TimeTrims == {s \in Range(Subsets) : s.axis = "time" /\ s.kind = "trim"}
TimePoints == {s.at : s \in {r \in Range(Subsets) : r.axis = "time" /\ r.kind = "slice"}}

\* Version 2 has selected the dates that all its subsets ask for.
LEMMA DatesSelected ==
  ASSUME KnownCoverage, request \in Requests, (AllTimes /\ TimeSubsets = {}) \/ TimeTaken
  PROVE  /\ IsSequence(times) /\ Ascends(times)
         /\ IF TimePoints # {} THEN Range(times) = TimePoints
            ELSE Range(times) = {t \in Range(Coverage.times) :
                     \A s \in TimeTrims :
                         t \in (IF s.low = Unset THEN Coverage.times[1] ELSE s.low) .. s.high}
<1>1. \A s \in Range(Subsets) : SubsetSound(s)
  BY SubsetsKnown
<1>2. TimeTrims = {s \in TimeSubsets : s.kind = "trim"}
  BY DEF TimeTrims, TimeSubsets
<1>3. TimePoints = {s.at : s \in {r \in TimeSubsets : r.kind = "slice"}}
  BY DEF TimePoints, TimeSubsets
<1>4. CASE AllTimes /\ TimeSubsets = {}
  <2>1. TimeTrims = {} /\ TimePoints = {}
    BY <1>2, <1>3, <1>4
  <2>2. IsSequence(times) /\ Ascends(times)
    BY <1>4, LayersAssumption DEF AllTimes, KnownCoverage, Coverage
  <2> QED BY <1>4, <2>1, <2>2 DEF AllTimes
<1>5. CASE TimeTaken
  <2>1. PICK s \in TimeSubsets :
            /\ TimeSubsets = {s} /\ (s.kind = "slice" \/ s.high # Unset)
            /\ times = IF s.kind = "slice" THEN <<s.at>> ELSE TrimmedTimes(Coverage.times, s)
    BY <1>5 DEF TimeTaken
  <2>2. SubsetSound(s)
    BY <1>1 DEF TimeSubsets
  <2>3. CASE s.kind = "slice"
    <3> DEFINE date == s.at
    <3>1. TimePoints = {date}
      BY <1>3, <2>1, <2>3
    <3>2. times = <<date>> /\ date \in Int
      BY <2>1, <2>2, <2>3 DEF SubsetSound
    <3> HIDE DEF date
    <3>3. IsSequence(<<date>>) /\ Range(<<date>>) = {date} /\ DOMAIN <<date>> = {1}
      BY DEF IsSequence, Range
    <3>4. Ascends(<<date>>)
      BY <3>2, <3>3 DEF Ascends
    <3> QED BY <3>1, <3>2, <3>3, <3>4
  <2>4. CASE s.kind # "slice"
    <3>1. TimePoints = {}
      BY <1>3, <2>1, <2>4
    <3>2. TimeTrims = {s}
      BY <1>2, <2>1, <2>2, <2>4 DEF SubsetSound
    <3>3. s.low \in Int \cup {Unset} /\ s.high \in Int
      BY <2>1, <2>2, <2>4 DEF SubsetSound
    <3>4. times = TrimmedTimes(Coverage.times, s)
      BY <2>1, <2>4
    <3> DEFINE from == IF s.low = Unset THEN Coverage.times[1] ELSE s.low
    <3>5. /\ IsSequence(times) /\ Ascends(times)
          /\ Range(times) = {t \in Range(Coverage.times) : t \in from .. s.high}
      BY <3>3, <3>4, DatesTrimmed
    <3> QED BY <3>1, <3>2, <3>5
  <2> QED BY <2>3, <2>4
<1> QED BY <1>4, <1>5

\* And one to version 2 those of the subset.
LEMMA DatesAnswer2 == ASSUME DatesInv, Grid2Done PROVE DatesAsAsked'
<1>1. /\ stage = "grid" /\ Version = 2 /\ KnownCoverage /\ request \in Requests
      /\ (AllTimes /\ TimeSubsets = {}) \/ TimeTaken
      /\ Len(times) > 1 => Formats[Format2].multiTime
      /\ \E grid : Answer(Format2, grid)
  BY DEF DatesInv, GridInv, Grid2Done, Version
<1>2. request' = request /\ times' = times
  BY <1>1 DEF Answer, Error, Finish
<1>3. Version' = 2 /\ Coverage' = Coverage /\ Subsets' = Subsets /\ Format2' = Format2
  BY <1>1, <1>2, AskingStands, DatesStand
<1>4. TimeTrims' = TimeTrims /\ TimePoints' = TimePoints
  BY <1>3 DEF TimeTrims, TimePoints
<1>5. /\ IsSequence(times) /\ Ascends(times)
      /\ IF TimePoints # {} THEN Range(times) = TimePoints
         ELSE Range(times) = {t \in Range(Coverage.times) :
                  \A s \in TimeTrims :
                      t \in (IF s.low = Unset THEN Coverage.times[1] ELSE s.low) .. s.high}
  BY <1>1, DatesSelected
<1>6. \A i \in DOMAIN times : i > 1 => times[i - 1] <= times[i]
  BY <1>5, NextAscends
<1>7. (IF TimePoints # {} THEN Range(times) = TimePoints
       ELSE Range(times) = {t \in Range(Coverage.times) :
                \A s \in TimeTrims :
                    t \in (IF s.low = Unset THEN Coverage.times[1] ELSE s.low) .. s.high})'
  BY <1>2, <1>3, <1>4, <1>5
<1> QED BY <1>1, <1>2, <1>3, <1>6, <1>7 DEF DatesAsAsked, TimeTrims, TimePoints

\* A request that comes has no dates yet.
LEMMA DatesInit == Init => DatesInv
<1> SUFFICES ASSUME Init PROVE DatesInv
  OBVIOUS
<1>1. GridInv /\ request \in Requests /\ stage = FirstStage[request.op] /\ result = NoResult
  BY GridInit DEF Init
<1>2. request.op \in {"Describe1", "Describe2", "GetCoverage1", "GetCoverage2"}
  BY <1>1, RequestsAssumption
<1>3. stage \notin {"subset", "scale", "grid"} /\ (stage = "check1" => todo = Steps1)
  BY <1>1, <1>2 DEF FirstStage, Init
<1>4. "time" \in Range(Steps1)
  BY DEF Steps1, Range
<1>5. ~Accepted
  BY <1>1 DEF Accepted, NoResult
<1> QED BY <1>1, <1>3, <1>4, <1>5 DEF DatesInv, DatesAsAsked

\* What is left of a list whose axes are distinct has distinct axes, and not
\* that of the first.
LEMMA RestDistinct ==
  ASSUME NEW list, IsSequence(list), list # <<>>,
         \A i, j \in DOMAIN list : list[i].axis = list[j].axis => i = j
  PROVE  /\ \A i, j \in DOMAIN Tail(list) : Tail(list)[i].axis = Tail(list)[j].axis => i = j
         /\ \A item \in Range(Tail(list)) : item.axis # list[1].axis
<1> DEFINE S == Range(list)
<1>1. list \in Seq(S)
  BY DEF IsSequence
<1> HIDE DEF S
<1>2. /\ Tail(list) \in Seq(S) /\ Len(Tail(list)) = Len(list) - 1
      /\ \A i \in 1 .. Len(Tail(list)) : Tail(list)[i] = list[i + 1]
  BY <1>1, HeadTailProperties
<1>3. Len(list) \in Nat /\ Len(list) # 0 /\ DOMAIN list = 1 .. Len(list)
      /\ DOMAIN Tail(list) = 1 .. Len(Tail(list))
  BY <1>1, <1>2, LenProperties, EmptySeq
<1>4. ASSUME NEW i \in DOMAIN Tail(list)
      PROVE  i \in Int /\ i + 1 # 1 /\ i + 1 \in DOMAIN list /\ Tail(list)[i] = list[i + 1]
  BY <1>2, <1>3
<1>5. 1 \in DOMAIN list
  BY <1>3
<1>6. \A item \in Range(Tail(list)) : item.axis # list[1].axis
  BY <1>4, <1>5 DEF Range
<1>7. \A i, j \in DOMAIN Tail(list) : Tail(list)[i].axis = Tail(list)[j].axis => i = j
  BY <1>4
<1> QED BY <1>6, <1>7

\* At first, all dates are selected and all subsets are to come.
LEMMA DatesBegin2 ==
  ASSUME DatesInv, Begin2, scaler' = NewScaler(SubsettingCRS), times' = Coverage.times,
         stage' = "subset", todo' = Subsets, UNCHANGED <<request, bands, result>>,
         Distinct([i \in DOMAIN Subsets |-> Subsets[i].axis]), GridInv'
  PROVE  DatesInv'
<1> DEFINE axes == [i \in DOMAIN Subsets |-> Subsets[i].axis]
<1>1. IsSequence(Subsets)
  BY SubsetsKnown DEF DatesInv, GridInv
<1>2. IsSequence(axes) /\ DOMAIN axes = DOMAIN Subsets
  <2> DEFINE S == Range(Subsets)
             T == Range(axes)
  <2>1. Subsets \in Seq(S)
    BY <1>1 DEF IsSequence
  <2> HIDE DEF S
  <2>2. DOMAIN Subsets = 1 .. Len(Subsets) /\ Len(Subsets) \in Nat
    BY <2>1, LenProperties
  <2>3. axes \in [1 .. Len(Subsets) -> T]
    BY <2>2 DEF Range
  <2> HIDE DEF axes, T
  <2>4. axes \in Seq(T)
    BY <2>2, <2>3, SeqDef
  <2> QED BY <2>2, <2>3, <2>4 DEF IsSequence, T
<1>3. \A i, j \in DOMAIN Subsets : axes[i] = axes[j] => i = j
  <2> HIDE DEF axes
  <2> QED BY <1>2, DistinctInjective DEF axes
<1>4. \A i, j \in DOMAIN Subsets : Subsets[i].axis = Subsets[j].axis => i = j
  BY <1>3
<1>5. Subsets' = Subsets /\ Coverage' = Coverage /\ TimeSubsets' = TimeSubsets
  BY AskingStands, DatesStand
<1>6. AllTimes' /\ TimeSubsets' \subseteq Range(todo')
  BY <1>5 DEF AllTimes, TimeSubsets
<1>7. ~Accepted'
  BY DEF DatesInv, GridInv, Begin2, Accepted
<1> QED BY <1>4, <1>6, <1>7 DEF DatesInv, DatesAsAsked

\* The subset in time is the only one, and selects from all dates.
LEMMA DatesSubset ==
  ASSUME DatesInv, SubsetTime \/ SubsetAxis, Continue("subset", Tail(todo)), GridInv'
  PROVE  DatesInv'
<1>1. /\ stage = "subset" /\ todo # <<>> /\ IsSequence(todo) /\ Range(todo) \subseteq Range(Subsets)
      /\ \A i, j \in DOMAIN todo : todo[i].axis = todo[j].axis => i = j
      /\ \/ AllTimes /\ TimeSubsets \subseteq Range(todo)
         \/ TimeTaken /\ \A subset \in Range(todo) : subset.axis # "time"
  BY DEF DatesInv, GridInv, Subsetting, SubsetTime, SubsetAxis
<1>2. /\ request' = request /\ result' = result /\ stage' = "subset" /\ todo' = Tail(todo)
  BY DEF Continue
<1>3. /\ todo[1] \in Range(todo) /\ Range(Tail(todo)) \subseteq Range(todo)
      /\ Range(todo) \subseteq Range(Tail(todo)) \cup {todo[1]}
  BY <1>1, RestOfList
<1>4. /\ \A i, j \in DOMAIN Tail(todo) : Tail(todo)[i].axis = Tail(todo)[j].axis => i = j
      /\ \A subset \in Range(Tail(todo)) : subset.axis # todo[1].axis
  BY <1>1, RestDistinct
<1>5. Coverage' = Coverage /\ TimeSubsets' = TimeSubsets
  BY <1>2, AskingStands, DatesStand
<1>6. ~Accepted'
  BY <1>1, <1>2 DEF DatesInv, GridInv, Accepted
<1>7. CASE SubsetTime
  <2>1. todo[1].axis = "time" /\ todo[1] \in TimeSubsets
    BY <1>1, <1>3, <1>7 DEF SubsetTime, TimeSubsets
  <2>2. AllTimes /\ TimeSubsets \subseteq Range(todo)
    BY <1>1, <1>3, <2>1
  <2>3. TimeSubsets = {todo[1]}
    <3>1. \A s \in TimeSubsets : s.axis = "time"
      BY DEF TimeSubsets
    <3> QED BY <1>3, <1>4, <2>1, <2>2, <3>1
  <2>4. /\ todo[1].kind = "slice" \/ todo[1].high # Unset
        /\ times' = IF todo[1].kind = "slice" THEN <<todo[1].at>>
                    ELSE TrimmedTimes(Coverage.times, todo[1])
    BY <1>2, <1>7, <2>2 DEF SubsetTime, AllTimes, Error, Finish
  <2>5. TimeTaken'
    BY <1>5, <2>1, <2>3, <2>4 DEF TimeTaken
  <2>6. \A subset \in Range(todo') : subset.axis # "time"
    BY <1>2, <1>4, <2>1
  <2> QED BY <1>2, <1>4, <1>6, <2>5, <2>6 DEF DatesInv, DatesAsAsked
<1>8. CASE SubsetAxis
  <2>1. times' = times /\ todo[1].axis # "time"
    BY <1>2, <1>8 DEF SubsetAxis, Refused, Finish
  <2>2. AllTimes' = AllTimes /\ TimeTaken' = TimeTaken
    BY <1>2, <2>1, DatesStand
  <2>3. TimeSubsets \subseteq Range(todo) => TimeSubsets \subseteq Range(Tail(todo))
    <3>1. todo[1] \notin TimeSubsets
      BY <2>1 DEF TimeSubsets
    <3> QED BY <1>3, <3>1
  <2>4. \/ AllTimes' /\ TimeSubsets' \subseteq Range(todo')
        \/ TimeTaken' /\ \A subset \in Range(todo') : subset.axis # "time"
    BY <1>1, <1>2, <1>3, <1>5, <2>2, <2>3
  <2> QED BY <1>2, <1>4, <1>6, <2>4 DEF DatesInv, DatesAsAsked
<1> QED BY <1>7, <1>8

\* After the subsets, the dates stand.
LEMMA DatesKept ==
  ASSUME DatesInv, GridInv', UNCHANGED <<request, times, result>>, stage # "done",
         (stage = "subset" /\ todo = <<>>) \/ stage = "scale",
         \/ stage' = "scale"
         \/ stage' = "grid" /\ (Len(times) > 1 => Formats[Format2].multiTime)
  PROVE  DatesInv'
<1>1. (AllTimes /\ TimeSubsets = {}) \/ TimeTaken
  <2>1. todo = <<>> => Range(todo) = {}
    BY DEF Range
  <2> QED BY <2>1 DEF DatesInv
<1>2. AllTimes' = AllTimes /\ TimeTaken' = TimeTaken /\ TimeSubsets' = TimeSubsets /\ Format2' = Format2
  BY DatesStand
<1>3. ~Accepted'
  BY DEF DatesInv, GridInv, Accepted
<1>4. stage' = "grid" => (Len(times') > 1 => Formats[Format2'].multiTime)
  BY <1>2
<1> QED BY <1>1, <1>2, <1>3, <1>4 DEF DatesInv, DatesAsAsked

\* Every step keeps what is known of the dates.
LEMMA DatesNext == ASSUME DatesInv, [Next]_vars PROVE DatesInv'
<1>1. GridInv' /\ (result.outcome = "accepted" => stage = "done")
  BY GridNext DEF DatesInv, GridInv
<1>2. ASSUME result'.outcome # "accepted", stage' \notin {"check1", "subset", "scale", "grid"}
      PROVE  DatesInv'
  BY <1>1, <1>2 DEF DatesInv, DatesAsAsked, Accepted
<1>3. ASSUME NEW outcome, outcome # "accepted", Finish(outcome, NoGrid) PROVE DatesInv'
  BY <1>2, <1>3 DEF Finish
<1>4. (Refused => DatesInv') /\ (Error => DatesInv')
  BY <1>3 DEF Refused, Error
<1>5. CASE UNCHANGED vars
  <2>1. /\ request' = request /\ stage' = stage /\ todo' = todo /\ times' = times /\ result' = result
    BY <1>5 DEF vars
  <2>2. /\ Times1' = Times1 /\ TimeOutcome' = TimeOutcome /\ TimeSubsets' = TimeSubsets
        /\ Format2' = Format2 /\ TimeTaken' = TimeTaken /\ AllTimes' = AllTimes
        /\ DatesAsAsked' = DatesAsAsked
    BY <2>1, DatesStand
  <2> QED BY <1>1, <2>1, <2>2 DEF DatesInv
<1>6. CASE Check1
  <2>1. /\ stage = "check1" /\ todo # <<>> /\ Checked1
        /\ (TimeOutcome = "ok" /\ times = Times1) \/ "time" \in Range(todo)
        /\ request' = request
    BY <1>6 DEF Check1, DatesInv, GridInv, Refused, Error, Finish
  <2>2. CASE /\ Outcome1(todo[1]) = "ok" /\ todo' = Tail(todo)
             /\ times' = IF todo[1] = "time" THEN Times1 ELSE times
             /\ stage' = "check1" /\ result' = result
    <3>1. Range(todo) \subseteq Range(Tail(todo)) \cup {todo[1]}
      BY <2>1, RestOfList DEF Checked1
    <3>2. todo[1] = "time" => TimeOutcome = "ok"
      BY <2>2 DEF Outcome1
    <3>3. \/ TimeOutcome = "ok" /\ times' = Times1
          \/ "time" \in Range(todo')
      BY <2>1, <2>2, <3>1, <3>2
    <3>4. ~Accepted'
      BY <1>1, <2>1, <2>2 DEF Accepted
    <3>5. TimeOutcome' = TimeOutcome /\ Times1' = Times1
      BY <2>1, DatesStand
    <3>6. (TimeOutcome = "ok" /\ times = Times1)' \/ ("time" \in Range(todo))'
      BY <3>3, <3>5
    <3> QED BY <1>1, <2>2, <3>4, <3>6 DEF DatesInv, DatesAsAsked
  <2> QED BY <1>4, <1>6, <2>1, <2>2 DEF Check1
<1>7. CASE Grid1Done \/ Grid2Done
  <2>1. stage' = "done"
    BY <1>7 DEF Grid1Done, Grid2Done, Answer, Error, Finish
  <2> QED BY <1>1, <1>7, <2>1, DatesAnswer1, DatesAnswer2 DEF DatesInv
<1>8. CASE Begin2
  <2>1. \/ Refused
        \/ /\ Distinct([i \in DOMAIN Subsets |-> Subsets[i].axis])
           /\ scaler' = NewScaler(SubsettingCRS) /\ times' = Coverage.times
           /\ stage' = "subset" /\ todo' = Subsets /\ UNCHANGED <<request, bands, result>>
    BY <1>8 DEF Begin2
  <2> QED BY <1>1, <1>4, <1>8, <2>1, DatesBegin2
<1>9. CASE SubsetTime \/ SubsetAxis
  <2>1. Refused \/ Error \/ Continue("subset", Tail(todo))
    BY <1>9 DEF SubsetTime, SubsetAxis
  <2> QED BY <1>1, <1>4, <1>9, <2>1, DatesSubset
<1>10. CASE ToOutputCRS \/ Scale
  <2>1. \/ Refused \/ Error
        \/ /\ (stage = "subset" /\ todo = <<>>) \/ stage = "scale"
           /\ stage' = "scale" /\ UNCHANGED <<request, times, result>>
    BY <1>10 DEF ToOutputCRS, Scale, Continue
  <2> QED BY <1>1, <1>4, <2>1, DatesKept
<1>11. CASE Fields
  <2>1. \/ Refused
        \/ /\ stage = "scale" /\ stage' = "grid" /\ UNCHANGED <<request, times, result>>
           /\ Len(times) > 1 => Formats[Format2].multiTime
    BY <1>11 DEF Fields
  <2> QED BY <1>1, <1>4, <2>1, DatesKept
<1>12. CASE Describe
  <2>1. Refused \/ Error \/ Finish("described", NoGrid)
    BY <1>12 DEF Describe
  <2> QED BY <1>3, <1>4, <2>1
<1> QED BY <1>5, <1>6, <1>7, <1>8, <1>9, <1>10, <1>11, <1>12 DEF Next, Done

\* An accepted request gets the advertised dates of the interval it asked for,
\* or those it listed, in order, and several only in a format that takes them
\* (wcs1_utils.py, wcs2_utils.py): for any layers, dates and formats.
THEOREM DatesAlwaysAsAsked == Spec => []DatesAsAsked
<1>1. DatesInv => DatesAsAsked
  BY DEF DatesInv
<1>2. DatesInv /\ [Next]_vars => DatesInv'
  BY DatesNext
<1> QED BY <1>1, <1>2, DatesInit, PTL DEF Spec
=============================================================================
