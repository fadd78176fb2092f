----------------------------- MODULE TimeDimension -----------------------------
(***************************************************************************)
(* What a date means: how the dates of a layer are found in the index, how *)
(* the TIME parameter of a request is checked against them, and which      *)
(* datasets the search for an accepted time returns.  The three rules are  *)
(* in three parts of the code and have to agree.                           *)
(*                                                                         *)
(* Times are UTC, in ticks.  A longitude is given as the solar time at it  *)
(* differs from UTC, in ticks too (240 seconds for each degree), and so is *)
(* the offset of a time zone.  A dataset is a record                       *)
(*     [begin, end, lon : Int]                                             *)
(* and a date of a solar or summary layer is a number of days.             *)
(***************************************************************************)
EXTENDS Integers, SequencesExt

CONSTANTS
    SecondLen,   \* ticks in a second
    HourLen,     \* ticks in an hour
    ZoneOffset,  \* [longitude -> offset of the time zone found for it]
    Now          \* the current time

ASSUME UnitsAssumption == SecondLen \in Nat \ {0} /\ HourLen \in Nat \ {0}

DayLen == 24 * HourLen
Day(t) == t \div DayLen
Second(t) == t \div SecondLen

\* The solar time of a longitude in degrees.
SolarTime(degrees) == (degrees * DayLen) \div 360

\* A zone found for a place keeps within an hour of the sun there, as the zones
\* made from the longitude alone do; political ones may not.
ZonesNear == \A d \in -180 .. 179 :
    ZoneOffset[SolarTime(d)] \in SolarTime(d) - HourLen .. SolarTime(d) + HourLen - SecondLen

Resolutions == {"solar", "subday", "summary"}

-----------------------------------------------------------------------------
(* The dates of a layer *)

Middle(ds) == ds.begin + (ds.end - ds.begin) \div 2
SolarDay(ds) == Day(Middle(ds) + ds.lon)

\* The date under which create_range_entry advertises the dataset.
DateOf(resolution, ds) ==
    CASE resolution = "solar"   -> SolarDay(ds)
      [] resolution = "summary" -> Day(ds.begin)
      [] resolution = "subday"  -> ds.begin

\* The numbers of a set in their order: each at the count of those up to it.
Ascending(S) == [i \in 1 .. Cardinality(S) |->
                    CHOOSE n \in S : Cardinality({m \in S : m <= n}) = i]

\* layer.ranges.times.
DatesOf(resolution, datasets) ==
    Ascending({DateOf(resolution, ds) : ds \in datasets})

\* The group a loaded dataset falls into: one image for each group.
GroupOf(resolution, mosaic, ds) ==
    CASE resolution = "subday"  -> Second(ds.begin)
      [] resolution # "subday" /\ mosaic -> 0
      [] resolution = "solar" /\ ~mosaic -> SolarDay(ds)
      [] resolution = "summary" /\ ~mosaic -> Day(ds.begin)

-----------------------------------------------------------------------------
(* The search for a date *)

\* Mutant: local time taken for UTC with the offset the wrong way round.
SolarDateRangeEast(lon, date) ==
    [start |-> date * DayLen + ZoneOffset[lon],
     end   |-> date * DayLen + DayLen - SecondLen + ZoneOffset[lon]]

\* In the time zone of the centre of the request, 1 second shy of 24 hours.
LocalSolarDateRange(lon, date) ==
    [start |-> date * DayLen - ZoneOffset[lon],
     end   |-> date * DayLen + DayLen - SecondLen - ZoneOffset[lon]]

\* The temporal extent of a dataset includes its end; the range of a solar
\* date does not.  For a sub-day time the search starts at the time as it was
\* given: the truncated one is overwritten before it is used.
Matches(resolution, ds, lon, t) ==
    CASE resolution = "solar" ->
             LET range == LocalSolarDateRange(lon, t)
             IN  ds.begin < range.end /\ ds.end >= range.start
      [] resolution = "summary" ->
             ds.begin >= t * DayLen /\ ds.begin < t * DayLen + DayLen
      [] resolution = "subday" ->
             ds.begin >= t /\ ds.begin < t + SecondLen

Found(resolution, datasets, lon, t) ==
    {ds \in datasets : Matches(resolution, ds, lon, t)}

-----------------------------------------------------------------------------
(* The TIME parameter.  One item of it is nothing, a time, a range of two  *)
(* ends, or junk.  An end is a time written with some accuracy, [lo, hi],  *)
(* the word PRESENT, or a duration.                                        *)

Instant(lo, hi) == [kind |-> "instant", lo |-> lo, hi |-> hi]
Present         == [kind |-> "present"]
Duration(len)   == [kind |-> "duration", len |-> len]

NoItem          == [kind |-> "none"]
Junk            == [kind |-> "junk"]
TimeItem(t)     == [kind |-> "time", at |-> t]
RangeItem(a, b) == [kind |-> "range", from |-> a, to |-> b]

\* Outcomes: a time, a WMS exception, an unexpected error.
Accepted(t) == [kind |-> "time", at |-> t]
Invalid     == [kind |-> "invalid"]
Unexpected  == [kind |-> "unexpected"]

Start(end) == IF end.kind = "present" THEN Now ELSE end.lo
Finish(end) == IF end.kind = "present" THEN Now ELSE end.hi

\* parse_wms_time_strings; a range that starts with a duration keeps naive
\* times, which a sub-day layer's cannot be compared with.
RangeEnds(from, to) ==
    IF from.kind = "duration"
    THEN [start |-> Start(to) - from.len + 1, end |-> Finish(to), naive |-> TRUE]
    ELSE [start |-> Start(from), naive |-> FALSE,
          end   |-> IF to.kind = "duration" THEN Start(from) + to.len - 1
                                            ELSE Finish(to)]

InRange(resolution, ends, t) ==
    IF resolution = "subday" THEN ends.start <= t /\ t <= ends.end
                             ELSE Day(ends.start) <= t /\ t <= Day(ends.end)

BothDurations(item) == item.from.kind = "duration" /\ item.to.kind = "duration"

ParseRange(layer, times, item) ==
    LET ends == RangeEnds(item.from, item.to)
        matching == {i \in DOMAIN times : InRange(layer.resolution, ends, times[i])}
    IN  IF BothDurations(item) THEN Invalid
        ELSE IF ends.naive /\ layer.resolution = "subday" THEN Unexpected
        ELSE IF matching = {} THEN Invalid ELSE Accepted(times[Min(matching)])

\* Binary search for a date within a second of the time (find_matching_date).
MatchingDate(t, dates) ==
    LET Has[part \in (0 .. Len(dates)) \X (0 .. Len(dates))] ==
            LET low == part[1]  high == part[2]
                splitter == low + (high - low) \div 2
                start == Second(dates[splitter + 1]) * SecondLen
            IN  /\ low < high
                /\ \/ t >= start /\ t < start + SecondLen
                   \/ t < start /\ Has[<<low, splitter>>]
                   \/ t >= start + SecondLen /\ Has[<<splitter + 1, high>>]
    IN  Has[<<0, Len(dates)>>]

\* time_range of a layer with a regular time axis.
FirstOnAxis(axis, times) == IF axis.start = {} THEN times[1]
                            ELSE CHOOSE d \in axis.start : TRUE
LastOnAxis(axis, times) == IF axis.end = {} THEN times[Len(times)]
                           ELSE CHOOSE d \in axis.end : TRUE

OnAxis(axis, times, t) ==
    /\ t >= FirstOnAxis(axis, times)
    /\ t <= LastOnAxis(axis, times)
    /\ (t - FirstOnAxis(axis, times)) % axis.interval = 0

ParseTime(layer, times, item) ==
    LET t == IF layer.resolution = "subday" THEN item.at ELSE Day(item.at)
    IN  IF \/ layer.axis.interval > 0 /\ OnAxis(layer.axis, times, t)
           \/ layer.axis.interval = 0 /\ layer.resolution = "subday"
                                      /\ MatchingDate(t, times)
           \/ layer.axis.interval = 0 /\ layer.resolution # "subday"
                                      /\ Contains(times, t)
        THEN Accepted(t)
        ELSE Invalid

\* parse_time_item; a layer has a resolution and an axis
\* [interval : Nat, start, end : sets of at most one date], interval 0 if its
\* dates are irregular.
ParseTimeItem(layer, times, item) ==
    CASE item.kind = "range" -> ParseRange(layer, times, item)
      [] item.kind = "none"  -> Accepted(times[Len(times)])
      [] item.kind = "junk"  -> Invalid
      [] item.kind = "time"  -> ParseTime(layer, times, item)
=============================================================================
