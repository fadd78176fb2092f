----------------------------- MODULE LayerRanges -----------------------------
(***************************************************************************)
(* Requests reading the extent of layers through the range cache (module   *)
(* RangeCache) of one server process, while datacube-ows-update rewrites   *)
(* rows of ows.layer_ranges and the database connection fails and          *)
(* recovers: the `ranges` property, and what the promise made for dynamic  *)
(* layers comes to.                                                        *)
(***************************************************************************)
EXTENDS RangeCache

VARIABLES
    since,  \* version of the row when the thread's current read began
    res     \* what the last completed read of each thread produced

vars == <<cacheVars, since, res>>

NoRes == [kind |-> "none", lyr |-> NoLayer, ver |-> 0, since |-> 0, hidden |-> FALSE]

\* With cooperative threads one that is computing is never interrupted.
Turn(t) ==
    \/ Preemptive
    \/ \A u \in Threads \ {t} : call[u].ph \notin Computing

\* The configuration was loaded at process start from the rows of that time.
Init ==
    /\ row \in [Layers -> Versions]
    /\ dbUp = TRUE
    /\ outages = 0
    /\ ranges = row
    /\ hide = [l \in Layers |-> ~Shown(row[l])]
    /\ bboxes = [l \in Layers |-> IF Shown(row[l]) THEN row[l] ELSE 0]
    /\ defTime = [l \in Layers |-> IF Shown(row[l]) THEN row[l] ELSE Unset]
    /\ call = [t \in Threads |-> Idle]
    /\ since = [t \in Threads |-> 0]
    /\ res = [t \in Threads |-> NoRes]

\* `assert self._ranges is not None; return self._ranges`, in one step: no
\* property of preemptive threads is about the result.
GetterResult(l, v) ==
    [kind |-> CASE ranges[l] = Unset -> "notready"
                [] ranges[l] = 0 -> "assertion"
                [] OTHER -> "ranges",
     lyr |-> l, ver |-> ranges[l], since |-> v, hidden |-> hide[l]]

\* Mutant: dynamic layers are not refreshed.
ReadCached(t, l) ==
    /\ call[t].ph = "idle"
    /\ Turn(t)
    /\ res' = [res EXCEPT ![t] = GetterResult(l, row[l])]
    /\ UNCHANGED <<cacheVars, since>>

\* The `ranges` property: a dynamic layer is refreshed, a static one is not.
ReadRanges(t, l) ==
    /\ call[t].ph = "idle"
    /\ Turn(t)
    /\ IF l \in Dynamic
       THEN /\ BeginUpdate(t, l)
            /\ since' = [since EXCEPT ![t] = row[l]]
            /\ res' = [res EXCEPT ![t] = NoRes]
       ELSE /\ res' = [res EXCEPT ![t] = GetterResult(l, row[l])]
            /\ UNCHANGED <<cacheVars, since>>

UpdateStep(t) ==
    /\ \/ AnswerQuery(t)
       \/ Turn(t) /\ Compute(t)
    /\ UNCHANGED <<since, res>>

ReturnRanges(t) ==
    /\ Turn(t)
    /\ EndUpdate(t)
    /\ res' = [res EXCEPT ![t] = GetterResult(call[t].lyr, since[t])]
    /\ since' = [since EXCEPT ![t] = 0]
    /\ UNCHANGED <<dbVars, layerVars>>

ThreadStep(t) == UpdateStep(t) \/ ReturnRanges(t)

Next ==
    \/ \E t \in Threads : ThreadStep(t)
    \/ \E t \in Threads, l \in Layers : ReadRanges(t, l)
    \/ Database /\ UNCHANGED <<since, res>>

Spec == Init /\ [][Next]_vars

(***************************************************************************)
(* Fairness: the database answers or refuses every query, a thread that is *)
(* not waiting is eventually scheduled, and requests for every layer keep  *)
(* arriving at the server.                                                 *)
(***************************************************************************)
FairSpec ==
    /\ Spec
    /\ \A t \in Threads : WF_vars(ThreadStep(t))
    /\ \A l \in Layers : SF_vars(\E t \in Threads : ReadRanges(t, l))

-----------------------------------------------------------------------------
ResType ==
    [kind : {"none", "ranges", "assertion", "notready"},
     lyr : Layers \cup {NoLayer}, ver : Versions \cup {Unset},
     since : Versions, hidden : BOOLEAN]

\* Every variable has its type.
TypeOK ==
    /\ CacheTypeOK
    /\ since \in [Threads -> Versions]
    /\ res \in [Threads -> ResType]

\* A layer that nobody is updating and that is not hidden has a non-empty
\* extent, and its bounding boxes and default time come from that same extent:
\* overlapping force_range_update calls of cooperative threads never leave a
\* visible layer whose attributes come from different rows.
VisibleIsConsistent ==
    \A l \in Layers :
        Quiet(l) /\ ~hide[l] =>
            ranges[l] >= 1 /\ bboxes[l] = ranges[l] /\ defTime[l] = ranges[l]

\* docs/cfg_layers.rst: for a dynamic layer "calls to update_ranges.py for the
\* layer take effect immediately".  A read of `ranges` that completes with the
\* layer visible returns a row at least as new as the one committed when the
\* read began.  It needs cooperative threads: with Preemptive = TRUE an
\* overtaken answer can be stored last (README, "What does not hold").
FreshRead ==
    \A t \in Threads :
        res[t].kind = "ranges" /\ res[t].lyr \in Dynamic /\ ~res[t].hidden
            => res[t].ver >= res[t].since

\* Once the database stays reachable, every dynamic layer with a whole row is
\* eventually shown, with all its attributes from the newest row, for good: no
\* interleaving of stale answers, not even of preemptive threads that mix
\* attributes of two rows, leaves it hidden, outdated or mixed.
EventuallyCurrent ==
    \A l \in Dynamic :
        <>[]dbUp => <>[](Shown(row[l]) =>
                            /\ ranges[l] = row[l]
                            /\ Quiet(l) => /\ ~hide[l]
                                           /\ bboxes[l] = row[l] /\ defTime[l] = row[l])
=============================================================================
