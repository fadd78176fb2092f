------------------------- MODULE RangesUpdate_proofs -------------------------
(***************************************************************************)
(* Proofs about RangesUpdate: any layers, signatures and contents, any     *)
(* number of overlapping, failing, killed and repeated runs.               *)
(*                                                                         *)
(* Four inductive invariants, each resting on the ones before.  RunInv:    *)
(* types, and where a run is.  RowsLocated: coordinates, once written, are *)
(* never lost, so whatever comes after "latlon" and whatever is a template *)
(* has them.  MidwayFresh: what a run midway through an undisturbed layer  *)
(* has written is what the view shows still.  RepairedSoFar: so is all     *)
(* that a run left alone has done, its templates included.                 *)
(***************************************************************************)
EXTENDS RangesUpdate, SequenceTheorems, TLAPS

Row == [there : BOOLEAN, ll : Data, dates : Data, boxes : Data]

TypeOK ==
    /\ index \in [Sigs -> Data] /\ view \in [Sigs -> Data]
    /\ changes \in Nat /\ kills \in Nat
    /\ table \in [Layers -> Row]
    /\ pc \in [Updaters -> Pcs]
    /\ pos \in [Updaters -> 1 .. Len(Args) + 1]
    /\ cache \in [Updaters -> [Sigs -> [Counts -> Seq(Layers)]]]
    /\ signed \in [Updaters -> Counts]
    /\ local \in [Updaters -> Data]
    /\ outcome \in [Updaters -> {"none", "ok", "errors", "failed"}]
    /\ calm \in [Updaters -> BOOLEAN]
    /\ disturbed \subseteq Layers

\* A run that executes the statements of a layer is at a known name.
AtLayer ==
    \A u \in Updaters :
        pc[u] \notin {"idle", "next"} => pos[u] \in 1 .. Len(Args) /\ Name(u) \in Layers

\* A run that copies has a template to copy.
HasTemplate ==
    \A u \in Updaters :
        pc[u] \in {"copyInsert", "copyUpdate"} => cache[u][Sig(u)][signed[u]] # <<>>

RunInv == TypeOK /\ AtLayer /\ HasTemplate

\* What Args and the counts of datasets are.
LEMMA ConstantFacts ==
    /\ Len(Args) \in Nat /\ DOMAIN Args = 1 .. Len(Args)
    /\ \A i \in 1 .. Len(Args) : Args[i] \in Layers \cup Unknown
    /\ 0 \in Data /\ Data \subseteq Nat
    /\ 0 \in Counts /\ \A v \in Data : CountOf[v] \in Counts
<1>1. Args \in Seq(Layers \cup Unknown)
  BY NamesAssumption
<1>2. Len(Args) \in Nat /\ DOMAIN Args = 1 .. Len(Args)
  BY <1>1
<1>3. \A i \in 1 .. Len(Args) : Args[i] \in Layers \cup Unknown
  BY <1>1, ElementOfSeq
<1>4. 0 \in Data /\ Data \subseteq Nat
  BY CountAssumption DEF Data
<1>5. CountOf[0] = 0
  BY <1>4, CountAssumption DEF Data
<1>6. 0 \in Counts /\ \A v \in Data : CountOf[v] \in Counts
  BY <1>4, <1>5 DEF Counts
<1>7. QED
  BY <1>2, <1>3, <1>4, <1>6

\* The rows a completed or a new entry has are rows.
LEMMA RowSet ==
    /\ NoRow \in Row /\ [NoRow EXCEPT !.there = TRUE] \in Row
    /\ \A v \in Data : RowOf(v) \in Row
BY ConstantFacts DEF Row, NoRow, RowOf

\* A row keeps its other columns when one is written.
LEMMA ColumnSet ==
    ASSUME NEW r \in Row, NEW v \in Data
    PROVE  /\ [r EXCEPT !.ll = v] \in Row
           /\ [r EXCEPT !.dates = v] \in Row
           /\ [r EXCEPT !.boxes = v] \in Row
           /\ [r EXCEPT !.ll = v].there = r.there /\ [r EXCEPT !.ll = v].ll = v
           /\ [r EXCEPT !.ll = v].dates = r.dates /\ [r EXCEPT !.ll = v].boxes = r.boxes
           /\ [r EXCEPT !.dates = v].there = r.there /\ [r EXCEPT !.dates = v].ll = r.ll
           /\ [r EXCEPT !.dates = v].dates = v /\ [r EXCEPT !.dates = v].boxes = r.boxes
           /\ [r EXCEPT !.boxes = v].there = r.there /\ [r EXCEPT !.boxes = v].ll = r.ll
           /\ [r EXCEPT !.boxes = v].dates = r.dates /\ [r EXCEPT !.boxes = v].boxes = v
BY DEF Row

\* What a run looks up has its type: at a name, and among the templates.
LEMMA LookedUp ==
    ASSUME TypeOK, AtLayer, NEW u \in Updaters
    PROVE  /\ pos[u] \in 1 .. Len(Args) => Name(u) \in Layers \cup Unknown
           /\ Name(u) \in Layers => Sig(u) \in Sigs /\ Seen(u) \in Data
           /\ pc[u] \notin {"idle", "next"} => Name(u) \in Layers /\ pos[u] \in 1 .. Len(Args)
           /\ \A s \in Sigs, c \in Counts :
                  cache[u][s][c] # <<>> => Head(cache[u][s][c]) \in Layers
<1>1. pos[u] \in 1 .. Len(Args) => Name(u) \in Layers \cup Unknown
  BY ConstantFacts DEF Name
<1>2. Name(u) \in Layers => Sig(u) \in Sigs /\ Seen(u) \in Data
  BY SigsAssumption DEF Sig, Seen, TypeOK
<1>3. ASSUME NEW s \in Sigs, NEW c \in Counts, cache[u][s][c] # <<>>
      PROVE  Head(cache[u][s][c]) \in Layers
  BY <1>3, HeadTailProperties DEF TypeOK
<1>4. QED
  BY <1>1, <1>2, <1>3 DEF AtLayer

\* Writing a row leaves the others alone, and keeps the types of table and calm.
LEMMA WriteType ==
    ASSUME TypeOK, NEW u \in Updaters, Name(u) \in Layers, NEW r \in Row, Write(u, r)
    PROVE  /\ table' \in [Layers -> Row] /\ calm' \in [Updaters -> BOOLEAN]
           /\ table'[Name(u)] = r
           /\ \A l \in Layers \ {Name(u)} : table'[l] = table[l]
           /\ calm'[u] = calm[u] /\ \A w \in Updaters \ {u} : ~calm'[w]
BY DEF TypeOK, Write

\* So does leaving the layer at hand.
LEMMA StopType ==
    ASSUME TypeOK, AtLayer, NEW u \in Updaters, Stop(u)
    PROVE  /\ pc' \in [Updaters -> Pcs] /\ pc'[u] = "idle"
           /\ \A w \in Updaters \ {u} : pc'[w] = pc[w]
           /\ outcome' \in [Updaters -> {"none", "ok", "errors", "failed"}]
           /\ disturbed' \subseteq Layers
BY LookedUp DEF TypeOK, AtLayer, Stop, Goto, Pcs, Midway

\* A run starts with no templates.
LEMMA EmptyCacheType ==
    /\ EmptyCache \in [Sigs -> [Counts -> Seq(Layers)]]
    /\ \A s \in Sigs, c \in Counts : EmptyCache[s][c] = <<>>
<1>1. <<>> \in Seq(Layers)
  BY EmptySeq
<1>2. QED
  BY <1>1 DEF EmptyCache

\* Setting one entry of one run's cache leaves every other entry alone.
LEMMA CacheSet ==
    ASSUME TypeOK, NEW u \in Updaters, NEW s \in Sigs, NEW c \in Counts,
           NEW e \in Seq(Layers), cache' = [cache EXCEPT ![u][s][c] = e]
    PROVE  /\ cache' \in [Updaters -> [Sigs -> [Counts -> Seq(Layers)]]]
           /\ cache'[u][s][c] = e
           /\ \A w \in Updaters, r \in Sigs, d \in Counts :
                  (w # u \/ r # s \/ d # c) => cache'[w][r][d] = cache[w][r][d]
BY DEF TypeOK

\* Initially no run is under way, and rows are placeholders or whole.
LEMMA InitRunInv == Init => RunInv
<1> SUFFICES ASSUME Init PROVE RunInv
  OBVIOUS
<1>1. {NoRow} \cup {RowOf(v) : v \in Data \ {0}} \subseteq Row
  BY RowSet
<1>2. table \in [Layers -> Row]
  BY <1>1 DEF Init
<1>3. cache \in [Updaters -> [Sigs -> [Counts -> Seq(Layers)]]]
  BY EmptyCacheType DEF Init
<1>4. QED
  BY <1>2, <1>3, ConstantFacts DEF Init, RunInv, TypeOK, AtLayer, HasTemplate, Pcs

\* Copying a row keeps types and goes on to the next name.
LEMMA CopyRowType ==
    ASSUME RunInv, NEW u \in Updaters, pc[u] \in {"copyInsert", "copyUpdate"}, CopyRow(u)
    PROVE  /\ Template(u) \in Layers
           /\ table' \in [Layers -> Row] /\ calm' \in [Updaters -> BOOLEAN]
           /\ disturbed' \subseteq Layers
           /\ pc' = [pc EXCEPT ![u] = "next"] /\ pos' = [pos EXCEPT ![u] = @ + 1]
<1>1. Name(u) \in Layers /\ Sig(u) \in Sigs /\ signed[u] \in Counts
  BY LookedUp DEF RunInv, TypeOK
<1>2. Template(u) \in Layers
  BY <1>1, LookedUp DEF RunInv, HasTemplate, Template
<1>3. CopiedColumns(u) \in Row
  BY <1>2 DEF CopiedColumns, RunInv, TypeOK
<1>4. table' \in [Layers -> Row] /\ calm' \in [Updaters -> BOOLEAN]
  BY <1>1, <1>3, WriteType DEF CopyRow, RunInv
<1>5. disturbed' \subseteq Layers
  BY <1>1 DEF CopyRow, Completed, RunInv, TypeOK
<1>6. QED
  BY <1>2, <1>4, <1>5 DEF CopyRow, NextLayer, Goto

\* A run that does nothing meanwhile keeps its template.
LEMMA TemplateKept ==
    ASSUME RunInv, NEW w \in Updaters, pc[w] \in {"copyInsert", "copyUpdate"},
           pos'[w] = pos[w], signed'[w] = signed[w],
           \A r \in Sigs, d \in Counts : cache'[w][r][d] = cache[w][r][d]
    PROVE  (cache[w][Sig(w)][signed[w]])' # <<>>
<1>1. Sig(w) \in Sigs /\ signed[w] \in Counts /\ cache[w][Sig(w)][signed[w]] # <<>>
  BY LookedUp DEF RunInv, TypeOK, HasTemplate
<1>2. Sig(w)' = Sig(w)
  BY DEF Sig, Name
<1>3. QED
  BY <1>1, <1>2

\* Either way of copying keeps the invariant.
LEMMA CopiedInv ==
    ASSUME RunInv, NEW u \in Updaters, pc[u] \in {"copyInsert", "copyUpdate"}, CopyRow(u),
           UNCHANGED <<dataVars, cache, signed, local, outcome, kills>>
    PROVE  RunInv'
<1>1. /\ pc' = [pc EXCEPT ![u] = "next"] /\ pos' = [pos EXCEPT ![u] = @ + 1]
      /\ table' \in [Layers -> Row] /\ calm' \in [Updaters -> BOOLEAN]
      /\ disturbed' \subseteq Layers
  BY CopyRowType
<1>2. pos[u] \in 1 .. Len(Args)
  BY DEF RunInv, AtLayer
<1>3. UNCHANGED <<index, view, changes, cache, signed, local, outcome, kills>>
  BY DEF dataVars
<1>4. TypeOK'
  BY <1>1, <1>2, <1>3, ConstantFacts DEF RunInv, TypeOK, Pcs
<1>5. AtLayer'
  BY <1>1, <1>3 DEF RunInv, TypeOK, AtLayer, Name
<1>6. HasTemplate'
  <2> SUFFICES ASSUME NEW w \in Updaters, pc'[w] \in {"copyInsert", "copyUpdate"}
               PROVE  (cache[w][Sig(w)][signed[w]])' # <<>>
    BY DEF HasTemplate
  <2>1. w # u /\ pc[w] = pc'[w] /\ pos'[w] = pos[w]
    BY <1>1 DEF RunInv, TypeOK
  <2> QED
    BY <1>3, <2>1, TemplateKept
<1>7. QED
  BY <1>4, <1>5, <1>6 DEF RunInv

\* The statements of an update keep types, and stay at the layer at hand.
LEMMA NextRunInv == RunInv /\ [Next]_vars => RunInv'
<1> SUFFICES ASSUME RunInv, [Next]_vars PROVE RunInv'
  OBVIOUS
<1> USE DEF RunInv
<1>a. ASSUME NEW u \in Updaters, pc[u] \notin {"idle", "next"}
      PROVE  /\ Name(u) \in Layers /\ pos[u] \in 1 .. Len(Args)
             /\ Sig(u) \in Sigs /\ Seen(u) \in Data
             /\ table[Name(u)] \in Row /\ signed[u] \in Counts /\ local[u] \in Data
  BY <1>a, LookedUp DEF TypeOK
<1> USE DEF AtLayer, HasTemplate, Pcs, Name, Sig, Goto, dataVars, runVars, histVars
<1>1. CASE UNCHANGED vars
  BY <1>1 DEF vars, TypeOK
<1>2. ASSUME NEW u \in Updaters, StartRun(u) PROVE RunInv'
  BY <1>2, EmptyCacheType, ConstantFacts DEF StartRun, NewCache, TypeOK
<1>3. ASSUME NEW u \in Updaters, SkipUnknown(u) PROVE RunInv'
  BY SMTT(30), <1>3, ConstantFacts DEF SkipUnknown, AtName, TypeOK
<1>4. ASSUME NEW u \in Updaters, Sign(u) PROVE RunInv'
  <2> DEFINE c == CountOf[index[Sig(u)]]
  <2>a. pc[u] = "next" /\ pos[u] <= Len(Args) /\ Name(u) \in Layers
    BY <1>4 DEF Sign, AtName
  <2>1. pc[u] = "next" /\ pos[u] \in 1 .. Len(Args) /\ Name(u) \in Layers
    BY <2>a, ConstantFacts DEF TypeOK
  <2>2. Sig(u) \in Sigs /\ c \in Counts
    BY <2>1, LookedUp, ConstantFacts DEF TypeOK
  <2>b. cache[u][Sig(u)][c] \in Seq(Layers)
    BY <2>2 DEF TypeOK
  <2>c. /\ cache[u][Sig(u)][c] # <<>> =>
            /\ cache' = [cache EXCEPT ![u][Sig(u)][c] = Append(cache[u][Sig(u)][c], Name(u))]
            /\ pc' = [pc EXCEPT ![u] = "copyInsert"]
        /\ cache[u][Sig(u)][c] = <<>> => pc' = [pc EXCEPT ![u] = "insert"] /\ cache' = cache
        /\ signed' = [signed EXCEPT ![u] = c]
        /\ UNCHANGED <<index, view, changes, table, pos, local, outcome, kills, calm, disturbed>>
    BY <1>4 DEF Sign
  <2> HIDE DEF c, Sig, Name
  <2>3. CASE cache[u][Sig(u)][c] # <<>>
    <3> DEFINE e == Append(cache[u][Sig(u)][c], Name(u))
    <3>1. e \in Seq(Layers) /\ e # <<>>
      BY <2>1, <2>b, AppendProperties
    <3> HIDE DEF e
    <3>2. cache' = [cache EXCEPT ![u][Sig(u)][c] = e]
      BY <2>c, <2>3 DEF e
    <3>3. /\ cache' \in [Updaters -> [Sigs -> [Counts -> Seq(Layers)]]]
          /\ cache'[u][Sig(u)][c] = e
          /\ \A w \in Updaters \ {u}, r \in Sigs, d \in Counts : cache'[w][r][d] = cache[w][r][d]
      BY <2>2, <3>1, <3>2 DEF TypeOK
    <3>4. pc' = [pc EXCEPT ![u] = "copyInsert"]
      BY <2>c, <2>3
    <3>5. TypeOK'
      BY <2>2, <2>c, <3>3, <3>4 DEF TypeOK
    <3>6. AtLayer'
      BY <2>1, <2>c, <3>4 DEF TypeOK, Name
    <3>7. HasTemplate'
      <4> SUFFICES ASSUME NEW w \in Updaters, pc'[w] \in {"copyInsert", "copyUpdate"}
                   PROVE  (cache[w][Sig(w)][signed[w]])' # <<>>
        OBVIOUS
      <4>1. CASE w = u
        <5>1. Sig(u)' = Sig(u) /\ signed'[u] = c
          BY <2>c DEF TypeOK, Sig, Name
        <5> QED
          BY <4>1, <5>1, <3>1, <3>3
      <4>2. CASE w # u
        BY <4>2, <2>c, <3>3, <3>4, TemplateKept DEF TypeOK
      <4> QED
        BY <4>1, <4>2
    <3> QED
      BY <3>5, <3>6, <3>7
  <2>4. CASE cache[u][Sig(u)][c] = <<>>
    <3>1. pc' = [pc EXCEPT ![u] = "insert"] /\ cache' = cache
      BY <2>c, <2>4
    <3>2. TypeOK'
      BY <2>2, <2>c, <3>1 DEF TypeOK
    <3>3. AtLayer'
      BY <2>1, <2>c, <3>1 DEF TypeOK, Name
    <3>4. HasTemplate'
      BY <2>c, <3>1, TemplateKept DEF TypeOK
    <3> QED
      BY <3>2, <3>3, <3>4
  <2> QED
    BY <2>3, <2>4
<1>5. ASSUME NEW u \in Updaters, CopyInsert(u) PROVE RunInv'
  <2>1. CASE table[Name(u)].there
    BY <1>5, <2>1 DEF CopyInsert, TypeOK
  <2>2. CASE ~table[Name(u)].there
    BY <1>5, <2>2, CopiedInv DEF CopyInsert
  <2> QED
    BY <2>1, <2>2
<1>6. ASSUME NEW u \in Updaters, CopyUpdate(u) PROVE RunInv'
  BY <1>6, CopiedInv DEF CopyUpdate
<1>7. ASSUME NEW u \in Updaters, InsertEmpty(u) PROVE RunInv'
  <2>1. table' \in [Layers -> Row] /\ calm' \in [Updaters -> BOOLEAN]
    BY <1>7, <1>a, RowSet, WriteType DEF InsertEmpty, TypeOK
  <2> QED
    BY <1>7, <2>1 DEF InsertEmpty, TypeOK
<1>8. ASSUME NEW u \in Updaters, UpdateLatLon(u) PROVE RunInv'
  <2>1. CASE Seen(u) = 0
    BY <1>8, <2>1, StopType DEF UpdateLatLon, TypeOK
  <2>2. CASE Seen(u) # 0
    <3>1. table' \in [Layers -> Row] /\ calm' \in [Updaters -> BOOLEAN]
      BY <1>8, <2>2, <1>a, ColumnSet, WriteType DEF UpdateLatLon
    <3> QED
      BY <1>8, <2>2, <3>1 DEF UpdateLatLon, TypeOK
  <2> QED
    BY <2>1, <2>2
<1>9. ASSUME NEW u \in Updaters, ReadDates(u) PROVE RunInv'
  <2>1. CASE Seen(u) = 0 /\ Sig(u) \notin Solar
    BY <1>9, <2>1, StopType DEF ReadDates, TypeOK
  <2>2. CASE ~(Seen(u) = 0 /\ Sig(u) \notin Solar)
    BY ZenonT(40), <1>9, <2>2, <1>a DEF ReadDates, Read, TypeOK
  <2> QED
    BY <2>1, <2>2
<1>10. ASSUME NEW u \in Updaters, WriteDates(u) PROVE RunInv'
  <2>1. table' \in [Layers -> Row] /\ calm' \in [Updaters -> BOOLEAN]
    BY <1>10, <1>a, ColumnSet, WriteType DEF WriteDates
  <2> QED
    BY <1>10, <2>1 DEF WriteDates, TypeOK
<1>11. ASSUME NEW u \in Updaters, ReadExtent(u) PROVE RunInv'
  <2>1. CASE Seen(u) = 0
    BY <1>11, <2>1, StopType DEF ReadExtent, TypeOK
  <2>2. CASE Seen(u) # 0
    BY ZenonT(40), <1>11, <2>2, <1>a DEF ReadExtent, Read, TypeOK
  <2> QED
    BY <2>1, <2>2
<1>12. ASSUME NEW u \in Updaters, WriteBoxes(u) PROVE RunInv'
  <2>1. Name(u) \in Layers /\ pos[u] \in 1 .. Len(Args) /\ Sig(u) \in Sigs /\ signed[u] \in Counts
    BY <1>12, <1>a DEF WriteBoxes
  <2>2. table' \in [Layers -> Row] /\ calm' \in [Updaters -> BOOLEAN]
    BY <1>12, <1>a, ColumnSet, WriteType DEF WriteBoxes
  <2>3. <<Name(u)>> \in Seq(Layers)
    BY <2>1
  <2>4. /\ cache' \in [Updaters -> [Sigs -> [Counts -> Seq(Layers)]]]
        /\ \A w \in Updaters \ {u}, r \in Sigs, d \in Counts : cache'[w][r][d] = cache[w][r][d]
    BY <1>12, <2>1, <2>3, CacheSet DEF WriteBoxes
  <2>5. /\ pc' = [pc EXCEPT ![u] = "next"] /\ pos' = [pos EXCEPT ![u] = @ + 1]
        /\ disturbed' \subseteq disturbed
        /\ UNCHANGED <<index, view, changes, signed, local, outcome, kills>>
    BY <1>12 DEF WriteBoxes, NextLayer, Completed
  <2>6. TypeOK'
    BY <2>1, <2>2, <2>4, <2>5, ConstantFacts DEF TypeOK
  <2>7. AtLayer'
    BY <2>5 DEF TypeOK
  <2>8. HasTemplate'
    <3> SUFFICES ASSUME NEW w \in Updaters, pc'[w] \in {"copyInsert", "copyUpdate"}
                 PROVE  (cache[w][Sig(w)][signed[w]])' # <<>>
      OBVIOUS
    <3>1. w # u /\ pc[w] = pc'[w] /\ pos'[w] = pos[w]
      BY <2>5 DEF TypeOK
    <3> HIDE DEF Sig
    <3> QED
      BY <2>4, <2>5, <3>1, TemplateKept
  <2> QED
    BY <2>6, <2>7, <2>8
<1>13. ASSUME NEW u \in Updaters, EndRun(u) PROVE RunInv'
  BY <1>13 DEF EndRun, TypeOK
<1>14. ASSUME NEW u \in Updaters, Kill(u) PROVE RunInv'
  <2>1. Stop(u) /\ kills' = kills + 1
        /\ UNCHANGED <<index, view, changes, table, pos, cache, signed, local, calm>>
    BY <1>14 DEF Kill
  <2>2. TypeOK'
    BY <2>1, StopType DEF TypeOK
  <2>3. AtLayer'
    BY <2>1, StopType DEF TypeOK
  <2>4. HasTemplate'
    BY <2>1, StopType DEF TypeOK
  <2> QED
    BY <2>2, <2>3, <2>4
<1>15. ASSUME NEW s \in Sigs, ChangeIndex(s) PROVE RunInv'
  BY <1>15 DEF ChangeIndex, TypeOK
<1>16. CASE RefreshView
  <2>1. disturbed' \subseteq Layers
    BY <1>16, <1>a DEF RefreshView, Midway, TypeOK
  <2> QED
    BY <1>16, <2>1 DEF RefreshView, TypeOK
<1>17. QED
  BY <1>1, <1>2, <1>3, <1>4, <1>5, <1>6, <1>7, <1>8, <1>9, <1>10, <1>11, <1>12,
     <1>13, <1>14, <1>15, <1>16 DEF Next, Statement

\* Every variable always has its type, and a run is where its state says.
THEOREM RunsWellFormed == Spec => []RunInv
BY InitRunInv, NextRunInv, PTL DEF Spec

-----------------------------------------------------------------------------
\* A step of one run changes the state of no other.
LEMMA Elsewhere ==
    ASSUME RunInv, NEW u \in Updaters, StartRun(u) \/ Statement(u) \/ Kill(u),
           NEW w \in Updaters, w # u
    PROVE  /\ pc'[w] = pc[w] /\ pos'[w] = pos[w] /\ cache'[w] = cache[w]
           /\ signed'[w] = signed[w] /\ local'[w] = local[w] /\ outcome'[w] = outcome[w]
           /\ index' = index /\ view' = view
           /\ Name(w)' = Name(w) /\ Sig(w)' = Sig(w) /\ Seen(w)' = Seen(w)
           /\ Midway(w)' = Midway(w)
<1> SUFFICES /\ pc'[w] = pc[w] /\ pos'[w] = pos[w] /\ cache'[w] = cache[w]
             /\ signed'[w] = signed[w] /\ local'[w] = local[w] /\ outcome'[w] = outcome[w]
             /\ index' = index /\ view' = view
  BY DEF Name, Sig, Seen, Midway
<1> USE DEF RunInv, TypeOK, Goto, NextLayer, Write, dataVars, runVars, histVars
<1>1. CASE StartRun(u)
  BY <1>1 DEF StartRun, NewCache
<1>2. CASE SkipUnknown(u)
  BY <1>2 DEF SkipUnknown
<1>3. CASE Sign(u)
  BY <1>3 DEF Sign
<1>4. CASE CopyInsert(u)
  BY <1>4 DEF CopyInsert, CopyRow
<1>5. CASE CopyUpdate(u)
  BY <1>5 DEF CopyUpdate, CopyRow
<1>6. CASE InsertEmpty(u)
  BY <1>6 DEF InsertEmpty
<1>7. CASE UpdateLatLon(u)
  BY <1>7 DEF UpdateLatLon, Stop
<1>8. CASE ReadDates(u)
  BY <1>8 DEF ReadDates, Read, Stop
<1>9. CASE WriteDates(u)
  BY <1>9 DEF WriteDates
<1>10. CASE ReadExtent(u)
  BY <1>10 DEF ReadExtent, Read, Stop
<1>11. CASE WriteBoxes(u)
  BY <1>11 DEF WriteBoxes
<1>12. CASE EndRun(u)
  BY <1>12 DEF EndRun
<1>13. CASE Kill(u)
  BY <1>13 DEF Kill, Stop
<1>14. QED
  BY <1>1, <1>2, <1>3, <1>4, <1>5, <1>6, <1>7, <1>8, <1>9, <1>10, <1>11, <1>12,
     <1>13 DEF Statement

\* A step leaves the head of a cache entry alone, unless it is the last
\* statement for a layer, which makes that layer the template, or starts the
\* run, which leaves no entries.
LEMMA TemplateStep ==
    ASSUME RunInv, [Next]_vars, NEW u \in Updaters, NEW s \in Sigs, NEW c \in Counts,
           cache'[u][s][c] # <<>>
    PROVE  \/ /\ cache[u][s][c] # <<>>
              /\ Head(cache'[u][s][c]) = Head(cache[u][s][c])
              /\ ~StartRun(u)
           \/ /\ WriteBoxes(u) /\ s = Sig(u)
              /\ Head(cache'[u][s][c]) = Name(u)
<1>1. ~StartRun(u)
  BY EmptyCacheType DEF StartRun, NewCache, RunInv, TypeOK
<1>2. CASE cache'[u] = cache[u]
  BY <1>1, <1>2
<1>3. CASE Sign(u) /\ cache'[u] # cache[u]
  <2> DEFINE d == CountOf[index[Sig(u)]]
             e == Append(cache[u][Sig(u)][d], Name(u))
  <2>1. cache[u][Sig(u)][d] # <<>> /\ cache' = [cache EXCEPT ![u][Sig(u)][d] = e]
    BY <1>3 DEF Sign
  <2>2. pos[u] \in 1 .. Len(Args) /\ Name(u) \in Layers
    BY <1>3, ConstantFacts DEF Sign, AtName, RunInv, TypeOK
  <2>3. Sig(u) \in Sigs /\ d \in Counts
    BY <2>2, LookedUp, ConstantFacts DEF RunInv, TypeOK
  <2>4. cache[u][Sig(u)][d] \in Seq(Layers)
    BY <2>3 DEF RunInv, TypeOK
  <2>5. e \in Seq(Layers) /\ e # <<>> /\ Head(e) = Head(cache[u][Sig(u)][d])
    BY <2>1, <2>2, <2>4, AppendProperties
  <2> HIDE DEF d, e
  <2>6. CASE s = Sig(u) /\ c = d
    BY <1>1, <2>1, <2>3, <2>5, <2>6 DEF RunInv, TypeOK
  <2>7. CASE ~(s = Sig(u) /\ c = d)
    BY <1>1, <2>1, <2>3, <2>7 DEF RunInv, TypeOK
  <2> QED
    BY <2>6, <2>7
<1>4. CASE WriteBoxes(u)
  <2>1. Sig(u) \in Sigs /\ signed[u] \in Counts
    BY <1>4, LookedUp DEF WriteBoxes, RunInv, TypeOK
  <2>2. cache' = [cache EXCEPT ![u][Sig(u)][signed[u]] = <<Name(u)>>]
    BY <1>4 DEF WriteBoxes
  <2>3. CASE s = Sig(u) /\ c = signed[u]
    BY <1>4, <2>1, <2>2, <2>3 DEF RunInv, TypeOK
  <2>4. CASE ~(s = Sig(u) /\ c = signed[u])
    BY <1>1, <2>1, <2>2, <2>4 DEF RunInv, TypeOK
  <2> QED
    BY <2>3, <2>4
<1>5. Sign(u) \/ WriteBoxes(u) \/ cache'[u] = cache[u]
  <2> USE DEF dataVars, runVars
  <2>1. CASE UNCHANGED vars \/ RefreshView \/ \E r \in Sigs : ChangeIndex(r)
    BY <2>1 DEF vars, RefreshView, ChangeIndex
  <2>2. ASSUME NEW v \in Updaters, StartRun(v) \/ Statement(v) \/ Kill(v), v # u
        PROVE  cache'[u] = cache[u]
    BY <2>2, Elsewhere
  <2>3. CASE Kill(u)
    BY <2>3 DEF Kill
  <2>4. CASE Statement(u)
    BY <2>4 DEF Statement, SkipUnknown, CopyInsert, CopyUpdate, InsertEmpty, UpdateLatLon,
       ReadDates, WriteDates, ReadExtent, EndRun
  <2> QED
    BY <1>1, <2>1, <2>2, <2>3, <2>4 DEF Next
<1>6. QED
  BY <1>2, <1>3, <1>4, <1>5

\* Copying, in either of its two statements.
Copies(u) == pc[u] \in {"copyInsert", "copyUpdate"} /\ CopyRow(u)

\* The five ways in which a step may change a row.
LEMMA RowStep ==
    ASSUME RunInv, [Next]_vars, NEW l \in Layers, table'[l] # table[l]
    PROVE  \E u \in Updaters :
               /\ l = Name(u) /\ pc[u] \notin {"idle", "next"}
               /\ StartRun(u) \/ Statement(u) \/ Kill(u)
               /\ calm'[u] = calm[u] /\ \A w \in Updaters \ {u} : ~calm'[w]
               /\ \/ /\ InsertEmpty(u) /\ ~table[l].there
                     /\ table'[l] = [NoRow EXCEPT !.there = TRUE]
                  \/ /\ UpdateLatLon(u) /\ Seen(u) # 0
                     /\ table'[l] = [table[l] EXCEPT !.ll = Seen(u)]
                  \/ WriteDates(u) /\ table'[l] = [table[l] EXCEPT !.dates = local[u]]
                  \/ WriteBoxes(u) /\ table'[l] = [table[l] EXCEPT !.boxes = local[u]]
                  \/ Copies(u) /\ table'[l] = table[Template(u)]
<1> DEFINE Others(u) == calm'[u] = calm[u] /\ \A w \in Updaters \ {u} : ~calm'[w]
<1>1. PICK u \in Updaters : StartRun(u) \/ Statement(u) \/ Kill(u)
  BY DEF Next, vars, ChangeIndex, RefreshView
<1>a. pc[u] \notin {"idle", "next"} =>
          Name(u) \in Layers /\ table[Name(u)] \in Row /\ Seen(u) \in Data /\ local[u] \in Data
  BY LookedUp DEF RunInv, TypeOK
<1>2. CASE InsertEmpty(u)
  <2>1. ~table[Name(u)].there /\ Write(u, [NoRow EXCEPT !.there = TRUE])
    BY <1>2 DEF InsertEmpty
  <2>2. /\ table'[Name(u)] = [NoRow EXCEPT !.there = TRUE] /\ Others(u)
        /\ \A k \in Layers \ {Name(u)} : table'[k] = table[k]
    BY <1>2, <1>a, <2>1, RowSet, WriteType DEF InsertEmpty, RunInv
  <2> QED
    BY <1>1, <1>2, <2>1, <2>2 DEF InsertEmpty
<1>3. CASE UpdateLatLon(u)
  <2>1. Seen(u) # 0 /\ Write(u, [table[Name(u)] EXCEPT !.ll = Seen(u)])
    BY <1>3 DEF UpdateLatLon
  <2>2. /\ table'[Name(u)] = [table[Name(u)] EXCEPT !.ll = Seen(u)] /\ Others(u)
        /\ \A k \in Layers \ {Name(u)} : table'[k] = table[k]
    <3>1. [table[Name(u)] EXCEPT !.ll = Seen(u)] \in Row
      BY <1>3, <1>a DEF UpdateLatLon, Row
    <3> QED
      BY <1>3, <1>a, <2>1, <3>1, WriteType DEF UpdateLatLon, RunInv
  <2> QED
    BY <1>1, <1>3, <2>1, <2>2 DEF UpdateLatLon
<1>4. CASE WriteDates(u)
  <2>1. Write(u, [table[Name(u)] EXCEPT !.dates = local[u]])
    BY <1>4 DEF WriteDates
  <2>2. /\ table'[Name(u)] = [table[Name(u)] EXCEPT !.dates = local[u]] /\ Others(u)
        /\ \A k \in Layers \ {Name(u)} : table'[k] = table[k]
    <3>1. [table[Name(u)] EXCEPT !.dates = local[u]] \in Row
      BY <1>4, <1>a DEF WriteDates, Row
    <3> QED
      BY <1>4, <1>a, <2>1, <3>1, WriteType DEF WriteDates, RunInv
  <2> QED
    BY <1>1, <1>4, <2>2 DEF WriteDates
<1>5. CASE WriteBoxes(u)
  <2>1. Write(u, [table[Name(u)] EXCEPT !.boxes = local[u]])
    BY <1>5 DEF WriteBoxes
  <2>2. /\ table'[Name(u)] = [table[Name(u)] EXCEPT !.boxes = local[u]] /\ Others(u)
        /\ \A k \in Layers \ {Name(u)} : table'[k] = table[k]
    <3>1. [table[Name(u)] EXCEPT !.boxes = local[u]] \in Row
      BY <1>5, <1>a DEF WriteBoxes, Row
    <3> QED
      BY <1>5, <1>a, <2>1, <3>1, WriteType DEF WriteBoxes, RunInv
  <2> QED
    BY <1>1, <1>5, <2>2 DEF WriteBoxes
<1>6. CASE CopyInsert(u) \/ CopyUpdate(u)
  <2>1. Copies(u) /\ Write(u, CopiedColumns(u))
    BY <1>6 DEF CopyInsert, CopyUpdate, CopyRow, Copies
  <2>2. Template(u) \in Layers
    BY <2>1, CopyRowType DEF Copies
  <2>3. CopiedColumns(u) = table[Template(u)] /\ CopiedColumns(u) \in Row
    BY <2>2 DEF CopiedColumns, RunInv, TypeOK
  <2>4. /\ table'[Name(u)] = table[Template(u)] /\ Others(u)
        /\ \A k \in Layers \ {Name(u)} : table'[k] = table[k]
    BY <1>a, <2>1, <2>3, WriteType DEF Copies, RunInv
  <2> QED
    BY <1>1, <2>1, <2>4 DEF Copies
<1>7. CASE StartRun(u) \/ SkipUnknown(u) \/ Sign(u) \/ ReadDates(u) \/ ReadExtent(u)
          \/ EndRun(u) \/ Kill(u)
  BY <1>7 DEF StartRun, SkipUnknown, Sign, ReadDates, ReadExtent, EndRun, Kill
<1>8. QED
  BY <1>1, <1>2, <1>3, <1>4, <1>5, <1>6, <1>7 DEF Statement

-----------------------------------------------------------------------------
Located(l) == table[l].there /\ table[l].ll # 0

\* The rows that have coordinates: those past "latlon", and the templates.
MidwayLocated ==
    \A u \in Updaters :
        /\ pc[u] = "latlon" => table[Name(u)].there
        /\ Midway(u) => Located(Name(u))

TemplatesLocated ==
    \A u \in Updaters, s \in Sigs, c \in Counts :
        cache[u][s][c] # <<>> => Located(Head(cache[u][s][c]))

RowsLocated == MidwayLocated /\ TemplatesLocated /\ ServedRowLocated

\* A template at hand has coordinates.
LEMMA TemplateIsLocated ==
    ASSUME RunInv, RowsLocated, NEW u \in Updaters, pc[u] \in {"copyInsert", "copyUpdate"}
    PROVE  Template(u) \in Layers /\ Located(Template(u))
<1>1. Sig(u) \in Sigs /\ signed[u] \in Counts
  BY LookedUp DEF RunInv, TypeOK
<1>2. QED
  BY <1>1, LookedUp DEF RunInv, HasTemplate, RowsLocated, TemplatesLocated, Template

\* No step takes a row or its coordinates away.
LEMMA LocatedStays ==
    ASSUME RunInv, RowsLocated, [Next]_vars, NEW l \in Layers
    PROVE  /\ table[l].there => table'[l].there
           /\ Located(l) => Located(l)'
<1>1. CASE table'[l] = table[l]
  BY <1>1 DEF Located
<1>2. CASE table'[l] # table[l]
  <2>1. PICK u \in Updaters :
            \/ InsertEmpty(u) /\ ~table[l].there
            \/ Seen(u) # 0 /\ l = Name(u) /\ table'[l] = [table[l] EXCEPT !.ll = Seen(u)]
            \/ table'[l] = [table[l] EXCEPT !.dates = local[u]]
            \/ table'[l] = [table[l] EXCEPT !.boxes = local[u]]
            \/ Copies(u) /\ table'[l] = table[Template(u)]
    BY <1>2, RowStep
  <2>2. table[l] \in Row /\ local[u] \in Data /\ (l = Name(u) => Seen(u) \in Data)
    BY LookedUp DEF RunInv, TypeOK
  <2>3. QED
    BY <2>1, <2>2, TemplateIsLocated DEF Located, Copies, Row
<1>3. QED
  BY <1>1, <1>2

\* Initially no run is under way, and rows are placeholders or whole.
LEMMA InitRowsLocated == Init => RowsLocated
BY EmptyCacheType DEF Init, RowsLocated, MidwayLocated, TemplatesLocated,
   ServedRowLocated, Located, Midway, NoRow, RowOf

\* A run leaves "insert" with a row and "latlon" with coordinates.
LEMMA NextMidwayLocated == RunInv /\ RowsLocated /\ [Next]_vars => MidwayLocated'
<1> SUFFICES ASSUME RunInv, RowsLocated, [Next]_vars, NEW u \in Updaters
             PROVE  /\ pc'[u] = "latlon" => (table[Name(u)].there)'
                    /\ Midway(u)' => Located(Name(u))'
  BY DEF MidwayLocated
<1> DEFINE Goal == /\ pc'[u] = "latlon" => (table[Name(u)].there)'
                   /\ Midway(u)' => Located(Name(u))'
<1>1. CASE pc'[u] \in {"idle", "next", "insert", "copyInsert", "copyUpdate"}
  BY <1>1 DEF Midway
<1>2. CASE /\ pc'[u] = pc[u] /\ pos'[u] = pos[u] /\ pc[u] \notin {"idle", "next"}
  <2>1. Name(u)' = Name(u) /\ Name(u) \in Layers
    BY <1>2 DEF Name, RunInv, AtLayer
  <2>2. /\ pc[u] = "latlon" => table[Name(u)].there
        /\ Midway(u) => Located(Name(u))
    BY DEF RowsLocated, MidwayLocated
  <2>3. Midway(u)' = Midway(u)
    BY <1>2 DEF Midway
  <2> QED
    BY <1>2, <2>1, <2>2, <2>3, LocatedStays DEF Located
<1>3. CASE InsertEmpty(u)
  <2>1. Name(u)' = Name(u) /\ Name(u) \in Layers /\ pc'[u] = "latlon"
    BY <1>3 DEF InsertEmpty, Name, RunInv, AtLayer, TypeOK, Goto
  <2>2. table'[Name(u)].there
    BY <1>3, <2>1, LocatedStays DEF InsertEmpty, Write, NoRow, RunInv, TypeOK
  <2> QED
    BY <2>1, <2>2 DEF Midway
<1>4. CASE UpdateLatLon(u) /\ Seen(u) # 0
  <2>1. /\ Name(u)' = Name(u) /\ Name(u) \in Layers /\ pc'[u] = "readDates"
        /\ table[Name(u)].there /\ table[Name(u)] \in Row /\ Seen(u) \in Data
        /\ Write(u, [table[Name(u)] EXCEPT !.ll = Seen(u)])
    BY <1>4, LookedUp DEF UpdateLatLon, Name, RunInv, AtLayer, TypeOK, Goto,
       RowsLocated, MidwayLocated
  <2>2. Located(Name(u))'
    <3>1. /\ [table[Name(u)] EXCEPT !.ll = Seen(u)] \in Row
          /\ [table[Name(u)] EXCEPT !.ll = Seen(u)].there
          /\ [table[Name(u)] EXCEPT !.ll = Seen(u)].ll = Seen(u)
      BY <2>1 DEF Row
    <3> QED
      <4>1. table'[Name(u)] = [table[Name(u)] EXCEPT !.ll = Seen(u)]
        BY <2>1, <3>1, WriteType DEF RunInv
      <4> QED
        BY <1>4, <2>1, <3>1, <4>1 DEF Located
  <2> QED
    BY <2>1, <2>2 DEF Midway
<1>5. CASE ReadDates(u) \/ WriteDates(u) \/ ReadExtent(u)
  <2>1. Midway(u) /\ Name(u)' = Name(u) /\ Name(u) \in Layers /\ pc'[u] # "latlon"
    BY <1>5 DEF ReadDates, WriteDates, ReadExtent, Read, Stop, Midway, Name, RunInv,
       AtLayer, TypeOK, Goto
  <2> QED
    BY <2>1, LocatedStays DEF RowsLocated, MidwayLocated
<1>6. QED
  <2> USE DEF RunInv, TypeOK, Pcs, dataVars, runVars, Goto
  <2>1. CASE UNCHANGED vars \/ RefreshView \/ \E s \in Sigs : ChangeIndex(s)
    BY <1>1, <1>2, <2>1 DEF vars, RefreshView, ChangeIndex
  <2>2. ASSUME NEW v \in Updaters, StartRun(v) \/ Statement(v) \/ Kill(v), v # u PROVE Goal
    BY <1>1, <1>2, <2>2, Elsewhere
  <2>3. CASE StartRun(u) \/ Kill(u)
    BY <1>1, <2>3 DEF StartRun, Kill, Stop
  <2>4. CASE SkipUnknown(u) \/ Sign(u) \/ EndRun(u)
    BY <1>1, <2>4 DEF SkipUnknown, Sign, EndRun, AtName
  <2>5. CASE CopyInsert(u) \/ CopyUpdate(u) \/ WriteBoxes(u)
    BY <1>1, <2>5 DEF CopyInsert, CopyUpdate, WriteBoxes, CopyRow, NextLayer
  <2>6. CASE UpdateLatLon(u) /\ Seen(u) = 0
    BY <1>1, <2>6 DEF UpdateLatLon, Stop
  <2> QED
    BY <1>3, <1>4, <1>5, <2>1, <2>2, <2>3, <2>4, <2>5, <2>6 DEF Next, Statement

\* Only a row with coordinates becomes a template.
LEMMA NextTemplatesLocated == RunInv /\ RowsLocated /\ [Next]_vars => TemplatesLocated'
<1> SUFFICES ASSUME RunInv, RowsLocated, [Next]_vars, NEW u \in Updaters, NEW s \in Sigs,
                    NEW c \in Counts, cache'[u][s][c] # <<>>
             PROVE  Located(Head(cache[u][s][c]))'
  BY DEF TemplatesLocated
<1>1. CASE cache[u][s][c] # <<>> /\ Head(cache'[u][s][c]) = Head(cache[u][s][c])
  <2>1. Head(cache[u][s][c]) \in Layers /\ Located(Head(cache[u][s][c]))
    BY <1>1, LookedUp DEF RunInv, RowsLocated, TemplatesLocated
  <2> QED
    BY <1>1, <2>1, LocatedStays DEF Located
<1>2. CASE WriteBoxes(u) /\ Head(cache'[u][s][c]) = Name(u)
  <2>1. Name(u) \in Layers /\ Located(Name(u))
    BY <1>2 DEF WriteBoxes, RunInv, AtLayer, RowsLocated, MidwayLocated, Midway
  <2> QED
    BY <1>2, <2>1, LocatedStays DEF Located
<1>3. QED
  BY <1>1, <1>2, TemplateStep

\* Dates are written to, or copied from, a row with coordinates.
LEMMA NextServedRowLocated == RunInv /\ RowsLocated /\ [Next]_vars => ServedRowLocated'
<1> SUFFICES ASSUME RunInv, RowsLocated, [Next]_vars, NEW l \in Layers, table'[l].dates # 0
             PROVE  table'[l].there /\ table'[l].ll # 0
  BY DEF ServedRowLocated
<1>1. CASE table'[l].dates = table[l].dates
  BY <1>1, LocatedStays DEF RowsLocated, ServedRowLocated, Located
<1>2. CASE table'[l].dates # table[l].dates
  <2>1. PICK u \in Updaters :
            /\ l = Name(u)
            /\ \/ table'[l] = [NoRow EXCEPT !.there = TRUE]
               \/ table'[l] = [table[l] EXCEPT !.ll = Seen(u)]
               \/ WriteDates(u)
               \/ table'[l] = [table[l] EXCEPT !.boxes = local[u]]
               \/ Copies(u) /\ table'[l] = table[Template(u)]
    BY <1>2, RowStep
  <2>2. table[l] \in Row /\ local[u] \in Data /\ Seen(u) \in Data
    BY <2>1, LookedUp DEF RunInv, TypeOK
  <2>a. [NoRow EXCEPT !.there = TRUE].dates = 0
    BY DEF NoRow
  <2>3. WriteDates(u) \/ (Copies(u) /\ table'[l] = table[Template(u)])
    BY <1>2, <2>1, <2>2, <2>a DEF Row
  <2>4. CASE WriteDates(u)
    BY <2>1, <2>4, LocatedStays DEF WriteDates, RowsLocated, MidwayLocated, Midway, Located
  <2>5. CASE Copies(u) /\ table'[l] = table[Template(u)]
    BY <2>5, TemplateIsLocated DEF Copies, Located
  <2> QED
    BY <2>3, <2>4, <2>5
<1>3. QED
  BY <1>1, <1>2

\* Every row past "latlon", served or a template has coordinates.
LEMMA CoordinatesStay == Spec => []RowsLocated
<1>1. RunInv /\ RowsLocated /\ [Next]_vars => RowsLocated'
  BY NextMidwayLocated, NextTemplatesLocated, NextServedRowLocated DEF RowsLocated
<1>2. QED
  BY InitRowsLocated, RunsWellFormed, <1>1, PTL DEF Spec

\* get_ranges never serves a row with the coordinates it was inserted with,
\* whatever runs overlap, fail or are killed, and however often.
THEOREM ServedRowsLocated == Spec => []ServedRowLocated
<1>1. RowsLocated => ServedRowLocated
  BY DEF RowsLocated
<1>2. QED
  BY <1>1, CoordinatesStay, PTL

-----------------------------------------------------------------------------
\* While a run is undisturbed no other run is midway through any layer.
CalmIsAlone ==
    \A u, w \in Updaters : calm[u] /\ pc[u] # "idle" /\ w # u => ~Midway(w)

\* What the run has written of the row, and what it read last, is the view's.
Fresh(u) ==
    /\ table[Name(u)].ll = Seen(u)
    /\ pc[u] \in {"writeDates", "writeBoxes"} => local[u] = Seen(u)
    /\ pc[u] \in {"readExtent", "writeBoxes"} => table[Name(u)].dates = Seen(u)

MidwayFresh ==
    \A u \in Updaters :
        Midway(u) /\ (calm[u] \/ Name(u) \notin disturbed) => Fresh(u)

RowsUniform == CalmIsAlone /\ MidwayFresh /\ UniformRow

\* The view changes with RefreshView only, which disturbs every run and every
\* layer that a run is midway through.
LEMMA ViewStep ==
    ASSUME RunInv, [Next]_vars
    PROVE  \/ view' = view
           \/ /\ \A u \in Updaters : ~calm'[u] /\ (Midway(u) => Name(u) \in disturbed')
              /\ UNCHANGED <<table, pc, pos, cache, outcome>> /\ disturbed \subseteq disturbed'
<1>1. CASE RefreshView
  BY SMTT(30), <1>1 DEF RefreshView, runVars
<1>2. CASE ~RefreshView
  BY <1>2, Elsewhere DEF Next, Statement, vars, dataVars, StartRun, SkipUnknown, Sign,
     CopyInsert, CopyUpdate, InsertEmpty, UpdateLatLon, ReadDates, WriteDates, ReadExtent,
     WriteBoxes, EndRun, Kill, ChangeIndex
<1>3. QED
  BY <1>1, <1>2

\* A run becomes calm at its start only, when no other is under way.
LEMMA CalmStep ==
    ASSUME RunInv, [Next]_vars, NEW u \in Updaters, calm'[u]
    PROVE  \/ calm[u] /\ ~StartRun(u)
           \/ StartRun(u) /\ \A w \in Updaters : pc[w] = "idle"
<1> USE DEF RunInv, TypeOK, runVars, histVars
<1>1. CASE UNCHANGED vars \/ RefreshView \/ \E s \in Sigs : ChangeIndex(s)
  <2>1. pc' = pc /\ (calm' = calm \/ ~calm'[u])
    BY <1>1 DEF vars, RefreshView, ChangeIndex
  <2>2. ~StartRun(u)
    BY <2>1 DEF StartRun, Goto
  <2> QED
    BY <2>1, <2>2
<1>2. ASSUME NEW v \in Updaters, StartRun(v) PROVE calm'[u] = (IF v = u THEN \A w \in Updaters : pc[w] = "idle" ELSE calm[u])
  BY <1>2 DEF StartRun
<1>3. ASSUME NEW v \in Updaters, Statement(v) \/ Kill(v) PROVE calm[u]
  BY <1>3 DEF Statement, SkipUnknown, Sign, CopyInsert, CopyUpdate, InsertEmpty,
     UpdateLatLon, ReadDates, WriteDates, ReadExtent, WriteBoxes, EndRun, Kill, CopyRow, Write
<1>4. QED
  BY <1>1, <1>2, <1>3 DEF Next

\* A run is midway through a layer from "latlon" to its last statement, unless
\* it stops, which disturbs the layer.
LEMMA MidwayStep ==
    ASSUME RunInv, [Next]_vars, NEW u \in Updaters
    PROVE  /\ Midway(u)' => Name(u)' = Name(u) /\ (Midway(u) \/ UpdateLatLon(u))
           /\ Midway(u) => Midway(u)' \/ WriteBoxes(u) \/ Name(u) \in disturbed'
<1> DEFINE Goal == /\ Midway(u)' => Name(u)' = Name(u) /\ (Midway(u) \/ UpdateLatLon(u))
                   /\ Midway(u) => Midway(u)' \/ WriteBoxes(u) \/ Name(u) \in disturbed'
<1> USE DEF RunInv, TypeOK, Goto, dataVars, runVars
<1>1. CASE UNCHANGED vars \/ RefreshView \/ \E s \in Sigs : ChangeIndex(s)
  BY <1>1 DEF vars, RefreshView, ChangeIndex, Midway, Name
<1>2. ASSUME NEW v \in Updaters, StartRun(v) \/ Statement(v) \/ Kill(v), v # u PROVE Goal
  BY <1>2, Elsewhere
<1>3. CASE StartRun(u) \/ SkipUnknown(u) \/ Sign(u) \/ EndRun(u) \/ InsertEmpty(u)
  BY <1>3 DEF StartRun, SkipUnknown, Sign, EndRun, AtName, InsertEmpty, Midway
<1>4. CASE CopyInsert(u) \/ CopyUpdate(u) \/ WriteBoxes(u)
  BY <1>4 DEF CopyInsert, CopyUpdate, WriteBoxes, CopyRow, NextLayer, Midway
<1>5. CASE UpdateLatLon(u)
  BY <1>5 DEF UpdateLatLon, Stop, Midway, Name
<1>6. CASE ReadDates(u) \/ WriteDates(u) \/ ReadExtent(u) \/ Kill(u)
  BY <1>6 DEF ReadDates, WriteDates, ReadExtent, Kill, Read, Stop, Midway, Name
<1>7. QED
  BY <1>1, <1>2, <1>3, <1>4, <1>5, <1>6 DEF Next, Statement

\* Only the completion of a layer by a calm run makes it undisturbed again.
LEMMA DisturbedStep ==
    ASSUME RunInv, [Next]_vars, NEW l \in disturbed, l \notin disturbed'
    PROVE  \E u \in Updaters :
               Name(u) = l /\ calm[u] /\ pc[u] # "idle" /\ (WriteBoxes(u) \/ Copies(u))
<1>1. disturbed' # disturbed
  OBVIOUS
<1>2. PICK u \in Updaters : WriteBoxes(u) \/ CopyInsert(u) \/ CopyUpdate(u)
  BY <1>1 DEF Next, Statement, vars, dataVars, histVars, StartRun, SkipUnknown, Sign,
     InsertEmpty, UpdateLatLon, ReadDates, WriteDates, ReadExtent, EndRun, Kill, Stop, Read,
     ChangeIndex, RefreshView
<1>3. /\ pc[u] # "idle" /\ (WriteBoxes(u) \/ Copies(u))
      /\ l \in disturbed \ disturbed' => Completed(u)
  BY <1>2 DEF WriteBoxes, CopyInsert, CopyUpdate, CopyRow, Copies, histVars
<1>4. QED
  BY <1>3 DEF Completed

\* Initially every row is a placeholder or whole.
LEMMA InitRowsUniform == Init => RowsUniform
BY DEF Init, RowsUniform, CalmIsAlone, MidwayFresh, UniformRow, Midway, NoRow, RowOf

\* A run that comes midway through a layer disturbs the calm of the others.
LEMMA NextCalmIsAlone == RunInv /\ RowsUniform /\ [Next]_vars => CalmIsAlone'
<1> SUFFICES ASSUME RunInv, CalmIsAlone, [Next]_vars, NEW u \in Updaters, NEW w \in Updaters,
                    calm'[u], pc'[u] # "idle", w # u, Midway(w)'
             PROVE  FALSE
  BY DEF CalmIsAlone, RowsUniform
<1>1. CASE UpdateLatLon(w)
  BY <1>1 DEF UpdateLatLon, Write, Stop, Midway, Goto, RunInv, TypeOK
<1>2. CASE Midway(w)
  <2>1. ~(StartRun(u) /\ \A v \in Updaters : pc[v] = "idle")
    BY <1>2 DEF Midway
  <2>2. calm[u] /\ ~StartRun(u) /\ pc[u] = "idle"
    BY SMTT(30), <1>2, <2>1, CalmStep DEF CalmIsAlone
  <2>3. \/ \E v \in Updaters \ {u} : StartRun(v) \/ Statement(v) \/ Kill(v)
        \/ pc' = pc
    BY ZenonT(40), <2>2 DEF Next, vars, runVars, ChangeIndex, RefreshView, Statement, SkipUnknown, Sign,
       AtName, CopyInsert, CopyUpdate, InsertEmpty, UpdateLatLon, ReadDates, WriteDates,
       ReadExtent, WriteBoxes, EndRun, Kill
  <2> QED
    BY <2>2, <2>3, Elsewhere
<1>3. QED
  BY <1>1, <1>2, MidwayStep

\* A run midway through a layer reads and writes what the view shows; whoever
\* writes the row meanwhile writes that as well, or disturbs the layer.
LEMMA NextMidwayFresh == RunInv /\ RowsLocated /\ RowsUniform /\ [Next]_vars => MidwayFresh'
<1> SUFFICES ASSUME RunInv, RowsLocated, RowsUniform, [Next]_vars, NEW u \in Updaters,
                    Midway(u)', calm'[u] \/ Name(u)' \notin disturbed'
             PROVE  Fresh(u)'
  BY DEF MidwayFresh
<1>1. CASE UpdateLatLon(u)
  <2>1. /\ Seen(u) # 0 /\ Write(u, [table[Name(u)] EXCEPT !.ll = Seen(u)])
        /\ view' = view /\ pos' = pos /\ pc'[u] = "readDates"
        /\ Name(u) \in Layers /\ table[Name(u)] \in Row /\ Seen(u) \in Data
    BY <1>1, LookedUp DEF UpdateLatLon, Stop, Midway, Goto, dataVars, RunInv, TypeOK
  <2>2. table'[Name(u)].ll = Seen(u)
    BY <2>1 DEF Write, RunInv, TypeOK, Row
  <2>3. Name(u)' = Name(u) /\ Seen(u)' = Seen(u)
    BY <2>1 DEF Name, Sig, Seen
  <2> QED
    BY <2>1, <2>2, <2>3 DEF Fresh
<1>2. CASE Midway(u) /\ ~UpdateLatLon(u)
  <2>1. Name(u)' = Name(u) /\ Name(u) \in Layers /\ table[Name(u)] \in Row
    BY <1>2, MidwayStep DEF Midway, RunInv, AtLayer, TypeOK
  <2>2. view' = view /\ Seen(u)' = Seen(u)
    BY <1>2, <2>1, ViewStep DEF Seen, Sig
  <2>3. calm'[u] => calm[u]
    BY <1>2, CalmStep DEF StartRun, Midway
  <2>4. ~WriteBoxes(u) /\ ~Copies(u)
    BY DEF WriteBoxes, Copies, CopyRow, NextLayer, Goto, Midway, RunInv, TypeOK
  <2>5. calm[u] \/ Name(u) \notin disturbed
    BY <1>2, <2>1, <2>3, <2>4, DisturbedStep DEF RowsUniform, CalmIsAlone
  <2>6. Fresh(u)
    BY <1>2, <2>5 DEF RowsUniform, MidwayFresh
  <2>7. ASSUME table'[Name(u)] # table[Name(u)]
        PROVE  /\ table'[Name(u)].ll = Seen(u)
               /\ WriteDates(u) \/ table'[Name(u)].dates \in {table[Name(u)].dates, Seen(u)}
    <3>1. PICK v \in Updaters :
              /\ Name(u) = Name(v)
              /\ v # u => ~calm'[u]
              /\ \/ InsertEmpty(v) /\ ~table[Name(u)].there
                 \/ UpdateLatLon(v) /\ table'[Name(u)] = [table[Name(u)] EXCEPT !.ll = Seen(v)]
                 \/ WriteDates(v) /\ table'[Name(u)] = [table[Name(u)] EXCEPT !.dates = local[v]]
                 \/ WriteBoxes(v) /\ table'[Name(u)] = [table[Name(u)] EXCEPT !.boxes = local[v]]
                 \/ Copies(v)
      BY <2>1, <2>7, RowStep
    <3>2. /\ Seen(v) = Seen(u) /\ Seen(u) \in Data /\ local[v] \in Data
          /\ table[Name(u)].there /\ table[Name(u)].ll = Seen(u)
      BY <1>2, <2>1, <2>6, <3>1, LookedUp
         DEF Sig, Seen, RunInv, TypeOK, RowsLocated, MidwayLocated, Located, Fresh
    <3>3. ~Copies(v)
      BY <1>2, <2>1, <2>4, <3>1 DEF Copies, CopyRow
    <3>4. WriteDates(v) /\ v # u => local[v] = Seen(u)
      <4> SUFFICES ASSUME WriteDates(v), v # u PROVE local[v] = Seen(u)
        OBVIOUS
      <4>1. Midway(v) /\ pc[v] = "writeDates" /\ disturbed' = disturbed
        BY DEF WriteDates, Midway
      <4>2. Name(v) \notin disturbed
        BY <2>1, <3>1, <4>1
      <4> QED
        BY <3>2, <4>1, <4>2 DEF RowsUniform, MidwayFresh, Fresh
    <3>5. CASE UpdateLatLon(v) /\ table'[Name(u)] = [table[Name(u)] EXCEPT !.ll = Seen(v)]
      BY <2>1, <3>2, <3>5 DEF Row
    <3>6. CASE WriteDates(v) /\ table'[Name(u)] = [table[Name(u)] EXCEPT !.dates = local[v]]
      BY <2>1, <3>2, <3>4, <3>6 DEF Row
    <3>7. CASE table'[Name(u)] = [table[Name(u)] EXCEPT !.boxes = local[v]]
      BY <2>1, <3>2, <3>7 DEF Row
    <3> QED
      BY <3>1, <3>2, <3>3, <3>5, <3>6, <3>7
  <2>8. ReadDates(u) \/ WriteDates(u) \/ ReadExtent(u) \/ (pc'[u] = pc[u] /\ local'[u] = local[u])
    <3>1. ASSUME NEW v \in Updaters, StartRun(v) \/ Statement(v) \/ Kill(v), v # u
          PROVE  pc'[u] = pc[u] /\ local'[u] = local[u]
      BY <3>1, Elsewhere
    <3>2. CASE StartRun(u) \/ Statement(u) \/ Kill(u)
      BY <1>2, <2>4, <3>2 DEF StartRun, Statement, SkipUnknown, Sign, AtName, CopyInsert,
         CopyUpdate, InsertEmpty, EndRun, Kill, Stop, Goto, Midway, RunInv, TypeOK
    <3> QED
      BY <3>1, <3>2 DEF Next, vars, runVars, ChangeIndex, RefreshView
  <2>9. CASE ReadDates(u)
    <3>1. pc'[u] = "writeDates" /\ local'[u] = Seen(u) /\ table' = table
      BY <2>9 DEF ReadDates, Read, Stop, Goto, Midway, RunInv, TypeOK
    <3> QED
      BY <2>1, <2>2, <2>6, <3>1 DEF Fresh
  <2>10. CASE WriteDates(u)
    <3>1. /\ pc[u] = "writeDates" /\ pc'[u] = "readExtent"
          /\ table'[Name(u)] = [table[Name(u)] EXCEPT !.dates = local[u]]
      BY <2>1, <2>10 DEF WriteDates, Write, Goto, RunInv, TypeOK
    <3>2. table'[Name(u)].ll = table[Name(u)].ll /\ table'[Name(u)].dates = local[u]
      BY <2>1, <3>1 DEF Row
    <3> QED
      BY <2>1, <2>2, <2>6, <3>1, <3>2 DEF Fresh
  <2>11. CASE ReadExtent(u)
    <3>1. /\ pc[u] = "readExtent" /\ pc'[u] = "writeBoxes"
          /\ local'[u] = Seen(u) /\ table' = table
      BY <2>11 DEF ReadExtent, Read, Stop, Goto, Midway, RunInv, TypeOK
    <3> QED
      BY <2>1, <2>2, <2>6, <3>1 DEF Fresh
  <2>12. CASE pc'[u] = pc[u] /\ local'[u] = local[u]
    <3>1. ~WriteDates(u)
      BY <2>12 DEF WriteDates, Goto, RunInv, TypeOK
    <3>2. CASE table'[Name(u)] = table[Name(u)]
      BY <2>1, <2>2, <2>6, <2>12, <3>2 DEF Fresh
    <3>3. CASE table'[Name(u)] # table[Name(u)]
      BY <2>1, <2>2, <2>6, <2>7, <2>12, <3>1, <3>3 DEF Fresh
    <3> QED
      BY <3>2, <3>3
  <2> QED
    BY <2>8, <2>9, <2>10, <2>11, <2>12
<1>3. QED
  BY <1>1, <1>2, MidwayStep

\* What completes a layer, calm or undisturbed, leaves its row whole; what does
\* not complete it either leaves it disturbed or is midway through it.
LEMMA NextUniformRow == RunInv /\ RowsLocated /\ RowsUniform /\ [Next]_vars => UniformRow'
<1> SUFFICES ASSUME RunInv, RowsLocated, RowsUniform, [Next]_vars,
                    NEW l \in Layers, l \notin disturbed',
                    \A u \in Updaters : Midway(u)' => Name(u)' # l
             PROVE  table'[l].ll = table'[l].dates /\ table'[l].dates = table'[l].boxes
  BY DEF UniformRow
<1>1. ASSUME NEW u \in Updaters, WriteBoxes(u), Name(u) = l
      PROVE  table'[l].ll = table'[l].dates /\ table'[l].dates = table'[l].boxes
  <2>1. /\ Midway(u) /\ pc[u] = "writeBoxes"
        /\ Completed(u) /\ Write(u, [table[l] EXCEPT !.boxes = local[u]])
    BY <1>1 DEF WriteBoxes, Midway
  <2>2. calm[u] \/ l \notin disturbed
    BY <1>1, <2>1 DEF Completed
  <2>3. table[l].ll = Seen(u) /\ table[l].dates = Seen(u) /\ local[u] = Seen(u)
    BY <1>1, <2>1, <2>2 DEF RowsUniform, MidwayFresh, Fresh
  <2>4. table'[l] = [table[l] EXCEPT !.boxes = local[u]] /\ table[l] \in Row /\ local[u] \in Data
    BY <1>1, <2>1 DEF Write, RunInv, TypeOK
  <2> QED
    BY <2>3, <2>4 DEF Row
<1>2. ASSUME NEW u \in Updaters, Copies(u), Name(u) = l
      PROVE  table'[l].ll = table'[l].dates /\ table'[l].dates = table'[l].boxes
  <2>1. /\ Template(u) \in Layers \ disturbed
        /\ \A w \in Updaters : Midway(w) => Name(w) # Template(u)
    BY <1>2, CopyRowType DEF Copies, CopyRow
  <2>2. table'[l] = table[Template(u)]
    BY <1>2 DEF Copies, CopyRow, Write, CopiedColumns, RunInv, TypeOK
  <2> QED
    BY <2>1, <2>2 DEF RowsUniform, UniformRow
<1>3. CASE \A u \in Updaters : Name(u) = l => ~WriteBoxes(u) /\ ~Copies(u)
  <2>1. l \notin disturbed
    BY <1>3, DisturbedStep
  <2>2. \A u \in Updaters : Midway(u) => Name(u) # l
    BY <1>3, MidwayStep
  <2>3. CASE table'[l] = table[l]
    BY <2>1, <2>2, <2>3 DEF RowsUniform, UniformRow
  <2>4. CASE table'[l] # table[l]
    <3>1. PICK u \in Updaters :
              /\ l = Name(u)
              /\ \/ table'[l] = [NoRow EXCEPT !.there = TRUE]
                 \/ UpdateLatLon(u) /\ Seen(u) # 0
                 \/ WriteDates(u)
      BY <1>3, <2>4, RowStep
    <3>2. ~WriteDates(u)
      BY <2>2, <3>1 DEF WriteDates, Midway
    <3>3. ~(UpdateLatLon(u) /\ Seen(u) # 0)
      BY <3>1 DEF UpdateLatLon, Midway, Name, Goto, RunInv, TypeOK
    <3> QED
      BY <3>1, <3>2, <3>3 DEF NoRow
  <2> QED
    BY <2>3, <2>4
<1>4. QED
  BY <1>1, <1>2, <1>3

\* The calm and the undisturbed are what they are meant to be.
LEMMA UndisturbedUniform == Spec => []RowsUniform
<1>1. RunInv /\ RowsLocated /\ RowsUniform /\ [Next]_vars => RowsUniform'
  BY NextCalmIsAlone, NextMidwayFresh, NextUniformRow DEF RowsUniform
<1>2. QED
  BY InitRowsUniform, RunsWellFormed, CoordinatesStay, <1>1, PTL DEF Spec

\* The columns of a row come from the same datasets unless an update of the
\* layer was stopped, saw a refresh or was copied over midway.
THEOREM RowsAreUniform == Spec => []UniformRow
<1>1. RowsUniform => UniformRow
  BY DEF RowsUniform
<1>2. QED
  BY <1>1, UndisturbedUniform, PTL

-----------------------------------------------------------------------------
Repaired(l) == table[l] = RowOf(view[SigOf[l]])

\* A template is a layer of the signature it stands for.
TemplateSig ==
    \A u \in Updaters, s \in Sigs, c \in Counts :
        cache[u][s][c] # <<>> => SigOf[Head(cache[u][s][c])] = s

TemplatesRepaired ==
    \A u \in Updaters, s \in Sigs, c \in Counts :
        calm[u] /\ pc[u] # "idle" /\ cache[u][s][c] # <<>>
            => Repaired(Head(cache[u][s][c]))

NamesRepaired ==
    \A u \in Updaters :
        calm[u] /\ outcome[u] \in {"ok", "errors"} =>
            \A i \in 1 .. pos[u] - 1 : Args[i] \in Layers => Repaired(Args[i])

\* The exit status so far, and when there is one.
StatusSoFar ==
    \A u \in Updaters :
        /\ pc[u] # "idle" => outcome[u] \in {"ok", "errors"}
        /\ outcome[u] \in {"ok", "errors"} =>
               /\ pc[u] = "idle" => pos[u] = Len(Args) + 1
               /\ outcome[u] = "ok" <=> \A i \in 1 .. pos[u] - 1 : Args[i] \in Layers

RepairedSoFar == TemplateSig /\ TemplatesRepaired /\ NamesRepaired /\ StatusSoFar

AllInv == RunInv /\ RowsLocated /\ RowsUniform /\ RepairedSoFar

\* How a step moves a run on: it starts, is done with a name, ends, stops, or
\* stays where it is in Args.
LEMMA RunStep ==
    ASSUME RunInv, [Next]_vars, NEW u \in Updaters
    PROVE  \/ StartRun(u) /\ pos'[u] = 1 /\ outcome'[u] = "ok" /\ pc'[u] = "next"
           \/ /\ SkipUnknown(u) /\ pos'[u] = pos[u] + 1 /\ outcome'[u] = "errors"
              /\ pc[u] = "next" /\ pc'[u] = "next"
           \/ /\ WriteBoxes(u) \/ Copies(u)
              /\ pos'[u] = pos[u] + 1 /\ outcome'[u] = outcome[u]
              /\ pc[u] \notin {"idle", "next"} /\ pc'[u] = "next"
           \/ /\ pos[u] > Len(Args) /\ pos'[u] = pos[u] /\ outcome'[u] = outcome[u]
              /\ pc[u] = "next" /\ pc'[u] = "idle"
           \/ outcome'[u] = "failed" /\ pc'[u] = "idle"
           \/ /\ pos'[u] = pos[u] /\ outcome'[u] = outcome[u]
              /\ pc'[u] = "idle" <=> pc[u] = "idle"
<1> USE DEF RunInv, TypeOK, Goto, dataVars, runVars
<1>1. CASE UNCHANGED vars \/ RefreshView \/ \E s \in Sigs : ChangeIndex(s)
  BY <1>1 DEF vars, RefreshView, ChangeIndex
<1>2. CASE \E v \in Updaters \ {u} : StartRun(v) \/ Statement(v) \/ Kill(v)
  BY <1>2, Elsewhere
<1>3. CASE StartRun(u)
  BY <1>3 DEF StartRun
<1>4. CASE SkipUnknown(u)
  BY <1>4 DEF SkipUnknown, AtName
<1>5. CASE WriteBoxes(u)
  BY <1>5 DEF WriteBoxes, NextLayer
<1>6. CASE Copies(u) /\ UNCHANGED outcome
  BY <1>6 DEF Copies, CopyRow, NextLayer
<1>7. CASE EndRun(u)
  BY <1>7 DEF EndRun
<1>8. CASE Stop(u)
  BY <1>8 DEF Stop
<1>9. CASE Sign(u) \/ InsertEmpty(u) \/ WriteDates(u)
  BY <1>9 DEF Sign, AtName, InsertEmpty, WriteDates
<1>10. CASE CopyInsert(u) /\ ~CopyRow(u)
  BY <1>10 DEF CopyInsert
<1>11. CASE (UpdateLatLon(u) \/ ReadDates(u) \/ ReadExtent(u)) /\ ~Stop(u)
  BY <1>11 DEF UpdateLatLon, ReadDates, ReadExtent, Read
<1>12. Kill(u) => Stop(u)
  BY DEF Kill
<1>13. (CopyInsert(u) /\ CopyRow(u)) \/ CopyUpdate(u) => Copies(u) /\ UNCHANGED outcome
  BY DEF CopyInsert, CopyUpdate, Copies
<1>14. QED
  BY <1>1, <1>2, <1>3, <1>4, <1>5, <1>6, <1>7, <1>8, <1>9, <1>10, <1>11, <1>12, <1>13
     DEF Next, Statement

\* Before a run there are no templates, and after it nothing to repair.
LEMMA InitRepairedSoFar == Init => RepairedSoFar
BY EmptyCacheType DEF Init, RepairedSoFar, TemplateSig, TemplatesRepaired, NamesRepaired,
   StatusSoFar

\* The template of a calm run was repaired, for the signature of the layer at
\* hand.
LEMMA CopyRepairs ==
    ASSUME AllInv, [Next]_vars, NEW u \in Updaters, Copies(u), calm[u]
    PROVE  /\ Name(u) \in Layers
           /\ table'[Name(u)] = RowOf(Seen(u))
<1> USE DEF AllInv
<1>1. Name(u) \in Layers /\ Sig(u) \in Sigs /\ signed[u] \in Counts
  BY LookedUp DEF Copies, RunInv, TypeOK
<1>2. SigOf[Template(u)] = Sig(u) /\ Repaired(Template(u))
  BY <1>1 DEF Copies, RunInv, HasTemplate, RepairedSoFar, TemplateSig, TemplatesRepaired, Template
<1>3. table'[Name(u)] = table[Template(u)]
  BY <1>1 DEF Copies, CopyRow, Write, CopiedColumns, RunInv, TypeOK
<1>4. QED
  BY <1>1, <1>2, <1>3 DEF Repaired, Seen

\* The last statement of a calm run for a layer repairs it.
LEMMA CompletionRepairs ==
    ASSUME AllInv, [Next]_vars, NEW u \in Updaters, WriteBoxes(u), calm[u]
    PROVE  /\ Name(u) \in Layers
           /\ table'[Name(u)] = RowOf(Seen(u))
<1> USE DEF AllInv
<1>1. /\ Name(u) \in Layers /\ table[Name(u)] \in Row
      /\ Midway(u) /\ pc[u] = "writeBoxes"
      /\ table'[Name(u)] = [table[Name(u)] EXCEPT !.boxes = local[u]]
  BY LookedUp DEF WriteBoxes, Write, RunInv, TypeOK, Midway
<1>2. table[Name(u)].ll = Seen(u) /\ table[Name(u)].dates = Seen(u) /\ local[u] = Seen(u)
  BY <1>1 DEF RowsUniform, MidwayFresh, Fresh
<1>3. table[Name(u)].there = TRUE
  BY <1>1 DEF RowsLocated, MidwayLocated, Located, Row
<1>4. QED
  BY <1>1, <1>2, <1>3 DEF Row, RowOf

\* What a calm run has repaired stays so, though it may compute it again.
LEMMA RepairedStays ==
    ASSUME AllInv, [Next]_vars, NEW u \in Updaters, calm[u], calm'[u],
           NEW l \in Layers, Repaired(l)
    PROVE  Repaired(l)'
<1> USE DEF AllInv
<1>1. view' = view
  BY ViewStep
<1>2. CASE table'[l] = table[l]
  BY <1>1, <1>2 DEF Repaired
<1>3. CASE table'[l] # table[l]
  <2>1. /\ l = Name(u)
        /\ \/ InsertEmpty(u) /\ ~table[l].there
           \/ UpdateLatLon(u) /\ table'[l] = [table[l] EXCEPT !.ll = Seen(u)]
           \/ WriteDates(u) /\ table'[l] = [table[l] EXCEPT !.dates = local[u]]
           \/ WriteBoxes(u)
           \/ Copies(u)
    BY ZenonT(40), <1>3, RowStep
  <2>2. table[l] = RowOf(Seen(u)) /\ table[l].there
    BY <2>1 DEF Repaired, Seen, Sig, RowOf
  <2>a. table[l] \in Row
    BY DEF RunInv, TypeOK
  <2>b. table[l].ll = Seen(u) /\ table[l].dates = Seen(u)
    BY <2>2 DEF RowOf
  <2>3. CASE UpdateLatLon(u) /\ table'[l] = [table[l] EXCEPT !.ll = Seen(u)]
    <3>1. [table[l] EXCEPT !.ll = Seen(u)] = table[l]
      BY <2>a, <2>b DEF Row
    <3> QED
      BY <1>3, <2>3, <3>1
  <2>4. CASE WriteDates(u) /\ table'[l] = [table[l] EXCEPT !.dates = local[u]]
    <3>1. local[u] = Seen(u)
      BY <2>4 DEF WriteDates, Midway, RowsUniform, MidwayFresh, Fresh
    <3>2. [table[l] EXCEPT !.dates = local[u]] = table[l]
      BY <2>a, <2>b, <3>1 DEF Row
    <3> QED
      BY <1>3, <2>4, <3>2
  <2>5. CASE WriteBoxes(u) \/ Copies(u)
    <3>1. table'[l] = RowOf(Seen(u))
      BY <2>1, <2>5, CompletionRepairs, CopyRepairs
    <3> QED
      BY <1>3, <2>2, <3>1
  <2> QED
    BY <2>1, <2>2, <2>3, <2>4, <2>5
<1>4. QED
  BY <1>2, <1>3

\* A layer becomes a template for its own signature, repaired if the run is calm.
LEMMA NextTemplates == AllInv /\ [Next]_vars => TemplateSig' /\ TemplatesRepaired'
<1> SUFFICES ASSUME AllInv, [Next]_vars, NEW u \in Updaters, NEW s \in Sigs, NEW c \in Counts,
                    cache'[u][s][c] # <<>>
             PROVE  /\ SigOf[Head(cache'[u][s][c])] = s
                    /\ calm'[u] /\ pc'[u] # "idle" => Repaired(Head(cache[u][s][c]))'
  BY DEF TemplateSig, TemplatesRepaired
<1> USE DEF AllInv
<1>1. CASE /\ cache[u][s][c] # <<>> /\ ~StartRun(u)
           /\ Head(cache'[u][s][c]) = Head(cache[u][s][c])
  <2>1. SigOf[Head(cache'[u][s][c])] = s
    BY <1>1 DEF RepairedSoFar, TemplateSig
  <2>2. ASSUME calm'[u], pc'[u] # "idle" PROVE Repaired(Head(cache[u][s][c]))'
    <3>1. calm[u] /\ pc[u] # "idle"
      BY <1>1, <2>2, CalmStep, RunStep
    <3>2. Head(cache[u][s][c]) \in Layers /\ Repaired(Head(cache[u][s][c]))
      BY <1>1, <3>1, LookedUp DEF RunInv, RepairedSoFar, TemplatesRepaired
    <3> QED
      BY <1>1, <2>2, <3>1, <3>2, RepairedStays DEF Repaired
  <2> QED
    BY <2>1, <2>2
<1>2. CASE WriteBoxes(u) /\ s = Sig(u) /\ Head(cache'[u][s][c]) = Name(u)
  <2>1. SigOf[Head(cache'[u][s][c])] = s
    BY <1>2 DEF Sig
  <2>2. ASSUME calm'[u] PROVE Repaired(Head(cache[u][s][c]))'
    <3>1. calm[u]
      BY <1>2, <2>2, CalmStep DEF StartRun, WriteBoxes
    <3>2. view' = view
      BY <2>2, ViewStep
    <3> QED
      BY <1>2, <3>1, <3>2, CompletionRepairs DEF Repaired, Seen, Sig
  <2> QED
    BY <2>1, <2>2
<1>3. QED
  BY <1>1, <1>2, TemplateStep

\* A calm run goes on to the next name with the known ones before it repaired.
LEMMA NextNamesRepaired == AllInv /\ [Next]_vars => NamesRepaired'
<1> SUFFICES ASSUME AllInv, [Next]_vars, NEW u \in Updaters, calm'[u],
                    outcome'[u] \in {"ok", "errors"},
                    NEW i \in 1 .. pos'[u] - 1, Args[i] \in Layers
             PROVE  Repaired(Args[i])'
  BY DEF NamesRepaired
<1> USE DEF AllInv
<1>1. ~StartRun(u) /\ calm[u] /\ view' = view
  BY CalmStep, ViewStep DEF StartRun, RunInv, TypeOK
<1>2. outcome[u] \in {"ok", "errors"}
  BY <1>1, RunStep DEF RepairedSoFar, StatusSoFar
<1>3. CASE i \in 1 .. pos[u] - 1
  <2>1. Repaired(Args[i])
    BY <1>1, <1>2, <1>3 DEF RepairedSoFar, NamesRepaired
  <2> QED
    BY <1>1, <2>1, RepairedStays
<1>4. CASE i \notin 1 .. pos[u] - 1
  <2>1. pos[u] \in Nat /\ pos'[u] \in Nat
    BY NextRunInv DEF RunInv, TypeOK
  <2>2. SkipUnknown(u) \/ WriteBoxes(u) \/ Copies(u)
    BY <1>1, <1>4, <2>1, RunStep
  <2>3. Args[i] = Name(u)
    BY <1>1, <1>4, <2>1, RunStep DEF Name
  <2>4. ~SkipUnknown(u)
    BY <2>3, NamesAssumption DEF SkipUnknown
  <2>5. table'[Args[i]] = RowOf(view[SigOf[Args[i]]])
    BY <1>1, <2>2, <2>3, <2>4, CompletionRepairs, CopyRepairs DEF Seen, Sig
  <2> QED
    BY <1>1, <2>5 DEF Repaired
<1>5. QED
  BY <1>3, <1>4

\* The exit status counts the unknown names so far.
LEMMA NextStatusSoFar == AllInv /\ [Next]_vars => StatusSoFar'
<1> SUFFICES ASSUME AllInv, [Next]_vars, NEW u \in Updaters
             PROVE  /\ pc'[u] # "idle" => outcome'[u] \in {"ok", "errors"}
                    /\ outcome'[u] \in {"ok", "errors"} =>
                           /\ pc'[u] = "idle" => pos'[u] = Len(Args) + 1
                           /\ outcome'[u] = "ok" <=> \A i \in 1 .. pos'[u] - 1 : Args[i] \in Layers
  BY DEF StatusSoFar
<1> USE DEF AllInv
<1>1. /\ pc[u] # "idle" => outcome[u] \in {"ok", "errors"}
      /\ outcome[u] \in {"ok", "errors"} =>
             /\ pc[u] = "idle" => pos[u] = Len(Args) + 1
             /\ outcome[u] = "ok" <=> \A i \in 1 .. pos[u] - 1 : Args[i] \in Layers
  BY DEF RepairedSoFar, StatusSoFar
<1>2. pos[u] \in 1 .. Len(Args) + 1 /\ Len(Args) \in Nat
  BY ConstantFacts DEF RunInv, TypeOK
<1>3. CASE StartRun(u) /\ pos'[u] = 1 /\ outcome'[u] = "ok" /\ pc'[u] = "next"
  BY <1>3
<1>4. CASE /\ SkipUnknown(u) /\ pos'[u] = pos[u] + 1 /\ outcome'[u] = "errors"
           /\ pc'[u] = "next"
  <2>1. Args[pos[u]] \notin Layers
    BY <1>4, NamesAssumption DEF SkipUnknown, Name
  <2> QED
    BY <1>2, <1>4, <2>1
<1>5. CASE /\ WriteBoxes(u) \/ Copies(u)
           /\ pos'[u] = pos[u] + 1 /\ outcome'[u] = outcome[u]
           /\ pc[u] \notin {"idle", "next"} /\ pc'[u] = "next"
  <2>1. Args[pos[u]] \in Layers
    BY <1>5 DEF RunInv, AtLayer, Name
  <2>2. (\A i \in 1 .. pos'[u] - 1 : Args[i] \in Layers)
            <=> \A i \in 1 .. pos[u] - 1 : Args[i] \in Layers
    BY <1>2, <1>5, <2>1
  <2> QED
    BY <1>1, <1>5, <2>2
<1>6. CASE /\ pos[u] > Len(Args) /\ pos'[u] = pos[u] /\ outcome'[u] = outcome[u]
           /\ pc[u] = "next" /\ pc'[u] = "idle"
  BY <1>1, <1>2, <1>6
<1>7. CASE outcome'[u] = "failed" /\ pc'[u] = "idle"
  BY <1>7
<1>8. CASE /\ pos'[u] = pos[u] /\ outcome'[u] = outcome[u]
           /\ pc'[u] = "idle" <=> pc[u] = "idle"
  BY <1>1, <1>8
<1>9. QED
  BY <1>3, <1>4, <1>5, <1>6, <1>7, <1>8, RunStep

\* All four invariants hold in every reachable state.
LEMMA InvariantHolds == Spec => []AllInv
<1>1. AllInv /\ [Next]_vars => RepairedSoFar'
  BY NextTemplates, NextNamesRepaired, NextStatusSoFar DEF RepairedSoFar
<1>2. RunInv /\ RowsLocated /\ RowsUniform /\ RepairedSoFar <=> AllInv
  BY DEF AllInv
<1>3. QED
  BY InitRepairedSoFar, RunsWellFormed, CoordinatesStay, UndisturbedUniform, <1>1, <1>2, PTL
     DEF Spec

\* A run that is left alone and ends without an exception brings every known
\* layer it names up to the view, whatever state it found, and its exit status
\* tells whether it knew all names.
THEOREM RunsRepair == Spec => []RunRepairs
<1>1. AllInv => RunRepairs
  <2> SUFFICES ASSUME AllInv, NEW u \in Updaters, pc[u] = "idle",
                      outcome[u] \in {"ok", "errors"}, calm[u]
               PROVE  /\ \A i \in DOMAIN Args :
                             Args[i] \in Layers => table[Args[i]] = RowOf(view[SigOf[Args[i]]])
                      /\ outcome[u] = "ok" <=> \A i \in DOMAIN Args : Args[i] \in Layers
    BY DEF RunRepairs
  <2>1. pos[u] = Len(Args) + 1 /\ Len(Args) \in Nat
    BY ConstantFacts DEF AllInv, RepairedSoFar, StatusSoFar
  <2>2. 1 .. pos[u] - 1 = DOMAIN Args
    BY <2>1, ConstantFacts
  <2> QED
    BY <2>2 DEF AllInv, RepairedSoFar, NamesRepaired, StatusSoFar, Repaired
<1>2. QED
  BY <1>1, InvariantHolds, PTL
=============================================================================
