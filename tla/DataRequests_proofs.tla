-------------------------- MODULE DataRequests_proofs --------------------------
(***************************************************************************)
(* Proofs about DataRequests, for any dates, holdings of the products,     *)
(* limits, rules and number of changes of the view: what a request has     *)
(* found so far (Underway) is what its answer is made from, and as long as *)
(* the view has not changed it is what the view holds.                     *)
(*                                                                         *)
(* A number of datasets is a sum over the dates, a fold of the library.    *)
(* That it is a number needs an induction over finite sets, which is done  *)
(* here by taking a minimal set for which the claim fails (MinimalSubset). *)
(***************************************************************************)
EXTENDS DataRequests, FiniteSetTheorems, TLAPS

-----------------------------------------------------------------------------
\* Sums over a set, and the rules for cache headers.

\* Among sets of subsets of a finite set there is always a minimal one.
LEMMA MinimalSubset ==
  ASSUME NEW S, IsFiniteSet(S), NEW T \in SUBSET SUBSET S, T # {}
  PROVE  \E t \in T : \A u \in T : u \subseteq t => u = t
<1>1. IsWellFoundedOn(StrictSubsetOrdering(S), SUBSET S)
  BY FS_StrictSubsetOrderingWellFounded, FS_FiniteSubsetsOfFinite
<1>2. PICK t \in T : \A u \in T : <<u, t>> \notin StrictSubsetOrdering(S)
  BY <1>1, WFMin
<1>3. ASSUME NEW u \in T, u \subseteq t, u # t PROVE FALSE
  BY <1>2, <1>3 DEF StrictSubsetOrdering
<1>4. QED
  BY <1>3

\* A non-empty set of numbers has a least one.
LEMMA LeastNumber ==
  ASSUME NEW T \in SUBSET Nat, T # {}
  PROVE  \E m \in T : \A k \in T : m <= k
<1>1. PICK m \in T : \A k \in T : <<k, m>> \notin OpToRel(<, Nat)
  BY NatLessThanWellFounded, WFMin
<1>2. \A k \in T : ~(k < m)
  BY <1>1 DEF OpToRel
<1>3. QED
  BY <1>2

\* The element that a sum over a set takes first.
First(s) == CHOOSE x \in s : TRUE

\* It is one of them.
LEMMA FirstIsOne ==
  ASSUME NEW s, s # {}
  PROVE  First(s) \in s
BY DEF First

\* h gives the sum of f over every subset of t.
Sums(f, h, t) ==
    /\ h \in [SUBSET t -> Nat]
    /\ \A s \in SUBSET t : h[s] = IF s = {} THEN 0 ELSE f[First(s)] + h[s \ {First(s)}]

\* Sums over the same set are the same.
LEMMA SumsAgree ==
  ASSUME NEW S, IsFiniteSet(S), NEW f, NEW t \in SUBSET S, NEW u \in SUBSET S,
         NEW g, Sums(f, g, t), NEW h, Sums(f, h, u)
  PROVE  \A s \in SUBSET (t \cap u) : g[s] = h[s]
<1> DEFINE Differ == {s \in SUBSET (t \cap u) : g[s] # h[s]}
<1>1. SUFFICES ASSUME Differ # {} PROVE FALSE
  OBVIOUS
<1>2. PICK s \in Differ : \A v \in Differ : v \subseteq s => v = s
  <2>1. Differ \in SUBSET SUBSET S
    OBVIOUS
  <2>2. QED
    <3> HIDE DEF Differ
    <3>1. QED
      BY <1>1, <2>1, MinimalSubset
<1>3. s \in SUBSET t /\ s \in SUBSET u
  OBVIOUS
<1>4. s # {}
  BY <1>3 DEF Sums
<1>5. First(s) \in s
  BY <1>4, FirstIsOne
<1>6. g[s \ {First(s)}] = h[s \ {First(s)}]
  BY <1>2, <1>5
<1>7. g[s] = f[First(s)] + g[s \ {First(s)}] /\ h[s] = f[First(s)] + h[s \ {First(s)}]
  BY <1>3, <1>4 DEF Sums
<1>8. QED
  BY <1>6, <1>7

\* There are sums over every subset of a finite set.
LEMMA SumsExist ==
  ASSUME NEW S, IsFiniteSet(S), NEW f \in [S -> Nat]
  PROVE  \E h : Sums(f, h, S)
<1> DEFINE Without == {t \in SUBSET S : ~ \E h : Sums(f, h, t)}
<1>1. SUFFICES ASSUME Without # {} PROVE FALSE
  OBVIOUS
<1>2. PICK t \in Without : \A u \in Without : u \subseteq t => u = t
  <2>1. Without \in SUBSET SUBSET S
    OBVIOUS
  <2>2. QED
    <3> HIDE DEF Without
    <3>1. QED
      BY <1>1, <2>1, MinimalSubset
<1> DEFINE H(u) == CHOOSE h : Sums(f, h, u)
           Rest(s) == s \ {First(s)}
           g == [s \in SUBSET t |-> IF s = {} THEN 0 ELSE f[First(s)] + H(Rest(s))[Rest(s)]]
<1>3. ASSUME NEW u \in SUBSET t, u # t PROVE Sums(f, H(u), u)
  BY <1>2, <1>3
<1>4. ASSUME NEW s \in SUBSET t, s # {} PROVE First(s) \in s /\ First(s) \in S /\ Rest(s) \in SUBSET t /\ Rest(s) # t
  BY <1>4, FirstIsOne
<1>5. ASSUME NEW s \in SUBSET t, s # t PROVE g[s] = H(s)[s] /\ g[s] \in Nat
  <2>1. Sums(f, H(s), s)
    BY <1>3, <1>5
  <2>2. CASE s = {}
    BY <2>1, <2>2 DEF Sums
  <2>3. CASE s # {}
    <3>1. First(s) \in s /\ First(s) \in S /\ Rest(s) \in SUBSET t /\ Rest(s) # t
      BY <2>3, <1>4
    <3>2. Sums(f, H(Rest(s)), Rest(s))
      BY <3>1, <1>3
    <3>3. H(Rest(s))[Rest(s)] = H(s)[Rest(s)]
      <4>1. s \in SUBSET S /\ Rest(s) \in SUBSET S /\ Rest(s) \in SUBSET (Rest(s) \cap s)
        OBVIOUS
      <4> HIDE DEF H, Rest
      <4>2. QED
        BY <2>1, <3>2, <4>1, SumsAgree
    <3>4. H(s)[s] = f[First(s)] + H(s)[Rest(s)]
      BY <2>1, <2>3 DEF Sums
    <3>5. g[s] = f[First(s)] + H(Rest(s))[Rest(s)]
      BY <2>3
    <3>6. H(s)[s] \in Nat
      BY <2>1 DEF Sums
    <3>7. QED
      BY <3>3, <3>4, <3>5, <3>6
  <2>4. QED
    BY <2>2, <2>3
<1>6. ASSUME NEW s \in SUBSET t
      PROVE  g[s] \in Nat /\ g[s] = IF s = {} THEN 0 ELSE f[First(s)] + g[Rest(s)]
  <2>1. CASE s = {}
    BY <2>1
  <2>2. CASE s # {}
    <3>1. First(s) \in s /\ First(s) \in S /\ Rest(s) \in SUBSET t /\ Rest(s) # t
      BY <2>2, <1>4
    <3>2. g[Rest(s)] = H(Rest(s))[Rest(s)] /\ g[Rest(s)] \in Nat
      BY <3>1, <1>5
    <3>3. g[s] = f[First(s)] + H(Rest(s))[Rest(s)]
      BY <2>2
    <3>4. f[First(s)] \in Nat
      BY <3>1
    <3> HIDE DEF g, H, Rest
    <3>5. QED
      BY <2>2, <3>2, <3>3, <3>4
  <2>3. QED
    BY <2>1, <2>2
<1>7. g \in [SUBSET t -> Nat]
  BY <1>6
<1>8. Sums(f, g, t)
  <2> HIDE DEF g, H
  <2>1. QED
    BY <1>6, <1>7 DEF Sums
<1>9. QED
  BY <1>2, <1>8

\* The number of datasets on all dates is a number.
LEMMA NumberType ==
  ASSUME NEW f \in [Dates -> Nat]
  PROVE  NumberOf(f) \in Nat
<1> DEFINE Value(h, s) == IF s = {} THEN 0 ELSE f[First(s)] + h[s \ {First(s)}]
           Defines(h) == h = [s \in SUBSET Dates |-> Value(h, s)]
           iter == CHOOSE h : Defines(h)
<1>1. NumberOf(f) = iter[Dates]
  BY DEF NumberOf, MapThenSumSet, MapThenFoldSet, First
<1>2. PICK h : Sums(f, h, Dates)
  BY SumsExist, HoldingsAssumption
<1>3. Defines(h)
  BY <1>2 DEF Sums
<1>4. Defines(iter)
  BY <1>3
<1> HIDE DEF iter
<1>5. \A s \in SUBSET Dates : iter[s] = Value(iter, s)
  BY <1>4
<1> DEFINE Others == {s \in SUBSET Dates : iter[s] \notin Nat}
<1>6. Others = {}
  <2>1. SUFFICES ASSUME Others # {} PROVE FALSE
    OBVIOUS
  <2>2. PICK s \in Others : \A v \in Others : v \subseteq s => v = s
    <3>1. Others \in SUBSET SUBSET Dates
      OBVIOUS
    <3> HIDE DEF Others
    <3>2. QED
      BY ZenonT(40), <2>1, <3>1, MinimalSubset, HoldingsAssumption
  <2>3. s \in SUBSET Dates /\ iter[s] \notin Nat
    OBVIOUS
  <2>4. s # {}
    BY <1>5, <2>3
  <2>5. First(s) \in s
    BY <2>4, FirstIsOne
  <2>6. iter[s \ {First(s)}] \in Nat
    BY <2>2, <2>5
  <2>7. iter[s] = f[First(s)] + iter[s \ {First(s)}]
    BY <1>5, <2>3, <2>4
  <2>8. f[First(s)] \in Nat
    BY <2>3, <2>5
  <2>9. QED
    BY <2>3, <2>6, <2>7, <2>8
<1>7. QED
  BY <1>1, <1>6

\* The ages of the rules that a number of datasets reaches.
Reached(count) == {Rules[i].age : i \in {j \in DOMAIN Rules : Rules[j].min <= count}}

\* The header of a number of datasets is that of the highest rule it reaches.
LEMMA HeaderOfHighest ==
  ASSUME NEW L \in Nat
  PROVE  HeaderAge(L) = IF Reached(L) = {} \/ TooMany(L) THEN 0 ELSE Max(Reached(L))
<1> DEFINE Fits   == {j \in DOMAIN Rules : Rules[j].min <= L}
           reached == {Rules[i].age : i \in Fits}
           I      == {i \in 1..Len(Rules) : L < Rules[i].min}
           beyond == IF I # {} THEN Min(I) ELSE 0
           rule   == IF beyond = 0 THEN Len(Rules) ELSE beyond - 1
<1>1. HeaderAge(L) = IF L = 0 \/ TooMany(L) \/ rule = 0 THEN 0 ELSE Rules[rule].age
  BY DEF HeaderAge, SelectInSeq, TooMany
<1>2. /\ Len(Rules) \in Nat /\ DOMAIN Rules = 1..Len(Rules)
      /\ \A i \in 1..Len(Rules) : Rules[i].min \in Nat \ {0} /\ Rules[i].age \in Nat \ {0}
      /\ \A i, j \in 1..Len(Rules) : i < j => Rules[i].min < Rules[j].min /\ Rules[i].age < Rules[j].age
  <2>1. Rules \in Seq([min : Nat \ {0}, age : Nat \ {0}])
    BY RulesAssumption DEF RulesAccepted
  <2>2. DOMAIN Rules = 1..Len(Rules) /\ Len(Rules) \in Nat
    BY <2>1
  <2>3. \A i \in 1..Len(Rules) : Rules[i] \in [min : Nat \ {0}, age : Nat \ {0}]
    <3> DEFINE Rule == [min : Nat \ {0}, age : Nat \ {0}]
    <3>1. Rules \in Seq(Rule)
      BY <2>1
    <3> HIDE DEF Rule
    <3>2. \A i \in 1..Len(Rules) : Rules[i] \in Rule
      BY <3>1
    <3>3. QED
      BY <3>2 DEF Rule
  <2>4. \A i, j \in 1..Len(Rules) : i < j => Rules[i].min < Rules[j].min /\ Rules[i].age < Rules[j].age
    BY <2>2, RulesAssumption DEF RulesAccepted
  <2>5. QED
    BY <2>2, <2>3, <2>4
<1>3. rule \in 0..Len(Rules) /\ Fits = 1..rule
  <2>1. CASE I = {}
    BY <2>1, <1>2
  <2>2. CASE I # {}
    <3>1. \E m \in I : \A k \in I : m <= k
      <4>1. I \in SUBSET Nat
        BY <1>2
      <4> HIDE DEF I
      <4>2. QED
        BY <2>2, <4>1, LeastNumber
    <3>2. Min(I) \in I /\ \A k \in I : Min(I) <= k
      BY <3>1 DEF Min
    <3>3. beyond = Min(I) /\ beyond \in 1..Len(Rules) /\ L < Rules[beyond].min
          /\ \A k \in 1..Len(Rules) : L < Rules[k].min => beyond <= k
      BY <2>2, <3>2
    <3> HIDE DEF beyond
    <3>4. rule = beyond - 1 /\ rule \in 0..Len(Rules)
      BY <3>3, <1>2
    <3>5. ASSUME NEW k \in 1..Len(Rules) PROVE Rules[k].min <= L <=> k < beyond
      BY <3>3, <1>2
    <3>6. ASSUME NEW k PROVE k \in Fits <=> k \in 1..rule
      <4>1. k \in Fits <=> k \in 1..Len(Rules) /\ k < beyond
        BY <3>5, <1>2
      <4> HIDE DEF Fits, rule
      <4>2. QED
        BY <3>3, <3>4, <4>1, <1>2
    <3>7. QED
      <4> HIDE DEF Fits, rule
      <4>1. QED
        BY <3>4, <3>6
  <2>3. QED
    BY <2>1, <2>2
<1> HIDE DEF rule, Fits
<1>r. Reached(L) = reached
  BY DEF Reached, Fits
<1>4. CASE rule = 0
  <2>1. Fits = {}
    BY <1>3, <1>4
  <2>2. reached = {}
    BY <2>1
  <2>3. QED
    BY <1>1, <1>4, <1>r, <2>2
<1>5. CASE rule # 0
  <2>1. rule \in Fits /\ rule \in 1..Len(Rules)
    BY <1>3, <1>5
  <2>2. L # 0
    BY <2>1, <1>2 DEF Fits
  <2>3. Rules[rule].age \in reached /\ \A a \in reached : Rules[rule].age >= a
    <3>1. ASSUME NEW i \in Fits PROVE Rules[rule].age >= Rules[i].age
      <4>1. i \in 1..Len(Rules) /\ (i < rule \/ i = rule)
        BY <1>3
      <4>2. QED
        BY <1>2, <2>1, <4>1
    <3>2. QED
      BY <2>1, <3>1
  <2>4. \A a \in reached : a \in Nat
    BY <1>2 DEF Fits
  <2>5. Max(reached) = Rules[rule].age
    <3> HIDE DEF reached
    <3>1. ASSUME NEW m \in reached, \A a \in reached : m >= a PROVE m = Rules[rule].age
      BY <2>3, <2>4, <3>1
    <3>2. QED
      BY <2>3, <3>1 DEF Max
  <2>6. QED
    <3> HIDE DEF reached
    <3>1. QED
      BY <1>1, <1>5, <1>r, <2>2, <2>3, <2>5
<1>6. QED
  BY <1>4, <1>5

-----------------------------------------------------------------------------

Steps == {"idle", "count", "extent", "main", "flag", "load"}
Outcomes == {"none", "empty", "polygon", "refused", "notfound", "error", "data"}

\* The variables have their types, but for the sums over datasets.
StateTypeOK ==
    /\ layer \in LayerKind
    /\ view \in [Products -> [Dates -> Nat]]
    /\ req \in [kind : Kinds, dates : SUBSET Dates, heavy : BOOLEAN, tiff : BOOLEAN]
    /\ pc \in Steps
    /\ limited \in BOOLEAN
    /\ main \in [Dates -> Nat]
    /\ flag \in [Dates -> Nat]
    /\ known \in SUBSET Dates
    /\ steady \in BOOLEAN

Fetching == {"main", "flag", "load"}

\* What a request in progress has found, and what it holds for.
Underway ==
    /\ pc # "idle" => req.dates # {} /\ res = NoRes
    /\ pc \in {"idle", "count", "extent"} => known = {}
    /\ pc = "extent" => req.kind = "map"
    /\ pc \in Fetching /\ req.kind # "info" =>
           /\ limited => layer.lowRes
           /\ TooMany(n) => limited
           /\ steady => n = NumberOf(Found("main")) /\ DatesWith(Found("main")) # {}
    /\ pc \in Fetching /\ req.kind = "info" /\ steady => known = DatesWith(view["main"])
    /\ pc \in {"flag", "load"} =>
           /\ DatesWith(main) \subseteq req.dates
           /\ steady => main = Found("main")
    /\ pc = "load" /\ layer.flags = "dated" /\ req.kind \in {"map", "info"} =>
           DatesWith(flag) \subseteq req.dates

\* What an answer says of the view, and the header it is sent with.
Truthful == MapIsAligned /\ RequestsAnswered /\ FoundIsShown /\ LimitHolds
Answers  == Truthful /\ HeaderMatchesData
Inv == StateTypeOK /\ Underway /\ Answers

\* The search for the dates of a request finds no others.
LEMMA FoundOnRequested ==
  ASSUME StateTypeOK, NEW p \in Products
  PROVE  /\ Found(p) \in [Dates -> Nat]
         /\ DatesWith(Found(p)) \subseteq req.dates
         /\ DatesWith(Found(p)) = {d \in req.dates : view[p][d] > 0}
BY DEF StateTypeOK, Found, DatesWith

\* Dates in one set have different ranks.
LEMMA RankInjective ==
  ASSUME NEW S \in SUBSET Dates, NEW d \in S, NEW e \in S, Rank(d, S) = Rank(e, S)
  PROVE  d = e
<1> DEFINE Below(x) == {y \in S : y < x}
<1>1. /\ IsFiniteSet(S)
      /\ \A x \in S : x \in Int
  <2>1. IsFiniteSet(S)
    BY HoldingsAssumption, FS_Subset
  <2>2. \A x \in S : x \in Int
    BY HoldingsAssumption
  <2>3. QED
    BY <2>1, <2>2
<1>2. ASSUME NEW x \in S, NEW y \in S, x < y PROVE Rank(x, S) # Rank(y, S)
  <2>1. Below(x) \subseteq Below(y)
    BY <1>1, <1>2
  <2>2. x \in Below(y) /\ x \notin Below(x)
    BY <1>1, <1>2
  <2>3. IsFiniteSet(Below(y))
    <3>1. Below(y) \in SUBSET S
      OBVIOUS
    <3>2. QED
      BY <1>1, <3>1, FS_Subset
  <2>4. Cardinality(Below(x)) # Cardinality(Below(y))
    BY <2>1, <2>2, <2>3, FS_Subset
  <2>5. Rank(x, S) = Cardinality(Below(x)) /\ Rank(y, S) = Cardinality(Below(y))
    BY DEF Rank
  <2>6. QED
    BY <2>4, <2>5
<1>3. d < e \/ e < d \/ d = e
  BY <1>1
<1>4. QED
  BY <1>2, <1>3

\* The join of a map or feature info that does not fail, with as many dates of
\* the flags as of the data and all of them requested.
LEMMA JoinAligned ==
  ASSUME StateTypeOK, DatesWith(main) = req.dates, DatesWith(flag) \subseteq req.dates \/ layer.flags # "dated",
         ~JoinFails, req.dates # {}, NEW d \in req.dates
  PROVE  FlagsOf(d) \in {d, NoFlags, Nodata, Timeless}
<1> DEFINE found == DatesWith(flag)
<1>1. CASE layer.flags # "dated" \/ found = {}
  BY <1>1 DEF FlagsOf, StateTypeOK, LayerKind
<1>2. CASE layer.flags = "dated" /\ found # {}
  <2>1. req.dates \in SUBSET Dates /\ IsFiniteSet(req.dates)
    BY HoldingsAssumption, FS_Subset DEF StateTypeOK
  <2>2. Cardinality(found) \in {0, Cardinality(req.dates)}
    BY <1>2 DEF JoinFails
  <2>3. Cardinality(found) # 0
    BY <1>2, <2>1, FS_Subset, FS_EmptySet
  <2>4. found = req.dates
    BY <1>2, <2>1, <2>2, <2>3, FS_Subset
  <2>5. \A e \in found : Rank(e, found) = Rank(d, req.dates) => e = d
    BY <2>1, <2>4, RankInjective
  <2>6. (CHOOSE e \in found : Rank(e, found) = Rank(d, req.dates)) = d
    BY <2>4, <2>5
  <2>7. QED
    BY <1>2, <2>6 DEF FlagsOf
<1>3. QED
  BY <1>1, <1>2

\* The type of every variable is kept.
LEMMA TypeStep ==
  ASSUME StateTypeOK, [Next]_vars
  PROVE  StateTypeOK'
<1> USE DEF StateTypeOK
<1>0. \A p \in Products : Found(p) \in [Dates -> Nat]
  BY FoundOnRequested
<1>a. NoDatasets \in [Dates -> Nat] /\ NoReq \in [kind : Kinds, dates : SUBSET Dates, heavy : BOOLEAN, tiff : BOOLEAN]
  BY DEF NoDatasets, NoReq, Kinds
<1>b. \A f \in [Dates -> Nat] : DatesWith(f) \in SUBSET Dates
  BY DEF DatesWith
<1>1. ASSUME NEW r \in Requests, Start(r) PROVE StateTypeOK'
  BY <1>1 DEF Start, Requests, Steps
<1>2. ASSUME CountMap PROVE StateTypeOK'
  BY <1>2, <1>a DEF CountMap, Respond, Goto, Steps, TooMany
<1>3. ASSUME CountCoverage PROVE StateTypeOK'
  BY <1>3, <1>a DEF CountCoverage, Respond, Goto, Steps, TooMany
<1>4. ASSUME Extent PROVE StateTypeOK'
  BY <1>4, <1>a DEF Extent, Respond, Steps
<1>5. ASSUME FetchMain PROVE StateTypeOK'
  BY <1>5, <1>0 DEF FetchMain, Goto, Steps, Queried, MainProduct, Products
<1>6. ASSUME FetchFlag PROVE StateTypeOK'
  BY <1>6, <1>0 DEF FetchFlag, Goto, Steps, Products
<1>7. ASSUME ListAllDates PROVE StateTypeOK'
  BY <1>7, <1>a, <1>b DEF ListAllDates, Respond, Steps, Products
<1>8. ASSUME LoadMap PROVE StateTypeOK'
  BY <1>8, <1>a DEF LoadMap, Respond, Steps
<1>9. ASSUME LoadCoverage PROVE StateTypeOK'
  BY <1>9, <1>a DEF LoadCoverage, Respond, Steps
<1>10. ASSUME LoadInfo PROVE StateTypeOK'
  BY <1>10, <1>a DEF LoadInfo, Respond, Steps
<1>11. ASSUME ChangeView PROVE StateTypeOK'
  <2>1. PICK p \in Products, d \in Dates :
            \E k \in Holdings[p] : view' = [view EXCEPT ![p][d] = k]
    BY <1>11 DEF ChangeView
  <2>5. PICK k \in Holdings[p] : view' = [view EXCEPT ![p][d] = k]
    BY <2>1
  <2>2. k \in Nat
    BY HoldingsAssumption
  <2>3. view' \in [Products -> [Dates -> Nat]]
    BY <2>5, <2>2
  <2>4. QED
    BY <1>11, <2>3 DEF ChangeView
<1>12. ASSUME UNCHANGED vars PROVE StateTypeOK'
  BY <1>12 DEF vars, requestVars
<1>13. QED
  BY <1>1, <1>2, <1>3, <1>4, <1>5, <1>6, <1>7, <1>8, <1>9, <1>10, <1>11, <1>12 DEF Next

\* Requests that have not found their data yet, or no data, keep their answers.
LEMMA UnderwayStep ==
  ASSUME StateTypeOK, StateTypeOK', Underway, [Next]_vars
  PROVE  Underway'
<1> USE DEF Fetching
<1>0. \A p \in Products : DatesWith(Found(p)) \subseteq req.dates
  BY FoundOnRequested
<1>a. \A p \in Products : UNCHANGED <<req, view>> => Found(p)' = Found(p)
  BY DEF Found
<1>c. Queried = "main" /\ "main" \in Products /\ "flag" \in Products
  BY DEF Queried, MainProduct, Products
<1>1. ASSUME NEW r \in Requests, Start(r) PROVE Underway'
  <2>1. req'.dates # {} /\ res' = NoRes /\ pc' = "count" /\ known' = {}
    BY <1>1 DEF Start, Requests, Underway
  <2>2. QED
    BY <2>1 DEF Underway
<1>2. ASSUME CountMap PROVE Underway'
  BY <1>2, <1>a, <1>c DEF CountMap, Respond, Goto, TooMany, Underway, StateTypeOK
<1>3. ASSUME CountCoverage PROVE Underway'
  BY <1>3, <1>a, <1>c DEF CountCoverage, Respond, Goto, TooMany, Underway, StateTypeOK
<1>4. ASSUME Extent PROVE Underway'
  BY <1>4 DEF Extent, Respond, Underway
<1>5. ASSUME FetchMain PROVE Underway'
  BY <1>5, <1>0, <1>a, <1>c DEF FetchMain, Goto, Underway, TooMany
<1>6. ASSUME FetchFlag PROVE Underway'
  BY <1>6, <1>0, <1>a, <1>c DEF FetchFlag, Goto, Underway, TooMany
<1>7. ASSUME ListAllDates PROVE Underway'
  BY <1>7, <1>a DEF ListAllDates, Respond, Underway
<1>8. ASSUME LoadMap PROVE Underway'
  BY <1>8 DEF LoadMap, Respond, Underway
<1>9. ASSUME LoadCoverage PROVE Underway'
  BY <1>9 DEF LoadCoverage, Respond, Underway
<1>10. ASSUME LoadInfo PROVE Underway'
  BY <1>10 DEF LoadInfo, Respond, Underway
<1>11. ASSUME ChangeView PROVE Underway'
  BY <1>11 DEF ChangeView, Underway, TooMany
<1>12. ASSUME UNCHANGED vars PROVE Underway'
  <2>1. UNCHANGED <<layer, view, req, pc, n, limited, main, flag, known, res, steady>>
    BY <1>12 DEF vars, requestVars
  <2>2. QED
    BY <2>1, <1>a, <1>c DEF Underway, TooMany
<1>13. QED
  BY <1>1, <1>2, <1>3, <1>4, <1>5, <1>6, <1>7, <1>8, <1>9, <1>10, <1>11, <1>12 DEF Next

\* What an answer says is true when it is given, and later unless the view
\* changes.
LEMMA TruthfulStep ==
  ASSUME Inv, StateTypeOK', Underway', [Next]_vars
  PROVE  Truthful'
<1> USE DEF Inv, Answers
<1>t. StateTypeOK /\ Underway /\ Truthful
  BY DEF Answers
<1>n. res'.what = "none" => Truthful'
  BY DEF Truthful, MapIsAligned, RequestsAnswered, FoundIsShown, LimitHolds
<1>k. pc' # "idle" => Truthful'
  BY <1>n DEF Underway, NoRes
<1>f. Found("main") \in [Dates -> Nat] /\ DatesWith(Found("main")) = {d \in req.dates : view["main"][d] > 0}
  BY FoundOnRequested DEF Products
<1>q. Queried = "main"
  BY DEF Queried, MainProduct
<1>v. view["main"] \in [Dates -> Nat] /\ req.dates \subseteq Dates
  BY DEF StateTypeOK, Products
<1>2. ASSUME CountMap, pc' = "idle" PROVE Truthful'
  <2>1. DatesWith(Found("main")) = {} /\ req.dates # {} /\ req.kind = "map" /\ UNCHANGED <<layer, view>>
    BY <1>2, <1>q DEF CountMap, Respond, Goto, Underway
  <2>2. res'.what = "empty" /\ res'.kind = "map" /\ res'.dates = req.dates
    BY <1>2, <2>1, <1>q DEF CountMap, Respond, Goto
  <2>3. \E d \in req.dates : view["main"][d] = 0
    BY <2>1, <1>f, <1>v
  <2>4. QED
    BY <2>1, <2>2, <2>3 DEF Truthful, MapIsAligned, RequestsAnswered, FoundIsShown, LimitHolds
<1>3. ASSUME CountCoverage, pc' = "idle" PROVE Truthful'
  <2>1. res'.kind \in {"cov1", "cov2"} /\ res'.what \in {"refused", "empty", "notfound"}
    BY <1>3 DEF CountCoverage, Respond, Goto
  <2>2. QED
    BY <2>1 DEF Truthful, MapIsAligned, RequestsAnswered, FoundIsShown, LimitHolds
<1>4. ASSUME Extent, pc' = "idle" PROVE Truthful'
  <2>1. req.dates # {} /\ req.kind = "map" /\ UNCHANGED <<layer, view>>
    BY <1>4 DEF Extent, Respond, Underway
  <2>2. /\ res'.what = IF DatesWith(Found("main")) = {} THEN "empty" ELSE "polygon"
        /\ res'.kind = "map" /\ res'.dates = req.dates
    BY <1>4, <2>1, <1>q DEF Extent, Respond
  <2>3. IF DatesWith(Found("main")) = {} THEN \E d \in req.dates : view["main"][d] = 0
                                        ELSE \E d \in req.dates : view["main"][d] # 0
    BY <2>1, <1>f, <1>v
  <2>4. QED
    BY <2>1, <2>2, <2>3 DEF Truthful, MapIsAligned, RequestsAnswered, FoundIsShown, LimitHolds
<1>5. ASSUME ListAllDates, pc' = "idle" PROVE Truthful'
  <2>1. DatesWith(view["main"]) = {} /\ known = {} /\ UNCHANGED view
    BY <1>5 DEF ListAllDates, Respond, Underway
  <2>2. res'.what = "empty" /\ res'.kind = "info" /\ res'.known = {} /\ res'.records = {}
    BY <1>5, <2>1 DEF ListAllDates, Respond
  <2>3. DatesWith(view["main"])' = {}
    BY <2>1 DEF DatesWith
  <2>4. QED
    BY <2>2, <2>3 DEF Truthful, MapIsAligned, RequestsAnswered, FoundIsShown, LimitHolds
<1>6. ASSUME LoadMap, pc' = "idle" PROVE Truthful'
  <2>1. /\ req.dates # {} /\ req.dates \in SUBSET Dates /\ pc = "load" /\ req.kind = "map"
        /\ UNCHANGED <<layer, view, limited, steady>>
    BY <1>6 DEF LoadMap, Respond, Underway, StateTypeOK
  <2>2. /\ res'.kind = "map" /\ res'.dates = req.dates /\ res'.limited = limited
    BY <1>6, <2>1 DEF LoadMap, Respond
  <2>3. steady => DatesWith(main) = {d \in req.dates : view["main"][d] > 0}
    BY <2>1, <1>f DEF Underway
  <2>4. CASE DatesWith(main) # req.dates
    <3>1. res'.what = "empty"
      BY <1>6, <2>4 DEF LoadMap, Respond
    <3>2. steady => \E d \in req.dates : view["main"][d] = 0
      BY <2>3, <2>4, <1>v
    <3>3. QED
      BY <2>1, <2>2, <3>1, <3>2 DEF Truthful, MapIsAligned, RequestsAnswered, FoundIsShown, LimitHolds
  <2>5. CASE DatesWith(main) = req.dates /\ (JoinFails \/ Unflagged)
    <3>1. res'.what = "error"
      BY <1>6, <2>5 DEF LoadMap, Respond
    <3>2. ASSUME Cardinality(req.dates) = 1, layer.flags # "timeless", ~layer.flagManual PROVE FALSE
      <4>1. layer.flags = "dated" /\ Cardinality(DatesWith(flag)) \notin {0, 1}
        BY <2>5, <3>2 DEF JoinFails, Unflagged, StateTypeOK, LayerKind
      <4>2. DatesWith(flag) \subseteq req.dates
        BY <4>1, <2>1 DEF Underway
      <4>3. IsFiniteSet(req.dates)
        BY <2>1, HoldingsAssumption, FS_Subset
      <4>4. IsFiniteSet(DatesWith(flag)) /\ Cardinality(DatesWith(flag)) <= 1
        BY <4>2, <4>3, <3>2, FS_Subset
      <4>5. Cardinality(DatesWith(flag)) \in Nat
        BY <4>4, FS_CardinalityType
      <4>6. QED
        BY <4>1, <4>4, <4>5
    <3>3. QED
      BY <2>1, <2>2, <3>1, <3>2 DEF Truthful, MapIsAligned, RequestsAnswered, FoundIsShown, LimitHolds
  <2>6. CASE DatesWith(main) = req.dates /\ ~JoinFails /\ ~Unflagged
    <3>1. /\ res'.what = "data" /\ res'.records = DatesWith(main) /\ res'.loaded = NumberOf(main)
          /\ res'.flags = [d \in Dates |-> FlagsOf(d)]
      BY <1>6, <2>6 DEF LoadMap, Respond
    <3>2. \A d \in req.dates : res'.flags[d] \in {d, NoFlags, Nodata, Timeless}
      <4>1. DatesWith(flag) \subseteq req.dates \/ layer.flags # "dated"
        BY <2>1 DEF Underway
      <4>2. QED
        BY <2>1, <2>6, <3>1, <4>1, JoinAligned
    <3>3. steady => \E d \in req.dates : view["main"][d] # 0
      BY <2>1, <2>3, <2>6
    <3>4. steady /\ ~layer.lowRes => ~limited /\ ~TooMany(NumberOf(main))
      BY <2>1 DEF Underway, Fetching
    <3>5. MapIsAligned'
      BY <2>2, <2>6, <3>1, <3>2 DEF MapIsAligned
    <3>6. RequestsAnswered' /\ FoundIsShown'
      BY <2>1, <2>2, <3>1, <3>3 DEF RequestsAnswered, FoundIsShown
    <3>7. LimitHolds'
      BY <2>1, <2>2, <3>1, <3>4 DEF LimitHolds, TooMany
    <3>8. QED
      BY <3>5, <3>6, <3>7 DEF Truthful
  <2>7. QED
    BY <2>4, <2>5, <2>6
<1>7. ASSUME LoadCoverage, pc' = "idle" PROVE Truthful'
  <2>1. /\ pc = "load" /\ req.kind \in {"cov1", "cov2"} /\ UNCHANGED <<layer, view, limited, steady>>
        /\ res'.kind \in {"cov1", "cov2"} /\ res'.limited = limited
    BY <1>7 DEF LoadCoverage, Respond
  <2>2. CASE DatesWith(main) = {} /\ (layer.manual \/ req.tiff)
    <3>1. res'.what = "error" /\ ~steady
      BY <1>7, <2>1, <2>2 DEF LoadCoverage, Respond, Underway, Fetching
    <3>2. QED
      BY <2>1, <3>1 DEF Truthful, MapIsAligned, RequestsAnswered, FoundIsShown, LimitHolds
  <2>3. CASE ~(DatesWith(main) = {} /\ (layer.manual \/ req.tiff))
    <3>1. res'.what = "data" /\ res'.loaded = NumberOf(main)
      BY <1>7, <2>3 DEF LoadCoverage, Respond
    <3>2. steady /\ ~layer.lowRes => ~limited /\ ~TooMany(NumberOf(main))
      BY <2>1 DEF Underway, Fetching
    <3>3. QED
      BY <2>1, <3>1, <3>2 DEF Truthful, MapIsAligned, RequestsAnswered, FoundIsShown, LimitHolds, TooMany
  <2>4. QED
    BY <2>2, <2>3
<1>8. ASSUME LoadInfo, pc' = "idle" PROVE Truthful'
  <2>1. /\ pc = "load" /\ req.kind = "info" /\ UNCHANGED <<layer, view, steady>>
        /\ res'.kind = "info" /\ res'.dates = req.dates /\ res'.known = known
    BY <1>8 DEF LoadInfo, Respond
  <2>2. DatesWith(main) \subseteq req.dates /\ req.dates \in SUBSET Dates
    BY <2>1 DEF Underway, StateTypeOK
  <2>3. CASE JoinFails \/ FlagsForData
    <3>1. res'.what = "error"
      BY <1>8, <2>3 DEF LoadInfo, Respond
    <3>2. ASSUME Cardinality(req.dates) = 1, layer.flags # "timeless", ~layer.manual PROVE FALSE
      <4>1. /\ layer.flags = "dated" /\ DatesWith(main) # {}
            /\ Cardinality(DatesWith(flag)) \notin {0, Cardinality(DatesWith(main))}
        BY <2>3, <3>2 DEF JoinFails, FlagsForData, StateTypeOK, LayerKind
      <4>2. DatesWith(flag) \subseteq req.dates
        BY <4>1, <2>1 DEF Underway
      <4>3. PICK d : req.dates = {d}
        BY <2>2, <3>2, HoldingsAssumption, FS_Subset, FS_Singleton
      <4>4. DatesWith(main) = {d} /\ DatesWith(flag) \in {{}, {d}}
        BY <2>2, <4>1, <4>2, <4>3
      <4>5. QED
        BY <4>1, <4>4, FS_EmptySet
    <3>3. QED
      BY <2>1, <3>1, <3>2 DEF Truthful, MapIsAligned, RequestsAnswered, FoundIsShown, LimitHolds
  <2>4. CASE ~JoinFails /\ ~FlagsForData
    <3>1. res'.what = "data" /\ res'.records = DatesWith(main)
      BY <1>8, <2>4 DEF LoadInfo, Respond
    <3>2. steady => /\ known = DatesWith(view["main"])
                    /\ DatesWith(main) = req.dates \cap DatesWith(view["main"])
      <4>1. steady => /\ known = DatesWith(view["main"])
                      /\ DatesWith(main) = {d \in req.dates : view["main"][d] > 0}
        BY <2>1, <1>f DEF Underway, Fetching
      <4>2. DatesWith(view["main"]) = {d \in Dates : view["main"][d] > 0}
        BY DEF DatesWith
      <4>3. QED
        BY <4>1, <4>2, <2>2
    <3>3. DatesWith(view["main"])' = DatesWith(view["main"])
      BY <2>1 DEF DatesWith
    <3>4. QED
      BY <2>1, <3>1, <3>2, <3>3 DEF Truthful, MapIsAligned, RequestsAnswered, FoundIsShown, LimitHolds
  <2>5. QED
    BY <2>3, <2>4
<1>9. ASSUME ChangeView PROVE Truthful'
  <2>1. ~steady' /\ UNCHANGED <<layer, res>>
    BY <1>9 DEF ChangeView
  <2>2. QED
    BY <2>1 DEF Truthful, MapIsAligned, RequestsAnswered, FoundIsShown, LimitHolds
<1>10. ASSUME UNCHANGED vars PROVE Truthful'
  <2>1. UNCHANGED <<layer, view, pc, res, steady>>
    BY <1>10 DEF vars, requestVars
  <2>2. UNCHANGED DatesWith(view["main"])
    BY <2>1 DEF DatesWith
  <2>3. QED
    BY <2>1, <2>2 DEF Truthful, MapIsAligned, RequestsAnswered, FoundIsShown, LimitHolds, TooMany
<1>11. ASSUME pc' = "idle", (\E r \in Requests : Start(r)) \/ FetchMain \/ FetchFlag PROVE FALSE
  BY <1>11 DEF Start, FetchMain, FetchFlag, Goto
<1>12. QED
  BY <1>k, <1>2, <1>3, <1>4, <1>5, <1>6, <1>7, <1>8, <1>9, <1>10, <1>11 DEF Next

\* A response made from data is sent with the header of as many datasets as were
\* counted, and those are the ones it is made from unless the view changes.
LEMMA HeaderStep ==
  ASSUME Inv, StateTypeOK', [Next]_vars
  PROVE  HeaderMatchesData'
<1> DEFINE Held(r) == r.what = "data" /\ r.age # NoHeader =>
                          r.age = IF Reached(r.loaded) = {} \/ TooMany(r.loaded)
                                  THEN 0 ELSE Max(Reached(r.loaded))
<1>h. HeaderMatchesData <=> (steady => Held(res))
  BY DEF HeaderMatchesData, Reached
<1>i. HeaderMatchesData' <=> (steady' => Held(res'))
  BY DEF HeaderMatchesData, Reached, TooMany
<1>t. StateTypeOK /\ Underway /\ HeaderMatchesData
  BY DEF Inv, Answers
<1> HIDE DEF Held
<1>n. res'.what # "data" => HeaderMatchesData'
  BY DEF HeaderMatchesData
<1>1. ASSUME LoadMap \/ LoadCoverage \/ LoadInfo, res'.what = "data", steady',
             res'.age # NoHeader
      PROVE  Held(res')
  <2> DEFINE Answer == /\ pc = "load" /\ steady
                       /\ res'.loaded = NumberOf(main)
                       /\ res'.age = IF req.kind \in {"cov1", "info"} THEN NoHeader ELSE HeaderAge(n)
  <2>a. Answer
    <3>a. ASSUME NEW what, NEW loaded, NEW flags, NEW count, Respond(what, count, loaded, flags)
          PROVE  res'.what = what
      BY <3>a DEF Respond
    <3>b. ASSUME NEW flags, Respond("data", n, NumberOf(main), flags), pc = "load" PROVE Answer
      <4>1. res'.loaded = NumberOf(main) /\ UNCHANGED steady
        BY <3>b DEF Respond
      <4>2. res'.age = IF req.kind \in {"cov1", "info"} THEN NoHeader ELSE HeaderAge(n)
        BY <3>b DEF Respond
      <4>3. QED
        BY <1>1, <3>b, <4>1, <4>2
    <3>c. \/ Respond("data", n, NumberOf(main), [d \in Dates |-> FlagsOf(d)])
          \/ Respond("data", n, NumberOf(main), NoDatasets)
      <4>1. CASE LoadMap
        BY <1>1, <3>a, <4>1 DEF LoadMap
      <4>2. CASE LoadCoverage
        BY <1>1, <3>a, <4>2 DEF LoadCoverage
      <4>3. CASE LoadInfo
        BY <1>1, <3>a, <4>3 DEF LoadInfo
      <4>4. QED
        BY <1>1, <4>1, <4>2, <4>3
    <3>d. pc = "load"
      BY <1>1 DEF LoadMap, LoadCoverage, LoadInfo
    <3>4. QED
      BY <3>b, <3>c, <3>d
  <2>1. pc = "load" /\ steady /\ req.kind # "info"
    BY <1>1, <2>a
  <2>2. res'.loaded = NumberOf(main) /\ res'.age = HeaderAge(n)
    BY <1>1, <2>a
  <2>3. n = NumberOf(main)
    BY <1>t, <2>1 DEF Underway, Fetching
  <2>4. NumberOf(main) \in Nat
    BY <1>t, NumberType DEF StateTypeOK
  <2>5. QED
    BY <2>2, <2>3, <2>4, HeaderOfHighest DEF Held
<1>2. ASSUME CountMap \/ CountCoverage \/ Extent \/ ListAllDates, res'.what = "data" PROVE FALSE
  BY <1>2, <1>t DEF CountMap, CountCoverage, Extent, ListAllDates, Respond, Goto, Underway, NoRes
<1>3. ASSUME (\E r \in Requests : Start(r)) \/ FetchMain \/ FetchFlag, res'.what = "data" PROVE FALSE
  BY <1>3, <1>t DEF Start, FetchMain, FetchFlag, Goto, Underway, NoRes
<1>4. ASSUME ChangeView PROVE HeaderMatchesData'
  BY <1>4 DEF ChangeView, HeaderMatchesData
<1>5. ASSUME UNCHANGED vars PROVE HeaderMatchesData'
  <2>1. UNCHANGED <<res, steady>>
    BY <1>5 DEF vars, requestVars
  <2>2. QED
    BY <2>1, <1>h, <1>i, <1>t
<1>6. QED
  BY <1>n, <1>i, <1>1, <1>2, <1>3, <1>4, <1>5 DEF Next, Held

\* The invariant holds before any request.
LEMMA InitInv ==
  ASSUME Init
  PROVE  Inv
<1> USE DEF Init
<1>1. StateTypeOK
  <2>1. layer \in LayerKind
    BY KindsAssumption
  <2>2. view \in [Products -> [Dates -> Nat]]
    BY HoldingsAssumption DEF Products, Range
  <2>3. req \in [kind : Kinds, dates : SUBSET Dates, heavy : BOOLEAN, tiff : BOOLEAN]
    BY DEF NoReq, Kinds
  <2>4. main \in [Dates -> Nat] /\ flag \in [Dates -> Nat]
    BY DEF NoDatasets
  <2>5. QED
    BY <2>1, <2>2, <2>3, <2>4 DEF StateTypeOK, Steps
<1>2. Underway
  BY DEF Underway, Fetching
<1>3. Answers
  BY DEF Answers, Truthful, MapIsAligned, RequestsAnswered, FoundIsShown, LimitHolds,
         HeaderMatchesData, NoRes
<1>4. QED
  BY <1>1, <1>2, <1>3 DEF Inv

\* Every reachable state satisfies the invariant.
LEMMA InvariantHolds == Spec => []Inv
<1>1. Init => Inv
  BY InitInv
<1>2. Inv /\ [Next]_vars => Inv'
  BY TypeStep, UnderwayStep, TruthfulStep, HeaderStep DEF Inv, Answers
<1>3. QED
  BY <1>1, <1>2, PTL DEF Spec

\* A map shows the dates asked for and masks none by the flags of another date,
\* for any number of dates and however often the view changes between the
\* searches (get_map, DataStacker.data).
THEOREM MapsAligned == Spec => []MapIsAligned
<1>1. Inv => MapIsAligned
  BY DEF Inv, Answers, Truthful
<1>2. QED
  BY <1>1, InvariantHolds, PTL

\* A map or feature info of one date fails for the two stated reasons only, and
\* a coverage only if the view changed while it was made.
THEOREM RequestsAlwaysAnswered == Spec => []RequestsAnswered
<1>1. Inv => RequestsAnswered
  BY DEF Inv, Answers, Truthful
<1>2. QED
  BY <1>1, InvariantHolds, PTL

\* A map is blank if a date lacks data and not otherwise, and a feature info
\* lists what there is, as long as the view does not change.
THEOREM FoundAlwaysShown == Spec => []FoundIsShown
<1>1. Inv => FoundIsShown
  BY DEF Inv, Answers, Truthful
<1>2. QED
  BY <1>1, InvariantHolds, PTL

\* No layer without low resolution products serves more datasets than its limit,
\* whatever the limit is.
THEOREM LimitsHold == Spec => []LimitHolds
<1>1. Inv => LimitHolds
  BY DEF Inv, Answers, Truthful
<1>2. QED
  BY <1>1, InvariantHolds, PTL

\* The cache header of a response made from data is the one of the highest rule
\* that the datasets it was made from reach, for any rules and any holdings, as
\* long as the view does not change between the count and the searches.
THEOREM HeadersMatch == Spec => []HeaderMatchesData
<1>1. Inv => HeaderMatchesData
  BY DEF Inv, Answers
<1>2. QED
  BY <1>1, InvariantHolds, PTL
===============================================================================
