-------------------------- MODULE ViewSchema_proofs --------------------------
(***************************************************************************)
(* Proofs about ViewSchema: any number of schema runs, crashes, refreshes, *)
(* grants and datasets.  Five inductive invariants, each with what is      *)
(* proved from it:                                                         *)
(*   SchemaInv    types, and that the sources of a join outlive it: the    *)
(*                DROP of 040 and 041 and the joins of 012 rest on it;     *)
(*   OutageInv    the new view is there from 020 to the swap, and the old  *)
(*                name is free at the swap, so 031 is never refused:       *)
(*                OutageOnlyInSwap;                                        *)
(*   IndexInv     no two joins have one identity, and the index under the  *)
(*                _new names are those of the new view: ServedIsIndexed;   *)
(*   AsScripted   until a run is killed, the catalog is at each statement  *)
(*                what the script makes of it, view by view and index by   *)
(*                index: UnkilledRunCompletes, and with it                 *)
(*   RefreshInv   what a refresh that nothing overlaps has done so far:    *)
(*                RefreshDependable.                                       *)
(***************************************************************************)
EXTENDS ViewSchema, SequenceTheorems, TLAPS

View == [id : Nat, data : Nat, owner : {"admin", "ows_view_owner"},
         grants : SUBSET Readers, time : Nat, space : Nat]

TypeOK ==
    /\ datasets \in Nat
    /\ cat \in [Views -> View]
    /\ idx \in [Idx -> Nat] /\ idxNew \in [Idx -> Nat]
    /\ at \in 0 .. 21
    /\ runs \in Nat /\ crashes \in Nat /\ since \in Nat /\ rsince \in Nat
    /\ Running => runs > 0
    /\ outcome \in {"none", "ok", "failed", "killed"}
    /\ lost \in BOOLEAN /\ overlap \in BOOLEAN
    /\ granted \subseteq Readers
    /\ refresh \in {"idle", "time", "space", "st"}
    /\ refreshed \in {"none", "ok", "failed", "killed"}

-----------------------------------------------------------------------------
\* The views a run makes stay until it renames them, and what a join was
\* computed from stays as long as the join, under whatever name.
SourcesStay ==
    /\ at \in 2 .. 14 => Exists("time_new")
    /\ at \in 3 .. 13 => Exists("space_new")
    /\ \A m \in StViews : Exists(m) =>
           /\ \E n \in {"time", "time_new"} : Exists(n) /\ cat[n].id = cat[m].time
           /\ \E n \in {"space", "space_new"} : Exists(n) /\ cat[n].id = cat[m].space

SchemaInv == TypeOK /\ SourcesStay

\* Around the swap: the new view is there, and before it the old name is free.
SwapReady ==
    /\ at \in 4 .. 9 => Exists("st_new")
    /\ at = Swap => ~Exists("st")

OutageInv == SwapReady /\ OutageOnlyInSwap

\* Join views are told apart by the run that made them, and the index made for
\* the new one are its own.
JoinsDistinct ==
    /\ \A n \in StViews : cat[n].id <= runs /\ (at \in 1 .. 3 => cat[n].id < runs)
    /\ \A m, n \in StViews : m # n /\ Exists(m) => cat[m].id # cat[n].id

NewIndexed == \A i \in Idx : at \in i + 4 .. Swap => idxNew[i] = cat["st_new"].id

IndexInv == JoinsDistinct /\ NewIndexed /\ ServedIsIndexed

-----------------------------------------------------------------------------
\* The run between two statements, and after the last one.
Pos == IF Running THEN at ELSE 22

\* Which run made the view of each name, while no run was killed.
CatalogAsScripted ==
    /\ cat["time"].id      = IF Pos <= 12 THEN runs - 1 ELSE IF Pos <= 14 THEN 0 ELSE runs
    /\ cat["time_new"].id  = IF Pos \in 2 .. 14 THEN runs ELSE 0
    /\ cat["space"].id     = IF Pos <= 11 THEN runs - 1 ELSE IF Pos <= 13 THEN 0 ELSE runs
    /\ cat["space_new"].id = IF Pos \in 3 .. 13 THEN runs ELSE 0
    /\ cat["st"].id        = IF Pos <= 8 THEN runs - 1 ELSE IF Pos = 9 THEN 0 ELSE runs
    /\ cat["st_new"].id    = IF Pos \in 4 .. 9 THEN runs ELSE 0
    /\ cat["st_old"].id    = IF Pos \in 9 .. 10 THEN runs - 1 ELSE 0

JoinsAsScripted ==
    \A n \in StViews : cat[n].time = cat[n].id /\ cat[n].space = cat[n].id

IndexesAsScripted ==
    \A i \in Idx :
        /\ idx[i] = IF Pos <= 10 THEN runs - 1 ELSE IF Pos <= i + 14 THEN 0 ELSE runs
        /\ idxNew[i] = IF Pos \in i + 4 .. i + 14 THEN runs ELSE 0

OwnersAsScripted ==
    /\ Exists("time") /\ Pos \notin 13 .. 19 => cat["time"].owner = "ows_view_owner"
    /\ Exists("space") /\ Pos \notin 12 .. 20 => cat["space"].owner = "ows_view_owner"
    /\ Exists("st") /\ Pos \notin 9 .. 21 => cat["st"].owner = "ows_view_owner"

\* What the last run made has what was there when it began.
ContentsSince ==
    /\ since <= datasets
    /\ \A n \in Views : Exists(n) /\ cat[n].id = runs => cat[n].data >= since

\* Until a run is killed, everything is where the script has it.
Scripted ==
    /\ CatalogAsScripted /\ JoinsAsScripted /\ IndexesAsScripted
    /\ OwnersAsScripted /\ ContentsSince /\ outcome # "failed"

AsScripted == crashes = 0 => Scripted

\* A refresh that no schema run overlaps goes from one view to the next.
RefreshOnItsWay ==
    /\ rsince <= datasets
    /\ ~overlap => ~Running
    /\ crashes = 0 /\ ~overlap /\ runs > 0 =>
           /\ refresh \in {"space", "st"} => cat["time"].data >= rsince
           /\ refresh = "st" => cat["space"].data >= rsince

RefreshInv == RefreshOnItsWay /\ RefreshDependable

-----------------------------------------------------------------------------
\* The statements of a schema run, in the order of their files.
LEMMA ScriptIs ==
    /\ Len(Script) = 21
    /\ Script[1] = <<"create", "time_new">> /\ Script[2] = <<"create", "space_new">>
    /\ Script[3] = <<"createst">>
    /\ Script[4] = <<"index", 1>> /\ Script[5] = <<"index", 2>>
    /\ Script[6] = <<"index", 3>> /\ Script[7] = <<"index", 4>>
    /\ Script[8] = <<"rename?", "st", "st_old">> /\ Script[9] = <<"rename", "st_new", "st">>
    /\ Script[10] = <<"drop", "st_old">>
    /\ Script[11] = <<"drop", "space">> /\ Script[12] = <<"drop", "time">>
    /\ Script[13] = <<"rename", "space_new", "space">>
    /\ Script[14] = <<"rename", "time_new", "time">>
    /\ Script[15] = <<"reindex", 1>> /\ Script[16] = <<"reindex", 2>>
    /\ Script[17] = <<"reindex", 3>> /\ Script[18] = <<"reindex", 4>>
    /\ Script[19] = <<"owner", "time">> /\ Script[20] = <<"owner", "space">>
    /\ Script[21] = <<"owner", "st">>
BY DEF Script, NewViews, NewIndexes, SwapViews, Sources, Indexes,
   SetOwners, Idx

\* Which statement a run at this position executes.
LEMMA StatementAt ==
    ASSUME TypeOK, Running
    PROVE  /\ Is("create") => \/ at = 1 /\ Arg(2) = "time_new"
                              \/ at = 2 /\ Arg(2) = "space_new"
           /\ Is("createst") => at = 3
           /\ Is("index") => at \in 4 .. 7 /\ Arg(2) = at - 3
           /\ Is("rename?") => at = 8 /\ Arg(2) = "st" /\ Arg(3) = "st_old"
           /\ Is("rename") => \/ at = 9 /\ Arg(2) = "st_new" /\ Arg(3) = "st"
                              \/ at = 13 /\ Arg(2) = "space_new" /\ Arg(3) = "space"
                              \/ at = 14 /\ Arg(2) = "time_new" /\ Arg(3) = "time"
           /\ Is("drop") => \/ at = 10 /\ Arg(2) = "st_old"
                            \/ at = 11 /\ Arg(2) = "space"
                            \/ at = 12 /\ Arg(2) = "time"
           /\ Is("reindex") => at \in 15 .. 18 /\ Arg(2) = at - 14
           /\ Is("owner") => \/ at = 19 /\ Arg(2) = "time"
                             \/ at = 20 /\ Arg(2) = "space"
                             \/ at = 21 /\ Arg(2) = "st"
<1>1. at \in 1 .. 21
  BY DEF TypeOK, Running
<1>2. QED
  BY <1>1, ScriptIs DEF Is, Arg, Running

\* The least of a few numbers is one of them.
LEMMA MinOfFour ==
    ASSUME NEW a \in Nat, NEW b \in Nat, NEW c \in Nat, NEW d \in Nat,
           NEW S \in SUBSET {a, b, c, d}, S # {}
    PROVE  Min(S) \in S /\ \A y \in S : Min(S) <= y
<1> DEFINE Least(x, T) == x \in S /\ x \in T /\ \A y \in S : y \in T => x <= y
<1>1. a \in S => Least(a, {a})
  OBVIOUS
<1>2. (a \in S \/ b \in S) => \E x \in {a, b} : Least(x, {a, b})
  BY <1>1
<1>3. (a \in S \/ b \in S \/ c \in S) => \E x \in {a, b, c} : Least(x, {a, b, c})
  <2>1. CASE a \in S \/ b \in S
    <3>1. PICK x \in {a, b} : Least(x, {a, b})
      BY <1>2, <2>1
    <3>2. Least(x, {a, b, c}) \/ Least(c, {a, b, c})
      BY <3>1
    <3> QED
      BY <3>1, <3>2
  <2>2. CASE ~(a \in S \/ b \in S)
    BY <2>2
  <2> QED
    BY <2>1, <2>2
<1>4. \E x \in {a, b, c, d} : Least(x, {a, b, c, d})
  <2>1. CASE a \in S \/ b \in S \/ c \in S
    <3>1. PICK x \in {a, b, c} : Least(x, {a, b, c})
      BY <1>3, <2>1
    <3>2. Least(x, {a, b, c, d}) \/ Least(d, {a, b, c, d})
      BY <3>1
    <3> QED
      BY <3>1, <3>2
  <2>2. CASE ~(a \in S \/ b \in S \/ c \in S)
    <3>1. S = {d}
      BY <2>2
    <3> QED
      BY <3>1
  <2> QED
    BY <2>1, <2>2
<1>5. \E x \in S : \A y \in S : x <= y
  BY <1>4
<1>6. QED
  BY <1>5 DEF Min

\* So is the lesser of two.
LEMMA MinOfTwo ==
    ASSUME NEW a \in Nat, NEW b \in Nat
    PROVE  Min({a, b}) \in {a, b} /\ Min({a, b}) <= a /\ Min({a, b}) <= b
<1> DEFINE S == {a, b}
<1>1. S \in SUBSET {a, b, a, b} /\ S # {}
  OBVIOUS
<1>2. a \in S /\ b \in S
  OBVIOUS
<1> HIDE DEF S
<1>3. Min(S) \in S /\ Min(S) <= a /\ Min(S) <= b
  BY <1>1, <1>2, MinOfFour
<1>4. QED
  BY <1>3 DEF S

\* A refreshed join has the least content of the views it is computed from.
LEMMA JoinedContent ==
    ASSUME TypeOK, SourceOf("st") # {}
    PROVE  /\ Min({cat[m].data : m \in SourceOf("st")}) \in Nat
           /\ \E m \in SourceOf("st") : Min({cat[n].data : n \in SourceOf("st")}) = cat[m].data
<1> DEFINE S == {cat[m].data : m \in SourceOf("st")}
<1>1. /\ cat["time"].data \in Nat /\ cat["time_new"].data \in Nat
      /\ cat["space"].data \in Nat /\ cat["space_new"].data \in Nat
  BY DEF TypeOK, Views, View
<1>2. SourceOf("st") \subseteq {"time", "time_new", "space", "space_new"}
  BY DEF SourceOf
<1>3. S \subseteq {cat["time"].data, cat["time_new"].data, cat["space"].data, cat["space_new"].data}
  BY <1>2
<1>4. S # {}
  OBVIOUS
<1>5. Min(S) \in S
  BY <1>1, <1>3, <1>4, MinOfFour
<1>6. QED
  BY <1>1, <1>2, <1>5

\* What a view is when there is none, and when it is created.
LEMMA Created ==
    /\ None \in View /\ None.id = 0 /\ None.time = 0 /\ None.space = 0
    /\ \A d \in Nat : TypeOK =>
           /\ NewView(d) \in View /\ NewView(d).id = runs /\ NewView(d).data = d
           /\ NewView(d).time = 0 /\ NewView(d).space = 0
<1>1. /\ None \in View /\ None.id = 0 /\ None.time = 0 /\ None.space = 0
  BY DEF None, View
<1>2. ASSUME TypeOK, NEW d \in Nat
      PROVE  /\ NewView(d) \in View /\ NewView(d).id = runs /\ NewView(d).data = d
             /\ NewView(d).time = 0 /\ NewView(d).space = 0
  BY <1>1, <1>2 DEF NewView, TypeOK, View
<1>3. QED
  BY <1>1, <1>2

\* The join view that CreateJoin creates.
JoinView ==
    [NewView(Min({cat["time_new"].data, cat["space_new"].data}))
       EXCEPT !.time = cat["time_new"].id, !.space = cat["space_new"].id]

\* It is as complete as the less complete of its sources.
LEMMA JoinCreated ==
    ASSUME TypeOK
    PROVE  /\ JoinView \in View /\ JoinView.id = runs
           /\ JoinView.time = cat["time_new"].id /\ JoinView.space = cat["space_new"].id
           /\ JoinView.data \in {cat["time_new"].data, cat["space_new"].data}
<1> DEFINE d == Min({cat["time_new"].data, cat["space_new"].data})
<1>1. /\ cat["time_new"].id \in Nat /\ cat["space_new"].id \in Nat
      /\ cat["time_new"].data \in Nat /\ cat["space_new"].data \in Nat
  BY DEF TypeOK, Views, View
<1>2. d \in {cat["time_new"].data, cat["space_new"].data}
  BY <1>1, MinOfTwo
<1>3. d \in Nat
  BY <1>1, <1>2
<1>4. JoinView = [NewView(d) EXCEPT !.time = cat["time_new"].id, !.space = cat["space_new"].id]
  BY DEF JoinView
<1> HIDE DEF d
<1>5. NewView(d) \in View /\ NewView(d).id = runs /\ NewView(d).data = d
  BY <1>3, Created
<1>6. /\ JoinView \in View /\ JoinView.id = runs /\ JoinView.data = d
      /\ JoinView.time = cat["time_new"].id /\ JoinView.space = cat["space_new"].id
  BY <1>1, <1>4, <1>5 DEF View
<1>7. QED
  BY <1>2, <1>6

\* Initially there are no views.
LEMMA InitSchemaInv == Init => SchemaInv
<1> SUFFICES ASSUME Init PROVE SchemaInv
  OBVIOUS
<1>1. None \in View /\ None.id = 0
  BY DEF None, View
<1>2. cat \in [Views -> View] /\ \A n \in Views : ~Exists(n)
  BY <1>1 DEF Init, Exists
<1>3. datasets \in Nat
  BY BoundsAssumption DEF Init
<1>a. idx \in [Idx -> Nat] /\ idxNew \in [Idx -> Nat]
  BY DEF Init
<1>b. lost \in BOOLEAN /\ overlap \in BOOLEAN
  BY DEF Init
<1>4. TypeOK
  BY <1>2, <1>3, <1>a, <1>b DEF Init, TypeOK, Running
<1>5. SourcesStay
  BY <1>2 DEF Init, SourcesStay, StViews, Views
<1>6. QED
  BY <1>4, <1>5 DEF SchemaInv

\* Views are created, renamed and dropped as SourcesStay has it.
LEMMA NextSchemaInv == SchemaInv /\ [Next]_vars => SchemaInv'
<1> SUFFICES ASSUME SchemaInv, [Next]_vars PROVE SchemaInv'
  OBVIOUS
<1> USE DEF SchemaInv, TypeOK, SourcesStay, Views, View, StViews, Idx, None, Running, Exists,
        Frame, schemaVars, refreshVars
<1>a. Len(Script) = 21
  BY ScriptIs
<1>1. CASE UNCHANGED vars
  BY <1>1 DEF vars
<1>2. CASE StartSchema
  BY <1>2 DEF StartSchema
<1>3. CASE CreateSource
  <2>1. Is("create") /\ Running
    BY <1>3 DEF CreateSource, Is
  <2>2. CASE Exists(Arg(2))
    BY <1>3, <1>a, <2>1, <2>2, StatementAt DEF CreateSource, Advance
  <2>3. CASE ~Exists(Arg(2))
    <3>1. NewView(datasets) \in View /\ NewView(datasets).id = runs
      BY Created
    <3> QED
      BY <1>3, <1>a, <2>1, <2>3, <3>1, StatementAt DEF CreateSource, Advance
  <2> QED
    BY <2>2, <2>3
<1>4. CASE CreateJoin
  <2>1. Is("createst") /\ Running /\ at = 3
    BY <1>4, StatementAt DEF CreateJoin, Is
  <2>2. CASE Exists("st_new")
    BY <1>4, <1>a, <2>1, <2>2 DEF CreateJoin, Advance
  <2>3. CASE ~Exists("st_new")
    <3>1. /\ JoinView \in View /\ JoinView.id = runs
          /\ JoinView.time = cat["time_new"].id /\ JoinView.space = cat["space_new"].id
      BY JoinCreated
    <3>2. cat' = [cat EXCEPT !["st_new"] = JoinView] /\ UNCHANGED <<idx, idxNew>> /\ Advance /\ Frame
      BY <1>4, <2>3 DEF CreateJoin, JoinView
    <3> QED
      BY <1>a, <2>1, <3>1, <3>2 DEF Advance
  <2> QED
    BY <2>2, <2>3
<1>5. CASE CreateIndex
  BY <1>5, <1>a, StatementAt DEF CreateIndex, Advance, Refuse, Is
<1>6. CASE RenameView
  BY <1>6, <1>a, StatementAt DEF RenameView, Advance, Refuse, Is
<1>7. CASE DropView
  BY <1>7, <1>a, StatementAt DEF DropView, Dependents, Advance, Refuse, Is
<1>8. CASE RenameIndex
  BY <1>8, <1>a, StatementAt DEF RenameIndex, Advance, Refuse, Is
<1>9. CASE SetOwner
  BY <1>9, <1>a, StatementAt DEF SetOwner, Advance, Refuse, Is
<1>10. CASE Crash
  BY <1>10 DEF Crash
<1>11. ASSUME NEW r \in Readers, GrantRead(r) PROVE SchemaInv'
  BY <1>11 DEF GrantRead
<1>12. CASE StartRefresh
  BY <1>12 DEF StartRefresh
<1>13. CASE RefreshSource
  BY <1>13 DEF RefreshSource, Refreshable, StopRefresh
<1>14. CASE RefreshJoin
  BY <1>14, JoinedContent DEF RefreshJoin, Refreshable, StopRefresh, SourceOf
<1>15. CASE KillRefresh
  BY <1>15 DEF KillRefresh, StopRefresh
<1>16. CASE AddDatasets
  BY <1>16 DEF AddDatasets
<1>17. QED
  BY <1>1, <1>2, <1>3, <1>4, <1>5, <1>6, <1>7, <1>8, <1>9, <1>10, <1>11, <1>12, <1>13,
     <1>14, <1>15, <1>16 DEF Next

\* Every variable always has its type, and joins keep their sources.
LEMMA SchemaWellFormed == Spec => []SchemaInv
BY InitSchemaInv, NextSchemaInv, PTL DEF Spec

-----------------------------------------------------------------------------
\* Initially nothing was ever served.
LEMMA InitOutageInv == Init => OutageInv
BY DEF Init, OutageInv, SwapReady, OutageOnlyInSwap, Swap

\* The name is given up right before the swap only, and the swap is not refused.
LEMMA NextOutageInv == SchemaInv /\ OutageInv /\ [Next]_vars => OutageInv'
<1> SUFFICES ASSUME SchemaInv, OutageInv, [Next]_vars PROVE OutageInv'
  OBVIOUS
<1> USE DEF SchemaInv, TypeOK, OutageInv, SwapReady, OutageOnlyInSwap, Swap, Views, View, Exists,
        Frame, schemaVars, refreshVars
<1>a. Len(Script) = 21 /\ None.id = 0
  BY ScriptIs, Created
<1>1. CASE UNCHANGED vars
  BY <1>1 DEF vars
<1>2. CASE StartSchema
  BY <1>2 DEF StartSchema, Running
<1>3. CASE CreateSource
  <2>1. Is("create") /\ Running /\ Arg(2) \in {"time_new", "space_new"} /\ at \in 1 .. 2
    BY <1>3, StatementAt DEF CreateSource, Is
  <2> QED
    BY <1>3, <1>a, <2>1, Created DEF CreateSource, Advance
<1>4. CASE CreateJoin
  <2>1. Running /\ at = 3
    BY <1>4, StatementAt DEF CreateJoin, Is
  <2>2. /\ cat' = IF Exists("st_new") THEN cat ELSE [cat EXCEPT !["st_new"] = JoinView]
        /\ Advance /\ Frame
    BY <1>4 DEF CreateJoin, JoinView
  <2> QED
    BY <1>a, <2>1, <2>2, JoinCreated DEF Advance, Running
<1>5. CASE CreateIndex
  BY <1>5, <1>a, StatementAt DEF CreateIndex, Advance, Refuse, Is, Running
<1>6. CASE RenameView
  BY <1>6, <1>a, StatementAt DEF RenameView, Advance, Refuse, Is, Running
<1>7. CASE DropView
  BY <1>7, <1>a, StatementAt DEF DropView, Dependents, Advance, Refuse, Is, Running
<1>8. CASE RenameIndex
  BY <1>8, <1>a, StatementAt DEF RenameIndex, Advance, Refuse, Is, Running
<1>9. CASE SetOwner
  BY <1>9, <1>a, StatementAt DEF SetOwner, Advance, Refuse, Is, Running
<1>10. CASE Crash
  <2>1. cat' = cat /\ at' = 0 /\ granted' = granted /\ outcome' = "killed" /\ Running
    BY <1>10 DEF Crash
  <2>2. lost \/ at = Swap => lost'
    BY <1>10 DEF Crash
  <2>3. granted # {} /\ ~Exists("st") => at = Swap \/ lost
    OBVIOUS
  <2> QED
    BY <2>1, <2>2, <2>3
<1>11. ASSUME NEW r \in Readers, GrantRead(r) PROVE OutageInv'
  BY <1>11 DEF GrantRead
<1>12. CASE StartRefresh
  BY <1>12 DEF StartRefresh
<1>13. CASE RefreshSource
  BY <1>13 DEF RefreshSource, Refreshable, StopRefresh
<1>14. CASE RefreshJoin
  BY <1>14 DEF RefreshJoin, Refreshable, StopRefresh
<1>15. CASE KillRefresh
  BY <1>15 DEF KillRefresh, StopRefresh
<1>16. CASE AddDatasets
  BY <1>16 DEF AddDatasets
<1>17. QED
  BY <1>1, <1>2, <1>3, <1>4, <1>5, <1>6, <1>7, <1>8, <1>9, <1>10, <1>11, <1>12, <1>13,
     <1>14, <1>15, <1>16 DEF Next

\* Whatever is refused, killed and started again, the view that OWS queries is
\* missing only right before the swap, or since a run was killed there.
THEOREM OutageIsTheSwap == Spec => []OutageOnlyInSwap
<1>1. OutageInv => OutageOnlyInSwap
  BY DEF OutageInv
<1>2. QED
  BY <1>1, InitOutageInv, NextOutageInv, SchemaWellFormed, PTL DEF Spec

-----------------------------------------------------------------------------
\* Initially there is nothing to index.
LEMMA InitIndexInv == Init => IndexInv
BY Created DEF Init, IndexInv, JoinsDistinct, NewIndexed, ServedIsIndexed, Exists, StViews, Views

\* The new view has its indexes when it is renamed; no drop takes an index of
\* another view.
LEMMA NextIndexInv == SchemaInv /\ OutageInv /\ IndexInv /\ [Next]_vars => IndexInv'
<1> SUFFICES ASSUME SchemaInv, OutageInv, IndexInv, [Next]_vars PROVE IndexInv'
  OBVIOUS
<1> USE DEF SchemaInv, TypeOK, OutageInv, SwapReady, IndexInv, JoinsDistinct, NewIndexed,
        ServedIsIndexed, Swap, Views, StViews, View, Idx, Exists, Frame, schemaVars, refreshVars
<1>a. Len(Script) = 21 /\ None.id = 0
  BY ScriptIs, Created
<1>1. CASE UNCHANGED vars
  BY <1>1 DEF vars
<1>2. CASE StartSchema
  BY <1>2 DEF StartSchema, Running
<1>3. CASE CreateSource
  <2>1. Is("create") /\ Running /\ Arg(2) \in {"time_new", "space_new"} /\ at \in 1 .. 2
    BY <1>3, StatementAt DEF CreateSource, Is
  <2> QED
    BY <1>3, <1>a, <2>1, Created DEF CreateSource, Advance
<1>4. CASE CreateJoin
  <2>1. Running /\ at = 3
    BY <1>4, StatementAt DEF CreateJoin, Is
  <2>2. /\ cat' = IF Exists("st_new") THEN cat ELSE [cat EXCEPT !["st_new"] = JoinView]
        /\ Advance /\ Frame /\ UNCHANGED <<idx, idxNew>>
    BY <1>4 DEF CreateJoin, JoinView
  <2> QED
    BY <1>a, <2>1, <2>2, JoinCreated DEF Advance, Running
<1>5. CASE CreateIndex
  BY <1>5, <1>a, StatementAt DEF CreateIndex, Advance, Refuse, Is, Running
<1>6. CASE RenameView
  BY <1>6, <1>a, StatementAt DEF RenameView, Advance, Refuse, Is, Running
<1>7. CASE DropView
  BY <1>7, <1>a, StatementAt DEF DropView, Dependents, Advance, Refuse, Is, Running
<1>8. CASE RenameIndex
  BY <1>8, <1>a, StatementAt DEF RenameIndex, Advance, Refuse, Is, Running
<1>9. CASE SetOwner
  BY <1>9, <1>a, StatementAt DEF SetOwner, Advance, Refuse, Is, Running
<1>10. CASE Crash
  BY <1>10 DEF Crash, Running
<1>11. ASSUME NEW r \in Readers, GrantRead(r) PROVE IndexInv'
  BY <1>11 DEF GrantRead
<1>12. CASE StartRefresh
  BY <1>12 DEF StartRefresh
<1>13. CASE RefreshSource
  BY <1>13 DEF RefreshSource, Refreshable, StopRefresh
<1>14. CASE RefreshJoin
  BY <1>14 DEF RefreshJoin, Refreshable, StopRefresh
<1>15. CASE KillRefresh
  BY <1>15 DEF KillRefresh, StopRefresh
<1>16. CASE AddDatasets
  BY <1>16 DEF AddDatasets
<1>17. QED
  BY <1>1, <1>2, <1>3, <1>4, <1>5, <1>6, <1>7, <1>8, <1>9, <1>10, <1>11, <1>12, <1>13,
     <1>14, <1>15, <1>16 DEF Next

\* The view that OWS queries has its four indexes whatever was interrupted.
THEOREM ServedViewIsIndexed == Spec => []ServedIsIndexed
<1>1. IndexInv => ServedIsIndexed
  BY DEF IndexInv
<1>2. Spec => []OutageInv
  BY InitOutageInv, NextOutageInv, SchemaWellFormed, PTL DEF Spec
<1>3. QED
  BY <1>1, <1>2, InitIndexInv, NextIndexInv, SchemaWellFormed, PTL DEF Spec

-----------------------------------------------------------------------------
\* Initially no run has made anything.
LEMMA InitAsScripted == Init => AsScripted
<1> SUFFICES ASSUME Init PROVE AsScripted
  OBVIOUS
<1>1. Pos = 22 /\ runs = 0
  BY DEF Init, Pos, Running
<1>2. \A n \in Views : cat[n] = None
  BY DEF Init
<1>3. CatalogAsScripted /\ JoinsAsScripted /\ IndexesAsScripted
  BY <1>1, <1>2, Created DEF Init, CatalogAsScripted, JoinsAsScripted, IndexesAsScripted,
     Views, StViews, Idx
<1>4. OwnersAsScripted /\ ContentsSince
  BY <1>2, Created, BoundsAssumption DEF Init, OwnersAsScripted, ContentsSince, Exists, Views
<1>5. QED
  BY <1>3, <1>4 DEF Init, AsScripted, Scripted

\* A statement of a schema run.
Statement == \/ CreateSource \/ CreateJoin \/ CreateIndex \/ RenameView
             \/ DropView \/ RenameIndex \/ SetOwner

\* A view is made or replaced, renamed, or gets its owner.
Put(n, v)  == cat' = [cat EXCEPT ![n] = v]
Move(n, m) == cat' = [cat EXCEPT ![m] = cat[n], ![n] = None]
Own(n)     == cat' = [cat EXCEPT ![n].owner = "ows_view_owner"]

\* Without a crash no statement is refused: what each of them does.
LEMMA StatementDoes ==
    ASSUME SchemaInv, Scripted, Statement
    PROVE  /\ Running /\ Pos = at /\ Pos' = at + 1 /\ outcome' # "failed" /\ runs > 0
           /\ UNCHANGED <<datasets, runs, crashes, since, granted, refreshVars>>
           /\ at = 1 => Put("time_new", NewView(datasets))
           /\ at = 2 => Put("space_new", NewView(datasets))
           /\ at = 3 => Put("st_new", JoinView)
           /\ at = 8 => IF runs = 1 THEN cat' = cat ELSE Move("st", "st_old")
           /\ at = 9 => Move("st_new", "st")
           /\ at = 10 => Put("st_old", None)
           /\ at = 11 => Put("space", None)
           /\ at = 12 => Put("time", None)
           /\ at = 13 => Move("space_new", "space")
           /\ at = 14 => Move("time_new", "time")
           /\ at = 19 => Own("time")
           /\ at = 20 => Own("space")
           /\ at = 21 => Own("st")
           /\ at \in 4 .. 7 \/ at \in 15 .. 18 => cat' = cat
           /\ at \in 4 .. 7 => idxNew' = [idxNew EXCEPT ![at - 3] = runs] /\ idx' = idx
           /\ at = 10 => idx' = [i \in Idx |-> 0] /\ idxNew' = idxNew
           /\ at \in 15 .. 18 => /\ idx' = [idx EXCEPT ![at - 14] = runs]
                                 /\ idxNew' = [idxNew EXCEPT ![at - 14] = 0]
           /\ at \notin 4 .. 7 /\ at # 10 /\ at \notin 15 .. 18 => UNCHANGED <<idx, idxNew>>
<1>a. Len(Script) = 21 /\ None.id = 0
  BY ScriptIs, Created
<1>b. /\ Running /\ Frame
      /\ Advance => Pos = at /\ Pos' = at + 1 /\ outcome' # "failed"
  BY <1>a DEF Statement, CreateSource, CreateJoin, CreateIndex, RenameView, DropView,
     RenameIndex, SetOwner, Is, Advance, Pos, Running, SchemaInv, TypeOK, Scripted
<1>c. /\ runs \in Nat /\ runs > 0 /\ at \in 1 .. 21 /\ Pos = at
      /\ cat["time"].id      = IF at <= 12 THEN runs - 1 ELSE IF at <= 14 THEN 0 ELSE runs
      /\ cat["time_new"].id  = IF at \in 2 .. 14 THEN runs ELSE 0
      /\ cat["space"].id     = IF at <= 11 THEN runs - 1 ELSE IF at <= 13 THEN 0 ELSE runs
      /\ cat["space_new"].id = IF at \in 3 .. 13 THEN runs ELSE 0
      /\ cat["st"].id        = IF at <= 8 THEN runs - 1 ELSE IF at = 9 THEN 0 ELSE runs
      /\ cat["st_new"].id    = IF at \in 4 .. 9 THEN runs ELSE 0
      /\ cat["st_old"].id    = IF at \in 9 .. 10 THEN runs - 1 ELSE 0
  BY <1>b DEF Pos, Running, SchemaInv, TypeOK, Scripted, CatalogAsScripted
<1>d. UNCHANGED <<datasets, runs, crashes, since, granted, refreshVars>>
  BY <1>b DEF Frame
<1>1. CASE CreateSource
  <2>1. \/ at = 1 /\ Arg(2) = "time_new"
        \/ at = 2 /\ Arg(2) = "space_new"
    BY <1>1, <1>b, StatementAt DEF CreateSource, SchemaInv
  <2>2. ~Exists(Arg(2))
    BY <1>c, <2>1 DEF Exists
  <2>3. Put(Arg(2), NewView(datasets)) /\ Advance /\ UNCHANGED <<idx, idxNew>>
    BY <1>1, <2>2 DEF CreateSource, Put
  <2>4. CASE at = 1 /\ Arg(2) = "time_new"
    <3>1. Put("time_new", NewView(datasets))
      BY <2>3, <2>4, Zenon
    <3> QED
      BY <1>b, <1>c, <1>d, <2>3, <2>4, <3>1
  <2>5. CASE at = 2 /\ Arg(2) = "space_new"
    <3>1. Put("space_new", NewView(datasets))
      BY <2>3, <2>5, Zenon
    <3> QED
      BY <1>b, <1>c, <1>d, <2>3, <2>5, <3>1
  <2> QED
    BY <2>1, <2>4, <2>5
<1>2. CASE CreateJoin
  BY <1>2, <1>a, <1>b, <1>c, <1>d, StatementAt DEF CreateJoin, JoinView, Put, Exists, SchemaInv
<1>3. CASE CreateIndex
  <2>1. at \in 4 .. 7 /\ Arg(2) = at - 3
    BY <1>3, <1>b, StatementAt DEF CreateIndex, SchemaInv
  <2>2. idxNew[Arg(2)] = 0
    BY <1>c, <2>1 DEF Scripted, IndexesAsScripted, Idx
  <2> QED
    BY <1>3, <1>b, <1>c, <1>d, <2>1, <2>2 DEF CreateIndex
<1>4. CASE RenameView
  <2>1. \/ at = 8 /\ Is("rename?") /\ ~Is("rename") /\ Arg(2) = "st" /\ Arg(3) = "st_old"
        \/ at = 9 /\ Arg(2) = "st_new" /\ Arg(3) = "st"
        \/ at = 13 /\ Arg(2) = "space_new" /\ Arg(3) = "space"
        \/ at = 14 /\ Arg(2) = "time_new" /\ Arg(3) = "time"
    BY <1>4, <1>b, StatementAt DEF RenameView, SchemaInv, Is
  <2>2. ~Exists(Arg(3)) /\ (Exists(Arg(2)) <=> at # 8 \/ runs # 1)
    <3>1. CASE at = 8 /\ Arg(2) = "st" /\ Arg(3) = "st_old"
      BY <1>c, <3>1 DEF Exists
    <3>2. CASE at = 9 /\ Arg(2) = "st_new" /\ Arg(3) = "st"
      BY <1>c, <3>2 DEF Exists
    <3>3. CASE at = 13 /\ Arg(2) = "space_new" /\ Arg(3) = "space"
      BY <1>c, <3>3 DEF Exists
    <3>4. CASE at = 14 /\ Arg(2) = "time_new" /\ Arg(3) = "time"
      BY <1>c, <3>4 DEF Exists
    <3> QED
      BY <2>1, <3>1, <3>2, <3>3, <3>4
  <2>3. CASE Exists(Arg(2))
    <3>1. /\ Move(Arg(2), Arg(3))
          /\ Advance /\ UNCHANGED <<idx, idxNew>>
      BY <1>4, <2>2, <2>3 DEF RenameView, Move
    <3>2. at # 8 \/ runs # 1
      BY <2>2, <2>3
    <3>3. CASE at = 8 /\ Arg(2) = "st" /\ Arg(3) = "st_old"
      <4>1. Move("st", "st_old")
        BY <3>1, <3>3, Zenon
      <4> QED
        BY <1>b, <1>c, <1>d, <3>1, <3>2, <3>3, <4>1
    <3>4. CASE at = 9 /\ Arg(2) = "st_new" /\ Arg(3) = "st"
      <4>1. Move("st_new", "st")
        BY <3>1, <3>4, Zenon
      <4> QED
        BY <1>b, <1>c, <1>d, <3>1, <3>2, <3>4, <4>1
    <3>5. CASE at = 13 /\ Arg(2) = "space_new" /\ Arg(3) = "space"
      <4>1. Move("space_new", "space")
        BY <3>1, <3>5, Zenon
      <4> QED
        BY <1>b, <1>c, <1>d, <3>1, <3>2, <3>5, <4>1
    <3>6. CASE at = 14 /\ Arg(2) = "time_new" /\ Arg(3) = "time"
      <4>1. Move("time_new", "time")
        BY <3>1, <3>6, Zenon
      <4> QED
        BY <1>b, <1>c, <1>d, <3>1, <3>2, <3>6, <4>1
    <3> QED
      BY <2>1, <3>3, <3>4, <3>5, <3>6
  <2>4. CASE ~Exists(Arg(2))
    <3>1. at = 8 /\ runs = 1
      BY <2>2, <2>4
    <3>2. Advance /\ UNCHANGED <<cat, idx, idxNew>>
      BY <1>4, <2>1, <2>2, <2>4, <3>1 DEF RenameView
    <3> QED
      BY <1>b, <1>c, <1>d, <3>1, <3>2
  <2> QED
    BY <2>3, <2>4
<1>5. CASE DropView
  <2> DEFINE n == Arg(2)
             Without(ix) == [i \in Idx |-> IF n \in StViews /\ ix[i] = cat[n].id THEN 0 ELSE ix[i]]
  <2>1. \/ at = 10 /\ n = "st_old"
        \/ at = 11 /\ n = "space"
        \/ at = 12 /\ n = "time"
    BY <1>5, <1>b, StatementAt DEF DropView, SchemaInv
  <2>2. Dependents(n) = {}
    BY <1>c, <2>1 DEF Dependents, Exists, StViews, Scripted, JoinsAsScripted
  <2>3. /\ Put(n, None) /\ Advance
        /\ idx' = IF Exists(n) THEN Without(idx) ELSE idx
        /\ idxNew' = IF Exists(n) THEN Without(idxNew) ELSE idxNew
    BY <1>5, <2>2 DEF DropView, Put
  <2>4. idx \in [Idx -> Nat] /\ idxNew \in [Idx -> Nat]
    BY DEF SchemaInv, TypeOK
  <2>5. CASE at = 10 /\ n = "st_old"
    <3>1. \A i \in Idx : idx[i] = runs - 1 /\ idxNew[i] = runs
      BY <1>c, <2>5 DEF Scripted, IndexesAsScripted, Idx
    <3>2. cat[n].id = runs - 1 /\ n \in StViews
      BY <1>c, <2>5 DEF StViews
    <3>3. idx' = [i \in Idx |-> 0]
      BY <1>c, <2>3, <2>4, <3>1, <3>2 DEF Exists
    <3>4. idxNew' = idxNew
      BY <1>c, <2>3, <2>4, <3>1, <3>2
    <3>5. Put("st_old", None)
      BY <2>3, <2>5, Zenon
    <3> HIDE DEF Without
    <3> QED
      BY <1>b, <1>c, <1>d, <2>3, <2>5, <3>3, <3>4, <3>5
  <2>6. CASE at \in 11 .. 12 /\ n \in {"space", "time"}
    <3>1. idx' = idx /\ idxNew' = idxNew
      BY <2>3, <2>4, <2>6 DEF StViews
    <3> HIDE DEF Without
    <3>2. CASE at = 11 /\ n = "space"
      <4>1. Put("space", None)
        BY <2>3, <3>2, Zenon
      <4> QED
        BY <1>b, <1>c, <1>d, <2>3, <3>1, <3>2, <4>1
    <3>3. CASE at = 12 /\ n = "time"
      <4>1. Put("time", None)
        BY <2>3, <3>3, Zenon
      <4> QED
        BY <1>b, <1>c, <1>d, <2>3, <3>1, <3>3, <4>1
    <3> QED
      BY <2>1, <2>6, <3>2, <3>3
  <2> QED
    BY <2>1, <2>5, <2>6
<1>6. CASE RenameIndex
  <2>1. at \in 15 .. 18 /\ Arg(2) = at - 14
    BY <1>6, <1>b, StatementAt DEF RenameIndex, SchemaInv
  <2>2. idxNew[Arg(2)] = runs /\ idx[Arg(2)] = 0
    BY <1>c, <2>1 DEF Scripted, IndexesAsScripted, Idx
  <2> QED
    BY <1>6, <1>b, <1>c, <1>d, <2>1, <2>2 DEF RenameIndex
<1>7. CASE SetOwner
  BY <1>7, <1>a, <1>b, <1>c, <1>d, StatementAt DEF SetOwner, Own, Exists, SchemaInv
<1>8. QED
  BY <1>1, <1>2, <1>3, <1>4, <1>5, <1>6, <1>7 DEF Statement

\* The catalog after each kind of change.
LEMMA CatalogAfter ==
    ASSUME cat \in [Views -> View]
    PROVE  /\ \A n \in Views, v \in View : Put(n, v) =>
                  cat'[n] = v /\ \A m \in Views : m # n => cat'[m] = cat[m]
           /\ \A n, k \in Views : n # k /\ Move(n, k) =>
                  /\ cat'[k] = cat[n] /\ cat'[n] = None
                  /\ \A m \in Views : m # n /\ m # k => cat'[m] = cat[m]
           /\ \A n \in Views : Own(n) =>
                  /\ cat'[n].owner = "ows_view_owner"
                  /\ cat'[n].id = cat[n].id /\ cat'[n].data = cat[n].data
                  /\ cat'[n].time = cat[n].time /\ cat'[n].space = cat[n].space
                  /\ \A m \in Views : m # n => cat'[m] = cat[m]
<1>1. ASSUME NEW n \in Views, NEW v \in View, Put(n, v)
      PROVE  cat'[n] = v /\ \A m \in Views : m # n => cat'[m] = cat[m]
  BY <1>1 DEF Put
<1>2. ASSUME NEW n \in Views, NEW k \in Views, n # k, Move(n, k)
      PROVE  /\ cat'[k] = cat[n] /\ cat'[n] = None
             /\ \A m \in Views : m # n /\ m # k => cat'[m] = cat[m]
  BY <1>2 DEF Move
<1>3. ASSUME NEW n \in Views, Own(n)
      PROVE  /\ cat'[n].owner = "ows_view_owner"
             /\ cat'[n].id = cat[n].id /\ cat'[n].data = cat[n].data
             /\ cat'[n].time = cat[n].time /\ cat'[n].space = cat[n].space
             /\ \A m \in Views : m # n => cat'[m] = cat[m]
  BY <1>3 DEF Own, View
<1>4. QED
  BY <1>1, <1>2, <1>3

\* The part of Scripted that is about the catalog.
Viewed == CatalogAsScripted /\ JoinsAsScripted /\ OwnersAsScripted /\ ContentsSince

\* A statement leads the catalog from each stage of the script to the next.
LEMMA StatementViewed ==
    ASSUME SchemaInv, Scripted, Statement
    PROVE  Viewed'
<1>a. /\ cat \in [Views -> View] /\ at \in 1 .. 21
      /\ runs \in Nat /\ runs > 0 /\ datasets \in Nat /\ since \in Nat
  BY StatementDoes DEF SchemaInv, TypeOK, Running
<1>b. /\ Pos = at /\ Pos' = at + 1
      /\ runs' = runs /\ datasets' = datasets /\ since' = since
  BY StatementDoes
<1>c. TypeOK /\ Viewed
  BY DEF SchemaInv, Scripted, Viewed
<1>1. CASE at = 1
  <2>1. Put("time_new", NewView(datasets))
    BY <1>1, StatementDoes
  <2> QED
    BY <1>a, <1>b, <1>c, <1>1, <2>1, CatalogAfter, Created, JoinCreated DEF Viewed,
       CatalogAsScripted, JoinsAsScripted, OwnersAsScripted, ContentsSince, Exists, Views, StViews
<1>2. CASE at = 2
  <2>1. Put("space_new", NewView(datasets))
    BY <1>2, StatementDoes
  <2> QED
    BY <1>a, <1>b, <1>c, <1>2, <2>1, CatalogAfter, Created, JoinCreated DEF Viewed,
       CatalogAsScripted, JoinsAsScripted, OwnersAsScripted, ContentsSince, Exists, Views, StViews
<1>3. CASE at = 3
  <2>1. Put("st_new", JoinView)
    BY <1>3, StatementDoes
  <2> QED
    BY <1>a, <1>b, <1>c, <1>3, <2>1, CatalogAfter, Created, JoinCreated DEF Viewed,
       CatalogAsScripted, JoinsAsScripted, OwnersAsScripted, ContentsSince, Exists, Views, StViews
<1>4. CASE at \in 4 .. 7 \/ at \in 15 .. 18 \/ (at = 8 /\ runs = 1)
  <2>1. cat' = cat
    BY <1>4, StatementDoes
  <2> QED
    BY <1>a, <1>b, <1>c, <1>4, <2>1, CatalogAfter, Created, JoinCreated DEF Viewed,
       CatalogAsScripted, JoinsAsScripted, OwnersAsScripted, ContentsSince, Exists, Views, StViews
<1>5. CASE at = 8 /\ runs # 1
  <2>1. Move("st", "st_old")
    BY <1>5, StatementDoes
  <2> QED
    BY <1>a, <1>b, <1>c, <1>5, <2>1, CatalogAfter, Created, JoinCreated DEF Viewed,
       CatalogAsScripted, JoinsAsScripted, OwnersAsScripted, ContentsSince, Exists, Views, StViews
<1>6. CASE at = 9
  <2>1. Move("st_new", "st")
    BY <1>6, StatementDoes
  <2> QED
    BY <1>a, <1>b, <1>c, <1>6, <2>1, CatalogAfter, Created, JoinCreated DEF Viewed,
       CatalogAsScripted, JoinsAsScripted, OwnersAsScripted, ContentsSince, Exists, Views, StViews
<1>7. CASE at = 10
  <2>1. Put("st_old", None)
    BY <1>7, StatementDoes
  <2> QED
    BY <1>a, <1>b, <1>c, <1>7, <2>1, CatalogAfter, Created, JoinCreated DEF Viewed,
       CatalogAsScripted, JoinsAsScripted, OwnersAsScripted, ContentsSince, Exists, Views, StViews
<1>8. CASE at = 11
  <2>1. Put("space", None)
    BY <1>8, StatementDoes
  <2> QED
    BY <1>a, <1>b, <1>c, <1>8, <2>1, CatalogAfter, Created, JoinCreated DEF Viewed,
       CatalogAsScripted, JoinsAsScripted, OwnersAsScripted, ContentsSince, Exists, Views, StViews
<1>9. CASE at = 12
  <2>1. Put("time", None)
    BY <1>9, StatementDoes
  <2> QED
    BY <1>a, <1>b, <1>c, <1>9, <2>1, CatalogAfter, Created, JoinCreated DEF Viewed,
       CatalogAsScripted, JoinsAsScripted, OwnersAsScripted, ContentsSince, Exists, Views, StViews
<1>10. CASE at = 13
  <2>1. Move("space_new", "space")
    BY <1>10, StatementDoes
  <2> QED
    BY <1>a, <1>b, <1>c, <1>10, <2>1, CatalogAfter, Created, JoinCreated DEF Viewed,
       CatalogAsScripted, JoinsAsScripted, OwnersAsScripted, ContentsSince, Exists, Views, StViews
<1>11. CASE at = 14
  <2>1. Move("time_new", "time")
    BY <1>11, StatementDoes
  <2> QED
    BY <1>a, <1>b, <1>c, <1>11, <2>1, CatalogAfter, Created, JoinCreated DEF Viewed,
       CatalogAsScripted, JoinsAsScripted, OwnersAsScripted, ContentsSince, Exists, Views, StViews
<1>12. CASE at = 19
  <2>1. Own("time")
    BY <1>12, StatementDoes
  <2> QED
    BY <1>a, <1>b, <1>c, <1>12, <2>1, CatalogAfter, Created, JoinCreated DEF Viewed,
       CatalogAsScripted, JoinsAsScripted, OwnersAsScripted, ContentsSince, Exists, Views, StViews
<1>13. CASE at = 20
  <2>1. Own("space")
    BY <1>13, StatementDoes
  <2> QED
    BY <1>a, <1>b, <1>c, <1>13, <2>1, CatalogAfter, Created, JoinCreated DEF Viewed,
       CatalogAsScripted, JoinsAsScripted, OwnersAsScripted, ContentsSince, Exists, Views, StViews
<1>14. CASE at = 21
  <2>1. Own("st")
    BY <1>14, StatementDoes
  <2> QED
    BY <1>a, <1>b, <1>c, <1>14, <2>1, CatalogAfter, Created, JoinCreated DEF Viewed,
       CatalogAsScripted, JoinsAsScripted, OwnersAsScripted, ContentsSince, Exists, Views, StViews
<1>15. QED
  BY <1>a, <1>1, <1>2, <1>3, <1>4, <1>5, <1>6, <1>7, <1>8, <1>9, <1>10, <1>11, <1>12, <1>13, <1>14

\* A statement leads the indexes from each stage of the script to the next.
LEMMA StatementIndexed ==
    ASSUME SchemaInv, Scripted, Statement
    PROVE  IndexesAsScripted'
<1> SUFFICES ASSUME NEW i \in Idx
             PROVE  /\ idx'[i] = IF Pos' <= 10 THEN runs' - 1 ELSE IF Pos' <= i + 14 THEN 0 ELSE runs'
                    /\ idxNew'[i] = IF Pos' \in i + 4 .. i + 14 THEN runs' ELSE 0
  BY DEF IndexesAsScripted
<1>a. /\ idx \in [Idx -> Nat] /\ idxNew \in [Idx -> Nat] /\ at \in 1 .. 21
      /\ runs \in Nat /\ Pos = at /\ Pos' = at + 1 /\ runs' = runs /\ i \in 1 .. 4
  BY StatementDoes DEF SchemaInv, TypeOK, Running, Idx
<1>b. /\ idx[i] = IF at <= 10 THEN runs - 1 ELSE IF at <= i + 14 THEN 0 ELSE runs
      /\ idxNew[i] = IF at \in i + 4 .. i + 14 THEN runs ELSE 0
  BY <1>a DEF Scripted, IndexesAsScripted
<1>1. CASE at \in 4 .. 7
  <2>1. idxNew' = [idxNew EXCEPT ![at - 3] = runs] /\ idx' = idx
    BY <1>1, StatementDoes
  <2> QED
    BY <1>a, <1>b, <1>1, <2>1
<1>2. CASE at = 10
  <2>1. idx' = [k \in Idx |-> 0] /\ idxNew' = idxNew
    BY <1>2, StatementDoes
  <2> QED
    BY <1>a, <1>b, <1>2, <2>1
<1>3. CASE at \in 15 .. 18
  <2>1. /\ idx' = [idx EXCEPT ![at - 14] = runs]
        /\ idxNew' = [idxNew EXCEPT ![at - 14] = 0]
    BY <1>3, StatementDoes
  <2> QED
    BY <1>a, <1>b, <1>3, <2>1
<1>4. CASE at \notin 4 .. 7 /\ at # 10 /\ at \notin 15 .. 18
  <2>1. idx' = idx /\ idxNew' = idxNew
    BY <1>4, StatementDoes
  <2> QED
    BY <1>a, <1>b, <1>4, <2>1
<1>5. QED
  BY <1>1, <1>2, <1>3, <1>4

\* What a refresh, a grant or new datasets leave of the catalog.
Quiet ==
    /\ UNCHANGED <<schemaVars, idx, idxNew>>
    /\ datasets' \in Nat /\ datasets' >= datasets
    /\ \A n \in Views :
           /\ cat'[n].id = cat[n].id /\ cat'[n].owner = cat[n].owner
           /\ cat'[n].time = cat[n].time /\ cat'[n].space = cat[n].space
           /\ \/ cat'[n].data = cat[n].data
              \/ cat'[n].data = datasets
              \/ n = "st" /\ \E m \in SourceOf("st") : cat'[n].data = cat[m].data

\* A refresh changes content only, a grant not even that.
LEMMA QuietDoes ==
    ASSUME SchemaInv, Next
    PROVE  Statement \/ StartSchema \/ Crash \/ Quiet
<1> USE DEF SchemaInv, TypeOK, Views, View, Quiet
<1>1. ASSUME NEW r \in Readers, GrantRead(r) PROVE Quiet
  BY <1>1 DEF GrantRead
<1>2. CASE StartRefresh
  BY <1>2 DEF StartRefresh
<1>3. CASE RefreshSource
  BY <1>3 DEF RefreshSource, StopRefresh
<1>4. CASE RefreshJoin
  <2>1. CASE Refreshable("st") /\ cat["st"].id \in {idx[Unique], idxNew[Unique]}
    <3>1. SourceOf("st") # {}
      BY <2>1 DEF Refreshable, SourcesStay, SourceOf, Exists, StViews
    <3>2. PICK m \in SourceOf("st") : Min({cat[n].data : n \in SourceOf("st")}) = cat[m].data
      BY <3>1, JoinedContent
    <3>3. /\ cat' = [cat EXCEPT !["st"].data = cat[m].data]
          /\ UNCHANGED <<schemaVars, idx, idxNew, datasets>>
      BY <1>4, <2>1, <3>2 DEF RefreshJoin
    <3> QED
      BY <3>3
  <2>2. CASE ~(Refreshable("st") /\ cat["st"].id \in {idx[Unique], idxNew[Unique]})
    BY <1>4, <2>2 DEF RefreshJoin, StopRefresh
  <2> QED
    BY <2>1, <2>2
<1>5. CASE KillRefresh
  BY <1>5 DEF KillRefresh, StopRefresh
<1>6. CASE AddDatasets
  BY <1>6 DEF AddDatasets
<1>7. QED
  BY <1>1, <1>2, <1>3, <1>4, <1>5, <1>6 DEF Next, Statement

\* Up to a crash every step follows the script.
LEMMA NextAsScripted == SchemaInv /\ AsScripted /\ [Next]_vars => AsScripted'
<1> SUFFICES ASSUME SchemaInv, AsScripted, [Next]_vars, crashes' = 0 PROVE Scripted'
  BY DEF AsScripted
<1>a. crashes = 0 /\ Scripted
  <2>1. crashes \in Nat /\ (crashes' = crashes \/ crashes' = crashes + 1)
    BY QuietDoes, StatementDoes DEF SchemaInv, TypeOK, vars, schemaVars, Quiet, Crash, StartSchema,
       Statement, CreateSource, CreateJoin, CreateIndex, RenameView, DropView, RenameIndex,
       SetOwner, Frame
  <2> QED
    BY <2>1 DEF AsScripted
<1>1. CASE UNCHANGED vars
  BY <1>a, <1>1 DEF vars, schemaVars, Scripted, CatalogAsScripted, JoinsAsScripted,
     IndexesAsScripted, OwnersAsScripted, ContentsSince, Pos, Running, Exists
<1>2. CASE Statement
  <2>1. Viewed' /\ IndexesAsScripted' /\ outcome' # "failed"
    BY <1>a, <1>2, StatementViewed, StatementIndexed, StatementDoes
  <2> QED
    BY <2>1 DEF Viewed, Scripted
<1>3. CASE StartSchema
  <2>1. /\ Pos = 22 /\ Pos' = 1 /\ runs' = runs + 1 /\ runs \in Nat /\ since' = datasets
        /\ UNCHANGED <<datasets, cat, idx, idxNew, outcome>> /\ datasets \in Nat
    BY <1>3 DEF StartSchema, Pos, Running, SchemaInv, TypeOK
  <2>2. CatalogAsScripted' /\ JoinsAsScripted'
    BY <1>a, <2>1 DEF Scripted, CatalogAsScripted, JoinsAsScripted
  <2>3. IndexesAsScripted'
    BY <1>a, <2>1 DEF Scripted, IndexesAsScripted, Idx
  <2>4. OwnersAsScripted'
    BY <1>a, <2>1 DEF Scripted, OwnersAsScripted, Exists
  <2>5. ContentsSince'
    BY <1>a, <2>1 DEF Scripted, CatalogAsScripted, ContentsSince, Exists, Views
  <2> QED
    BY <1>a, <2>1, <2>2, <2>3, <2>4, <2>5 DEF Scripted
<1>4. CASE Crash
  BY <1>a, <1>4 DEF Crash
<1>5. CASE Quiet
  <2>1. Pos' = Pos /\ UNCHANGED <<runs, since, outcome, idx, idxNew>>
    BY <1>5 DEF Quiet, schemaVars, Pos, Running
  <2>2. CatalogAsScripted' /\ JoinsAsScripted'
    BY <1>a, <1>5, <2>1 DEF Scripted, CatalogAsScripted, JoinsAsScripted, Quiet, Views, StViews
  <2>3. IndexesAsScripted'
    BY <1>a, <2>1 DEF Scripted, IndexesAsScripted
  <2>4. OwnersAsScripted'
    BY <1>a, <1>5, <2>1 DEF Scripted, OwnersAsScripted, Exists, Quiet, Views
  <2>5. ContentsSince'
    <3>1. since <= datasets /\ since \in Nat /\ datasets \in Nat
      BY <1>a DEF Scripted, ContentsSince, SchemaInv, TypeOK
    <3>2. ASSUME NEW n \in Views, Exists(n)', cat'[n].id = runs PROVE cat'[n].data >= since
      <4>1. cat[n].id = runs /\ cat[n].id # 0
        BY <1>5, <3>2 DEF Quiet, Exists
      <4>2. cat[n].data >= since
        BY <1>a, <4>1 DEF Scripted, ContentsSince, Exists
      <4>3. CASE n = "st" /\ \E m \in SourceOf("st") : cat'[n].data = cat[m].data
        <5>1. PICK m \in SourceOf("st") : cat'[n].data = cat[m].data
          BY <4>3
        <5>2. m \in Views /\ cat[m].id = runs
          BY <1>a, <4>1, <4>3 DEF SourceOf, Scripted, JoinsAsScripted, StViews, Views
        <5> QED
          BY <1>a, <4>1, <5>1, <5>2 DEF Scripted, ContentsSince, Exists
      <4> QED
        BY <1>5, <3>1, <4>2, <4>3 DEF Quiet
    <3> QED
      BY <1>5, <2>1, <3>1, <3>2 DEF ContentsSince, Quiet
  <2> QED
    BY <1>a, <2>1, <2>2, <2>3, <2>4, <2>5 DEF Scripted
<1>6. QED
  BY <1>1, <1>2, <1>3, <1>4, <1>5, QuietDoes

\* Runs that nobody kills go through, and each leaves the three views as the
\* queries and the refresh need them.
THEOREM UnkilledRunsComplete == Spec => []UnkilledRunCompletes
<1>1. ASSUME SchemaInv, AsScripted PROVE UnkilledRunCompletes
  <2> SUFFICES ASSUME crashes = 0, ~Running, runs > 0
               PROVE  /\ {n \in Views : Exists(n)} = {"time", "space", "st"}
                      /\ \A n \in {"time", "space", "st"} : cat[n].owner = "ows_view_owner"
                      /\ \A i \in Idx : idx[i] = cat["st"].id /\ idxNew[i] = 0
                      /\ SourceOf("st") = {"time", "space"}
                      /\ cat["st"].data >= since
    BY <1>1 DEF UnkilledRunCompletes, AsScripted, Scripted
  <2>1. Pos = 22 /\ runs \in Nat /\ Scripted
    BY <1>1 DEF Pos, SchemaInv, TypeOK, AsScripted
  <2>2. \A n \in Views : cat[n].id = IF n \in {"time", "space", "st"} THEN runs ELSE 0
    BY <2>1 DEF Scripted, CatalogAsScripted, Views
  <2>3. {n \in Views : Exists(n)} = {"time", "space", "st"}
    BY <2>2 DEF Exists, Views
  <2>4. \A n \in {"time", "space", "st"} : cat[n].owner = "ows_view_owner"
    BY <2>1, <2>2 DEF Scripted, OwnersAsScripted, Exists, Views
  <2>5. \A i \in Idx : idx[i] = cat["st"].id /\ idxNew[i] = 0
    BY <2>1, <2>2 DEF Scripted, IndexesAsScripted, Idx, Views
  <2>6. SourceOf("st") = {"time", "space"}
    BY <2>1, <2>2 DEF Scripted, JoinsAsScripted, SourceOf, Exists, Views, StViews
  <2>7. cat["st"].data >= since
    BY <2>1, <2>2 DEF Scripted, ContentsSince, Exists, Views
  <2> QED
    BY <2>3, <2>4, <2>5, <2>6, <2>7
<1>2. QED
  BY <1>1, InitAsScripted, NextAsScripted, SchemaWellFormed, PTL DEF Spec

-----------------------------------------------------------------------------
\* Initially no refresh was started.
LEMMA InitRefreshInv == Init => RefreshInv
BY BoundsAssumption DEF Init, RefreshInv, RefreshOnItsWay, RefreshDependable, Running

\* A refresh between complete runs finds what it needs, and goes on with what
\* it has refreshed.
LEMMA NextRefreshInv == SchemaInv /\ AsScripted /\ RefreshInv /\ [Next]_vars => RefreshInv'
<1> SUFFICES ASSUME SchemaInv, AsScripted, RefreshInv, [Next]_vars PROVE RefreshInv'
  OBVIOUS
<1> USE DEF RefreshInv, RefreshOnItsWay, RefreshDependable
<1>a. /\ datasets \in Nat /\ rsince \in Nat /\ runs \in Nat /\ crashes \in Nat
      /\ cat \in [Views -> View] /\ overlap \in BOOLEAN
  BY DEF SchemaInv, TypeOK
\* Between complete runs.
<1>b. ASSUME crashes = 0, ~overlap, runs > 0
      PROVE  /\ Refreshable("time") /\ Refreshable("space") /\ Refreshable("st")
             /\ cat["st"].id = idx[Unique] /\ SourceOf("st") = {"time", "space"}
  <2>1. Pos = 22 /\ Scripted
    BY <1>b DEF Pos, AsScripted
  <2>2. \A n \in Views : cat[n].id = IF n \in {"time", "space", "st"} THEN runs ELSE 0
    BY <2>1 DEF Scripted, CatalogAsScripted, Views
  <2>3. Refreshable("time") /\ Refreshable("space") /\ Refreshable("st")
    BY <1>a, <1>b, <2>1, <2>2 DEF Scripted, OwnersAsScripted, Refreshable, Exists, Views
  <2>4. cat["st"].id = idx[Unique]
    BY <2>1, <2>2 DEF Scripted, IndexesAsScripted, Idx, Unique, Views
  <2>5. SourceOf("st") = {"time", "space"}
    BY <1>a, <1>b, <2>1, <2>2 DEF Scripted, JoinsAsScripted, SourceOf, Exists, Views, StViews
  <2> QED
    BY <2>3, <2>4, <2>5
<1>1. CASE UNCHANGED vars
  BY <1>1 DEF vars, schemaVars, refreshVars, Running
<1>2. CASE StartSchema
  BY <1>2 DEF StartSchema
<1>3. CASE Statement
  <2>1. Running /\ UNCHANGED <<datasets, refreshVars>>
    BY <1>3 DEF Statement, CreateSource, CreateJoin, CreateIndex, RenameView, DropView,
       RenameIndex, SetOwner, Frame, Is
  <2>2. overlap' /\ rsince' <= datasets'
    BY <1>a, <2>1 DEF refreshVars
  <2> QED
    BY <2>2
<1>4. CASE Crash
  BY <1>a, <1>4 DEF Crash, refreshVars
<1>5. ASSUME NEW r \in Readers, GrantRead(r) PROVE RefreshInv'
  BY <1>a, <1>5 DEF GrantRead, schemaVars, refreshVars, Running, Views, View
<1>6. CASE StartRefresh
  BY <1>a, <1>6 DEF StartRefresh, schemaVars, Running
<1>7. CASE RefreshSource
  <2> USE DEF schemaVars, Running
  <2>1. CASE Refreshable(refresh)
    BY <1>a, <1>7, <2>1 DEF RefreshSource, Views, View
  <2>2. CASE ~Refreshable(refresh)
    BY <1>a, <1>b, <1>7, <2>2 DEF RefreshSource, StopRefresh
  <2> QED
    BY <2>1, <2>2
<1>8. CASE RefreshJoin
  <2> USE DEF schemaVars, Running
  <2>1. CASE Refreshable("st") /\ cat["st"].id \in {idx[Unique], idxNew[Unique]}
    <3>1. SourceOf("st") # {}
      BY <2>1 DEF Refreshable, SchemaInv, SourcesStay, SourceOf, Exists, StViews
    <3>2. PICK m \in SourceOf("st") : Min({cat[n].data : n \in SourceOf("st")}) = cat[m].data
      BY <3>1, JoinedContent DEF SchemaInv
    <3>3. /\ cat' = [cat EXCEPT !["st"].data = cat[m].data]
          /\ refresh = "st" /\ refresh' = "idle" /\ refreshed' = "ok"
          /\ UNCHANGED <<schemaVars, datasets, rsince, overlap>>
      BY <1>8, <2>1, <3>2 DEF RefreshJoin
    <3>4. crashes = 0 /\ ~overlap /\ runs > 0 => cat'["st"].data >= rsince
      BY <1>a, <1>b, <3>2, <3>3 DEF Views, View
    <3> QED
      BY <3>3, <3>4
  <2>2. CASE ~(Refreshable("st") /\ cat["st"].id \in {idx[Unique], idxNew[Unique]})
    BY <1>a, <1>b, <1>8, <2>2 DEF RefreshJoin, StopRefresh
  <2> QED
    BY <2>1, <2>2
<1>9. CASE KillRefresh
  BY <1>9 DEF KillRefresh, StopRefresh, schemaVars, Running
<1>10. CASE AddDatasets
  BY <1>a, <1>10 DEF AddDatasets, schemaVars, refreshVars, Running
<1>11. QED
  BY <1>1, <1>2, <1>3, <1>4, <1>5, <1>6, <1>7, <1>8, <1>9, <1>10 DEF Next, Statement

\* A refresh between schema runs can be relied on as long as no run was killed.
THEOREM RefreshIsDependable == Spec => []RefreshDependable
<1>1. RefreshInv => RefreshDependable
  BY DEF RefreshInv
<1>2. Spec => []AsScripted
  BY InitAsScripted, NextAsScripted, SchemaWellFormed, PTL DEF Spec
<1>3. QED
  BY <1>1, <1>2, InitRefreshInv, NextRefreshInv, SchemaWellFormed, PTL DEF Spec
=============================================================================
