-------------------------- MODULE Configuration_proofs -------------------------
(***************************************************************************)
(* Proofs about the configuration, for any files, objects, layers and      *)
(* styles.  Reading it ends, because an include lies under as many         *)
(* different names as there are frames below it on the stack.  A picture   *)
(* shows what passes every mask and no more, and shows of a value map the  *)
(* first rule that matches: what is known of a picture when it is drawn    *)
(* stands, because the configuration does not change once the server is    *)
(* up.  That the rules of a list, painted over each other, leave the first *)
(* that matches is shown for lists of any length by comparing the fold     *)
(* with what it should be on a minimal set of indices where they would     *)
(* differ.  The other folds over lists (masks applied one after the other, *)
(* the dates of a mask flattened, styles of a layer, aliases of CRSs,      *)
(* groups of flag bands) are reasoned about in the same way.  Names that   *)
(* sections use of each other resolve, because what a layer is parsed      *)
(* from was parsed before it and is never replaced; a layer that is ready  *)
(* has been told what its styles load; and a section that is sound on its  *)
(* own keeps its turn until it is indexed, whatever is refused before it.  *)
(***************************************************************************)
EXTENDS StyleDrawing, FiniteSetTheorems, SequenceTheorems, TLAPS

\* What frames are made of when s is read.
HeldItems(s) == (UNION {Range(Files[p]) : p \in DOMAIN Files})
                \cup (UNION {Range(Objects[p]) : p \in DOMAIN Objects})
                \cup (IF s.is = "literal" THEN Range(s.items) ELSE {})
Dirs == {Here} \cup {Front(p) : p \in DOMAIN Files}
Frames(s) == [todo : Seq(HeldItems(s)), cwd : Dirs, inclusions : SUBSET RawPaths(s)]

\* A stack of frames, each under one more name than the frame below it.
Stacked(stack, s) ==
    /\ stack \in Seq(Frames(s))
    /\ \A i \in 1 .. Len(stack) : Cardinality(stack[i].inclusions) = i - 1

FilesInv ==
    /\ SourceSound(source)
    /\ Stacked(frames, source)
    /\ reading = "expanding" => frames # <<>>

\* What IsSequence says is what Seq says.
LEMMA SequenceOf ==
  ASSUME NEW s, IsSequence(s), NEW S, Range(s) \subseteq S
  PROVE  s \in Seq(S)
<1>1. s \in [1 .. Len(s) -> S]
  BY DEF IsSequence, Range
<1> QED BY <1>1, SeqDef DEF IsSequence

\* Files, objects and literal configurations are sequences of the items held.
LEMMA ItemsHeld ==
  ASSUME NEW s, SourceSound(s)
  PROVE  /\ \A p \in DOMAIN Files : Files[p] \in Seq(HeldItems(s))
         /\ \A p \in DOMAIN Objects : Objects[p] \in Seq(HeldItems(s))
         /\ s.is = "literal" => s.items \in Seq(HeldItems(s))
<1>1. ASSUME NEW p \in DOMAIN Files PROVE Files[p] \in Seq(HeldItems(s))
  <2>1. Range(Files[p]) \subseteq HeldItems(s)
    BY DEF HeldItems
  <2> QED BY <2>1, SequenceOf, FilesAssumption
<1>2. ASSUME NEW p \in DOMAIN Objects PROVE Objects[p] \in Seq(HeldItems(s))
  <2>1. Range(Objects[p]) \subseteq HeldItems(s)
    BY DEF HeldItems
  <2> QED BY <2>1, SequenceOf, FilesAssumption
<1>3. ASSUME s.is = "literal" PROVE s.items \in Seq(HeldItems(s))
  <2>1. Range(s.items) \subseteq HeldItems(s)
    BY <1>3 DEF HeldItems
  <2> QED BY <1>3, <2>1, SequenceOf DEF SourceSound
<1> QED BY <1>1, <1>2, <1>3

\* The name of an include held is one of the names that bound the inclusions.
LEMMA HeldNames ==
  ASSUME NEW s, NEW it \in HeldItems(s), it.is = "include"
  PROVE  it.raw \in RawPaths(s)
BY DEF HeldItems, RawPaths, IncludedBy, Range

\* Taking an item off the top of the stack leaves the stack what it was.
LEMMA TakingKeeps ==
  ASSUME FilesInv, reading = "expanding", Top.todo # <<>>
  PROVE  /\ Current \in HeldItems(source)
         /\ Top \in Frames(source)
         /\ Cardinality(Top.inclusions) = Len(frames) - 1
         /\ Len(Taken) = Len(frames)
         /\ Stacked(Taken, source)
<1> DEFINE n == Len(frames)
           top == [frames[n] EXCEPT !.todo = Tail(@)]
<1>1. frames \in Seq(Frames(source)) /\ n \in Nat /\ n >= 1
  BY EmptySeq DEF FilesInv, Stacked
<1>2. Top = frames[n] /\ Top \in Frames(source) /\ Cardinality(Top.inclusions) = n - 1
  BY <1>1, ElementOfSeq DEF Top, Last, FilesInv, Stacked
<1>3. Current \in HeldItems(source) /\ Tail(Top.todo) \in Seq(HeldItems(source))
  BY <1>2, HeadTailProperties DEF Current, Frames
<1>4. top \in Frames(source) /\ top.inclusions = frames[n].inclusions
  BY <1>2, <1>3 DEF Frames
<1>5. Taken = [frames EXCEPT ![n] = top]
  BY DEF Taken
<1>6. /\ Taken \in Seq(Frames(source))
      /\ Len(Taken) = n
      /\ \A j \in 1 .. n : Taken[j] = IF j = n THEN top ELSE frames[j]
  BY <1>1, <1>4, <1>5, ExceptSeq
<1>7. \A j \in 1 .. n : Taken[j].inclusions = frames[j].inclusions
  BY <1>4, <1>6
<1> QED BY <1>2, <1>3, <1>6, <1>7 DEF FilesInv, Stacked

\* An include that is not under its own name adds a frame under one more.
LEMMA IncludingStacks ==
  ASSUME FilesInv, reading = "expanding", Top.todo # <<>>,
         Current.is = "include", Current.raw \notin Top.inclusions,
         NEW its \in Seq(HeldItems(source)), NEW dir \in Dirs
  PROVE  /\ Stacked(Append(Taken, Frame(its, dir, Under)), source)
         /\ Append(Taken, Frame(its, dir, Under)) # <<>>
<1> DEFINE n == Len(frames)
           new == Frame(its, dir, Under)
<1>1. /\ Current.raw \in RawPaths(source)
      /\ Top.inclusions \subseteq RawPaths(source)
      /\ Cardinality(Top.inclusions) = n - 1
      /\ Taken \in Seq(Frames(source)) /\ Len(Taken) = n /\ n \in Nat
  BY TakingKeeps, HeldNames DEF Frames, Stacked, FilesInv
<1>2. IsFiniteSet(Top.inclusions)
  BY <1>1, FS_Subset DEF FilesInv, SourceSound
<1>3. Under \subseteq RawPaths(source) /\ Cardinality(Under) = n
  <2>1. Cardinality(Under) = Cardinality(Top.inclusions) + 1
    BY <1>2, FS_AddElement DEF Under
  <2> QED BY <1>1, <2>1 DEF Under
<1>4. new \in Frames(source) /\ new.inclusions = Under
  BY <1>3 DEF Frame, Frames
<1>5. /\ Append(Taken, new) \in Seq(Frames(source))
      /\ Append(Taken, new) # <<>>
      /\ Len(Append(Taken, new)) = n + 1
      /\ \A i \in 1 .. n : Append(Taken, new)[i] = Taken[i]
      /\ Append(Taken, new)[n + 1] = new
  BY <1>1, <1>4, AppendProperties
<1>6. \A i \in 1 .. n : Cardinality(Taken[i].inclusions) = i - 1
  BY <1>1, TakingKeeps DEF Stacked
<1>7. ASSUME NEW i \in 1 .. n + 1
      PROVE  Cardinality(Append(Taken, new)[i].inclusions) = i - 1
  <2>1. CASE i = n + 1
    BY <2>1, <1>1, <1>3, <1>4, <1>5
  <2>2. CASE i # n + 1
    <3>1. i \in 1 .. n
      BY <2>2, <1>1
    <3> QED BY <3>1, <1>5, <1>6
  <2> QED BY <2>1, <2>2
<1> QED BY <1>5, <1>7 DEF Stacked

\* The first frame is under no name.
LEMMA OpenedStacks ==
  ASSUME SourceSound(source), ~Missing(source), ~ObjectRefused(source)
  PROVE  Stacked(<<Opened(source)>>, source)
<1> DEFINE first == Opened(source)
<1>1. first \in Frames(source) /\ first.inclusions = {}
  <2>1. CASE source.is = "location"
    BY <2>1, ItemsHeld DEF Opened, Frame, Frames, Missing, Dirs
  <2>2. CASE source.is \in {"object", "attribute"}
    BY <2>2, ItemsHeld DEF Opened, Frame, Frames, Missing, ObjectRefused, Dirs
  <2>3. CASE source.is = "literal"
    BY <2>3, ItemsHeld DEF Opened, Frame, Frames, Dirs
  <2>4. CASE source.is = "unset"
    BY <2>4, ItemsHeld DEF Opened, Frame, Frames, Missing, Dirs
  <2> QED BY <2>1, <2>2, <2>3, <2>4 DEF SourceSound
<1>2. Cardinality({}) = 0
  BY FS_EmptySet
<1> QED BY <1>1, <1>2 DEF Stacked

\* Leaving an include takes its frame off the stack.
LEMMA FrontStacks ==
  ASSUME FilesInv, reading = "expanding"
  PROVE  /\ Stacked(Front(frames), source)
         /\ Len(frames) # 1 => Front(frames) # <<>>
<1> DEFINE n == Len(frames)
           front == [i \in 1 .. n - 1 |-> frames[i]]
<1>1. frames \in Seq(Frames(source)) /\ n \in Nat /\ n >= 1
  BY EmptySeq DEF FilesInv, Stacked
<1>2. Front(frames) = front
  BY <1>1 DEF Front
<1>3. front \in [1 .. n - 1 -> Frames(source)]
  BY <1>1, ElementOfSeq
<1>4. front \in Seq(Frames(source)) /\ Len(front) = n - 1
  BY <1>1, <1>3, SeqDef
<1>5. \A i \in 1 .. n - 1 : Cardinality(front[i].inclusions) = i - 1
  BY <1>1 DEF FilesInv, Stacked
<1>6. ASSUME n # 1, front = <<>> PROVE FALSE
  <2>1. \A seq : seq = <<>> => Len(seq) = 0
    OBVIOUS
  <2> HIDE DEF front
  <2> QED BY <1>1, <1>4, <1>6, <2>1
<1> QED BY <1>2, <1>4, <1>5, <1>6 DEF Stacked

\* Every step of reading keeps the invariant.
LEMMA ReadStep ==
  ASSUME FilesInv, ReadNext
  PROVE  FilesInv'
<1>1. source' = source
  BY DEF ReadNext, ReadConfig, ExpandValue, RefuseCycle, ExpandJSON, ExpandPython,
         RefuseType, EndOfInclude
<1>2. SourceSound(source)' /\ Frames(source)' = Frames(source)
  BY <1>1 DEF FilesInv
<1>3. Stacked(frames, source)' <=> Stacked(frames', source)
  BY <1>1
<1>4. CASE ReadConfig
  <2>1. CASE reading' = "expanding"
    BY <1>2, <1>3, <1>4, <2>1, OpenedStacks DEF ReadConfig, FilesInv
  <2>2. CASE reading' # "expanding"
    BY <1>2, <1>3, <1>4, <2>2 DEF ReadConfig, FilesInv
  <2> QED BY <2>1, <2>2
<1>5. CASE ExpandValue
  <2>1. Stacked(Taken, source) /\ Len(Taken) = Len(frames) /\ frames # <<>>
    BY <1>5, TakingKeeps DEF ExpandValue, FilesInv
  <2>2. Taken # <<>>
    BY <2>1, EmptySeq DEF Stacked, FilesInv
  <2> QED BY <1>2, <1>3, <1>5, <2>1, <2>2 DEF ExpandValue, FilesInv
<1>6. CASE RefuseCycle
  BY <1>2, <1>3, <1>6 DEF RefuseCycle, FilesInv
<1>7. CASE ExpandJSON
  <2>1. Top.cwd \in Dirs
    BY <1>7, TakingKeeps DEF ExpandJSON, Including, Frames
  <2>2. CASE FromHere \in DOMAIN Files
    <3>1. Files[FromHere] \in Seq(HeldItems(source)) /\ Front(FromHere) \in Dirs
      BY <2>2, ItemsHeld DEF FilesInv, Dirs
    <3> QED BY <1>2, <1>3, <1>7, <2>2, <3>1, IncludingStacks DEF ExpandJSON, Including, FilesInv
  <2>3. CASE FromHere \notin DOMAIN Files /\ FromCwd \in DOMAIN Files
    <3>1. Files[FromCwd] \in Seq(HeldItems(source))
      BY <2>3, ItemsHeld DEF FilesInv
    <3> QED BY <1>2, <1>3, <1>7, <2>1, <2>3, <3>1, IncludingStacks
            DEF ExpandJSON, Including, FilesInv
  <2>4. CASE FromHere \notin DOMAIN Files /\ FromCwd \notin DOMAIN Files
    BY <1>2, <1>3, <1>7, <2>4 DEF ExpandJSON, FilesInv
  <2> QED BY <2>2, <2>3, <2>4
<1>8. CASE ExpandPython
  <2>1. Top.cwd \in Dirs
    BY <1>8, TakingKeeps DEF ExpandPython, Including, Frames
  <2>2. CASE Current.raw \in DOMAIN Objects
    <3>1. Objects[Current.raw] \in Seq(HeldItems(source))
      BY <2>2, ItemsHeld DEF FilesInv
    <3> QED BY <1>2, <1>3, <1>8, <2>1, <2>2, <3>1, IncludingStacks
            DEF ExpandPython, Including, FilesInv
  <2>3. CASE Current.raw \notin DOMAIN Objects
    BY <1>2, <1>3, <1>8, <2>3 DEF ExpandPython, FilesInv
  <2> QED BY <2>2, <2>3
<1>9. CASE RefuseType
  BY <1>2, <1>3, <1>9 DEF RefuseType, FilesInv
<1>10. CASE EndOfInclude
  <2>1. Stacked(Front(frames), source) /\ (Len(frames) # 1 => Front(frames) # <<>>)
    BY <1>10, FrontStacks DEF EndOfInclude
  <2> QED BY <1>2, <1>3, <1>10, <2>1 DEF EndOfInclude, FilesInv
<1> QED BY <1>4, <1>5, <1>6, <1>7, <1>8, <1>9, <1>10 DEF ReadNext

\* The other steps of the server leave what was read alone.
LEMMA OthersLeaveFiles ==
  ASSUME [DrawNext]_<<vars, drawn>>
  PROVE  ReadNext \/ UNCHANGED <<source, frames, items, reading>>
<1>1. CASE UNCHANGED vars
  BY <1>1 DEF vars, fileVars
<1>2. CASE ReadFailed \/ ParseGlobal \/ ParseWMS \/ ParseWCS
  BY <1>2 DEF ReadFailed, ParseGlobal, ParseWMS, ParseWCS, Sections, fileVars
<1>3. CASE OpenRoot \/ ParseLayer
  BY <1>3 DEF OpenRoot, ParseLayer, fileVars
<1>4. CASE ParseFolder \/ CloseFolder
  BY <1>4 DEF ParseFolder, CloseFolder, fileVars
<1>5. CASE ParseWMTS \/ MakeReady \/ Up
  BY <1>5 DEF ParseWMTS, MakeReady, Up, Sections, fileVars
<1>6. CASE ReadNext
  BY <1>6
<1>7. CASE ConfigNext
  BY <1>2, <1>3, <1>4, <1>5, <1>6, <1>7 DEF ConfigNext
<1> QED BY <1>1, <1>7 DEF DrawNext

\* The invariant holds in every state of the server.
LEMMA FilesInvHolds == DrawSpec => []FilesInv
<1>1. DrawInit => FilesInv
  BY ConfigsAssumption, EmptySeq DEF DrawInit, ConfigInit, FilesInit, FilesInv, Stacked
<1>2. FilesInv /\ [DrawNext]_<<vars, drawn>> => FilesInv'
  <2> SUFFICES ASSUME FilesInv, [DrawNext]_<<vars, drawn>> PROVE FilesInv'
    OBVIOUS
  <2>1. CASE ReadNext
    BY <2>1, ReadStep
  <2>2. CASE UNCHANGED <<source, frames, items, reading>>
    BY <2>2 DEF FilesInv
  <2> QED BY <2>1, <2>2, OthersLeaveFiles
<1> QED BY <1>1, <1>2, PTL DEF DrawSpec

(* Reading the configuration ends for any files and objects that use finitely  *)
(* many names in their includes, in whatever cycles they include one another   *)
(* (config_utils.cfg_expand): at most one frame more than there are names.     *)
THEOREM InclusionsAlwaysBounded == DrawSpec => []InclusionsBounded
<1>1. FilesInv => InclusionsBounded
  <2> SUFFICES ASSUME FilesInv PROVE InclusionsBounded
    OBVIOUS
  <2> DEFINE n == Len(frames)
  <2>1. /\ frames \in Seq(Frames(source)) /\ n \in Nat
        /\ IsFiniteSet(RawPaths(source)) /\ Cardinality(RawPaths(source)) \in Nat
    BY EmptySeq, FS_CardinalityType DEF FilesInv, Stacked, SourceSound
  <2>2. CASE n = 0
    BY <2>1, <2>2 DEF InclusionsBounded
  <2>3. CASE n >= 1
    <3>0. n \in 1 .. n /\ frames[n] \in Frames(source)
      BY <2>1, <2>3, ElementOfSeq
    <3>1. /\ frames[n].inclusions \subseteq RawPaths(source)
          /\ Cardinality(frames[n].inclusions) = n - 1
      BY <3>0 DEF Frames, FilesInv, Stacked
    <3>2. Cardinality(frames[n].inclusions) <= Cardinality(RawPaths(source))
      BY <2>1, <3>1, FS_Subset
    <3> QED BY <2>1, <3>1, <3>2 DEF InclusionsBounded
  <2> QED BY <2>1, <2>2, <2>3
<1> QED BY <1>1, FilesInvHolds, PTL

-----------------------------------------------------------------------------
(* Rules painted over each other.                                               *)
-----------------------------------------------------------------------------

\* Among sets of subsets of a finite set there is always a minimal one.
LEMMA MinimalSubset ==
  ASSUME NEW S, IsFiniteSet(S), NEW T \in SUBSET SUBSET S, T # {}
  PROVE  \E t \in T : \A u \in T : u \subseteq t => u = t
<1>1. IsWellFoundedOn(StrictSubsetOrdering(S), SUBSET S)
  BY FS_StrictSubsetOrderingWellFounded, FS_FiniteSubsetsOfFinite
<1>2. PICK t \in T : \A u \in T : <<u, t>> \notin StrictSubsetOrdering(S)
  BY <1>1, WFMin
<1>3. ASSUME NEW u \in T, u \subseteq t, u # t PROVE FALSE
  BY <1>2, <1>3 DEF StrictSubsetOrdering
<1>4. QED
  BY <1>3

\* Numbers between 1 and n have a greatest one among them.
LEMMA GreatestNumber ==
  ASSUME NEW n \in Nat, NEW s \in SUBSET (1 .. n), s # {}
  PROVE  Max(s) \in s /\ \A k \in s : k <= Max(s)
<1> DEFINE Bounds == {m \in 0 .. n : \A k \in s : k <= m}
<1>1. n \in Bounds /\ Bounds \subseteq Nat
  OBVIOUS
<1>2. PICK m \in Bounds : \A k \in Bounds : <<k, m>> \notin OpToRel(<, Nat)
  <2> HIDE DEF Bounds
  <2> QED BY <1>1, NatLessThanWellFounded, WFMin
<1>3. \A k \in Bounds : ~(k < m)
  BY <1>1, <1>2 DEF OpToRel
<1>4. m \in s
  <2>0. m \in 0 .. n /\ \A k \in s : k <= m
    OBVIOUS
  <2>1. m # 0
    <3>1. PICK k \in s : k \in 1 .. n
      OBVIOUS
    <3> QED BY <2>0, <3>1
  <2>2. SUFFICES ASSUME m \notin s PROVE FALSE
    OBVIOUS
  <2>3. m - 1 \in Bounds
    BY <2>0, <2>1, <2>2
  <2> QED BY <1>3, <2>0, <2>3
<1>5. \E x \in s : \A y \in s : x >= y
  BY <1>4
<1>6. Max(s) \in s /\ \A y \in s : Max(s) >= y
  BY <1>5 DEF Max
<1> QED BY <1>6

\* And a least one.
LEMMA SmallestNumber ==
  ASSUME NEW n \in Nat, NEW s \in SUBSET (1 .. n), s # {}
  PROVE  Min(s) \in s /\ \A k \in s : Min(s) <= k
<1>0. s \subseteq Nat
  OBVIOUS
<1>1. PICK m \in s : \A k \in s : <<k, m>> \notin OpToRel(<, Nat)
  BY <1>0, NatLessThanWellFounded, WFMin
<1>3. \A k \in s : ~(k < m)
  BY <1>0, <1>1 DEF OpToRel
<1>2. \E x \in s : \A y \in s : x =< y
  BY <1>0, <1>3
<1> QED BY <1>2 DEF Min

\* The colour a matching rule paints.
Paint(rule) == Colour(Grey(rule["color"].v), IF On(rule, "mask") THEN 0 ELSE Opt(rule, "alpha", 255))

\* The rules of a list that match a value.
Hits(rules, v, dated) == {i \in DOMAIN rules : Shows(rules[i].v, v, dated)}

\* Painting a list of rules, any list, on a value paints what the first rule that
\* matches paints, and nothing if none does (apply_value_map, which paints them in
\* the reverse order).
THEOREM FirstRulePaints ==
  ASSUME NEW rules, IsSequence(rules), NEW v, NEW dated
  PROVE  PaintBand(rules, v, dated) =
             IF Hits(rules, v, dated) = {} THEN Transparent
             ELSE Paint(rules[Min(Hits(rules, v, dated))].v)
<1> DEFINE n == Len(rules)
           S == 1 .. n
           rev == Reverse(rules)
           show(i) == Shows(rev[i].v, v, dated)
           hits(s) == {i \in s : show(i)}
           Step(under, i) == IF show(i) THEN Paint(rev[i].v) ELSE under
           Defines(h) == h = [s \in SUBSET S |-> IF s = {} THEN Transparent
                                                 ELSE Step(h[s \ {Max(s)}], Max(s))]
           iter == CHOOSE h : Defines(h)
           top == [s \in SUBSET S |-> IF hits(s) = {} THEN Transparent ELSE Paint(rev[Max(hits(s))].v)]
<1>1. n \in Nat /\ DOMAIN rules = S /\ rev = [i \in S |-> rules[n - i + 1]]
  BY DEF IsSequence, Reverse
<1>2. DOMAIN rev = S
  BY <1>1
<1>3. PaintBand(rules, v, dated) = iter[S]
  <2>1. PaintBand(rules, v, dated) = (CHOOSE h : h = [s \in SUBSET DOMAIN rev |-> 
           IF s = {} THEN Transparent ELSE Step(h[s \ {Max(s)}], Max(s))])[DOMAIN rev]
    BY DEF PaintBand, PaintOrder, FoldLeft, MapThenFoldSet, Paint
  <2> QED BY <1>2, <2>1
<1>4. Defines(top)
  <2>1. ASSUME NEW s \in SUBSET S, s # {}
        PROVE  top[s] = Step(top[s \ {Max(s)}], Max(s))
    <3> DEFINE m == Max(s)
    <3>1. m \in s /\ \A k \in s : k <= m
      BY <1>1, <2>1, GreatestNumber
    <3> HIDE DEF m
    <3>2. s \ {m} \in SUBSET S
      OBVIOUS
    <3>3. CASE show(m)
      <4>1. hits(s) # {} /\ hits(s) \in SUBSET (1 .. n) /\ m \in hits(s)
        BY <3>1, <3>3
      <4>2. Max(hits(s)) \in hits(s) /\ \A k \in hits(s) : k <= Max(hits(s))
        <5> HIDE DEF hits
        <5> QED BY <1>1, <4>1, GreatestNumber
      <4>3. Max(hits(s)) = m
        <5>1. Max(hits(s)) \in s /\ m <= Max(hits(s)) /\ Max(hits(s)) <= m
          BY <3>1, <4>1, <4>2
        <5>2. m \in Int /\ Max(hits(s)) \in Int
          <6>1. \A k \in s : k \in Int
            BY <1>1, <2>1
          <6> HIDE DEF hits
          <6> QED BY <3>1, <5>1, <6>1
        <5> HIDE DEF hits
        <5> QED BY <5>1, <5>2
      <4> HIDE DEF hits, show
      <4>4. top[s] = Paint(rev[m].v)
        BY <4>1, <4>3
      <4> HIDE DEF top
      <4> QED BY <3>3, <4>4 DEF m
    <3>4. CASE ~show(m)
      <4>1. hits(s) = hits(s \ {m})
        BY <3>4
      <4> HIDE DEF hits, show
      <4>2. top[s] = top[s \ {m}]
        BY <3>2, <4>1
      <4> HIDE DEF top
      <4> QED BY <3>4, <4>2 DEF m
    <3> QED BY <3>3, <3>4
  <2>2. top[{}] = Transparent
    OBVIOUS
  <2>3. \A s \in SUBSET S : top[s] = IF s = {} THEN Transparent ELSE Step(top[s \ {Max(s)}], Max(s))
    <3> HIDE DEF top, Step
    <3> QED BY <2>1, <2>2
  <2>4. top = [s \in SUBSET S |-> top[s]]
    OBVIOUS
  <2> HIDE DEF top, Step
  <2> QED BY <2>3, <2>4
<1>5. \A s \in SUBSET S : iter[s] = IF s = {} THEN Transparent ELSE Step(iter[s \ {Max(s)}], Max(s))
  <2>1. Defines(iter)
    <3> HIDE DEF top, Defines
    <3> QED BY <1>4
  <2> HIDE DEF iter, Step
  <2> QED BY <2>1
<1>6. \A s \in SUBSET S : top[s] = IF s = {} THEN Transparent ELSE Step(top[s \ {Max(s)}], Max(s))
  <2> HIDE DEF top, Step
  <2> QED BY <1>4
<1>7. iter[S] = top[S]
  <2> DEFINE Differ == {s \in SUBSET S : iter[s] # top[s]}
  <2> HIDE DEF iter, top, Step
  <2>1. SUFFICES ASSUME Differ # {} PROVE FALSE
    OBVIOUS
  <2>2. PICK s \in Differ : \A u \in Differ : u \subseteq s => u = s
    <3>1. Differ \in SUBSET SUBSET S /\ IsFiniteSet(S)
      BY <1>1, FS_Interval
    <3> HIDE DEF Differ, S
    <3> QED BY <2>1, <3>1, MinimalSubset
  <2>3. s \in SUBSET S /\ iter[s] # top[s]
    OBVIOUS
  <2>4. s # {}
    BY <1>5, <1>6, <2>3
  <2>5. Max(s) \in s
    BY <1>1, <2>3, <2>4, GreatestNumber
  <2>6. iter[s \ {Max(s)}] = top[s \ {Max(s)}]
    BY <2>2, <2>3, <2>5
  <2>7. iter[s] = Step(iter[s \ {Max(s)}], Max(s)) /\ top[s] = Step(top[s \ {Max(s)}], Max(s))
    BY <1>5, <1>6, <2>3, <2>4
  <2> QED BY <2>3, <2>6, <2>7
<1>8. top[S] = IF hits(S) = {} THEN Transparent ELSE Paint(rev[Max(hits(S))].v)
  <2>1. S \in SUBSET S
    OBVIOUS
  <2> HIDE DEF hits, rev
  <2> QED BY <2>1
<1> DEFINE H == Hits(rules, v, dated)
<1>9. \A i \in S : i \in hits(S) <=> (n - i + 1) \in H
  <2>1. ASSUME NEW i \in S PROVE rev[i] = rules[n - i + 1] /\ n - i + 1 \in S
    BY <1>1
  <2> HIDE DEF rev
  <2> QED BY <1>1, <2>1 DEF Hits
<1>10. hits(S) \subseteq S /\ H \subseteq S
  BY <1>1 DEF Hits
<1> HIDE DEF hits, H, top, iter
<1>11. CASE H = {}
  <2>1. hits(S) = {}
    BY <1>9, <1>10, <1>11
  <2> QED BY <1>3, <1>7, <1>8, <1>11, <2>1 DEF H
<1>12. CASE H # {}
  <2>1. Min(H) \in H /\ \A k \in H : Min(H) <= k
    BY <1>1, <1>10, <1>12, SmallestNumber
  <2>2. n - Min(H) + 1 \in S /\ n - (n - Min(H) + 1) + 1 = Min(H)
    <3>1. \A k \in 1 .. n : n - k + 1 \in 1 .. n /\ n - (n - k + 1) + 1 = k
      BY <1>1
    <3>2. Min(H) \in 1 .. n
      BY <1>10, <2>1
    <3> QED BY <3>1, <3>2
  <2>3. n - Min(H) + 1 \in hits(S)
    BY <1>9, <2>1, <2>2
  <2>4. Max(hits(S)) \in hits(S) /\ \A k \in hits(S) : k <= Max(hits(S))
    BY <1>1, <1>10, <2>3, GreatestNumber
  <2>5. Max(hits(S)) = n - Min(H) + 1
    <3> DEFINE m == Max(hits(S))
    <3>1. m \in S /\ n - m + 1 \in H /\ n - Min(H) + 1 <= m
      BY <1>9, <1>10, <2>3, <2>4
    <3>2. Min(H) <= n - m + 1 /\ Min(H) \in S
      BY <1>10, <2>1, <3>1
    <3> HIDE DEF m
    <3> QED BY <1>1, <3>1, <3>2 DEF m
  <2>6. rev[Max(hits(S))] = rules[Min(H)]
    BY <1>1, <2>2, <2>5
  <2>7. hits(S) # {}
    BY <2>3
  <2> HIDE DEF rev
  <2> QED BY <1>3, <1>7, <1>8, <1>12, <2>6, <2>7 DEF H
<1> QED BY <1>11, <1>12

-----------------------------------------------------------------------------
(* Folds over lists.                                                            *)
-----------------------------------------------------------------------------

\* What holds at 0 and is handed from each number to the next holds up to n.
LEMMA EveryNumber ==
  ASSUME NEW n \in Nat, NEW good, 0 \in good, \A k \in 1 .. n : k - 1 \in good => k \in good
  PROVE  n \in good
<1> DEFINE bad == {k \in 1 .. n : k \notin good}
<1>1. SUFFICES ASSUME bad # {} PROVE FALSE
  OBVIOUS
<1>2. Min(bad) \in bad /\ \A k \in bad : Min(bad) <= k
  <2>1. bad \in SUBSET (1 .. n)
    OBVIOUS
  <2> HIDE DEF bad
  <2> QED BY <1>1, <2>1, SmallestNumber
<1> DEFINE m == Min(bad)
<1>3. m \in 1 .. n /\ m \notin good /\ \A k \in bad : m <= k
  BY <1>2
<1> HIDE DEF m
<1>4. m - 1 \notin good
  BY <1>3
<1>5. m - 1 \in 1 .. n
  BY <1>3, <1>4
<1>6. m - 1 \in bad
  BY <1>4, <1>5
<1> QED BY <1>3, <1>5, <1>6

\* What holds of no indices and is handed on with every next one holds of any.
LEMMA EverySubset ==
  ASSUME NEW n \in Nat, NEW good, {} \in good,
         \A s \in SUBSET (1 .. n) : s # {} /\ s \ {Max(s)} \in good => s \in good
  PROVE  \A s \in SUBSET (1 .. n) : s \in good
<1> DEFINE bad == {s \in SUBSET (1 .. n) : s \notin good}
<1>1. SUFFICES ASSUME bad # {} PROVE FALSE
  OBVIOUS
<1>2. PICK s \in bad : \A u \in bad : u \subseteq s => u = s
  <2> DEFINE all == 1 .. n
  <2>1. bad \in SUBSET SUBSET all /\ IsFiniteSet(all)
    BY FS_Interval
  <2> HIDE DEF bad, all
  <2> QED BY <1>1, <2>1, MinimalSubset
<1>3. s \in SUBSET (1 .. n) /\ s \notin good /\ s # {}
  BY <1>2
<1>4. Max(s) \in s
  BY <1>3, GreatestNumber
<1>5. s \ {Max(s)} \notin bad
  BY <1>2, <1>4
<1> QED BY <1>3, <1>5

\* The greatest index of a set of indices is the last of the numbers up to it.
LEMMA LastIndex ==
  ASSUME NEW n \in Nat, NEW k \in 1 .. n, NEW s \in SUBSET (1 .. k), k \in s
  PROVE  Max(s) = k
<1>1. k \in Nat
  OBVIOUS
<1>2. Max(s) \in s /\ k <= Max(s)
  BY <1>1, GreatestNumber
<1>3. \A m \in 1 .. k : k <= m => m = k
  OBVIOUS
<1> QED BY <1>2, <1>3

\* h folds, from base, the steps of the indices up to n.
Folded(h, base, step, n) ==
    \A s \in SUBSET (1 .. n) : h[s] = IF s = {} THEN base ELSE step[<<h[s \ {Max(s)}], Max(s)>>]

\* Steps within a set can be folded within the set.
LEMMA FoldWithin ==
  ASSUME NEW n \in Nat, NEW A, NEW base \in A, NEW step \in [A \X (1 .. n) -> A]
  PROVE  \E h \in [SUBSET (1 .. n) -> A] : Folded(h, base, step, n)
<1> DEFINE good == {k \in 0 .. n : \E h \in [SUBSET (1 .. k) -> A] : Folded(h, base, step, k)}
<1>1. 0 \in good
  <2> DEFINE h == [s \in SUBSET (1 .. 0) |-> base]
  <2>1. h \in [SUBSET (1 .. 0) -> A] /\ Folded(h, base, step, 0)
    BY DEF Folded
  <2> QED BY <2>1
<1>2. ASSUME NEW k \in 1 .. n, k - 1 \in good PROVE k \in good
  <2>1. PICK h \in [SUBSET (1 .. k - 1) -> A] : Folded(h, base, step, k - 1)
    BY <1>2
  <2> DEFINE next == [s \in SUBSET (1 .. k) |-> IF k \in s THEN step[<<h[s \ {k}], k>>] ELSE h[s]]
  <2>2. \A s \in SUBSET (1 .. k) : s \ {k} \in SUBSET (1 .. k - 1)
    OBVIOUS
  <2>3. \A s \in SUBSET (1 .. k) : k \notin s => s \in SUBSET (1 .. k - 1)
    OBVIOUS
  <2>4. next \in [SUBSET (1 .. k) -> A]
    BY <2>1, <2>2, <2>3
  <2>5. \A s \in SUBSET (1 .. k - 1) : next[s] = h[s]
    OBVIOUS
  <2>6. \A s \in SUBSET (1 .. k) : k \in s => next[s] = step[<<h[s \ {k}], k>>]
    OBVIOUS
  <2> HIDE DEF next
  <2>7. ASSUME NEW s \in SUBSET (1 .. k)
        PROVE  next[s] = IF s = {} THEN base ELSE step[<<next[s \ {Max(s)}], Max(s)>>]
    <3>1. CASE k \in s
      <4>1. Max(s) = k /\ next[s \ {k}] = h[s \ {k}]
        BY <2>2, <2>5, <3>1, LastIndex
      <4> QED BY <2>6, <3>1, <4>1
    <3>2. CASE k \notin s
      <4>1. s \in SUBSET (1 .. k - 1) /\ next[s] = h[s]
        BY <2>3, <2>5, <3>2
      <4>2. s \ {Max(s)} \in SUBSET (1 .. k - 1)
        BY <4>1
      <4>3. next[s \ {Max(s)}] = h[s \ {Max(s)}]
        BY <2>5, <4>2
      <4> QED BY <2>1, <4>1, <4>3 DEF Folded
    <3> QED BY <3>1, <3>2
  <2>8. Folded(next, base, step, k)
    BY <2>7 DEF Folded
  <2>9. \E f \in [SUBSET (1 .. k) -> A] : Folded(f, base, step, k)
    BY <2>4, <2>8
  <2> QED BY <2>9
<1>3. n \in good
  <2> HIDE DEF good
  <2> QED BY <1>1, <1>2, EveryNumber
<1> QED BY <1>3

\* What is numbered from 1 on.
Numbered(s) == \E n \in Nat : DOMAIN s = 1 .. n

\* A list of outcomes without a bad one has none that is bad.
LEMMA AllOk ==
  ASSUME NEW outcomes, Numbered(outcomes), FirstBad(outcomes) = "ok"
  PROVE  \A i \in DOMAIN outcomes : outcomes[i] = "ok"
<1> DEFINE bad == {i \in DOMAIN outcomes : outcomes[i] # "ok"}
<1>1. SUFFICES ASSUME bad # {} PROVE FALSE
  OBVIOUS
<1>2. Min(bad) \in bad
  <2>1. PICK n \in Nat : bad \in SUBSET (1 .. n)
    BY DEF Numbered
  <2> HIDE DEF bad
  <2> QED BY <1>1, <2>1, SmallestNumber
<1> QED BY <1>1, <1>2 DEF FirstBad

\* Every CRS of f is one of its own or an alias of one of f.
AliasesWithin(f) == \A c \in DOMAIN f : f[c] = NoName \/ f[c] \in DOMAIN f

\* CRSs with aliases among the names.
AliasMaps(names) == {f \in UNION {[X -> {NoName} \cup names] : X \in SUBSET names} : AliasesWithin(f)}

\* An alias that is added is one of what is published.
LEMMA AliasAdded ==
  ASSUME NEW names, NEW f \in AliasMaps(names), NEW c, c.name \in names
  PROVE  AddAlias(f, c) \in AliasMaps(names)
<1> DEFINE alias == c.def["alias"].v
           new == WithEntry(f, c.name, alias)
<1>1. SUFFICES ASSUME alias \in DOMAIN f PROVE new \in AliasMaps(names)
  BY DEF AddAlias
<1>2. PICK X \in SUBSET names : f \in [X -> {NoName} \cup names]
  BY DEF AliasMaps
<1>3. AliasesWithin(f)
  BY DEF AliasMaps
<1> HIDE DEF alias
<1>4. new \in [X \cup {c.name} -> {NoName} \cup names]
  BY <1>1, <1>2 DEF WithEntry
<1>5. \A x \in DOMAIN new : x # c.name => x \in DOMAIN f /\ new[x] = f[x]
  BY <1>2 DEF WithEntry
<1>6. DOMAIN f \subseteq DOMAIN new /\ new[c.name] = alias
  BY <1>2 DEF WithEntry
<1> HIDE DEF new
<1>7. AliasesWithin(new)
  BY <1>1, <1>3, <1>5, <1>6 DEF AliasesWithin
<1>8. X \cup {c.name} \in SUBSET names
  OBVIOUS
<1> QED BY <1>4, <1>7, <1>8 DEF AliasMaps

\* Every CRS that is published is one of its own or an alias of one published.
LEMMA PublishedResolved ==
  ASSUME NEW crss, IsSequence(crss)
  PROVE  AliasesWithin(Published(crss))
<1> DEFINE n == Len(crss)
           plain == {c.name : c \in {x \in Range(crss) : ~Has(x.def, "alias")}}
           added == IF WebMercator \in plain THEN {PacificMercator} ELSE {}
           names == plain \cup added \cup {crss[i].name : i \in 1 .. n}
           base == [c \in plain \cup added |-> NoName]
           A == AliasMaps(names)
           Defines(h) == h = [s \in SUBSET (1 .. n) |->
                                 IF s = {} THEN base ELSE AddAlias(h[s \ {Max(s)}], crss[Max(s)])]
           iter == CHOOSE h : Defines(h)
           step == [p \in A \X (1 .. n) |-> AddAlias(p[1], crss[p[2]])]
<1>1. n \in Nat /\ DOMAIN crss = 1 .. n
  BY DEF IsSequence
<1>2. Published(crss) = iter[1 .. n]
  <2>1. Published(crss) = (CHOOSE h : h = [s \in SUBSET DOMAIN crss |->
            IF s = {} THEN base ELSE AddAlias(h[s \ {Max(s)}], crss[Max(s)])])[DOMAIN crss]
    BY DEF Published, FoldLeft, MapThenFoldSet
  <2> QED BY <1>1, <2>1
<1>3. base \in A
  <2>1. base \in [plain \cup added -> {NoName} \cup names] /\ plain \cup added \in SUBSET names
    OBVIOUS
  <2>2. AliasesWithin(base)
    BY DEF AliasesWithin
  <2> HIDE DEF base, plain, added, names
  <2> QED BY <2>1, <2>2 DEF AliasMaps
<1>4. step \in [A \X (1 .. n) -> A]
  <2>1. ASSUME NEW f \in A, NEW i \in 1 .. n PROVE AddAlias(f, crss[i]) \in A
    BY AliasAdded
  <2> HIDE DEF A
  <2> QED BY <2>1
<1> HIDE DEF base, A
<1>5. PICK h \in [SUBSET (1 .. n) -> A] : Folded(h, base, step, n)
  <2> HIDE DEF step
  <2> QED BY <1>1, <1>3, <1>4, FoldWithin
<1>6. Defines(h)
  <2>1. ASSUME NEW s \in SUBSET (1 .. n), s # {}
        PROVE  h[s] = AddAlias(h[s \ {Max(s)}], crss[Max(s)])
    <3>1. Max(s) \in 1 .. n /\ h[s \ {Max(s)}] \in A
      BY <1>1, <2>1, GreatestNumber
    <3>2. h[s] = step[<<h[s \ {Max(s)}], Max(s)>>]
      BY <1>5, <2>1 DEF Folded
    <3> QED BY <3>1, <3>2
  <2>2. h[{}] = base
    BY <1>5 DEF Folded
  <2>3. \A s \in SUBSET (1 .. n) :
            h[s] = IF s = {} THEN base ELSE AddAlias(h[s \ {Max(s)}], crss[Max(s)])
    BY <2>1, <2>2
  <2> QED BY <2>3
<1>7. \A s \in SUBSET (1 .. n) :
          iter[s] = IF s = {} THEN base ELSE AddAlias(iter[s \ {Max(s)}], crss[Max(s)])
  <2>1. Defines(iter)
    <3> HIDE DEF Defines
    <3> QED BY <1>6
  <2> HIDE DEF iter
  <2> QED BY <2>1
<1> DEFINE good == {s \in SUBSET (1 .. n) : iter[s] \in A}
<1>8. {} \in good
  BY <1>3, <1>7
<1>9. ASSUME NEW s \in SUBSET (1 .. n), s # {}, s \ {Max(s)} \in good PROVE s \in good
  <2> DEFINE m == Max(s)
  <2>1. m \in 1 .. n
    BY <1>1, <1>9, GreatestNumber
  <2>2. iter[s \ {m}] \in A /\ iter[s] = AddAlias(iter[s \ {m}], crss[m])
    BY <1>7, <1>9
  <2>3. crss[m].name \in names
    BY <2>1
  <2> HIDE DEF m, iter, names
  <2> QED BY <2>2, <2>3, AliasAdded DEF A
<1>10. 1 .. n \in good
  <2>1. 1 .. n \in SUBSET (1 .. n)
    OBVIOUS
  <2> HIDE DEF good
  <2> QED BY <1>1, <1>8, <1>9, <2>1, EverySubset
<1> HIDE DEF iter
<1> QED BY <1>2, <1>10 DEF A, AliasMaps

-----------------------------------------------------------------------------
(* What pictures show.                                                          *)
-----------------------------------------------------------------------------

\* Once the server is up, its configuration stands.
LEMMA UpStands ==
  ASSUME ConfigNext, stage = "up"
  PROVE  UNCHANGED <<stage, index>>
<1>1. CASE ReadNext /\ UNCHANGED parseVars
  BY <1>1 DEF parseVars
<1>2. ~(ReadFailed \/ ParseGlobal \/ ParseWMS \/ ParseWCS \/ OpenRoot \/ ParseLayer)
  BY DEF ReadFailed, ParseGlobal, ParseWMS, ParseWCS, OpenRoot, ParseLayer
<1>3. ~(ParseFolder \/ CloseFolder \/ ParseWMTS \/ MakeReady \/ Up)
  BY DEF ParseFolder, CloseFolder, ParseWMTS, MakeReady, Up
<1> QED BY <1>1, <1>2, <1>3 DEF ConfigNext

\* A sequence of k frames.
FramesOf(slices, k) == slices = [i \in 1 .. k |-> slices[i]]

\* A picture has one frame, or one for every date.
LEMMA PictureHasFrames ==
  ASSUME NEW lyr, NEW st, NEW data, NEW d \in Nat, NEW computed,
         NEW slices \in Transformed(lyr, st, data, d, computed)
  PROVE  \E k \in {1, d} : FramesOf(slices, k)
<1> DEFINE Framed(x) == \E k \in {1, d} : FramesOf(x, k)
<1>1. \A c : Framed(<<c>>)
  <2> SUFFICES ASSUME NEW c PROVE Framed(<<c>>)
    OBVIOUS
  <2>1. FramesOf(<<c>>, 1)
    BY DEF FramesOf
  <2> QED BY <2>1
<1>2. \A X : \A x \in [1 .. d -> X] : Framed(x)
  BY DEF FramesOf
<1> HIDE DEF Framed
<1>3. ASSUME NEW h, NEW x \in Handled(lyr, st, h, data, d, computed) PROVE Framed(x)
  <2> DEFINE date(i) == IF st.kind = "hybrid" THEN Ramped(st.raw, FALSE, computed[i])
                        ELSE OneDate(lyr, st, At(data, i), computed[i])
             map == MapOf(st, h)
  <2>1. CASE PerDate(st, h)
    <3>1. x \in [1 .. d -> UNION {date(i) : i \in 1 .. d}]
      BY <1>3, <2>1 DEF Handled
    <3> QED BY <1>2, <3>1
  <2>2. CASE ~PerDate(st, h) /\ st.kind # "map"
    <3>1. x \in {<<c>> : c \in Ramped(h, st.kind = "ramp", computed[1])}
      BY <1>3, <2>2 DEF Handled
    <3> QED BY <1>1, <3>1
  <2>3. CASE ~PerDate(st, h) /\ st.kind = "map" /\ Aggregated(h)
    <3>1. x \in UNION {{<<c>> : c \in ValueMapped(map, Columns(lyr, map, agg), FALSE)} :
                          agg \in [DOMAIN data -> Values]}
      BY <1>3, <2>3 DEF Handled
    <3> QED BY <1>1, <3>1
  <2>4. CASE ~PerDate(st, h) /\ st.kind = "map" /\ ~Aggregated(h)
    <3>1. x \in {<<c>> : c \in ValueMapped(map, Columns(lyr, map, data), TRUE)}
      BY <1>3, <2>4 DEF Handled
    <3> QED BY <1>1, <3>1
  <2> QED BY <2>1, <2>2, <2>3, <2>4
<1>4. \A x : Framed(x) => Framed(Collapsed(st, x))
  BY <1>1 DEF Collapsed
<1>5. Framed(slices)
  BY <1>1, <1>3, <1>4 DEF Transformed
<1> QED BY <1>5 DEF Framed

\* The extent has the pixel on the date, and every mask lets it pass.
Passes(st, data, valid, i) ==
    valid[i] /\ \A m \in Range(st.masks) : Matches(m, data[m["band"].v][i])

\* However many masks a style has, its mask is what all of them let pass.
LEMMA MasksApplied ==
  ASSUME NEW st, IsSequence(st.masks), NEW data, NEW d \in Nat, NEW valid \in [1 .. d -> BOOLEAN]
  PROVE  /\ ToMask(st, data, valid) \in [1 .. d -> BOOLEAN]
         /\ \A i \in 1 .. d : ToMask(st, data, valid)[i] <=> Passes(st, data, valid, i)
<1> DEFINE masks == st.masks
           n == Len(masks)
           A == [1 .. d -> BOOLEAN]
           Lets(j, i) == Matches(masks[j], data[masks[j]["band"].v][i])
           Narrow(result, j) == [i \in DOMAIN valid |-> result[i] /\ Lets(j, i)]
           Defines(h) == h = [s \in SUBSET (1 .. n) |->
                                 IF s = {} THEN valid ELSE Narrow(h[s \ {Max(s)}], Max(s))]
           iter == CHOOSE h : Defines(h)
           step == [p \in A \X (1 .. n) |-> Narrow(p[1], p[2])]
<1>1. n \in Nat /\ DOMAIN masks = 1 .. n /\ DOMAIN valid = 1 .. d
  BY DEF IsSequence
<1>2. ToMask(st, data, valid) = iter[1 .. n]
  <2>1. ToMask(st, data, valid) = (CHOOSE h : h = [s \in SUBSET DOMAIN masks |->
            IF s = {} THEN valid ELSE Narrow(h[s \ {Max(s)}], Max(s))])[DOMAIN masks]
    BY DEF ToMask, FoldLeft, MapThenFoldSet
  <2> QED BY <1>1, <2>1
<1> HIDE DEF Lets
<1>3. \A result \in A, j \in 1 .. n :
         Narrow(result, j) \in A /\ \A i \in 1 .. d : Narrow(result, j)[i] <=> result[i] /\ Lets(j, i)
  BY <1>1
<1> HIDE DEF Narrow
<1>4. step \in [A \X (1 .. n) -> A]
  BY <1>3
<1> HIDE DEF A
<1>5. PICK h \in [SUBSET (1 .. n) -> A] : Folded(h, valid, step, n)
  <2>1. valid \in A
    BY DEF A
  <2> HIDE DEF step
  <2> QED BY <1>1, <1>4, <2>1, FoldWithin
<1>6. Defines(h)
  <2>1. ASSUME NEW s \in SUBSET (1 .. n), s # {}
        PROVE  h[s] = Narrow(h[s \ {Max(s)}], Max(s))
    <3>1. Max(s) \in 1 .. n /\ h[s \ {Max(s)}] \in A
      BY <1>1, <2>1, GreatestNumber
    <3>2. h[s] = step[<<h[s \ {Max(s)}], Max(s)>>]
      BY <1>5, <2>1 DEF Folded
    <3> QED BY <3>1, <3>2
  <2>2. h[{}] = valid
    BY <1>5 DEF Folded
  <2>3. \A s \in SUBSET (1 .. n) :
            h[s] = IF s = {} THEN valid ELSE Narrow(h[s \ {Max(s)}], Max(s))
    BY <2>1, <2>2
  <2> QED BY <2>3
<1>7. \A s \in SUBSET (1 .. n) :
          iter[s] = IF s = {} THEN valid ELSE Narrow(iter[s \ {Max(s)}], Max(s))
  <2>1. Defines(iter)
    <3> HIDE DEF Defines
    <3> QED BY <1>6
  <2> HIDE DEF iter
  <2> QED BY <2>1
<1> HIDE DEF iter
<1> DEFINE Right(result, s) == \A i \in 1 .. d : result[i] <=> valid[i] /\ \A j \in s : Lets(j, i)
           good == {s \in SUBSET (1 .. n) : iter[s] \in A /\ Right(iter[s], s)}
<1>8. {} \in good
  BY <1>7 DEF A
<1>9. ASSUME NEW s \in SUBSET (1 .. n), s # {}, s \ {Max(s)} \in good PROVE s \in good
  <2> DEFINE m == Max(s)
             before == iter[s \ {m}]
  <2>1. m \in 1 .. n /\ m \in s
    BY <1>1, <1>9, GreatestNumber
  <2>2. before \in A /\ iter[s] = Narrow(before, m) /\ Right(before, s \ {m})
    BY <1>7, <1>9
  <2> HIDE DEF m, before
  <2>3. iter[s] \in A /\ \A i \in 1 .. d : iter[s][i] <=> before[i] /\ Lets(m, i)
    BY <1>3, <2>1, <2>2
  <2>4. Right(iter[s], s)
    BY <2>1, <2>2, <2>3
  <2> QED BY <2>3, <2>4
<1>10. 1 .. n \in good
  <2>1. 1 .. n \in SUBSET (1 .. n)
    OBVIOUS
  <2> HIDE DEF good, n
  <2> QED BY <1>1, <1>8, <1>9, <2>1, EverySubset
<1>11. \A i \in 1 .. d : (valid[i] /\ \A j \in 1 .. n : Lets(j, i)) <=> Passes(st, data, valid, i)
  BY <1>1 DEF Passes, Lets, Range
<1> QED BY <1>2, <1>10, <1>11 DEF A

\* However many dates a mask has, what is flattened of it is what passes on all.
LEMMA MaskFlattened ==
  ASSUME NEW d \in Nat \ {0}, NEW mask \in [1 .. d -> BOOLEAN]
  PROVE  FlatMask(mask) <=> \A j \in 1 .. d : mask[j]
<1> DEFINE rest == Tail(mask)
           n == d - 1
           Also(flat, i) == flat /\ rest[i]
           Defines(h) == h = [s \in SUBSET (1 .. n) |->
                                 IF s = {} THEN Head(mask) ELSE Also(h[s \ {Max(s)}], Max(s))]
           iter == CHOOSE h : Defines(h)
           step == [p \in BOOLEAN \X (1 .. n) |-> Also(p[1], p[2])]
<1>1. /\ n \in Nat /\ DOMAIN rest = 1 .. n /\ Head(mask) = mask[1] /\ mask[1] \in BOOLEAN
      /\ \A i \in 1 .. n : rest[i] = mask[i + 1] /\ rest[i] \in BOOLEAN
  <2>1. mask \in Seq(BOOLEAN) /\ Len(mask) = d /\ mask # <<>>
    BY SeqDef, LenProperties
  <2> QED BY <2>1, HeadTailProperties
<1>2. FlatMask(mask) = iter[1 .. n]
  <2>1. FlatMask(mask) = (CHOOSE h : h = [s \in SUBSET DOMAIN rest |->
            IF s = {} THEN Head(mask) ELSE Also(h[s \ {Max(s)}], Max(s))])[DOMAIN rest]
    BY DEF FlatMask, FoldLeft, MapThenFoldSet
  <2> HIDE DEF rest
  <2> QED BY <1>1, <2>1
<1> HIDE DEF rest, n
<1>3. \A flat \in BOOLEAN, i \in 1 .. n : Also(flat, i) \in BOOLEAN
  OBVIOUS
<1>4. step \in [BOOLEAN \X (1 .. n) -> BOOLEAN]
  BY <1>3
<1>5. PICK h \in [SUBSET (1 .. n) -> BOOLEAN] : Folded(h, Head(mask), step, n)
  <2>1. Head(mask) \in BOOLEAN
    BY <1>1
  <2> HIDE DEF step
  <2> QED BY <1>1, <1>4, <2>1, FoldWithin
<1>6. Defines(h)
  <2>1. ASSUME NEW s \in SUBSET (1 .. n), s # {}
        PROVE  h[s] = Also(h[s \ {Max(s)}], Max(s))
    <3>1. Max(s) \in 1 .. n /\ h[s \ {Max(s)}] \in BOOLEAN
      BY <1>1, <2>1, GreatestNumber
    <3>2. h[s] = step[<<h[s \ {Max(s)}], Max(s)>>]
      BY <1>5, <2>1 DEF Folded
    <3> HIDE DEF Also
    <3> QED BY <3>1, <3>2
  <2>2. h[{}] = Head(mask)
    BY <1>5 DEF Folded
  <2> HIDE DEF Also
  <2>3. \A s \in SUBSET (1 .. n) :
            h[s] = IF s = {} THEN Head(mask) ELSE Also(h[s \ {Max(s)}], Max(s))
    BY <2>1, <2>2
  <2> QED BY <2>3
<1>7. \A s \in SUBSET (1 .. n) :
          iter[s] = IF s = {} THEN Head(mask) ELSE Also(iter[s \ {Max(s)}], Max(s))
  <2>1. Defines(iter)
    <3> HIDE DEF Defines
    <3> QED BY <1>6
  <2> HIDE DEF iter, Also
  <2> QED BY <2>1
<1> HIDE DEF iter
<1> DEFINE All(s) == mask[1] /\ \A i \in s : rest[i]
           good == {s \in SUBSET (1 .. n) : iter[s] \in BOOLEAN /\ (iter[s] <=> All(s))}
<1>8. {} \in good
  BY <1>1, <1>7
<1>9. ASSUME NEW s \in SUBSET (1 .. n), s # {}, s \ {Max(s)} \in good PROVE s \in good
  <2> DEFINE m == Max(s)
             before == iter[s \ {m}]
  <2>1. m \in 1 .. n /\ m \in s
    BY <1>1, <1>9, GreatestNumber
  <2>2. before \in BOOLEAN /\ iter[s] = Also(before, m) /\ (before <=> All(s \ {m}))
    BY <1>7, <1>9
  <2> HIDE DEF m, before
  <2>3. iter[s] \in BOOLEAN /\ (iter[s] <=> before /\ rest[m])
    BY Zenon, <2>2
  <2>4. All(s) <=> All(s \ {m}) /\ rest[m]
    <3>1. \A i : i \in s <=> i = m \/ i \in s \ {m}
      BY <2>1
    <3> QED BY Zenon, <3>1
  <2>5. iter[s] \in BOOLEAN /\ (iter[s] <=> All(s))
    BY Zenon, <2>2, <2>3, <2>4
  <2> QED BY <2>5
<1>10. 1 .. n \in good
  <2>1. 1 .. n \in SUBSET (1 .. n)
    OBVIOUS
  <2> HIDE DEF good
  <2> QED BY <1>1, <1>8, <1>9, <2>1, EverySubset
<1>11. FlatMask(mask) <=> All(1 .. n)
  BY <1>2, <1>10
<1>12. All(1 .. n) <=> \A j \in 1 .. d : mask[j]
  <2>1. \A j \in 1 .. d : j = 1 \/ (j - 1 \in 1 .. n /\ rest[j - 1] = mask[j])
    BY <1>1 DEF n
  <2>2. \A i \in 1 .. n : i + 1 \in 1 .. d /\ rest[i] = mask[i + 1]
    BY <1>1 DEF n
  <2>3. 1 \in 1 .. d
    OBVIOUS
  <2> QED BY <2>1, <2>2, <2>3
<1> QED BY <1>11, <1>12

\* Each of k frames has the colour of the frame it was.
ColoursKept(masked, slices, k) == \A i \in 1 .. k : masked[i].rgb = slices[i].rgb

\* Of k frames made of d dates each keeps its alpha where the mask passes.
AlphaKept(masked, slices, mask, k, d) ==
    \A i \in 1 .. k : masked[i].alpha =
        IF \A j \in 1 .. d : k = 1 \/ j = i => mask[j] THEN slices[i].alpha ELSE 0

\* A masked picture has the colours of the picture.
LEMMA MaskedColours ==
  ASSUME NEW mask, NEW slices, NEW k \in Nat, FramesOf(slices, k), NEW masked, masked = ApplyMask(mask, slices)
  PROVE  ColoursKept(masked, slices, k)
<1> DEFINE shown(i) == IF Len(slices) = 1 /\ Len(mask) > 1 THEN FlatMask(mask) ELSE mask[i]
<1>1. masked = [i \in 1 .. k |-> IF shown(i) THEN slices[i] ELSE Colour(slices[i].rgb, 0)]
  BY DEF ApplyMask, FramesOf
<1> HIDE DEF shown
<1> QED BY <1>1 DEF ColoursKept, Colour

\* What a masked picture shows is what passes.
LEMMA MaskedFrames ==
  ASSUME NEW d \in Nat \ {0}, NEW mask \in [1 .. d -> BOOLEAN],
         NEW slices, NEW k \in {1, d}, FramesOf(slices, k),
         NEW masked, masked = ApplyMask(mask, slices)
  PROVE  AlphaKept(masked, slices, mask, k, d)
<1> DEFINE flat == Len(slices) = 1 /\ Len(mask) > 1
           shown(i) == IF flat THEN FlatMask(mask) ELSE mask[i]
           all(i) == \A j \in 1 .. d : k = 1 \/ j = i => mask[j]
           frame(i) == IF shown(i) THEN slices[i] ELSE Colour(slices[i].rgb, 0)
<1>1. DOMAIN slices = 1 .. k /\ Len(slices) = k /\ Len(mask) = d
  BY DEF FramesOf
<1>2. masked = [i \in 1 .. k |-> frame(i)]
  BY <1>1 DEF ApplyMask
<1>3. \A i \in 1 .. k : masked[i] = frame(i)
  <2> HIDE DEF frame
  <2> QED BY <1>2
<1>4. ASSUME NEW i \in 1 .. k PROVE shown(i) <=> all(i)
  <2>1. CASE k = 1 /\ d > 1
    BY <1>1, <2>1, MaskFlattened
  <2>2. CASE k = 1 /\ d = 1
    <3>1. 1 .. d = {1} /\ i = 1 /\ ~flat
      BY <1>1, <2>2
    <3> HIDE DEF flat
    <3> QED BY <2>2, <3>1
  <2>3. CASE k # 1
    <3>1. i \in 1 .. d /\ ~flat
      BY <1>1, <2>3
    <3> HIDE DEF flat
    <3> QED BY <2>3, <3>1
  <2> QED BY <2>1, <2>2, <2>3
<1>5. ASSUME NEW i \in 1 .. k
      PROVE  frame(i).alpha = IF shown(i) THEN slices[i].alpha ELSE 0
  <2> HIDE DEF shown
  <2> QED BY DEF Colour
<1> HIDE DEF frame, shown
<1> QED BY <1>3, <1>4, <1>5 DEF AlphaKept

\* The value map of the style drawn lists its rules by band, as the configuration
\* does if it is well-formed.
RulesListed ==
    DrawnStyle.kind = "map" =>
        \A b \in DOMAIN DrawnStyle.raw["value_map"].v : IsSequence(DrawnStyle.raw["value_map"].v[b].v)

\* So does the style its masks.
MasksListed == IsSequence(DrawnStyle.masks)

\* Pictures are drawn by a server that is up, and are right when they are drawn.
PicturesInv ==
    /\ drawn # NoPicture => stage = "up"
    /\ MasksListed => MaskedExactly
    /\ RulesListed => FirstRuleWins

\* How a picture comes about.
LEMMA DrawGives ==
  ASSUME NEW n, NEW s, NEW d \in Nat, Draw(n, s, d), drawn'.result = "image"
  PROVE  LET st == Layer(n).styles[s]
         IN /\ drawn'.layer = n /\ drawn'.style = s /\ drawn'.dates = d
            /\ d = 1 \/ HandlersFor(st, d) # {}
            /\ drawn'.valid \in [1 .. d -> BOOLEAN]
            /\ \E computed : drawn'.painted \in Transformed(Layer(n), st, drawn'.data, d, computed)
            /\ drawn'.slices = ApplyMask(ToMask(st, drawn'.data, drawn'.valid), drawn'.painted)
<1> DEFINE st == Layer(n).styles[s]
           bands == ready[n].styles[s].data
<1>1. drawn' # Unseen(n, s, d, "refused") /\ drawn' # Unseen(n, s, d, "error")
  BY DEF Unseen
<1>2. PICK data \in [bands -> [1 .. d -> Values]], valid \in [1 .. d -> BOOLEAN],
           computed \in [1 .. d -> Computed] :
           \E painted \in Transformed(Layer(n), st, data, d, computed) :
              drawn' = Picture(n, s, d, data, valid, painted)
  BY <1>1 DEF Draw
<1>3. PICK painted \in Transformed(Layer(n), st, data, d, computed) :
          drawn' = Picture(n, s, d, data, valid, painted)
  BY <1>2
<1>4. d = 1 \/ HandlersFor(st, d) # {}
  BY <1>1 DEF Draw
<1>5. /\ drawn'.layer = n /\ drawn'.style = s /\ drawn'.dates = d
      /\ drawn'.data = data /\ drawn'.valid = valid /\ drawn'.painted = painted
      /\ drawn'.slices = ApplyMask(ToMask(st, data, valid), painted)
  BY <1>3 DEF Picture
<1> HIDE DEF st, bands
<1> QED BY <1>2, <1>3, <1>4, <1>5 DEF st

\* A picture that is drawn shows what its masks let pass, and all of that.
LEMMA DrawMasks ==
  ASSUME NEW n, NEW s, NEW d \in Dates, Draw(n, s, d), UNCHANGED vars, MasksListed'
  PROVE  MaskedExactly'
<1> DEFINE st == Layer(n).styles[s]
           data == drawn'.data
           valid == drawn'.valid
           painted == drawn'.painted
           slices == drawn'.slices
           mask == ToMask(st, data, valid)
<1>1. SUFFICES ASSUME drawn'.result = "image" PROVE MaskedExactly'
  BY DEF MaskedExactly
<1>2. d \in Nat /\ d # 0
  BY DatesAssumption
<1>3. drawn'.layer = n /\ drawn'.style = s /\ drawn'.dates = d /\ valid \in [1 .. d -> BOOLEAN]
  BY <1>1, <1>2, DrawGives
<1>4. PICK computed : painted \in Transformed(Layer(n), st, data, d, computed)
  BY <1>1, <1>2, DrawGives
<1>5. slices = ApplyMask(mask, painted)
  BY <1>1, <1>2, DrawGives
<1>6. DrawnStyle' = st
  BY <1>3 DEF DrawnStyle, Layer, vars, parseVars
<1>7. IsSequence(st.masks)
  BY <1>6 DEF MasksListed
<1>8. \A i : Unmasked(i)' <=> Passes(st, data, valid, i)
  BY <1>6 DEF Unmasked, Passes
<1> HIDE DEF st, data, valid, painted, slices
<1>9. PICK k \in {1, d} : FramesOf(painted, k)
  BY <1>2, <1>4, PictureHasFrames
<1>10. DOMAIN painted = 1 .. k /\ Len(painted) = k
  BY <1>2, <1>9 DEF FramesOf
<1>11. mask \in [1 .. d -> BOOLEAN] /\ \A j \in 1 .. d : mask[j] <=> Passes(st, data, valid, j)
  BY <1>2, <1>3, <1>7, MasksApplied
<1> HIDE DEF mask
<1>12. AlphaKept(slices, painted, mask, k, d)
  BY <1>2, <1>5, <1>9, <1>11, MaskedFrames
<1>13. ASSUME NEW i \in 1 .. k
       PROVE  slices[i].alpha =
                  IF \A j \in 1 .. d : k = 1 \/ j = i => Unmasked(j)' THEN painted[i].alpha ELSE 0
  <2>1. (\A j \in 1 .. d : k = 1 \/ j = i => mask[j])
           <=> (\A j \in 1 .. d : k = 1 \/ j = i => Unmasked(j)')
    BY <1>8, <1>11
  <2> QED BY <1>12, <2>1 DEF AlphaKept
<1> QED BY <1>3, <1>10, <1>13 DEF MaskedExactly, painted, slices

\* A picture that is drawn of a value map shows the first rule.
LEMMA DrawPaints ==
  ASSUME NEW n, NEW s, NEW d \in Dates, Draw(n, s, d), UNCHANGED vars, RulesListed'
  PROVE  FirstRuleWins'
<1> DEFINE st == Layer(n).styles[s]
           painted == drawn'.painted
           mask == ToMask(st, drawn'.data, drawn'.valid)
<1>1. SUFFICES ASSUME drawn'.result = "image", DrawnStyle'.kind = "map",
                      HandlersFor(DrawnStyle, drawn.dates)' = {}
               PROVE  FirstRuleWins'
  BY DEF FirstRuleWins
<1>2. d \in Nat
  BY DatesAssumption
<1>3. /\ drawn'.layer = n /\ drawn'.style = s /\ drawn'.dates = d
      /\ d = 1 \/ HandlersFor(st, d) # {}
  BY <1>1, <1>2, DrawGives
<1>4. PICK computed : painted \in Transformed(Layer(n), st, drawn'.data, d, computed)
  BY <1>1, <1>2, DrawGives
<1>5. drawn'.slices = ApplyMask(mask, painted)
  BY <1>1, <1>2, DrawGives
<1>6. DrawnStyle' = st /\ Layer(drawn.layer)' = Layer(n)
  BY <1>3 DEF DrawnStyle, Layer, vars, parseVars
<1> HIDE DEF st
<1>7. d = 1 /\ HandlersFor(st, d) = {} /\ st.kind = "map"
  BY <1>1, <1>3, <1>6
<1> DEFINE map == st.raw["value_map"].v
           at == Columns(Layer(n), map, At(drawn'.data, 1))
           matching(b) == {i \in DOMAIN map[b].v : Matches(map[b].v[i].v, at[b])}
           hit == {b \in DOMAIN map : \E r \in Range(map[b].v) : Shows(r.v, at[b], FALSE)}
<1>8. PICK c : c \in ValueMapped(map, at, FALSE) /\ painted = <<c>>
  <2>1. painted \in {<<c>> : c \in OneDate(Layer(n), st, At(drawn'.data, 1), computed[1])}
    BY <1>4, <1>7 DEF Transformed
  <2>2. MapOf(st, NoItems) = map
    BY DEF MapOf, Has, NoItems
  <2>3. OneDate(Layer(n), st, At(drawn'.data, 1), computed[1]) = ValueMapped(map, at, FALSE)
    BY <1>7, <2>2 DEF OneDate
  <2> QED BY <2>1, <2>3
<1>9. drawn'.slices[1].rgb = c.rgb
  <2> DEFINE masked == drawn'.slices
  <2>1. FramesOf(painted, 1) /\ painted[1] = c
    BY <1>8 DEF FramesOf
  <2>2. masked = ApplyMask(mask, painted) /\ 1 \in Nat
    BY <1>5
  <2> HIDE DEF masked, mask, painted
  <2>3. ColoursKept(masked, painted, 1)
    BY <2>1, <2>2, MaskedColours
  <2> QED BY <2>1, <2>3 DEF ColoursKept, masked
<1> HIDE DEF map, at, painted, mask
<1>10. \A b \in DOMAIN map : b \in hit <=> matching(b) # {}
  BY SMTT(30) DEF Range, Shows
<1>11. CASE hit = {}
  <2>1. c = Transparent
    BY <1>8, <1>11 DEF ValueMapped
  <2>2. drawn'.slices[1].rgb = Grey(0) /\ \A b \in DOMAIN map : matching(b) = {}
    BY <1>9, <1>10, <1>11, <2>1 DEF Transparent, Colour
  <2> QED BY <1>6, <2>2 DEF FirstRuleWins, map, at
<1>12. CASE hit # {}
  <2>1. PICK b \in hit : c = PaintBand(map[b].v, at[b], FALSE)
    BY <1>8, <1>12 DEF ValueMapped
  <2>2. IsSequence(map[b].v)
    BY <1>6, <1>7, <2>1 DEF RulesListed, map
  <2>3. Hits(map[b].v, at[b], FALSE) = matching(b) /\ matching(b) # {}
    BY <1>10, <2>1 DEF Hits, Shows
  <2>4. c = Paint(map[b].v[Min(matching(b))].v)
    BY <2>1, <2>2, <2>3, FirstRulePaints
  <2>5. drawn'.slices[1].rgb = Grey(map[b].v[Min(matching(b))].v["color"].v)
    BY <1>9, <2>4 DEF Paint, Colour
  <2> QED BY <1>6, <2>1, <2>3, <2>5 DEF FirstRuleWins, map, at
<1> QED BY <1>11, <1>12

\* Every step keeps what is known of pictures.
LEMMA PicturesStep ==
  ASSUME PicturesInv, [DrawNext]_<<vars, drawn>>
  PROVE  PicturesInv'
<1>1. CASE drawn' = drawn /\ drawn # NoPicture /\ UNCHANGED <<stage, index>>
  <2>1. UNCHANGED <<DrawnStyle, Layer(drawn.layer)>>
    BY <1>1 DEF DrawnStyle, Layer
  <2>2. RulesListed' = RulesListed /\ MasksListed' = MasksListed
    BY <2>1 DEF RulesListed, MasksListed
  <2>3. FirstRuleWins' = FirstRuleWins
    <3>1. \A map, x : Columns(Layer(drawn.layer), map, x)' = Columns(Layer(drawn.layer), map, x)
      BY <2>1 DEF Columns, Aliases, BandNames
    <3> QED BY <1>1, <2>1, <3>1 DEF FirstRuleWins
  <2>4. MaskedExactly' = MaskedExactly
    <3>1. \A i : Unmasked(i)' = Unmasked(i)
      BY <1>1, <2>1 DEF Unmasked
    <3> QED BY <1>1, <3>1 DEF MaskedExactly
  <2> QED BY <1>1, <2>2, <2>3, <2>4 DEF PicturesInv
<1>2. CASE drawn' = NoPicture
  BY <1>2 DEF PicturesInv, MaskedExactly, FirstRuleWins, NoPicture
<1>3. CASE ConfigNext /\ UNCHANGED drawn
  BY <1>1, <1>2, <1>3, UpStands DEF PicturesInv
<1>4. CASE UNCHANGED <<vars, drawn>>
  BY <1>1, <1>2, <1>4 DEF vars, parseVars
<1>5. ASSUME NEW n, NEW s, NEW d \in Dates, Draw(n, s, d), UNCHANGED vars, stage = "up"
      PROVE  PicturesInv'
  <2>1. stage' = "up"
    BY <1>5 DEF vars, parseVars
  <2>2. MasksListed' => MaskedExactly'
    BY <1>5, DrawMasks
  <2>3. RulesListed' => FirstRuleWins'
    BY <1>5, DrawPaints
  <2> QED BY <2>1, <2>2, <2>3 DEF PicturesInv
<1> QED BY <1>3, <1>4, <1>5 DEF DrawNext

\* What is known of pictures holds in every state of the server.
LEMMA PicturesInvHolds == DrawSpec => []PicturesInv
<1>1. DrawInit => PicturesInv
  <2>1. DrawInit => drawn = NoPicture
    BY DEF DrawInit
  <2>2. drawn = NoPicture => drawn.result # "image"
    BY DEF NoPicture
  <2> QED BY <2>1, <2>2 DEF PicturesInv, MaskedExactly, FirstRuleWins
<1>2. PicturesInv /\ [DrawNext]_<<vars, drawn>> => PicturesInv'
  BY PicturesStep
<1> QED BY <1>1, <1>2, PTL DEF DrawSpec

(* Masks take out what they should and nothing else, for styles with a list of  *)
(* any masks, of any length, and for any handlers, data and numbers of dates    *)
(* (to_mask, apply_mask_to_image).                                              *)
THEOREM MasksAlwaysExact == DrawSpec => [](MasksListed => MaskedExactly)
<1>1. PicturesInv => (MasksListed => MaskedExactly)
  BY DEF PicturesInv
<1> QED BY <1>1, PicturesInvHolds, PTL

(* A pixel of a value map has the colour of the first rule of a band that       *)
(* matches, for any value maps whose bands have lists of rules, of any length   *)
(* (apply_value_map).                                                           *)
THEOREM FirstRuleAlwaysWins == DrawSpec => [](RulesListed => FirstRuleWins)
<1>1. PicturesInv => (RulesListed => FirstRuleWins)
  BY DEF PicturesInv
<1> QED BY <1>1, PicturesInvHolds, PTL

-----------------------------------------------------------------------------
(* The styles of a layer.                                                       *)
-----------------------------------------------------------------------------

\* A style as it is made for a layer, from a configuration without a fault.
MadeFor(st, lyr) == \E cfg : StyleOutcome(cfg, lyr) = "ok" /\ st = NewStyle(cfg, lyr)

\* The order lists the styles there are, every one of them, each as it was made.
StylesListed(acc, lyr) ==
    /\ DOMAIN acc = {"outcome", "order", "styles", "default"}
    /\ acc.order \in Seq(DOMAIN acc.styles)
    /\ \A s \in DOMAIN acc.styles : \E i \in 1 .. Len(acc.order) : acc.order[i] = s
    /\ \A s \in DOMAIN acc.styles : MadeFor(acc.styles[s], lyr)

\* A style without a fault is registered beside the others.
LEMMA StyleRegistered ==
  ASSUME NEW lyr, NEW acc, StylesListed(acc, lyr), NEW cfg, NEW outcome,
         outcome = "ok" => StyleOutcome(cfg, lyr) = "ok"
  PROVE  StylesListed(Register(acc, outcome, cfg, lyr), lyr)
<1> DEFINE new == Register(acc, outcome, cfg, lyr)
           name == cfg["name"].v
           st == NewStyle(cfg, lyr)
           n == Len(acc.order)
<1>1. CASE outcome # "ok"
  <2>1. new = [acc EXCEPT !.outcome = outcome]
    BY <1>1 DEF Register
  <2>2. DOMAIN new = DOMAIN acc /\ new.order = acc.order /\ new.styles = acc.styles
    BY <2>1 DEF StylesListed
  <2> HIDE DEF new
  <2>3. StylesListed(new, lyr)
    BY <2>2 DEF StylesListed
  <2> QED BY <2>3 DEF new
<1>2. CASE outcome = "ok"
  <2>1. new = [acc EXCEPT !.order = Append(@, name), !.styles = WithEntry(@, name, st)]
    BY <1>2 DEF Register
  <2>2. /\ DOMAIN new = DOMAIN acc /\ new.order = Append(acc.order, name)
        /\ new.styles = WithEntry(acc.styles, name, st)
    BY <2>1 DEF StylesListed
  <2> HIDE DEF new, name, st
  <2>3. /\ DOMAIN new.styles = DOMAIN acc.styles \cup {name} /\ new.styles[name] = st
        /\ \A s \in DOMAIN acc.styles : s # name => new.styles[s] = acc.styles[s]
    BY <2>2 DEF WithEntry
  <2>4. acc.order \in Seq(DOMAIN new.styles)
    <3>1. \A i \in 1 .. n : acc.order[i] \in DOMAIN new.styles
      BY <2>3, ElementOfSeq DEF StylesListed
    <3>2. acc.order \in [1 .. n -> DOMAIN new.styles] /\ n \in Nat
      BY <3>1, SeqDef DEF StylesListed
    <3> QED BY <3>2, SeqDef
  <2>5. /\ new.order \in Seq(DOMAIN new.styles)
        /\ Len(new.order) = n + 1 /\ n \in Nat
        /\ \A i \in 1 .. n : new.order[i] = acc.order[i]
        /\ new.order[n + 1] = name
    BY <2>2, <2>3, <2>4, AppendProperties
  <2>6. ASSUME NEW s \in DOMAIN new.styles
        PROVE  \E i \in 1 .. Len(new.order) : new.order[i] = s
    <3>1. CASE s = name
      BY <2>5, <3>1
    <3>2. CASE s \in DOMAIN acc.styles
      <4>1. PICK i \in 1 .. n : acc.order[i] = s
        BY <3>2 DEF StylesListed
      <4> QED BY <2>5, <4>1
    <3> QED BY <2>3, <3>1, <3>2
  <2>7. MadeFor(st, lyr)
    BY <1>2 DEF MadeFor, st
  <2>8. StylesListed(new, lyr)
    BY <2>2, <2>3, <2>5, <2>6, <2>7 DEF StylesListed
  <2> QED BY <2>8 DEF new
<1> QED BY <1>1, <1>2

\* So it is for every section of the styles, whatever it inherits.
LEMMA StyleAdded ==
  ASSUME NEW lyr, NEW acc, StylesListed(acc, lyr), NEW raw
  PROVE  StylesListed(AddStyle(acc, raw, lyr), lyr)
<1> DEFINE parents == IF Has(raw, "inherits") THEN StyleParents(raw, acc.styles, lyr) ELSE {raw}
           parent == CHOOSE p \in parents : TRUE
           cfg == IF Has(raw, "inherits") THEN DeepInherit(parent, raw) ELSE raw
           outcome == IF parents = {} THEN "refused"
                      ELSE IF Has(raw, "inherits") /\ InheritClash(parent, raw) THEN "crash"
                      ELSE StyleOutcome(cfg, lyr)
<1>1. AddStyle(acc, raw, lyr) = IF acc.outcome # "ok" THEN acc ELSE Register(acc, outcome, cfg, lyr)
  BY DEF AddStyle
<1> HIDE DEF cfg, parents, parent
<1>2. outcome = "ok" => StyleOutcome(cfg, lyr) = "ok"
  OBVIOUS
<1> HIDE DEF outcome
<1>3. StylesListed(Register(acc, outcome, cfg, lyr), lyr)
  BY <1>2, StyleRegistered
<1> QED BY <1>1, <1>3

\* The sections of a layer's styles.
StyleSections(cfg) == Opt(Opt(cfg, "styling", NoItems), "styles", <<>>)

\* The styles of a layer, none and after each section: what has been parsed of a
\* set of sections is what the last of them adds to the rest.
StylesFold(h, cfg, lyr) ==
    LET raws == StyleSections(cfg)
        styling == Opt(cfg, "styling", NoItems)
        none == [outcome |-> IF Has(styling, "styles") THEN "ok" ELSE "refused",
                 order |-> <<>>, styles |-> NoItems, default |-> NoName]
    IN \A s \in SUBSET (1 .. Len(raws)) :
           h[s] = IF s = {} THEN none ELSE AddStyle(h[s \ {Max(s)}], raws[Max(s)].v, lyr)

\* Parsing the styling of a layer parses its sections one by one.
LEMMA StylingFolds ==
  ASSUME NEW cfg, NEW lyr, IsSequence(StyleSections(cfg))
  PROVE  \E h : /\ StylesFold(h, cfg, lyr)
                /\ Styling(cfg, lyr) = WithDefault(Opt(cfg, "styling", NoItems),
                                                   h[1 .. Len(StyleSections(cfg))])
<1> DEFINE raws == StyleSections(cfg)
           styling == Opt(cfg, "styling", NoItems)
           n == Len(raws)
           none == [outcome |-> IF Has(styling, "styles") THEN "ok" ELSE "refused",
                    order |-> <<>>, styles |-> NoItems, default |-> NoName]
           Step(acc, i) == AddStyle(acc, raws[i].v, lyr)
           FoldsTo(h, k) == \A s \in SUBSET (1 .. k) :
                                h[s] = IF s = {} THEN none ELSE Step(h[s \ {Max(s)}], Max(s))
           Defines(h) == h = [s \in SUBSET (1 .. n) |->
                                 IF s = {} THEN none ELSE Step(h[s \ {Max(s)}], Max(s))]
           iter == CHOOSE h : Defines(h)
           parsed == iter[1 .. n]
<1>1. n \in Nat /\ DOMAIN raws = 1 .. n
  BY DEF IsSequence
<1>2. Styling(cfg, lyr) = WithDefault(styling, parsed)
  <2>1. Styling(cfg, lyr) = WithDefault(styling, (CHOOSE h : h = [s \in SUBSET DOMAIN raws |->
            IF s = {} THEN none ELSE Step(h[s \ {Max(s)}], Max(s))])[DOMAIN raws])
    BY DEF Styling, FoldLeft, MapThenFoldSet, StyleSections
  <2> QED BY <1>1, <2>1
<1> HIDE DEF none, Step
<1> DEFINE good == {k \in 0 .. n : \E h : DOMAIN h = SUBSET (1 .. k) /\ FoldsTo(h, k)}
<1>3. 0 \in good
  <2> DEFINE h == [s \in SUBSET (1 .. 0) |-> none]
  <2>1. DOMAIN h = SUBSET (1 .. 0) /\ FoldsTo(h, 0)
    OBVIOUS
  <2> HIDE DEF h, FoldsTo
  <2>2. 0 \in 0 .. n
    BY <1>1
  <2> QED BY <2>1, <2>2
<1>4. ASSUME NEW k \in 1 .. n, k - 1 \in good PROVE k \in good
  <2>1. PICK h : DOMAIN h = SUBSET (1 .. k - 1) /\ FoldsTo(h, k - 1)
    BY <1>4
  <2> DEFINE next == [s \in SUBSET (1 .. k) |-> IF k \in s THEN Step(h[s \ {k}], k) ELSE h[s]]
  <2>2. \A s \in SUBSET (1 .. k) : s \ {k} \in SUBSET (1 .. k - 1)
    OBVIOUS
  <2>3. \A s \in SUBSET (1 .. k) : k \notin s => s \in SUBSET (1 .. k - 1)
    OBVIOUS
  <2>4. DOMAIN next = SUBSET (1 .. k)
    OBVIOUS
  <2>5. \A s \in SUBSET (1 .. k - 1) : next[s] = h[s]
    OBVIOUS
  <2>6. \A s \in SUBSET (1 .. k) : k \in s => next[s] = Step(h[s \ {k}], k)
    OBVIOUS
  <2> HIDE DEF next
  <2>7. ASSUME NEW s \in SUBSET (1 .. k)
        PROVE  next[s] = IF s = {} THEN none ELSE Step(next[s \ {Max(s)}], Max(s))
    <3>1. CASE k \in s
      <4>1. Max(s) = k /\ next[s \ {k}] = h[s \ {k}]
        BY <1>1, <2>2, <2>5, <3>1, LastIndex
      <4> QED BY <2>6, <3>1, <4>1
    <3>2. CASE k \notin s
      <4>1. s \in SUBSET (1 .. k - 1) /\ next[s] = h[s]
        BY <2>3, <2>5, <3>2
      <4>2. s \ {Max(s)} \in SUBSET (1 .. k - 1)
        BY <4>1
      <4>3. next[s \ {Max(s)}] = h[s \ {Max(s)}]
        BY <2>5, <4>2
      <4> QED BY <2>1, <4>1, <4>3
    <3> QED BY <3>1, <3>2
  <2>8. FoldsTo(next, k)
    BY <2>7
  <2>9. k \in 0 .. n
    BY <1>1
  <2> HIDE DEF FoldsTo
  <2> QED BY <2>4, <2>8, <2>9
<1>5. n \in good
  <2> HIDE DEF good
  <2> QED BY <1>1, <1>3, <1>4, EveryNumber
<1>6. FoldsTo(iter, n)
  <2>1. PICK h : DOMAIN h = SUBSET (1 .. n) /\ FoldsTo(h, n)
    BY <1>5
  <2> DEFINE f == [s \in SUBSET (1 .. n) |-> h[s]]
  <2>2. \A s \in SUBSET (1 .. n) : s \ {Max(s)} \in SUBSET (1 .. n)
    OBVIOUS
  <2>3. Defines(f)
    BY <2>1, <2>2
  <2>4. Defines(iter)
    <3> HIDE DEF Defines
    <3> QED BY <2>3
  <2> HIDE DEF iter
  <2> QED BY <2>4
<1>7. StylesFold(iter, cfg, lyr)
  BY <1>6 DEF StylesFold, none, Step
<1> HIDE DEF iter
<1> QED BY <1>2, <1>7

\* A layer whose styling has no fault has styles that are listed, and its default
\* style among them.
LEMMA StylingListed ==
  ASSUME NEW cfg, NEW lyr, IsSequence(StyleSections(cfg)), Styling(cfg, lyr).outcome = "ok"
  PROVE  /\ StylesListed(Styling(cfg, lyr), lyr)
         /\ Styling(cfg, lyr).default \in DOMAIN Styling(cfg, lyr).styles
<1> DEFINE raws == StyleSections(cfg)
           styling == Opt(cfg, "styling", NoItems)
           n == Len(raws)
           none == [outcome |-> IF Has(styling, "styles") THEN "ok" ELSE "refused",
                    order |-> <<>>, styles |-> NoItems, default |-> NoName]
<1>1. n \in Nat /\ DOMAIN raws = 1 .. n
  BY DEF IsSequence
<1>2. PICK h : StylesFold(h, cfg, lyr) /\ Styling(cfg, lyr) = WithDefault(styling, h[1 .. n])
  BY StylingFolds
<1> DEFINE parsed == h[1 .. n]
<1>3. Styling(cfg, lyr) = WithDefault(styling, parsed)
  BY <1>2
<1>4. StylesListed(none, lyr)
  <2>1. none.order = <<>> /\ none.styles = NoItems
        /\ DOMAIN none = {"outcome", "order", "styles", "default"}
    OBVIOUS
  <2> HIDE DEF none
  <2>2. DOMAIN NoItems = {}
    BY DEF NoItems
  <2>3. <<>> \in Seq({})
    BY EmptySeq
  <2> QED BY <2>1, <2>2, <2>3 DEF StylesListed
<1> DEFINE sound == {s \in SUBSET (1 .. n) : StylesListed(h[s], lyr)}
<1>8. {} \in sound
  BY <1>2, <1>4 DEF StylesFold
<1>9. ASSUME NEW s \in SUBSET (1 .. n), s # {}, s \ {Max(s)} \in sound PROVE s \in sound
  <2>1. h[s] = AddStyle(h[s \ {Max(s)}], raws[Max(s)].v, lyr)
    BY <1>2, <1>9 DEF StylesFold
  <2>2. StylesListed(h[s \ {Max(s)}], lyr)
    BY <1>9
  <2> QED BY <2>1, <2>2, StyleAdded
<1>10. StylesListed(parsed, lyr)
  <2>1. 1 .. n \in SUBSET (1 .. n)
    OBVIOUS
  <2>2. 1 .. n \in sound
    <3> HIDE DEF sound
    <3> QED BY <1>1, <1>8, <1>9, <2>1, EverySubset
  <2> QED BY <2>2
<1> HIDE DEF parsed
<1>11. parsed.outcome = "ok" /\ WithDefault(styling, parsed) =
           [parsed EXCEPT !.default = IF Has(styling, "default_style") THEN styling["default_style"].v
                                      ELSE parsed.order[1]]
  <2>0. WithDefault(styling, parsed).outcome = "ok"
    BY <1>3
  <2>1. [parsed EXCEPT !.outcome = "refused"].outcome = "refused" /\ [parsed EXCEPT !.outcome = "crash"].outcome = "crash"
    BY <1>10 DEF StylesListed
  <2> QED BY <2>0, <2>1 DEF WithDefault
<1> DEFINE default == IF Has(styling, "default_style") THEN styling["default_style"].v ELSE parsed.order[1]
<1>12. default \in DOMAIN parsed.styles
  <2>1. CASE Has(styling, "default_style")
    <3>1. [parsed EXCEPT !.outcome = "refused"].outcome = "refused"
      BY <1>10 DEF StylesListed
    <3> QED BY <1>3, <2>1, <3>1, <1>11 DEF WithDefault, Has
  <2>2. CASE ~Has(styling, "default_style")
    <3>1. [parsed EXCEPT !.outcome = "crash"].outcome = "crash"
      BY <1>10 DEF StylesListed
    <3>2. parsed.order # <<>>
      BY <1>3, <2>2, <3>1, <1>11 DEF WithDefault
    <3>3. 1 \in 1 .. Len(parsed.order) /\ parsed.order \in Seq(DOMAIN parsed.styles)
      BY <1>10, <3>2, EmptySeq DEF StylesListed
    <3> QED BY <2>2, <3>3, ElementOfSeq
  <2> QED BY <2>1, <2>2
<1> HIDE DEF default
<1> DEFINE final == [parsed EXCEPT !.default = default]
<1>13. Styling(cfg, lyr) = final
  BY <1>3, <1>11 DEF default
<1>14. /\ DOMAIN final = DOMAIN parsed /\ final.default = default
       /\ final.order = parsed.order /\ final.styles = parsed.styles
  BY <1>10 DEF StylesListed
<1> HIDE DEF final
<1>15. StylesListed(final, lyr) /\ final.default \in DOMAIN final.styles
  BY <1>10, <1>12, <1>14 DEF StylesListed
<1> QED BY <1>13, <1>15

\* The masks of a style made for a layer use flag bands of the layer.
LEMMA MasksKnown ==
  ASSUME NEW lyr, NEW st, MadeFor(st, lyr), IsSequence(st.masks)
  PROVE  \A i \in DOMAIN st.masks :
            \E fb \in Range(lyr.flags) : fb.band = st.masks[i]["band"].v
<1>1. PICK cfg : StyleOutcome(cfg, lyr) = "ok" /\ st = NewStyle(cfg, lyr)
  BY DEF MadeFor
<1> DEFINE masks == Masks(cfg)
           checked == [i \in DOMAIN masks |-> MaskOutcome(masks[i], lyr.flags)]
           handler(h) == HandlerOutcome(h, Kind(cfg), Opt(cfg, "band_map", NoItems), lyr)
           handlers == FirstOf(Handlers(cfg), handler)
           own == <<Required(cfg, "name"), FirstBad(checked), FunctionsOutcome(cfg, "custom_includes"),
                    LegendUrls(cfg, lyr), handlers, KindOutcome(cfg, lyr)>>
<1>2. st.masks = masks
  BY <1>1 DEF NewStyle
<1>3. FirstBad(own) = "ok"
  BY <1>1 DEF StyleOutcome, Then, KeyErrorRefused, FirstOf
<1>4. FirstBad(checked) = "ok"
  <2>1. Numbered(own) /\ 2 \in DOMAIN own /\ own[2] = FirstBad(checked)
    BY DEF Numbered
  <2> HIDE DEF own
  <2> QED BY <1>3, <2>1, AllOk
<1>5. ASSUME NEW i \in DOMAIN masks PROVE MaskOutcome(masks[i], lyr.flags) = "ok"
  <2>1. Numbered(masks)
    BY <1>2 DEF IsSequence, Numbered
  <2>2. Numbered(checked) /\ i \in DOMAIN checked /\ checked[i] = MaskOutcome(masks[i], lyr.flags)
    BY <2>1 DEF Numbered
  <2> HIDE DEF checked
  <2> QED BY <1>4, <2>2, AllOk
<1>6. ASSUME NEW i \in DOMAIN masks
      PROVE  \E fb \in Range(lyr.flags) : fb.band = masks[i]["band"].v
  <2> DEFINE mask == masks[i]
             unknown == RefusedIf(\A fb \in Range(lyr.flags) : fb.band # mask["band"].v)
             both == <<RuleOutcome(mask), unknown>>
  <2>1. FirstBad(both) = "ok"
    BY <1>5 DEF MaskOutcome
  <2>2. unknown = "ok"
    <3>1. Numbered(both) /\ 2 \in DOMAIN both /\ both[2] = unknown
      BY DEF Numbered
    <3> HIDE DEF both
    <3> QED BY <2>1, <3>1, AllOk
  <2> QED BY <2>2 DEF RefusedIf
<1> QED BY <1>2, <1>6

\* A layer whose styles, with their masks, are given in lists.
LayerListed(lyr) ==
    /\ IsSequence(StyleSections(lyr.raw))
    /\ \A s \in DOMAIN lyr.styles : IsSequence(lyr.styles[s].masks)
LayersListed == \A n \in DOMAIN index : LayerListed(index[n])

\* A layer whose styles are those its order lists, each as it was made.
LayerMade(lyr) ==
    /\ lyr.order \in Seq(DOMAIN lyr.styles)
    /\ \A s \in DOMAIN lyr.styles : \E i \in 1 .. Len(lyr.order) : lyr.order[i] = s
    /\ \E context : /\ context.flags = lyr.flags /\ context.aliases = AliasIndex(lyr.bands)
                    /\ \A s \in DOMAIN lyr.styles : MadeFor(lyr.styles[s], context)

\* What is known of a layer that was parsed from cfg.
LEMMA LayerParsed ==
  ASSUME NEW cfg, LayerOutcome(cfg, StylingOf(cfg, index)) = "ok"
  PROVE  LET styling == Styling(cfg, LayerContext(cfg, g, index))
         IN /\ StylingOf(cfg, index) = styling /\ styling.outcome = "ok"
            /\ IdentifierOutcome(cfg, g) = "ok" /\ WcsOutcome(cfg, g) = "ok"
<1> DEFINE all == <<TimeOutcome(cfg), BandOutcome(cfg), LimitsOutcome(cfg), FlagsOutcome(cfg),
                    ImageOutcome(cfg), IdentifierOutcome(cfg, g), UrlOutcome(cfg), InfoOutcome(cfg),
                    StylingOf(cfg, index).outcome, WcsOutcome(cfg, g)>>
           ground == <<BandOutcome(cfg), FlagsOutcome(cfg)>>
<1>1. ProductOutcome(cfg) = "ok" /\ FirstBad(all) = "ok"
  BY DEF LayerOutcome
<1>2. /\ all[2] = "ok" /\ all[4] = "ok" /\ all[6] = "ok" /\ all[9] = "ok" /\ all[10] = "ok"
  <2>1. Numbered(all) /\ {2, 4, 6, 9, 10} \subseteq DOMAIN all
    BY DEF Numbered
  <2> HIDE DEF all
  <2> QED BY <1>1, <2>1, AllOk
<1>3. FirstBad(ground) = "ok"
  <2>1. {i \in DOMAIN ground : ground[i] # "ok"} = {}
    BY <1>2
  <2> HIDE DEF ground
  <2> QED BY <2>1 DEF FirstBad
<1>4. Groundwork(cfg) = "ok"
  BY <1>1, <1>3 DEF Groundwork
<1> QED BY <1>2, <1>4 DEF StylingOf

\* The names a layer uses are there when it is indexed, and its styles are as
\* they were made.
LEMMA LayerResolved ==
  ASSUME NEW cfg, LayerOutcome(cfg, StylingOf(cfg, index)) = "ok",
         NEW lyr, lyr = NewLayer(cfg, StylingOf(cfg, index)), LayerListed(lyr)
  PROVE  LayerResolves(lyr) /\ LayerMade(lyr)
<1> DEFINE context == LayerContext(cfg, g, index)
           styling == Styling(cfg, context)
<1>1. /\ lyr = NewLayer(cfg, styling) /\ styling.outcome = "ok"
      /\ IdentifierOutcome(cfg, g) = "ok" /\ WcsOutcome(cfg, g) = "ok"
  BY LayerParsed
<1> HIDE DEF styling
<1>2. /\ lyr.raw = cfg /\ lyr.styles = styling.styles /\ lyr.default = styling.default
      /\ lyr.flags = FlagBands(cfg) /\ lyr.bands = Bands(cfg) /\ lyr.covered = Covered(cfg, g)
      /\ lyr.format = NativeFormat(cfg, g)
      /\ lyr.identifiers = DOMAIN Opt(cfg, "identifiers", NoItems)
  BY <1>1 DEF NewLayer
<1>3. StylesListed(styling, context) /\ styling.default \in DOMAIN styling.styles
  <2>1. IsSequence(StyleSections(cfg))
    BY <1>2 DEF LayerListed
  <2> HIDE DEF context
  <2> QED BY <1>1, <2>1, StylingListed DEF styling
<1>4. context.flags = FlagBands(cfg) /\ context.aliases = AliasIndex(Bands(cfg))
  BY DEF LayerContext
<1> HIDE DEF context
<1>5. lyr.default \in DOMAIN lyr.styles
  BY <1>2, <1>3
<1>6. lyr.covered => lyr.format \in g.formats
  BY <1>1, <1>2 DEF WcsOutcome, RefusedIf
<1>7. lyr.identifiers \subseteq g.authorities
  BY <1>1, <1>2 DEF IdentifierOutcome, RefusedIf
<1>8. ASSUME NEW s \in DOMAIN lyr.styles, NEW i \in DOMAIN lyr.styles[s].masks
      PROVE  \E fb \in Range(lyr.flags) : fb.band = lyr.styles[s].masks[i]["band"].v
  <2>1. MadeFor(lyr.styles[s], context) /\ IsSequence(lyr.styles[s].masks)
    BY <1>2, <1>3 DEF StylesListed, LayerListed
  <2> QED BY <1>2, <1>4, <2>1, MasksKnown
<1>9. LayerResolves(lyr)
  BY <1>5, <1>6, <1>7, <1>8 DEF LayerResolves
<1>10. LayerMade(lyr)
  <2>1. lyr.order = styling.order
    BY <1>1 DEF NewLayer
  <2> QED BY <1>2, <1>3, <1>4, <2>1 DEF StylesListed, LayerMade
<1> QED BY <1>9, <1>10

-----------------------------------------------------------------------------
(* The names that sections use of each other.                                   *)
-----------------------------------------------------------------------------

LayersResolve == \A n \in DOMAIN index : LayerListed(index[n]) => LayerResolves(index[n])
MatrixSetsResolve == \A m \in DOMAIN MatrixSets : MatrixSets[m].v["crs"].v \in DOMAIN g.published

\* What has been parsed resolves, section by section.
NamesInv ==
    /\ CRSsListed(rawCfg["global"].v)
    /\ stage \in {"wms", "wcs", "layers", "wmts", "parsed", "up"} =>
           "published" \in DOMAIN g /\ AliasesPublished
    /\ stage \in {"global", "wms", "wcs"} => DOMAIN index = {}
    /\ stage \in {"layers", "wmts", "parsed", "up"} => LayersResolve
    /\ stage \in {"parsed", "up"} => MatrixSetsResolve

\* A state with the sections as they were.
LEMMA NamesKept ==
  ASSUME NamesInv, UNCHANGED <<rawCfg, g, index>>,
         \/ stage' = stage \/ stage' \in {"refused", "crashed"}
         \/ stage = "parsed" /\ stage' = "up"
         \/ stage = "layers" /\ stage' = "wmts"
  PROVE  NamesInv'
<1>1. LayersResolve' = LayersResolve
  BY DEF LayersResolve, LayerListed, LayerResolves
<1>2. MatrixSetsResolve' = MatrixSetsResolve
  BY DEF MatrixSetsResolve, MatrixSets
<1>3. AliasesPublished' = AliasesPublished
  BY DEF AliasesPublished
<1> QED BY <1>1, <1>2, <1>3 DEF NamesInv

\* The global section publishes what its aliases name.
LEMMA GlobalNames ==
  ASSUME NamesInv, ParseGlobal
  PROVE  NamesInv'
<1> DEFINE cfg == rawCfg["global"].v
           own == GlobalOutcome(cfg)
           outcome == IF own # "ok" THEN own ELSE RefusedIf(NoGeographic(cfg))
           parsed == [wms |-> Service(cfg, "wms", TRUE), wmts |-> Service(cfg, "wmts", TRUE),
                      wcs |-> Service(cfg, "wcs", FALSE),
                      locales |-> Opt(cfg, "supported_languages", <<"en">>),
                      published |-> Published(cfg["published_CRSs"].v),
                      authorities |-> {}, formats |-> {}, native |-> NoName]
<1>1. stage = "global" /\ Advance(outcome, "wms", parsed) /\ UNCHANGED <<rawCfg, index>>
  BY DEF ParseGlobal, Sections
<1>2. CASE outcome # "ok"
  <2>1. stage' \in {"refused", "crashed"} /\ g' = g
    BY <1>1, <1>2 DEF Advance
  <2> QED BY <1>1, <2>1, NamesKept
<1>3. CASE outcome = "ok"
  <2>1. own = "ok"
    BY <1>3
  <2>2. Has(cfg, "published_CRSs")
    <3> DEFINE crss == cfg["published_CRSs"].v
               languages == Opt(cfg, "supported_languages", <<"en">>)
               last == IF ~Has(cfg, "published_CRSs") THEN "missing" ELSE FirstOf(PlainCRSs(crss), CRSOutcome)
               all == <<RefusedIf(~(Service(cfg, "wms", TRUE) \/ Service(cfg, "wmts", TRUE) \/ Service(cfg, "wcs", FALSE))),
                        RefusedIf(languages = <<>>),
                        Required(cfg, "title"), Required(cfg, "allowed_urls"), Required(cfg, "info_url"),
                        AttributionOutcome(cfg), last>>
    <3>1. FirstBad(all) = "ok"
      BY <2>1 DEF GlobalOutcome, KeyErrorRefused
    <3>2. last = "ok"
      <4>1. Numbered(all) /\ 7 \in DOMAIN all /\ all[7] = last
        BY DEF Numbered
      <4> HIDE DEF all
      <4> QED BY <3>1, <4>1, AllOk
    <3> QED BY <3>2
  <2>3. IsSequence(cfg["published_CRSs"].v)
    BY <2>2 DEF CRSsListed, NamesInv
  <2>4. AliasesWithin(Published(cfg["published_CRSs"].v))
    BY <2>3, PublishedResolved
  <2>5. stage' = "wms" /\ g' = parsed
    BY <1>1, <1>3 DEF Advance
  <2>6. "published" \in DOMAIN g' /\ g'.published = Published(cfg["published_CRSs"].v)
    BY <2>5
  <2>7. AliasesPublished'
    BY <2>4, <2>6 DEF AliasesPublished, AliasesWithin
  <2> QED BY <1>1, <2>5, <2>6, <2>7 DEF NamesInv
<1> QED BY <1>2, <1>3

\* The other sections of the services leave what is published.
LEMMA ServiceNames ==
  ASSUME NamesInv, ParseWMS \/ ParseWCS
  PROVE  NamesInv'
<1>1. CASE stage' \in {"refused", "crashed"} /\ UNCHANGED <<rawCfg, g, index>>
  BY <1>1, NamesKept
<1>2. CASE stage \in {"wms", "wcs"} /\ stage' \in {"wcs", "layers"} /\ UNCHANGED <<rawCfg, index>>
           /\ DOMAIN g' = DOMAIN g /\ g'.published = g.published
  <2>1. AliasesPublished' = AliasesPublished
    BY <1>2 DEF AliasesPublished
  <2>2. DOMAIN index' = {}
    BY <1>2 DEF NamesInv
  <2>3. LayersResolve'
    BY <2>2 DEF LayersResolve
  <2> QED BY <1>2, <2>1, <2>2, <2>3 DEF NamesInv
<1>3. CASE ParseWMS
  <2> DEFINE cfg == IF g.wms \/ g.wmts THEN Opt(rawCfg, "wms", NoItems) ELSE NoItems
             outcome == FirstBad(<<RefusedIf(\/ Opt(cfg, "max_width", 256) < 1
                                             \/ Opt(cfg, "max_height", 256) < 1),
                                   AgeOutcome(cfg, "caps_cache_maxage")>>)
             names == DOMAIN Opt(cfg, "authorities", NoItems)
  <2>1. /\ stage = "wms" /\ UNCHANGED <<rawCfg, index>>
        /\ Advance(outcome, "wcs", [g EXCEPT !.authorities = names])
    BY <1>3 DEF ParseWMS, Sections
  <2> HIDE DEF outcome, names
  <2>2. CASE outcome = "ok"
    <3>1. stage' = "wcs" /\ g' = [g EXCEPT !.authorities = names]
      BY <2>1, <2>2 DEF Advance
    <3>2. DOMAIN g' = DOMAIN g /\ g'.published = g.published
      BY <2>1, <3>1 DEF NamesInv
    <3> QED BY <1>2, <2>1, <3>1, <3>2
  <2>3. CASE outcome # "ok"
    BY <1>1, <2>1, <2>3 DEF Advance
  <2> QED BY <2>2, <2>3
<1>4. CASE ParseWCS
  <2>1. stage = "wcs" /\ UNCHANGED <<rawCfg, index>>
    BY <1>4 DEF ParseWCS, Sections
  <2>2. \E outcome, formats, native :
            \/ Advance(outcome, "layers", [g EXCEPT !.formats = formats, !.native = native])
            \/ Advance("ok", "layers", g)
    BY <1>4 DEF ParseWCS
  <2>3. PICK outcome, formats, native :
            \/ Advance(outcome, "layers", [g EXCEPT !.formats = formats, !.native = native])
            \/ Advance("ok", "layers", g)
    BY <2>2
  <2>4. \/ stage' \in {"refused", "crashed"} /\ g' = g
        \/ stage' = "layers" /\ g' = g
        \/ stage' = "layers" /\ g' = [g EXCEPT !.formats = formats, !.native = native]
    BY <2>3 DEF Advance
  <2>5. CASE g' = [g EXCEPT !.formats = formats, !.native = native] /\ stage' = "layers"
    <3>1. DOMAIN g' = DOMAIN g /\ g'.published = g.published
      BY <2>1, <2>5 DEF NamesInv
    <3> QED BY <1>2, <2>1, <2>5, <3>1
  <2> QED BY <1>1, <1>2, <2>1, <2>4, <2>5
<1> QED BY <1>3, <1>4

\* What parsing a layer does to the layers: none is added, or one with what the
\* names it uses stand for and its styles as they were made.
LEMMA LayerIndexed ==
  ASSUME ParseLayer
  PROVE  /\ stage = "layers" /\ UNCHANGED <<rawCfg, g, ready>>
         /\ \/ UNCHANGED <<index, queue>> /\ (stage' = stage \/ stage' = "crashed")
            \/ /\ stage' = stage
               /\ \E name, lyr : /\ index' = WithEntry(index, name, lyr)
                                 /\ queue' = Append(queue, name)
                                 /\ LayerListed(lyr) => LayerResolves(lyr) /\ LayerMade(lyr)
<1> DEFINE raw == Child(Last(open))
           parents == IF Has(raw, "inherits") THEN LayerParents(raw) ELSE {raw}
           parent == CHOOSE p \in parents : TRUE
           cfg == ExpandedLayer(raw, parent)
           styling == StylingOf(cfg, index)
           both == <<LayerOutcome(cfg, styling), RefusedIf(raw["name"].v \in DOMAIN index)>>
           outcome == IF parents = {} THEN "refused"
                      ELSE IF Has(raw, "inherits") /\ InheritClash(parent, raw) THEN "crash"
                      ELSE FirstBad(both)
           name == raw["name"].v
           lyr == NewLayer(cfg, styling)
<1>1. /\ stage = "layers" /\ UNCHANGED <<rawCfg, g, ready>>
      /\ IndexLayer(name, outcome, lyr)
  BY DEF ParseLayer
<1>2. outcome = "ok" => FirstBad(both) = "ok"
  <2> HIDE DEF both, parents, parent, raw
  <2> QED OBVIOUS
<1> HIDE DEF outcome
<1>3. CASE outcome = "ok"
  <2>1. LayerOutcome(cfg, styling) = "ok"
    <3>1. Numbered(both) /\ 1 \in DOMAIN both /\ both[1] = LayerOutcome(cfg, styling)
      BY DEF Numbered
    <3> HIDE DEF both
    <3> QED BY <1>2, <1>3, <3>1, AllOk
  <2>2. LayerListed(lyr) => LayerResolves(lyr) /\ LayerMade(lyr)
    <3> HIDE DEF cfg
    <3> QED BY <2>1, LayerResolved
  <2>3. index' = WithEntry(index, name, lyr) /\ queue' = Append(queue, name) /\ stage' = stage
    BY <1>1, <1>3 DEF IndexLayer
  <2> HIDE DEF name, lyr
  <2> QED BY <1>1, <2>2, <2>3
<1>4. CASE outcome # "ok"
  BY <1>1, <1>4 DEF IndexLayer
<1> QED BY <1>3, <1>4

\* A layer that is indexed resolves, and the others still do.
LEMMA LayerNames ==
  ASSUME NamesInv, ParseLayer
  PROVE  NamesInv'
<1>1. stage = "layers" /\ UNCHANGED <<rawCfg, g>> /\ LayersResolve
  BY LayerIndexed DEF NamesInv
<1>2. CASE UNCHANGED <<index, queue>> /\ (stage' = stage \/ stage' = "crashed")
  BY <1>1, <1>2, NamesKept
<1>3. ASSUME stage' = stage,
             NEW name, NEW lyr, index' = WithEntry(index, name, lyr),
             LayerListed(lyr) => LayerResolves(lyr) /\ LayerMade(lyr)
      PROVE  NamesInv'
  <2>1. \A n \in DOMAIN index' : \/ n = name /\ index'[n] = lyr
                                 \/ n \in DOMAIN index /\ index'[n] = index[n]
    BY <1>3 DEF WithEntry
  <2>2. ASSUME NEW n \in DOMAIN index', LayerListed(index'[n])
        PROVE  LayerResolves(index'[n])
    BY <1>1, <1>3, <2>1, <2>2 DEF LayersResolve
  <2>3. ASSUME NEW n \in DOMAIN index', LayerListed(index[n])'
        PROVE  LayerResolves(index[n])'
    <3>1. LayerListed(index'[n])
      BY <2>3 DEF LayerListed
    <3>2. LayerResolves(index'[n])
      BY <2>2, <3>1
    <3> QED BY <1>1, <3>2 DEF LayerResolves
  <2>4. LayersResolve'
    BY <2>3 DEF LayersResolve
  <2>5. AliasesPublished' = AliasesPublished
    BY <1>1 DEF AliasesPublished
  <2> QED BY <1>1, <1>3, <2>4, <2>5 DEF NamesInv
<1> QED BY <1>2, <1>3, LayerIndexed

\* The tile matrix sets use CRSs that are published.
LEMMA MatrixNames ==
  ASSUME NamesInv, ParseWMTS
  PROVE  NamesInv'
<1> DEFINE bad == {MatrixSetOutcome(MatrixSets[n].v) : n \in DOMAIN MatrixSets} \ {"ok"}
           checked == IF bad = {} THEN "ok" ELSE CHOOSE o \in bad : TRUE
           both == <<checked, RefusedIf(DOMAIN MatrixSets \cap Spaced # {})>>
           outcome == KeyErrorRefused(FirstBad(both))
<1>1. /\ stage = "wmts" /\ UNCHANGED <<rawCfg, index>>
      /\ Advance(outcome, "parsed", g)
  BY DEF ParseWMTS, Sections, AnyOf
<1>2. g' = g /\ ((outcome = "ok" /\ stage' = "parsed") \/ stage' \in {"refused", "crashed"})
  <2> HIDE DEF outcome
  <2> QED BY <1>1 DEF Advance
<1>3. ASSUME outcome = "ok" PROVE MatrixSetsResolve
  <2>1. FirstBad(both) = "ok"
    BY <1>3 DEF KeyErrorRefused
  <2>2. checked = "ok"
    <3>1. Numbered(both) /\ 1 \in DOMAIN both /\ both[1] = checked
      BY DEF Numbered
    <3> HIDE DEF both
    <3> QED BY <2>1, <3>1, AllOk
  <2>3. bad = {}
    BY <2>2
  <2>4. ASSUME NEW m \in DOMAIN MatrixSets
        PROVE  MatrixSets[m].v["crs"].v \in DOMAIN g.published
    <3> DEFINE tms == MatrixSets[m].v
               absent == RefusedIf(Has(tms, "crs") /\ tms["crs"].v \notin DOMAIN g.published)
               all == <<Required(tms, "crs"), absent,
                        Required(tms, "matrix_origin"), Required(tms, "tile_size"), Required(tms, "scale_set"),
                        RefusedIf(\E k \in Pairs \cap DOMAIN tms : tms[k].kind # "numbers" \/ Len(tms[k].v) # 2),
                        RefusedIf(Has(tms, "scale_set") /\ tms["scale_set"].v = <<>>)>>
    <3>1. FirstBad(all) = "ok"
      <4>1. MatrixSetOutcome(tms) = "ok"
        BY <2>3
      <4> QED BY <4>1 DEF MatrixSetOutcome
    <3>2. Required(tms, "crs") = "ok" /\ absent = "ok"
      <4>1. /\ Numbered(all) /\ {1, 2} \subseteq DOMAIN all
            /\ all[1] = Required(tms, "crs") /\ all[2] = absent
        BY DEF Numbered
      <4> HIDE DEF all
      <4> QED BY <3>1, <4>1, AllOk
    <3> QED BY <3>2 DEF Required, RefusedIf
  <2> QED BY <2>4 DEF MatrixSetsResolve
<1>4. CASE outcome = "ok" /\ stage' = "parsed"
  <2>1. MatrixSetsResolve' = MatrixSetsResolve
    BY <1>1, <1>2 DEF MatrixSetsResolve, MatrixSets
  <2>2. LayersResolve' = LayersResolve
    BY <1>1, <1>2 DEF LayersResolve, LayerListed, LayerResolves
  <2>3. AliasesPublished' = AliasesPublished
    BY <1>2 DEF AliasesPublished
  <2> QED BY <1>1, <1>2, <1>3, <1>4, <2>1, <2>2, <2>3 DEF NamesInv
<1>5. CASE stage' \in {"refused", "crashed"}
  BY <1>1, <1>2, <1>5, NamesKept
<1> QED BY <1>2, <1>4, <1>5

\* Every step of the configuration keeps the invariant.
LEMMA NamesStep ==
  ASSUME NamesInv, [DrawNext]_<<vars, drawn>>
  PROVE  NamesInv'
<1>1. CASE UNCHANGED parseVars
  BY <1>1, NamesKept DEF parseVars
<1>2. CASE ReadFailed
  BY <1>2, NamesKept DEF ReadFailed, Sections
<1>3. CASE OpenRoot \/ ParseFolder
  BY <1>3, NamesKept DEF OpenRoot, ParseFolder
<1>4. CASE CloseFolder
  BY <1>4, NamesKept DEF CloseFolder
<1>5. CASE MakeReady
  BY <1>5, NamesKept DEF MakeReady
<1>6. CASE Up
  BY <1>6, NamesKept DEF Up
<1> QED BY <1>1, <1>2, <1>3, <1>4, <1>5, <1>6, GlobalNames, ServiceNames, LayerNames, MatrixNames
        DEF DrawNext, ConfigNext, vars

\* The invariant holds in every state of the server.
LEMMA NamesInvHolds == DrawSpec => []NamesInv
<1>1. DrawInit => NamesInv
  <2>1. DOMAIN NoItems = {}
    BY DEF NoItems
  <2> QED BY <2>1, ConfigsAssumption DEF DrawInit, ConfigInit, NamesInv
<1>2. NamesInv /\ [DrawNext]_<<vars, drawn>> => NamesInv'
  BY NamesStep
<1> QED BY <1>1, <1>2, PTL DEF DrawSpec

(* The names that one section uses of another are there when the server comes   *)
(* up, for any configurations whose layers give their styles and masks in       *)
(* lists: default styles, coverage formats, authorities, flag bands of masks,   *)
(* CRSs of aliases and of tile matrix sets, whatever was inherited (OWSConfig's *)
(* first phase).                                                                *)
THEOREM ReferencesAlwaysResolve ==
    DrawSpec => [](LayersListed => ReferencesResolve)
<1>1. NamesInv => (LayersListed => ReferencesResolve)
  BY DEF NamesInv, LayersListed, LayersResolve, MatrixSetsResolve, ReferencesResolve
<1> QED BY <1>1, NamesInvHolds, PTL

-----------------------------------------------------------------------------
(* What a style that is drawn loads.                                            *)
-----------------------------------------------------------------------------

\* A group holds a flag band: its band, under its products.
Grouped(groups, fb) == \E i \in 1 .. Len(groups) : groups[i].products = fb.products /\ fb.band \in groups[i].bands

\* Groups of flag bands of the list.
GroupsOf(fbs) ==
    [products : {fbs[i].products : i \in DOMAIN fbs}, bands : SUBSET {fbs[i].band : i \in DOMAIN fbs},
     ignoreTime : {fbs[i].ignoreTime : i \in DOMAIN fbs}, merge : {fbs[i].merge : i \in DOMAIN fbs},
     fuse : {fbs[i].fuse : i \in DOMAIN fbs} \cup {NoFunction}, outcome : {"ok", "refused"}]

\* A flag band is put in a group, and those in groups stay there.
LEMMA GroupAdded ==
  ASSUME NEW fbs, NEW j \in DOMAIN fbs, NEW groups \in Seq(GroupsOf(fbs))
  PROVE  /\ AddToGroups(groups, fbs[j]) \in Seq(GroupsOf(fbs))
         /\ Grouped(AddToGroups(groups, fbs[j]), fbs[j])
         /\ \A fb : Grouped(groups, fb) => Grouped(AddToGroups(groups, fbs[j]), fb)
<1> DEFINE G == GroupsOf(fbs)
           new == AddToGroups(groups, fbs[j])
           n == Len(groups)
           same == {i \in DOMAIN groups : groups[i].products = fbs[j].products}
<1>1. n \in Nat /\ groups \in [1 .. n -> G] /\ DOMAIN groups = 1 .. n
  BY SeqDef
<1>2. Group(fbs[j]) \in G
  BY DEF GroupsOf, Group
<1>3. \A grp \in G : AddFlagBand(grp, fbs[j]) \in G
  BY DEF GroupsOf, AddFlagBand
<1>4. \A grp \in G : /\ AddFlagBand(grp, fbs[j]).products = grp.products
                     /\ AddFlagBand(grp, fbs[j]).bands = grp.bands \cup {fbs[j].band}
  BY DEF GroupsOf, AddFlagBand
<1>5. Group(fbs[j]).products = fbs[j].products /\ fbs[j].band \in Group(fbs[j]).bands
  BY DEF Group
<1> HIDE DEF G
<1>6. CASE same = {}
  <2>1. new = Append(groups, Group(fbs[j]))
    BY <1>6 DEF AddToGroups
  <2> HIDE DEF new
  <2>2. /\ new \in Seq(G) /\ Len(new) = n + 1 /\ new[n + 1] = Group(fbs[j])
        /\ \A i \in 1 .. n : new[i] = groups[i]
    BY <1>2, <2>1, AppendProperties DEF G
  <2>3. Grouped(new, fbs[j])
    <3>1. n + 1 \in 1 .. Len(new)
      BY <1>1, <2>2
    <3> QED BY <1>5, <2>2, <3>1 DEF Grouped
  <2>4. ASSUME NEW fb, Grouped(groups, fb) PROVE Grouped(new, fb)
    <3>1. PICK i \in 1 .. n : groups[i].products = fb.products /\ fb.band \in groups[i].bands
      BY <2>4 DEF Grouped
    <3>2. i \in 1 .. Len(new) /\ new[i] = groups[i]
      BY <1>1, <2>2
    <3> QED BY <3>1, <3>2 DEF Grouped
  <2> QED BY <2>2, <2>3, <2>4 DEF new, G
<1>7. CASE same # {}
  <2> DEFINE m == Min(same)
  <2>1. m \in 1 .. n /\ groups[m].products = fbs[j].products
    <3>1. same \in SUBSET (1 .. n)
      BY <1>1
    <3>2. m \in same
      <4> HIDE DEF same
      <4> QED BY <1>1, <1>7, <3>1, SmallestNumber
    <3> QED BY <1>1, <3>2
  <2>2. new = [groups EXCEPT ![m] = AddFlagBand(groups[m], fbs[j])]
    BY <1>7 DEF AddToGroups
  <2> HIDE DEF m, new
  <2>3. groups[m] \in G
    BY <1>1, <2>1
  <2>4. /\ new \in Seq(G) /\ Len(new) = n /\ new[m] = AddFlagBand(groups[m], fbs[j])
        /\ \A i \in 1 .. n : i # m => new[i] = groups[i]
    BY <1>1, <1>3, <2>1, <2>2, <2>3, ExceptSeq DEF G
  <2>5. Grouped(new, fbs[j])
    BY <1>4, <2>1, <2>3, <2>4 DEF Grouped
  <2>6. ASSUME NEW fb, Grouped(groups, fb) PROVE Grouped(new, fb)
    <3>1. PICK i \in 1 .. n : groups[i].products = fb.products /\ fb.band \in groups[i].bands
      BY <2>6 DEF Grouped
    <3>2. new[i].products = groups[i].products /\ groups[i].bands \subseteq new[i].bands
      BY <1>4, <2>3, <2>4
    <3> QED BY <2>4, <3>1, <3>2 DEF Grouped
  <2> QED BY <2>4, <2>5, <2>6 DEF new, G
<1> QED BY <1>6, <1>7

\* Every flag band of a list is in a group.
LEMMA EachGrouped ==
  ASSUME NEW fbs, Numbered(fbs), NEW j \in DOMAIN fbs
  PROVE  /\ Grouped(GroupedByProducts(fbs), fbs[j])
         /\ GroupedByProducts(fbs) \in Seq(GroupsOf(fbs))
<1>1. PICK n \in Nat : DOMAIN fbs = 1 .. n
  BY DEF Numbered
<1> DEFINE A == Seq(GroupsOf(fbs))
           Defines(h) == h = [s \in SUBSET (1 .. n) |->
                                 IF s = {} THEN <<>> ELSE AddToGroups(h[s \ {Max(s)}], fbs[Max(s)])]
           iter == CHOOSE h : Defines(h)
           step == [p \in A \X (1 .. n) |-> AddToGroups(p[1], fbs[p[2]])]
<1>2. GroupedByProducts(fbs) = iter[1 .. n]
  <2>1. GroupedByProducts(fbs) = (CHOOSE h : h = [s \in SUBSET DOMAIN fbs |->
            IF s = {} THEN <<>> ELSE AddToGroups(h[s \ {Max(s)}], fbs[Max(s)])])[DOMAIN fbs]
    BY DEF GroupedByProducts, FoldLeft, MapThenFoldSet
  <2> QED BY <1>1, <2>1
<1>3. <<>> \in A
  BY EmptySeq
<1>4. step \in [A \X (1 .. n) -> A]
  <2>1. ASSUME NEW f \in A, NEW i \in 1 .. n PROVE AddToGroups(f, fbs[i]) \in A
    BY <1>1, GroupAdded
  <2> HIDE DEF A
  <2> QED BY <2>1
<1> HIDE DEF A
<1>5. PICK h \in [SUBSET (1 .. n) -> A] : Folded(h, <<>>, step, n)
  <2> HIDE DEF step
  <2> QED BY <1>1, <1>3, <1>4, FoldWithin
<1>6. Defines(h)
  <2>1. ASSUME NEW s \in SUBSET (1 .. n), s # {}
        PROVE  h[s] = AddToGroups(h[s \ {Max(s)}], fbs[Max(s)])
    <3>1. Max(s) \in 1 .. n /\ h[s \ {Max(s)}] \in A
      BY <1>1, <2>1, GreatestNumber
    <3>2. h[s] = step[<<h[s \ {Max(s)}], Max(s)>>]
      BY <1>5, <2>1 DEF Folded
    <3> QED BY <3>1, <3>2
  <2>2. h[{}] = <<>>
    BY <1>5 DEF Folded
  <2>3. \A s \in SUBSET (1 .. n) :
            h[s] = IF s = {} THEN <<>> ELSE AddToGroups(h[s \ {Max(s)}], fbs[Max(s)])
    BY <2>1, <2>2
  <2> QED BY <2>3
<1>7. \A s \in SUBSET (1 .. n) :
          iter[s] = IF s = {} THEN <<>> ELSE AddToGroups(iter[s \ {Max(s)}], fbs[Max(s)])
  <2>1. Defines(iter)
    <3> HIDE DEF Defines
    <3> QED BY <1>6
  <2> HIDE DEF iter
  <2> QED BY <2>1
<1> DEFINE good == {s \in SUBSET (1 .. n) : iter[s] \in A /\ \A i \in s : Grouped(iter[s], fbs[i])}
<1>8. {} \in good
  BY <1>3, <1>7
<1>9. ASSUME NEW s \in SUBSET (1 .. n), s # {}, s \ {Max(s)} \in good PROVE s \in good
  <2> DEFINE m == Max(s)
             before == iter[s \ {m}]
  <2>1. m \in 1 .. n
    BY <1>1, <1>9, GreatestNumber
  <2>2. before \in A /\ iter[s] = AddToGroups(before, fbs[m])
    BY <1>7, <1>9
  <2>3. \A i \in s \ {m} : Grouped(before, fbs[i])
    BY <1>9
  <2> HIDE DEF m, before, iter
  <2>4. /\ iter[s] \in A /\ Grouped(iter[s], fbs[m])
        /\ \A fb : Grouped(before, fb) => Grouped(iter[s], fb)
    BY <1>1, <2>1, <2>2, GroupAdded DEF A
  <2> QED BY <2>3, <2>4
<1>10. 1 .. n \in good
  <2>1. 1 .. n \in SUBSET (1 .. n)
    OBVIOUS
  <2> HIDE DEF good
  <2> QED BY <1>1, <1>8, <1>9, <2>1, EverySubset
<1> HIDE DEF iter
<1> QED BY <1>1, <1>2, <1>10 DEF A

\* The bands a style names in its components and its index expression.
Named(st) == /\ st.kind = "map" => st.needed = DOMAIN st.raw["value_map"].v
             /\ st.kind \in {"component", "hybrid"} =>
                    \A comp \in Linear(st) : Intensities(comp) \subseteq st.needed
Expressed(st, aliases) ==
    st.kind \in {"ramp", "hybrid"} /\ ~Has(st.raw, "index_function") =>
        \A b \in Range(Expression(st.raw)) :
            Local(st.bandMap, b) \in DOMAIN aliases /\ aliases[Local(st.bandMap, b)] \in st.needed

\* What is known of a style made for a layer.
LEMMA StyleMade ==
  ASSUME NEW lyr, NEW st, MadeFor(st, lyr)
  PROVE  /\ st.groups = GroupedByProducts([i \in DOMAIN st.masks |->
                            BandNamed(lyr.flags, st.masks[i]["band"].v)])
         /\ Named(st) /\ Expressed(st, lyr.aliases)
<1>1. PICK cfg : StyleOutcome(cfg, lyr) = "ok" /\ st = NewStyle(cfg, lyr)
  BY DEF MadeFor
<1>2. /\ st.masks = Masks(cfg) /\ st.raw = cfg /\ st.kind = Kind(cfg)
      /\ st.needed = RawNeededBands(cfg, lyr) /\ st.bandMap = Opt(cfg, "band_map", NoItems)
      /\ st.groups = GroupedByProducts(MaskFlagBands(cfg, lyr.flags))
  BY <1>1 DEF NewStyle
<1>3. st.groups = GroupedByProducts([i \in DOMAIN st.masks |-> BandNamed(lyr.flags, st.masks[i]["band"].v)])
  BY <1>2 DEF MaskFlagBands
<1>4. KindOutcome(cfg, lyr) = "ok"
  <2> DEFINE handler(h) == HandlerOutcome(h, Kind(cfg), Opt(cfg, "band_map", NoItems), lyr)
             masks == FirstOf(Masks(cfg), LAMBDA m : MaskOutcome(m, lyr.flags))
             handlers == FirstOf(Handlers(cfg), handler)
             own == <<Required(cfg, "name"), masks, FunctionsOutcome(cfg, "custom_includes"),
                      LegendUrls(cfg, lyr), handlers, KindOutcome(cfg, lyr)>>
  <2>1. FirstBad(own) = "ok"
    BY <1>1 DEF StyleOutcome, Then, KeyErrorRefused
  <2>2. Numbered(own) /\ 6 \in DOMAIN own /\ own[6] = KindOutcome(cfg, lyr)
    BY DEF Numbered
  <2> HIDE DEF own
  <2> QED BY <2>1, <2>2, AllOk
<1>5. Kind(cfg) = "hybrid" => ComponentsOutcome(cfg) = "ok" /\ IndexOutcome(cfg, lyr) = "ok"
  <2> DEFINE ratio == RefusedIf(cfg["component_ratio"].v \notin 0..100)
             all == <<ComponentsOutcome(cfg), RampOutcome(cfg), IndexOutcome(cfg, lyr), ratio>>
  <2>1. SUFFICES ASSUME Kind(cfg) = "hybrid" PROVE ComponentsOutcome(cfg) = "ok" /\ IndexOutcome(cfg, lyr) = "ok"
    OBVIOUS
  <2>2. FirstBad(all) = "ok"
    BY <1>4, <2>1 DEF KindOutcome
  <2>3. /\ Numbered(all) /\ {1, 3} \subseteq DOMAIN all
        /\ all[1] = ComponentsOutcome(cfg) /\ all[3] = IndexOutcome(cfg, lyr)
    BY DEF Numbered
  <2> HIDE DEF all
  <2> QED BY <2>2, <2>3, AllOk
<1>6. Kind(cfg) = "ramp" => IndexOutcome(cfg, lyr) = "ok"
  <2> DEFINE all == <<RampOutcome(cfg), IndexOutcome(cfg, lyr)>>
  <2>1. SUFFICES ASSUME Kind(cfg) = "ramp" PROVE IndexOutcome(cfg, lyr) = "ok"
    OBVIOUS
  <2>2. FirstBad(all) = "ok"
    BY <1>4, <2>1 DEF KindOutcome
  <2>3. Numbered(all) /\ 2 \in DOMAIN all /\ all[2] = IndexOutcome(cfg, lyr)
    BY DEF Numbered
  <2> HIDE DEF all
  <2> QED BY <2>2, <2>3, AllOk
<1>7. Kind(cfg) = "component" => ComponentsOutcome(cfg) = "ok"
  BY <1>4 DEF KindOutcome
<1>8. Kind(cfg) \in {"component", "hybrid"} =>
          \A comp \in Linear(st) : Intensities(comp) \subseteq ComponentBands(cfg)
  <2>1. SUFFICES ASSUME Has(cfg, "components"), NEW comp \in Linear(st), NEW b \in Intensities(comp)
                 PROVE  b \in ComponentBands(cfg)
    BY <1>5, <1>7 DEF ComponentsOutcome
  <2> DEFINE comps == cfg["components"].v
  <2>2. PICK c \in DOMAIN comps : comp = comps[c].v /\ ~Has(comps[c].v, "function")
    BY <1>2 DEF Linear, Components
  <2>3. b \in DOMAIN comps[c].v \ {"scale_range"}
    BY <2>2 DEF Intensities
  <2>4. Opt(cfg, "components", NoItems) = comps
    BY <2>1 DEF Opt
  <2> HIDE DEF comps
  <2> QED BY <2>2, <2>3, <2>4 DEF ComponentBands
<1>9. Named(st)
  BY <1>2, <1>8 DEF Named, RawNeededBands
<1>10. Kind(cfg) \in {"ramp", "hybrid"} => IndexBands(cfg, lyr) \subseteq st.needed
  BY <1>2 DEF RawNeededBands
<1>11. \A b : Mapped(cfg, b) = Local(st.bandMap, b)
  BY <1>2 DEF Mapped
<1>12. ASSUME st.kind \in {"ramp", "hybrid"}, ~Has(st.raw, "index_function"),
              NEW b \in Range(Expression(st.raw))
       PROVE  Local(st.bandMap, b) \in DOMAIN lyr.aliases /\ lyr.aliases[Local(st.bandMap, b)] \in st.needed
  <2>1. IndexOutcome(cfg, lyr) = "ok" /\ ~Has(cfg, "index_function")
    BY <1>2, <1>5, <1>6, <1>12
  <2>2. Mapped(cfg, b) \in DOMAIN lyr.aliases
    BY <1>2, <1>12, <2>1 DEF IndexOutcome, RefusedIf
  <2>3. lyr.aliases[Mapped(cfg, b)] \in IndexBands(cfg, lyr)
    BY <1>2, <1>12, <2>1 DEF IndexBands
  <2> QED BY <1>2, <1>10, <1>11, <1>12, <2>2, <2>3
<1>13. Expressed(st, lyr.aliases)
  BY <1>12 DEF Expressed
<1> QED BY <1>3, <1>9, <1>13

\* The bands a style of a layer that is ready asks for are among those it loads.
LEMMA AskedLoaded ==
  ASSUME NEW lyr, NEW st, StyleReady(lyr, st) = "ok", NEW b \in AskedBands(lyr, st)
  PROVE  b \in DOMAIN Aliases(lyr) /\ Aliases(lyr)[b] \in StyleData(lyr, st)
<1> DEFINE asked == RefusedIf(~(AskedBands(lyr, st) \subseteq DOMAIN Aliases(lyr)))
           ambiguous == RefusedIf(\E f1, f2 \in MaskFlags(lyr, st) :
                                      f1.band = f2.band /\ f1.products # f2.products)
           grouped == FirstOf(st.groups, LAMBDA grp : GroupReady(lyr, grp))
           all == <<asked, ambiguous, grouped>>
<1>1. FirstBad(all) = "ok"
  BY DEF StyleReady
<1>2. asked = "ok"
  <2>1. Numbered(all) /\ 1 \in DOMAIN all /\ all[1] = asked
    BY DEF Numbered
  <2> HIDE DEF all
  <2> QED BY <1>1, <2>1, AllOk
<1>3. AskedBands(lyr, st) \subseteq DOMAIN Aliases(lyr)
  BY <1>2 DEF RefusedIf
<1> QED BY <1>3 DEF StyleData, NeededBands

\* A mask that is not found has a name that make_ready resolves to another.
LEMMA MasksFound ==
  ASSUME NEW lyr, LayerListed(lyr), LayerMade(lyr), LayerResolves(lyr),
         NEW s \in DOMAIN lyr.styles, StyleReady(lyr, lyr.styles[s]) = "ok",
         NEW read \in Reading("mask", {m["band"].v : m \in Range(lyr.styles[s].masks)}),
         ~Finds(lyr, lyr.styles[s], StyleData(lyr, lyr.styles[s]), read)
  PROVE  Overlooked(lyr, lyr.styles[s], read)
<1> DEFINE st == lyr.styles[s]
           b == read.name
           fb == BandNamed(lyr.flags, b)
           flags == [i \in DOMAIN st.masks |-> BandNamed(lyr.flags, st.masks[i]["band"].v)]
<1>1. PICK j \in DOMAIN st.masks : st.masks[j]["band"].v = b
  BY DEF Range, Reading
<1>2. read.how = "mask" /\ b \notin StyleData(lyr, st)
  BY DEF Finds, Reading
<1>3. fb.band = b
  <2>1. \E f \in Range(lyr.flags) : f.band = b
    BY <1>1 DEF LayerResolves
  <2> QED BY <2>1 DEF BandNamed
<1>4. st.groups = GroupedByProducts(flags)
  <2>1. PICK context : context.flags = lyr.flags /\ MadeFor(st, context)
    BY DEF LayerMade
  <2> HIDE DEF st
  <2> QED BY <2>1, StyleMade
<1>5. Numbered(flags) /\ j \in DOMAIN flags /\ flags[j] = fb
  BY <1>1 DEF LayerListed, IsSequence, Numbered
<1>6. fb \in MaskFlags(lyr, st)
  BY <1>1 DEF MaskFlags, Range
<1> HIDE DEF flags, fb, b
<1>7. CASE fb.products = lyr.products
  <2>1. MainFlag(lyr, fb)
    BY <1>7 DEF MainFlag
  <2>2. Local(st.bandMap, b) \in AskedBands(lyr, st)
    BY <1>3, <1>6, <2>1 DEF AskedBands
  <2>3. Aliases(lyr)[Local(st.bandMap, b)] # b
    BY <1>2, <2>2, AskedLoaded
  <2> QED BY <1>2, <2>1, <2>3 DEF Overlooked, fb, b
<1>8. CASE fb.products # lyr.products
  <2>1. Grouped(st.groups, fb) /\ st.groups \in Seq(GroupsOf(flags))
    BY <1>4, <1>5, EachGrouped
  <2>2. PICK i \in 1 .. Len(st.groups) : st.groups[i].products = fb.products /\ fb.band \in st.groups[i].bands
    BY <2>1 DEF Grouped
  <2>3. st.groups[i] \in Range(st.groups)
    <3>1. DOMAIN st.groups = 1 .. Len(st.groups)
      BY <2>1, SeqDef
    <3> QED BY <2>2, <3>1 DEF Range
  <2>4. ~OfMain(lyr, st.groups[i])
    BY <1>8, <2>2 DEF OfMain
  <2>5. b \in StyleData(lyr, st)
    BY <1>3, <2>2, <2>3, <2>4 DEF StyleData
  <2> QED BY <1>2, <2>5
<1> QED BY <1>7, <1>8

\* What a style that is ready names, as its layer knows it, is loaded.
LEMMA NamedLoaded ==
  ASSUME NEW lyr, NEW st, StyleReady(lyr, st) = "ok", NEW b \in st.needed
  PROVE  /\ Local(st.bandMap, b) \in DOMAIN Aliases(lyr)
         /\ Aliases(lyr)[Local(st.bandMap, b)] \in StyleData(lyr, st)
<1>1. Local(st.bandMap, b) \in AskedBands(lyr, st)
  BY DEF AskedBands
<1> QED BY <1>1, AskedLoaded

\* A style that is ready finds what it reads, but for what make_ready overlooks.
LEMMA ReadsFound ==
  ASSUME NEW lyr, LayerListed(lyr), LayerMade(lyr), LayerResolves(lyr),
         NEW s \in DOMAIN lyr.styles, StyleReady(lyr, lyr.styles[s]) = "ok", NEW d,
         NEW read \in Missed(lyr, lyr.styles[s], StyleData(lyr, lyr.styles[s]), d)
  PROVE  Overlooked(lyr, lyr.styles[s], read)
<1> DEFINE st == lyr.styles[s]
           loaded == StyleData(lyr, st)
           h == HandlerOf(st, d)
           b == read.name
           own == Aliases(lyr)[Local(st.bandMap, b)]
<1>1. PICK context : context.aliases = AliasIndex(lyr.bands) /\ MadeFor(st, context)
  BY DEF LayerMade
<1>2. Named(st) /\ Expressed(st, AliasIndex(lyr.bands))
  <2> HIDE DEF st
  <2> QED BY <1>1, StyleMade
<1>3. read \in Reads(st, h) /\ ~Finds(lyr, st, loaded, read)
  BY DEF Missed
<1> HIDE DEF h
<1>4. CASE read \in Reading("mask", {m["band"].v : m \in Range(st.masks)})
  BY <1>3, <1>4, MasksFound
<1>5. CASE st.kind = "map" /\ read \in Reading("map", DOMAIN MapOf(st, h))
  <2>1. read.how = "map" /\ ~(b \in DOMAIN Aliases(lyr) /\ Aliases(lyr)[b] \in loaded)
    BY <1>3, <1>5 DEF Reading, Finds
  <2>2. Local(st.bandMap, b) # b \/ b \notin st.needed
    <3> HIDE DEF st, b
    <3> QED BY <2>1, NamedLoaded DEF loaded, st
  <2> QED BY <1>2, <1>5, <2>1, <2>2 DEF Overlooked, Named
<1>6. CASE /\ Composes(st, h)
           /\ read \in Reading("component", UNION {Intensities(comp) : comp \in Linear(st)})
  <2>1. read.how = "component" /\ \E comp \in Linear(st) : b \in Intensities(comp)
    BY <1>6 DEF Reading
  <2>2. b \in st.needed
    BY <1>2, <1>6, <2>1 DEF Composes, Named
  <2>3. ~(Local(st.bandMap, b) \in DOMAIN Aliases(lyr) /\ own \in loaded)
    BY <1>3, <2>1 DEF Finds
  <2> HIDE DEF b
  <2> QED BY <2>2, <2>3, NamedLoaded
<1>7. CASE Evaluates(st, h) /\ read \in Reading("expression", Range(Expression(st.raw)))
  <2>1. read.how = "expression" /\ b \in Range(Expression(st.raw))
    BY <1>7 DEF Reading
  <2>2. /\ Local(st.bandMap, b) \in DOMAIN AliasIndex(lyr.bands)
        /\ AliasIndex(lyr.bands)[Local(st.bandMap, b)] \in st.needed
    BY <1>2, <1>7, <2>1 DEF Evaluates, Expressed
  <2>3. Aliases(lyr) = AliasIndex(lyr.bands)
    <3>1. lyr.bands # NoItems
      BY <2>2 DEF AliasIndex, NoItems
    <3> QED BY <3>1 DEF Aliases
  <2>4. own \in st.needed /\ own \notin loaded
    BY <1>3, <2>1, <2>2, <2>3 DEF Finds
  <2> HIDE DEF own
  <2>5. Aliases(lyr)[Local(st.bandMap, own)] # own
    BY <2>4, NamedLoaded
  <2> QED BY <2>1, <2>5 DEF Overlooked, own
<1> QED BY <1>3, <1>4, <1>5, <1>6, <1>7 DEF Reads

-----------------------------------------------------------------------------
(* What requests load.                                                          *)
-----------------------------------------------------------------------------

\* What a layer that is ready promises of the styles of the layer it was made of.
Promises(made, lyr) ==
    /\ DOMAIN made.styles = DOMAIN lyr.styles
    /\ \A s \in DOMAIN lyr.styles : /\ StyleReady(lyr, lyr.styles[s]) = "ok"
                                    /\ made.styles[s].data = StyleData(lyr, lyr.styles[s])

LayersMade == \A n \in DOMAIN index : LayerListed(index[n]) => LayerMade(index[n])
LayersReady ==
    \A n \in DOMAIN ready : n \in DOMAIN index /\ (LayerListed(index[n]) => Promises(ready[n], index[n]))

\* Layers are made ready when all are parsed, each from what was parsed.
ReadyInv ==
    /\ queue \in Seq(DOMAIN index)
    /\ stage \in {"global", "wms", "wcs", "layers", "wmts"} => DOMAIN ready = {}
    /\ LayersMade
    /\ LayersReady

\* A layer that is made ready has only styles that are ready.
LEMMA ReadyPromises ==
  ASSUME NEW n, ReadyOutcome(n) = "ok", LayerMade(Layer(n))
  PROVE  Promises(ReadyLayer(n), Layer(n))
<1> DEFINE lyr == Layer(n)
           native == NativeReady(lyr)
           flags == FirstOf(lyr.flags, LAMBDA fb : FlagReady(lyr, fb))
           fetched == RefusedIf(~(AlwaysFetched(lyr) \subseteq DOMAIN Aliases(lyr)))
           coverage == IF native = "ok" THEN CoverageReady(n) ELSE "ok"
           checked == [i \in DOMAIN lyr.order |-> StyleReady(lyr, lyr.styles[lyr.order[i]])]
           groups == FirstOf(lyr.groups, LAMBDA grp : GroupReady(lyr, grp))
           all == <<flags, fetched, native, coverage, FirstBad(checked), groups>>
<1>1. FirstBad(all) = "ok"
  BY DEF ReadyOutcome, FirstOf
<1>2. FirstBad(checked) = "ok"
  <2>1. Numbered(all) /\ 5 \in DOMAIN all /\ all[5] = FirstBad(checked)
    BY DEF Numbered
  <2> HIDE DEF all
  <2> QED BY <1>1, <2>1, AllOk
<1>3. ASSUME NEW s \in DOMAIN lyr.styles PROVE StyleReady(lyr, lyr.styles[s]) = "ok"
  <2>1. PICK i \in 1 .. Len(lyr.order) : lyr.order[i] = s
    BY DEF LayerMade
  <2>2. Len(lyr.order) \in Nat /\ DOMAIN lyr.order = 1 .. Len(lyr.order)
    <3>1. lyr.order \in Seq(DOMAIN lyr.styles)
      BY DEF LayerMade
    <3> QED BY <3>1, SeqDef
  <2>3. Numbered(checked) /\ i \in DOMAIN checked /\ checked[i] = StyleReady(lyr, lyr.styles[s])
    BY <2>1, <2>2 DEF Numbered
  <2> HIDE DEF checked
  <2> QED BY <1>2, <2>3, AllOk
<1>4. ReadyLayer(n).styles = [s \in DOMAIN lyr.styles |->
                                [masks |-> lyr.styles[s].masks, data |-> StyleData(lyr, lyr.styles[s])]]
  BY DEF ReadyLayer
<1> HIDE DEF lyr
<1> QED BY <1>3, <1>4 DEF Promises, lyr

\* A state with the layers as they were.
LEMMA ReadyKept ==
  ASSUME ReadyInv, UNCHANGED <<index, queue, ready>>,
         \/ stage' = stage \/ stage' \in {"refused", "crashed", "parsed", "up"}
         \/ stage \in {"global", "wms", "wcs", "layers", "wmts"}
  PROVE  ReadyInv'
<1>1. LayersMade' = LayersMade
  BY DEF LayersMade
<1>2. LayersReady' = LayersReady
  BY DEF LayersReady
<1> QED BY <1>1, <1>2 DEF ReadyInv

\* Parsing a layer adds it to the queue, if it adds it at all.
LEMMA LayerQueued ==
  ASSUME ReadyInv, ParseLayer
  PROVE  ReadyInv'
<1>1. stage = "layers" /\ UNCHANGED ready /\ DOMAIN ready = {}
  BY LayerIndexed DEF ReadyInv
<1>2. CASE UNCHANGED <<index, queue>> /\ (stage' = stage \/ stage' = "crashed")
  BY <1>1, <1>2, ReadyKept
<1>3. ASSUME stage' = stage,
             NEW name, NEW lyr, index' = WithEntry(index, name, lyr),
             queue' = Append(queue, name),
             LayerListed(lyr) => LayerResolves(lyr) /\ LayerMade(lyr)
      PROVE  ReadyInv'
  <2>1. DOMAIN index' = DOMAIN index \cup {name}
    BY <1>3 DEF WithEntry
  <2>2. \A n \in DOMAIN index' : \/ n = name /\ index'[n] = lyr
                                 \/ n \in DOMAIN index /\ index'[n] = index[n]
    BY <1>3 DEF WithEntry
  <2>3. queue' \in Seq(DOMAIN index')
    <3> DEFINE names == DOMAIN index'
    <3>1. queue \in Seq(DOMAIN index) /\ DOMAIN index \subseteq names /\ name \in names
      BY <2>1 DEF ReadyInv
    <3> HIDE DEF names
    <3>2. queue \in Seq(names)
      BY <3>1, SeqMonotonic
    <3>3. Append(queue, name) \in Seq(names)
      BY <3>1, <3>2, AppendProperties
    <3> QED BY <1>3, <3>3 DEF names
  <2>4. ASSUME NEW n \in DOMAIN index', LayerListed(index'[n])
        PROVE  LayerMade(index'[n])
    BY <1>3, <2>2, <2>4 DEF ReadyInv, LayersMade
  <2>5. LayersMade'
    BY <2>4 DEF LayersMade
  <2>6. LayersReady'
    BY <1>1 DEF LayersReady
  <2> QED BY <1>1, <1>3, <2>3, <2>5, <2>6 DEF ReadyInv
<1> QED BY <1>2, <1>3, LayerIndexed

\* A layer is made ready as it was parsed.
LEMMA MadeReady ==
  ASSUME ReadyInv, MakeReady
  PROVE  ReadyInv'
<1> DEFINE n == Head(queue)
           made == ReadyLayer(n)
<1>1. /\ stage = "parsed" /\ stage' \in {"parsed", "crashed"}
      /\ queue # <<>> /\ queue' = Tail(queue) /\ index' = index
      /\ \/ ready' = ready
         \/ ReadyOutcome(n) = "ok" /\ ready' = WithEntry(ready, n, made)
  BY DEF MakeReady
<1>2. n \in DOMAIN index /\ queue' \in Seq(DOMAIN index)
  BY <1>1, HeadTailProperties DEF ReadyInv
<1>3. LayersMade'
  <2>1. LayersMade' = LayersMade
    BY <1>1 DEF LayersMade
  <2> QED BY <2>1 DEF ReadyInv
<1>4. LayersReady'
  <2>1. CASE ready' = ready
    <3>1. LayersReady' = LayersReady
      BY <1>1, <2>1 DEF LayersReady
    <3> QED BY <3>1 DEF ReadyInv
  <2>2. CASE ReadyOutcome(n) = "ok" /\ ready' = WithEntry(ready, n, made)
    <3>1. LayerListed(index[n]) => Promises(made, index[n])
      BY <1>2, <2>2, ReadyPromises DEF ReadyInv, LayersMade, Layer
    <3> HIDE DEF made, n
    <3>2. \A x \in DOMAIN ready' : \/ x = n /\ ready'[x] = made
                                   \/ x \in DOMAIN ready /\ ready'[x] = ready[x]
      BY <2>2 DEF WithEntry
    <3>3. \A x \in DOMAIN ready' :
             x \in DOMAIN index /\ (LayerListed(index[x]) => Promises(ready'[x], index[x]))
      BY <1>2, <3>1, <3>2 DEF ReadyInv, LayersReady
    <3> QED BY <1>1, <3>3 DEF LayersReady
  <2> QED BY <1>1, <2>1, <2>2
<1> QED BY <1>1, <1>2, <1>3, <1>4 DEF ReadyInv

\* Every step keeps the invariant.
LEMMA ReadyStep ==
  ASSUME ReadyInv, [DrawNext]_<<vars, drawn>>
  PROVE  ReadyInv'
<1>1. CASE UNCHANGED parseVars
  BY <1>1, ReadyKept DEF parseVars
<1>2. CASE ReadFailed \/ ParseGlobal \/ ParseWMS \/ ParseWCS \/ ParseWMTS
  <2>1. UNCHANGED <<index, queue, ready>> /\ stage \in {"global", "wms", "wcs", "wmts"}
    BY <1>2 DEF ReadFailed, ParseGlobal, ParseWMS, ParseWCS, ParseWMTS, Sections
  <2> QED BY <2>1, ReadyKept
<1>3. CASE OpenRoot \/ ParseFolder \/ CloseFolder
  <2>1. UNCHANGED <<index, queue, ready>> /\ stage = "layers"
    BY <1>3 DEF OpenRoot, ParseFolder, CloseFolder
  <2> QED BY <2>1, ReadyKept
<1>4. CASE Up
  <2>1. UNCHANGED <<index, queue, ready>> /\ stage' = "up"
    BY <1>4 DEF Up
  <2> QED BY <2>1, ReadyKept
<1> QED BY <1>1, <1>2, <1>3, <1>4, LayerQueued, MadeReady DEF DrawNext, ConfigNext, vars

\* The invariant holds in every state of the server.
LEMMA ReadyInvHolds == DrawSpec => []ReadyInv
<1>1. DrawInit => ReadyInv
  <2>1. DOMAIN NoItems = {} /\ <<>> \in Seq({})
    BY EmptySeq DEF NoItems
  <2> QED BY <2>1 DEF DrawInit, ConfigInit, ReadyInv, LayersMade, LayersReady
<1>2. ReadyInv /\ [DrawNext]_<<vars, drawn>> => ReadyInv'
  BY ReadyStep
<1> QED BY <1>1, <1>2, PTL DEF DrawSpec

\* A picture that cannot be drawn misses only what make_ready overlooks.
LoadedInv ==
    /\ drawn # NoPicture => stage = "up"
    /\ LayersListed => LoadedSuffices

\* So it is when a request for it fails.
LEMMA DrawLoads ==
  ASSUME NamesInv, ReadyInv, LayersListed, stage = "up", UNCHANGED vars,
         NEW n \in DOMAIN ready, NEW s \in DOMAIN ready[n].styles, NEW d, Draw(n, s, d)
  PROVE  LoadedSuffices'
<1> DEFINE lyr == Layer(n)
           st == lyr.styles[s]
           bands == ready[n].styles[s].data
<1>1. SUFFICES ASSUME drawn'.result = "error"
               PROVE  LoadedSuffices'
  BY DEF LoadedSuffices
<1>2. drawn' = Unseen(n, s, d, "error")
  BY <1>1 DEF Draw, Unseen, Picture
<1>3. drawn'.layer = n /\ drawn'.style = s /\ drawn'.dates = d /\ DOMAIN drawn'.data = bands
  BY <1>2 DEF Unseen
<1>4. Layer(drawn.layer)' = lyr /\ DrawnStyle' = st
  BY <1>3 DEF DrawnStyle, Layer, vars, parseVars
<1>5. /\ LayerListed(lyr) /\ LayerMade(lyr) /\ LayerResolves(lyr)
      /\ Promises(ready[n], lyr)
  BY DEF LayersListed, ReadyInv, LayersMade, LayersReady, NamesInv, LayersResolve, Layer
<1>6. s \in DOMAIN lyr.styles /\ StyleReady(lyr, st) = "ok" /\ bands = StyleData(lyr, st)
  BY <1>5 DEF Promises
<1>7. \A read \in Missed(lyr, st, bands, d) : Overlooked(lyr, st, read)
  <2> HIDE DEF lyr, bands
  <2> QED BY <1>5, <1>6, ReadsFound
<1> HIDE DEF lyr, st, bands
<1>8. \A read \in Missed(Layer(drawn.layer), DrawnStyle, DOMAIN drawn.data, drawn.dates)' :
         Overlooked(Layer(drawn.layer), DrawnStyle, read)'
  BY <1>3, <1>4, <1>7
<1> QED BY <1>8 DEF LoadedSuffices

\* Every step keeps what is known of pictures that fail.
LEMMA LoadedStep ==
  ASSUME LoadedInv, NamesInv, ReadyInv, [DrawNext]_<<vars, drawn>>
  PROVE  LoadedInv'
<1>1. CASE drawn' = drawn /\ drawn # NoPicture /\ UNCHANGED <<stage, index>>
  <2>1. LayersListed' = LayersListed
    BY <1>1 DEF LayersListed
  <2>2. DrawnStyle' = DrawnStyle /\ Layer(drawn.layer)' = Layer(drawn.layer)
    BY <1>1 DEF DrawnStyle, Layer
  <2>3. LoadedSuffices' = LoadedSuffices
    BY <1>1, <2>2 DEF LoadedSuffices
  <2> QED BY <1>1, <2>1, <2>3 DEF LoadedInv
<1>2. CASE drawn' = NoPicture
  BY <1>2 DEF LoadedInv, LoadedSuffices, NoPicture
<1>3. CASE ConfigNext /\ UNCHANGED drawn
  BY <1>1, <1>2, <1>3, UpStands DEF LoadedInv
<1>4. CASE UNCHANGED <<vars, drawn>>
  BY <1>1, <1>2, <1>4 DEF vars, parseVars
<1>5. ASSUME NEW n \in DOMAIN ready, NEW s \in DOMAIN ready[n].styles, NEW d \in Dates,
             Draw(n, s, d), UNCHANGED vars, stage = "up"
      PROVE  LoadedInv'
  <2>1. stage' = "up"
    BY <1>5 DEF vars, parseVars
  <2>2. LayersListed' = LayersListed
    BY <1>5 DEF LayersListed, vars, parseVars
  <2>3. LayersListed => LoadedSuffices'
    BY <1>5, DrawLoads
  <2> QED BY <2>1, <2>2, <2>3 DEF LoadedInv
<1> QED BY <1>3, <1>4, <1>5 DEF DrawNext

(* A style of a layer that got ready finds every band it reads among those a    *)
(* request for it loads: all of its components', and those of its masks, value  *)
(* maps and index expression but for the names make_ready overlooks.  So it is  *)
(* for any configurations whose layers give their styles and masks in lists,    *)
(* any database and any dates (make_ready of the style, style_queries, to_mask, *)
(* transform_data).                                                             *)
THEOREM LoadedAlwaysSuffices == DrawSpec => [](LayersListed => LoadedSuffices)
<1>1. DrawInit => LoadedInv
  BY DEF DrawInit, LoadedInv, LoadedSuffices, NoPicture
<1>2. LoadedInv /\ NamesInv /\ ReadyInv /\ [DrawNext]_<<vars, drawn>> => LoadedInv'
  BY LoadedStep
<1>3. LoadedInv => (LayersListed => LoadedSuffices)
  BY DEF LoadedInv
<1> QED BY <1>1, <1>2, <1>3, NamesInvHolds, ReadyInvHolds, PTL DEF DrawSpec

-----------------------------------------------------------------------------
(* A layer and those parsed before it.                                          *)
-----------------------------------------------------------------------------

\* Two contexts that differ in the layers parsed before, of which one has none.
Alone(lyr, other) ==
    /\ lyr.name = other.name /\ lyr.flags = other.flags /\ lyr.aliases = other.aliases
    /\ lyr.locale = other.locale /\ lyr.index = NoItems

\* What is wrong with a style does not depend on the layers parsed before.
LEMMA StyleAlone ==
  ASSUME NEW lyr, NEW other, Alone(lyr, other), NEW cfg
  PROVE  /\ StyleOutcome(cfg, other) = StyleOutcome(cfg, lyr)
         /\ NewStyle(cfg, other) = NewStyle(cfg, lyr)
<1>1. \A c : LegendUrls(c, other) = LegendUrls(c, lyr)
  BY DEF LegendUrls, Alone
<1>2. \A c, map, d : ValueMapOutcome(c, map, other, d) = ValueMapOutcome(c, map, lyr, d)
  BY DEF ValueMapOutcome, Alone, AnyOf
<1>3. \A h, map : MapHandler(h, map, other) = MapHandler(h, map, lyr)
  BY <1>2 DEF MapHandler
<1>4. \A h, kind, map : HandlerOutcome(h, kind, map, other) = HandlerOutcome(h, kind, map, lyr)
  BY <1>1, <1>3 DEF HandlerOutcome
<1>5. KindOutcome(cfg, other) = KindOutcome(cfg, lyr)
  <2>1. IndexOutcome(cfg, other) = IndexOutcome(cfg, lyr)
    BY DEF IndexOutcome, Alone
  <2> QED BY <1>2, <2>1 DEF KindOutcome
<1>6. \A kind, map : [i \in DOMAIN Handlers(cfg) |-> HandlerOutcome(Handlers(cfg)[i], kind, map, other)] =
                     [i \in DOMAIN Handlers(cfg) |-> HandlerOutcome(Handlers(cfg)[i], kind, map, lyr)]
  BY <1>4
<1>7. StyleOutcome(cfg, other) = StyleOutcome(cfg, lyr)
  BY <1>1, <1>5, <1>6 DEF StyleOutcome, FirstOf, Alone
<1>8. NewStyle(cfg, other) = NewStyle(cfg, lyr)
  <2>1. RawNeededBands(cfg, other) = RawNeededBands(cfg, lyr)
    BY DEF RawNeededBands, IndexBands, Alone
  <2> QED BY <2>1 DEF NewStyle, Alone
<1> QED BY <1>7, <1>8

\* What a style adds without a fault when no layer was parsed before it adds
\* beside any.
LEMMA AddedAlone ==
  ASSUME NEW lyr, NEW other, Alone(lyr, other), NEW acc, NEW raw, StylesListed(acc, lyr),
         AddStyle(acc, raw, lyr).outcome = "ok"
  PROVE  acc.outcome = "ok" /\ AddStyle(acc, raw, other) = AddStyle(acc, raw, lyr)
<1> DEFINE parents == IF Has(raw, "inherits") THEN StyleParents(raw, acc.styles, lyr) ELSE {raw}
           parent == CHOOSE p \in parents : TRUE
           cfg == IF Has(raw, "inherits") THEN DeepInherit(parent, raw) ELSE raw
           outcome == IF parents = {} THEN "refused"
                      ELSE IF Has(raw, "inherits") /\ InheritClash(parent, raw) THEN "crash"
                      ELSE StyleOutcome(cfg, lyr)
           others == IF Has(raw, "inherits") THEN StyleParents(raw, acc.styles, other) ELSE {raw}
<1>1. AddStyle(acc, raw, lyr) = IF acc.outcome # "ok" THEN acc ELSE Register(acc, outcome, cfg, lyr)
  BY DEF AddStyle
<1>2. acc.outcome = "ok"
  BY <1>1
<1>3. outcome = "ok"
  <2> HIDE DEF outcome, cfg
  <2>1. CASE outcome # "ok"
    <3>1. [acc EXCEPT !.outcome = outcome].outcome = outcome
      BY DEF StylesListed
    <3> QED BY <1>1, <1>2, <2>1, <3>1 DEF Register
  <2> QED BY <2>1
<1>4. parents # {}
  BY <1>3
<1>5. others = parents
  <2> DEFINE from == raw["inherits"].v
             layer == Opt(from, "layer", lyr.name)
             styles(l) == IF layer = lyr.name THEN acc.styles
                          ELSE IF Has(l.index, layer) THEN l.index[layer].styles ELSE NoItems
  <2>1. CASE ~Has(raw, "inherits") \/ ~Has(from, "style")
    BY <2>1 DEF StyleParents
  <2>2. CASE Has(raw, "inherits") /\ Has(from, "style")
    <3>1. parents = {styles(lyr)[s].raw : s \in {from["style"].v} \cap DOMAIN styles(lyr)}
      BY <2>2 DEF StyleParents
    <3>2. others = {styles(other)[s].raw : s \in {from["style"].v} \cap DOMAIN styles(other)}
      BY <2>2 DEF StyleParents, Alone
    <3>3. layer = lyr.name
      <4>1. layer # lyr.name => styles(lyr) = NoItems
        BY DEF Alone, Has, NoItems
      <4>2. DOMAIN NoItems = {}
        BY DEF NoItems
      <4> HIDE DEF parents, styles
      <4> QED BY <1>4, <3>1, <4>1, <4>2
    <3> QED BY <3>1, <3>2, <3>3
  <2> QED BY <2>1, <2>2
<1>6. AddStyle(acc, raw, other) = Register(acc, outcome, cfg, other)
  <2>1. StyleOutcome(cfg, other) = StyleOutcome(cfg, lyr)
    BY StyleAlone
  <2> QED BY <1>2, <1>5, <2>1 DEF AddStyle
<1>7. Register(acc, outcome, cfg, other) = Register(acc, outcome, cfg, lyr)
  BY StyleAlone DEF Register
<1> QED BY <1>1, <1>2, <1>6, <1>7

\* The styling of a layer that has no fault when no layer was parsed before is the
\* same beside any.
LEMMA StylingAlone ==
  ASSUME NEW lyr, NEW other, Alone(lyr, other), NEW cfg, IsSequence(StyleSections(cfg)),
         Styling(cfg, lyr).outcome = "ok"
  PROVE  Styling(cfg, other) = Styling(cfg, lyr)
<1> DEFINE raws == StyleSections(cfg)
           styling == Opt(cfg, "styling", NoItems)
           n == Len(raws)
           none == [outcome |-> IF Has(styling, "styles") THEN "ok" ELSE "refused",
                    order |-> <<>>, styles |-> NoItems, default |-> NoName]
<1>1. n \in Nat /\ DOMAIN raws = 1 .. n
  BY DEF IsSequence
<1>2. PICK h : StylesFold(h, cfg, lyr) /\ Styling(cfg, lyr) = WithDefault(styling, h[1 .. n])
  BY StylingFolds
<1>3. PICK k : StylesFold(k, cfg, other) /\ Styling(cfg, other) = WithDefault(styling, k[1 .. n])
  BY StylingFolds
<1>4. StylesListed(none, lyr)
  <2>1. none.order = <<>> /\ none.styles = NoItems
        /\ DOMAIN none = {"outcome", "order", "styles", "default"}
    OBVIOUS
  <2> HIDE DEF none
  <2>2. DOMAIN NoItems = {}
    BY DEF NoItems
  <2>3. <<>> \in Seq({})
    BY EmptySeq
  <2> QED BY <2>1, <2>2, <2>3 DEF StylesListed
<1> DEFINE alike == {s \in SUBSET (1 .. n) : StylesListed(h[s], lyr) /\ (h[s].outcome = "ok" => k[s] = h[s])}
<1>5. {} \in alike
  <2>1. h[{}] = none /\ k[{}] = none
    BY <1>2, <1>3 DEF StylesFold
  <2> HIDE DEF none
  <2> QED BY <1>4, <2>1
<1>6. ASSUME NEW s \in SUBSET (1 .. n), s # {}, s \ {Max(s)} \in alike PROVE s \in alike
  <2> DEFINE acc == h[s \ {Max(s)}]
             raw == raws[Max(s)].v
  <2>1. h[s] = AddStyle(acc, raw, lyr)
    BY <1>2, <1>6 DEF StylesFold
  <2>2. k[s] = AddStyle(k[s \ {Max(s)}], raw, other)
    BY <1>3, <1>6 DEF StylesFold
  <2>3. StylesListed(acc, lyr) /\ (acc.outcome = "ok" => k[s \ {Max(s)}] = acc)
    BY <1>6
  <2> HIDE DEF acc, raw
  <2>4. StylesListed(h[s], lyr)
    BY <2>1, <2>3, StyleAdded
  <2>5. h[s].outcome = "ok" => k[s] = h[s]
    BY <2>1, <2>2, <2>3, AddedAlone
  <2> QED BY <2>4, <2>5
<1>7. 1 .. n \in alike
  <2>1. 1 .. n \in SUBSET (1 .. n)
    OBVIOUS
  <2> HIDE DEF alike
  <2> QED BY <1>1, <1>5, <1>6, <2>1, EverySubset
<1>8. h[1 .. n].outcome = "ok"
  BY <1>2 DEF WithDefault
<1> QED BY <1>2, <1>3, <1>7, <1>8

\* What is looked at before the styling of a layer does not depend on the layers
\* parsed before, so a layer that has no fault alone has none beside others.
LEMMA LayerAlone ==
  ASSUME NEW cfg, IsSequence(StyleSections(cfg)), LayerOutcome(cfg, StylingOf(cfg, NoItems)) = "ok"
  PROVE  LayerOutcome(cfg, StylingOf(cfg, index)) = "ok"
<1> DEFINE lyr == LayerContext(cfg, g, NoItems)
           other == LayerContext(cfg, g, index)
           styling == StylingOf(cfg, NoItems)
           all == <<TimeOutcome(cfg), BandOutcome(cfg), LimitsOutcome(cfg), FlagsOutcome(cfg),
                    ImageOutcome(cfg), IdentifierOutcome(cfg, g), UrlOutcome(cfg), InfoOutcome(cfg),
                    styling.outcome, WcsOutcome(cfg, g)>>
<1>1. FirstBad(all) = "ok"
  BY DEF LayerOutcome
<1>2. styling.outcome = "ok"
  <2>1. Numbered(all) /\ 9 \in DOMAIN all /\ all[9] = styling.outcome
    BY DEF Numbered
  <2> HIDE DEF all, styling
  <2> QED BY <1>1, <2>1, AllOk
<1>3. StylingOf(cfg, index) = styling
  <2>1. Alone(lyr, other)
    BY DEF Alone, LayerContext
  <2>2. CASE Groundwork(cfg) # "ok"
    BY <2>2 DEF StylingOf
  <2>3. CASE Groundwork(cfg) = "ok"
    <3>1. styling = Styling(cfg, lyr) /\ StylingOf(cfg, index) = Styling(cfg, other)
      BY <2>3 DEF StylingOf
    <3> HIDE DEF lyr, other, styling
    <3> QED BY <1>2, <2>1, <3>1, StylingAlone
  <2> QED BY <2>2, <2>3
<1> QED BY <1>3

\* The section whose turn it is.
Turn == Child(Last(open))
StylesInList(raw) == IsSequence(StyleSections(ExpandedLayer(raw, raw)))

\* A layer that is sound on its own is indexed when its turn comes, or one of its
\* name was, whatever layers were parsed or refused before it.
LEMMA SoundLayerTaken ==
  ASSUME ParseLayer, SoundAlone(Turn), StylesInList(Turn)
  PROVE  Turn["name"].v \in DOMAIN index'
<1> DEFINE raw == Child(Last(open))
           parents == IF Has(raw, "inherits") THEN LayerParents(raw) ELSE {raw}
           parent == CHOOSE p \in parents : TRUE
           cfg == ExpandedLayer(raw, parent)
           styling == StylingOf(cfg, index)
           taken == RefusedIf(raw["name"].v \in DOMAIN index)
           both == <<LayerOutcome(cfg, styling), taken>>
           outcome == IF parents = {} THEN "refused"
                      ELSE IF Has(raw, "inherits") /\ InheritClash(parent, raw) THEN "crash"
                      ELSE FirstBad(both)
           lyr == NewLayer(cfg, styling)
<1>1. IndexLayer(raw["name"].v, outcome, lyr)
  BY DEF ParseLayer
<1>2. ~Has(raw, "inherits") /\ parents = {raw} /\ parent = raw
  BY DEF SoundAlone, Turn
<1>3. LayerOutcome(cfg, styling) = "ok"
  <2>1. /\ cfg = ExpandedLayer(Turn, Turn) /\ IsSequence(StyleSections(cfg))
        /\ LayerOutcome(cfg, StylingOf(cfg, NoItems)) = "ok"
    BY <1>2 DEF SoundAlone, Turn, StylesInList
  <2> HIDE DEF cfg
  <2> QED BY <2>1, LayerAlone
<1>4. outcome = FirstBad(both)
  <2> HIDE DEF both, parents
  <2> QED BY <1>2
<1>5. CASE raw["name"].v \notin DOMAIN index
  <2>1. taken = "ok"
    BY <1>5 DEF RefusedIf
  <2>2. {i \in DOMAIN both : both[i] # "ok"} = {}
    <3>1. DOMAIN both = {1, 2} /\ both[1] = "ok" /\ both[2] = "ok"
      BY <1>3, <2>1
    <3> HIDE DEF both
    <3> QED BY <3>1
  <2>3. outcome = "ok"
    <3> HIDE DEF both, outcome
    <3> QED BY <1>4, <2>2 DEF FirstBad
  <2>4. index' = WithEntry(index, raw["name"].v, lyr)
    <3> HIDE DEF outcome, lyr
    <3> QED BY <1>1, <2>3 DEF IndexLayer
  <2> QED BY <2>4 DEF WithEntry, Turn
<1>6. CASE raw["name"].v \in DOMAIN index
  <2>1. outcome # "ok" => index' = index
    <3> HIDE DEF outcome, lyr
    <3> QED BY <1>1 DEF IndexLayer
  <2>2. outcome = "ok" => index' = WithEntry(index, raw["name"].v, lyr)
    <3> HIDE DEF outcome, lyr
    <3> QED BY <1>1 DEF IndexLayer
  <2> HIDE DEF outcome, lyr
  <2> QED BY <1>6, <2>1, <2>2 DEF WithEntry, Turn
<1> QED BY <1>5, <1>6

-----------------------------------------------------------------------------
(* The turns that sections take.                                                *)
-----------------------------------------------------------------------------

\* A list is a sequence of what it holds, and the other way round.
LEMMA ListsAreSequences ==
  ASSUME NEW s
  PROVE  /\ IsSequence(s) => s \in Seq(Range(s)) /\ DOMAIN s = 1 .. Len(s) /\ Len(s) \in Nat
         /\ \A X : s \in Seq(X) => IsSequence(s) /\ Range(s) \subseteq X
<1>1. ASSUME IsSequence(s)
      PROVE  s \in Seq(Range(s)) /\ DOMAIN s = 1 .. Len(s) /\ Len(s) \in Nat
  <2>1. Len(s) \in Nat /\ DOMAIN s = 1 .. Len(s)
    BY <1>1 DEF IsSequence
  <2>2. s \in [1 .. Len(s) -> Range(s)]
    BY <1>1, <2>1 DEF IsSequence, Range
  <2> QED BY <2>1, <2>2, SeqDef
<1>2. ASSUME NEW X, s \in Seq(X) PROVE IsSequence(s) /\ Range(s) \subseteq X
  BY <1>2, LenProperties DEF IsSequence, Range
<1> QED BY <1>1, <1>2

\* A list is its head and its tail.
LEMMA HeadAndTail ==
  ASSUME NEW s, IsSequence(s), s # <<>>
  PROVE  IsSequence(Tail(s)) /\ Range(s) = {Head(s)} \cup Range(Tail(s))
<1> DEFINE n == Len(s)
           t == Tail(s)
<1>1. s \in Seq(Range(s)) /\ DOMAIN s = 1 .. n /\ n \in Nat \ {0}
  BY ListsAreSequences, EmptySeq
<1>2. t \in Seq(Range(s)) /\ Len(t) = n - 1 /\ \A i \in 1 .. Len(t) : t[i] = s[i + 1]
  BY <1>1, HeadTailProperties
<1>3. IsSequence(t) /\ DOMAIN t = 1 .. n - 1
  BY <1>2, ListsAreSequences
<1>4. Head(s) = s[1]
  BY <1>1
<1>5. \A i \in 1 .. n : i = 1 \/ (i - 1 \in 1 .. n - 1 /\ s[i] = t[i - 1])
  BY <1>1, <1>2
<1>6. \A i \in 1 .. n - 1 : i + 1 \in 1 .. n /\ t[i] = s[i + 1]
  BY <1>1, <1>2
<1> HIDE DEF t
<1>7. ASSUME NEW x \in Range(s) PROVE x = s[1] \/ x \in Range(t)
  <2>1. PICK i \in 1 .. n : x = s[i]
    BY <1>1 DEF Range
  <2>2. i = 1 \/ (i - 1 \in 1 .. n - 1 /\ s[i] = t[i - 1])
    BY <1>5
  <2>3. i - 1 \in 1 .. n - 1 => t[i - 1] \in Range(t)
    BY <1>3 DEF Range
  <2> QED BY <2>1, <2>2, <2>3
<1>8. s[1] \in Range(s) /\ \A x \in Range(t) : x \in Range(s)
  BY <1>1, <1>3, <1>6 DEF Range
<1> QED BY <1>3, <1>4, <1>7, <1>8 DEF t

\* The folders that can be opened, and the sections within some of them.
Openable(f) == ~Has(f, "name") /\ FolderSound(f)
Within(S) ==
    UNION {Range(f["layers"].v) : f \in {x \in S : Openable(x) /\ IsSequence(x["layers"].v)}}
\* The sections that wait in a list, down to those in folders within folders.
Waiting(S) == S \cup Within(S) \cup Within(Within(S))

\* What waits in two lists waits in one of them.
LEMMA WaitingSplit ==
  ASSUME NEW S, NEW T
  PROVE  Waiting(S \cup T) = Waiting(S) \cup Waiting(T)
<1>1. \A X, Y : Within(X \cup Y) = Within(X) \cup Within(Y)
  BY DEF Within
<1> QED BY <1>1 DEF Waiting

\* Nothing waits in an empty list, and within a section waits what it opens.
LEMMA WaitingHead ==
  ASSUME NEW raw
  PROVE  /\ Waiting({}) = {}
         /\ ~(Openable(raw) /\ IsSequence(raw["layers"].v)) => Waiting({raw}) = {raw}
         /\ Openable(raw) /\ IsSequence(raw["layers"].v)
                => Waiting({raw}) \subseteq {raw} \cup Waiting(Range(raw["layers"].v))
<1>1. Within({}) = {}
  BY DEF Within
<1>2. ASSUME ~(Openable(raw) /\ IsSequence(raw["layers"].v)) PROVE Within({raw}) = {}
  BY <1>2 DEF Within
<1>3. ASSUME Openable(raw) /\ IsSequence(raw["layers"].v)
      PROVE  Within({raw}) = Range(raw["layers"].v)
  BY <1>3 DEF Within
<1> QED BY <1>1, <1>2, <1>3 DEF Waiting

\* The sections inside a list of sections whose folders have lists are among
\* those within them.
LEMMA InsideWithin ==
  ASSUME NEW raws, IsSequence(raws),
         \A f \in Range(raws) : Openable(f) => IsSequence(f["layers"].v)
  PROVE  Inside(raws) \in Seq(Within(Range(raws)))
<1> DEFINE n == Len(raws)
           A == Seq(Within(Range(raws)))
           Step(seq, f) == IF ~Has(f, "name") /\ FolderSound(f) THEN seq \o f["layers"].v ELSE seq
           Defines(h) == h = [s \in SUBSET (1 .. n) |->
                                 IF s = {} THEN <<>> ELSE Step(h[s \ {Max(s)}], raws[Max(s)])]
           iter == CHOOSE h : Defines(h)
           step == [p \in A \X (1 .. n) |-> Step(p[1], raws[p[2]])]
<1>1. n \in Nat /\ DOMAIN raws = 1 .. n
  BY DEF IsSequence
<1>2. Inside(raws) = iter[1 .. n]
  <2>1. Inside(raws) = (CHOOSE h : h = [s \in SUBSET DOMAIN raws |->
            IF s = {} THEN <<>> ELSE Step(h[s \ {Max(s)}], raws[Max(s)])])[DOMAIN raws]
    BY DEF Inside, FoldLeft, MapThenFoldSet
  <2> QED BY <1>1, <2>1
<1>3. <<>> \in A
  BY EmptySeq
<1>4. ASSUME NEW seq \in A, NEW i \in 1 .. n PROVE Step(seq, raws[i]) \in A
  <2> DEFINE f == raws[i]
  <2>1. CASE Openable(f)
    <3>1. f \in Range(raws)
      BY <1>1 DEF Range
    <3>2. IsSequence(f["layers"].v) /\ Range(f["layers"].v) \subseteq Within(Range(raws))
      BY <2>1, <3>1 DEF Within
    <3>3. f["layers"].v \in Seq(Within(Range(raws)))
      BY <3>2, ListsAreSequences, SeqMonotonic
    <3> QED BY <2>1, <3>3, ConcatProperties DEF Openable
  <2>2. CASE ~Openable(f)
    BY <2>2 DEF Openable
  <2> QED BY <2>1, <2>2
<1>5. step \in [A \X (1 .. n) -> A]
  <2> HIDE DEF A, Step
  <2> QED BY <1>4
<1> HIDE DEF A, Step
<1>6. PICK h \in [SUBSET (1 .. n) -> A] : Folded(h, <<>>, step, n)
  <2> HIDE DEF step
  <2> QED BY <1>1, <1>3, <1>5, FoldWithin
<1>7. Defines(h)
  <2>1. ASSUME NEW s \in SUBSET (1 .. n), s # {}
        PROVE  h[s] = Step(h[s \ {Max(s)}], raws[Max(s)])
    <3>1. Max(s) \in 1 .. n /\ h[s \ {Max(s)}] \in A
      BY <1>1, <2>1, GreatestNumber
    <3>2. h[s] = step[<<h[s \ {Max(s)}], Max(s)>>]
      BY <1>6, <2>1 DEF Folded
    <3> QED BY <3>1, <3>2
  <2>2. h[{}] = <<>>
    BY <1>6 DEF Folded
  <2>3. \A s \in SUBSET (1 .. n) :
            h[s] = IF s = {} THEN <<>> ELSE Step(h[s \ {Max(s)}], raws[Max(s)])
    BY <2>1, <2>2
  <2> QED BY <2>3
<1>8. \A s \in SUBSET (1 .. n) :
          iter[s] = IF s = {} THEN <<>> ELSE Step(iter[s \ {Max(s)}], raws[Max(s)])
  <2>1. Defines(iter)
    <3> HIDE DEF Defines
    <3> QED BY <1>7
  <2> HIDE DEF iter
  <2> QED BY <2>1
<1> DEFINE good == {s \in SUBSET (1 .. n) : iter[s] \in A}
<1>9. {} \in good
  BY <1>3, <1>8
<1>10. ASSUME NEW s \in SUBSET (1 .. n), s # {}, s \ {Max(s)} \in good PROVE s \in good
  <2> DEFINE m == Max(s)
  <2>1. m \in 1 .. n
    BY <1>1, <1>10, GreatestNumber
  <2>2. iter[s \ {m}] \in A /\ iter[s] = Step(iter[s \ {m}], raws[m])
    BY <1>8, <1>10
  <2> HIDE DEF m, iter
  <2> QED BY <1>4, <2>1, <2>2
<1>11. 1 .. n \in good
  <2>1. 1 .. n \in SUBSET (1 .. n)
    OBVIOUS
  <2> HIDE DEF good
  <2> QED BY <1>1, <1>9, <1>10, <2>1, EverySubset
<1> HIDE DEF iter
<1> QED BY <1>2, <1>11 DEF A

\* The folders of the sections of layers give their layers in lists.
FoldersListed == \A f \in Range(items) \cup Range(Inside(items)) : Openable(f) => IsSequence(f["layers"].v)

\* Every section of the layers is one that waits at first.
LEMMA SectionsWait ==
  ASSUME IsSequence(items), FoldersListed
  PROVE  Range(LayerSections) \subseteq Waiting(Range(items))
<1> DEFINE all == Waiting(Range(items))
           one == Inside(items)
           two == Inside(one)
<1>1. items \in Seq(Range(items))
  BY ListsAreSequences
<1>2. one \in Seq(Within(Range(items)))
  BY InsideWithin DEF FoldersListed
<1>3. IsSequence(one) /\ Range(one) \subseteq Within(Range(items))
  BY <1>2, ListsAreSequences
<1>4. two \in Seq(Within(Range(one)))
  <2> HIDE DEF one
  <2>1. \A f \in Range(one) : Openable(f) => IsSequence(f["layers"].v)
    BY DEF FoldersListed, one
  <2> QED BY <1>3, <2>1, InsideWithin
<1>5. Within(Range(one)) \subseteq Within(Within(Range(items)))
  BY <1>3 DEF Within
<1>6. items \in Seq(all) /\ one \in Seq(all) /\ two \in Seq(all)
  <2>1. Range(items) \subseteq all /\ Within(Range(items)) \subseteq all /\ Within(Range(one)) \subseteq all
    BY <1>5 DEF Waiting
  <2> HIDE DEF all, one, two
  <2> QED BY <1>1, <1>2, <1>4, <2>1, SeqMonotonic
<1>7. LayerSections \in Seq(all)
  <2>1. LayerSections = (items \o one) \o two
    BY DEF LayerSections
  <2> HIDE DEF all, one, two
  <2> QED BY <1>6, <2>1, ConcatProperties
<1> HIDE DEF all
<1> QED BY <1>7, ListsAreSequences DEF all

\* A section that is sound on its own has its styles in a list.
SoundListed(raw) == SoundAlone(raw) /\ StylesInList(raw)
\* A section is indexed, or waits to be parsed.
HasTurn(raw, layers, stack) ==
    \/ raw["name"].v \in DOMAIN layers
    \/ \E i \in 1 .. Len(stack) : /\ IsSequence(stack[i].todo)
                                  /\ raw \in Waiting(Range(stack[i].todo))
AllHaveTurns == \A raw \in Waiting(Range(items)) : SoundListed(raw) => HasTurn(raw, index, open)
\* The folders that are open, from the outermost on.
OpenFolders(stack) ==
    /\ IsSequence(stack)
    /\ \A i \in 1 .. Len(stack) : DOMAIN stack[i] = {"label", "todo", "sibling"}

\* No section that waits is lost.
TurnsInv ==
    /\ IsSequence(items) /\ OpenFolders(open)
    /\ stage \in {"wms", "wcs", "layers", "wmts", "parsed", "up"} => reading = "read"
    /\ stage \in {"global", "wms", "wcs"} => Len(open) = 0 /\ folders = {}
    /\ stage \in {"wmts", "parsed"} => Len(open) = 0
    /\ stage \in {"wmts", "parsed"} \/ (stage = "layers" /\ Len(open) # 0) => AllHaveTurns

\* What is sound alone is so whatever is parsed, once the services are.
LEMMA SoundKept ==
  ASSUME g' = g
  PROVE  \A raw : SoundListed(raw)' = SoundListed(raw)
BY DEF SoundListed, SoundAlone, LayerOutcome, StylingOf, StylesInList

\* Sections that wait still do if none of their lists changes.
LEMMA TurnsKept ==
  ASSUME TurnsInv, UNCHANGED <<items, reading, g, open, folders, index>>,
         \/ stage' = stage \/ stage' \in {"refused", "crashed"}
         \/ stage = "wmts" /\ stage' = "parsed"
         \/ stage = "parsed" /\ stage' = "up"
  PROVE  TurnsInv'
<1>1. AllHaveTurns' = AllHaveTurns
  BY SoundKept DEF AllHaveTurns
<1>2. OpenFolders(open)' = OpenFolders(open) /\ IsSequence(items)' = IsSequence(items)
  BY DEF OpenFolders
<1> QED BY <1>1, <1>2 DEF TurnsInv

\* The last index of a sequence that is not empty is one of its indices, and every
\* other one lies before it.
LEMMA BelowLast ==
  \A n \in Nat \ {0} : n \in 1 .. n /\ \A i \in 1 .. n : i # n => i \in 1 .. n - 1
OBVIOUS

\* The folders that are open, once the current child is dealt with.
LEMMA RestOpen ==
  ASSUME OpenFolders(open), open # <<>>
  PROVE  LET n == Len(open)
         IN /\ n \in Nat \ {0} /\ Last(open) = open[n]
            /\ OpenFolders(Rest) /\ Len(Rest) = n
            /\ \A i \in 1 .. n : i # n => Rest[i] = open[i]
            /\ Rest[n].todo = Tail(open[n].todo)
            /\ Rest[n].label = open[n].label /\ Rest[n].sibling = open[n].sibling + 1
<1> DEFINE n == Len(open)
           top == [open[n] EXCEPT !.todo = Tail(@), !.sibling = @ + 1]
<1>1. open \in Seq(Range(open)) /\ DOMAIN open = 1 .. n /\ n \in Nat \ {0}
  BY ListsAreSequences, EmptySeq DEF OpenFolders
<1>2. Last(open) = open[n]
  BY DEF Last
<1>3. /\ DOMAIN top = {"label", "todo", "sibling"} /\ top.todo = Tail(open[n].todo)
      /\ top.label = open[n].label /\ top.sibling = open[n].sibling + 1
  BY <1>1 DEF OpenFolders
<1>4. Rest = [open EXCEPT ![n] = top]
  BY <1>1 DEF Rest, OpenFolders
<1> HIDE DEF top
<1>5. open \in Seq(Range(open) \cup {top}) /\ top \in Range(open) \cup {top}
  BY <1>1, SeqMonotonic
<1>6. /\ Rest \in Seq(Range(open) \cup {top}) /\ Len(Rest) = n
      /\ \A i \in 1 .. n : Rest[i] = IF i = n THEN top ELSE open[i]
  BY <1>1, <1>4, <1>5, ExceptSeq
<1>7. IsSequence(Rest)
  BY <1>6, ListsAreSequences
<1>8. ASSUME NEW i \in 1 .. Len(Rest) PROVE DOMAIN Rest[i] = {"label", "todo", "sibling"}
  <2>1. i \in 1 .. n /\ Rest[i] = IF i = n THEN top ELSE open[i]
    BY <1>6
  <2> QED BY <1>3, <2>1 DEF OpenFolders
<1>9. OpenFolders(Rest)
  BY <1>7, <1>8 DEF OpenFolders
<1>10. (\A i \in 1 .. n : i # n => Rest[i] = open[i]) /\ Rest[n] = top
  <2>1. n \in 1 .. n
    BY <1>1, BelowLast
  <2> HIDE DEF n
  <2> QED BY <1>6, <2>1
<1> QED BY <1>1, <1>2, <1>3, <1>6, <1>9, <1>10

\* A section that waits still does when the current child is dealt with, unless
\* it waited in that child.
LEMMA WaitsOn ==
  ASSUME OpenFolders(open), open # <<>>, Last(open).todo # <<>>,
         NEW raw, HasTurn(raw, index, open)
  PROVE  HasTurn(raw, index, Rest) \/ raw \in Waiting({Turn})
<1> DEFINE n == Len(open)
<1>1. /\ n \in Nat \ {0} /\ Last(open) = open[n] /\ Len(Rest) = n
      /\ \A i \in 1 .. n : i # n => Rest[i] = open[i]
      /\ Rest[n].todo = Tail(open[n].todo)
  BY RestOpen
<1>2. CASE raw["name"].v \in DOMAIN index
  BY <1>2 DEF HasTurn
<1>3. ASSUME NEW i \in 1 .. n, IsSequence(open[i].todo), raw \in Waiting(Range(open[i].todo))
      PROVE  HasTurn(raw, index, Rest) \/ raw \in Waiting({Turn})
  <2>1. CASE i # n
    BY <1>1, <1>3, <2>1 DEF HasTurn
  <2>2. CASE i = n
    <3> DEFINE todo == open[n].todo
    <3>1. IsSequence(Tail(todo)) /\ Range(todo) = {Head(todo)} \cup Range(Tail(todo))
      BY <1>1, <1>3, <2>2, HeadAndTail
    <3>2. raw \in Waiting({Head(todo)}) \cup Waiting(Range(Tail(todo)))
      BY <1>3, <2>2, <3>1, WaitingSplit
    <3>3. Turn = Head(todo)
      BY <1>1 DEF Turn, Child
    <3>4. raw \in Waiting(Range(Tail(todo))) => HasTurn(raw, index, Rest)
      <4> HIDE DEF todo
      <4>1. Rest[n].todo = Tail(todo) /\ n \in 1 .. Len(Rest)
        BY <1>1 DEF todo
      <4> QED BY <3>1, <4>1 DEF HasTurn
    <3> HIDE DEF todo
    <3> QED BY <3>2, <3>3, <3>4
  <2> QED BY <2>1, <2>2
<1> QED BY <1>2, <1>3 DEF HasTurn

\* Reading adds to the items, in a list, before any section is parsed.
LEMMA ReadTurns ==
  ASSUME TurnsInv, ReadNext, UNCHANGED parseVars
  PROVE  TurnsInv'
<1>1. items' = items \/ \E x : items' = Append(items, x)
  BY DEF ReadNext, ReadConfig, ExpandValue, RefuseCycle, ExpandJSON, ExpandPython, RefuseType,
         EndOfInclude
<1>2. IsSequence(items')
  <2>1. SUFFICES ASSUME NEW x, items' = Append(items, x) PROVE IsSequence(items')
    BY <1>1 DEF TurnsInv
  <2>2. items \in Seq(Range(items))
    BY ListsAreSequences DEF TurnsInv
  <2>3. items \in Seq(Range(items) \cup {x})
    BY <2>2, SeqMonotonic
  <2>4. items' \in Seq(Range(items) \cup {x})
    BY <2>1, <2>3, AppendProperties
  <2> QED BY <2>4, ListsAreSequences
<1>3. reading # "read"
  BY DEF ReadNext, ReadConfig, ExpandValue, RefuseCycle, ExpandJSON, ExpandPython, RefuseType,
         EndOfInclude, Including
<1>4. stage \notin {"wms", "wcs", "layers", "wmts", "parsed", "up"}
  BY <1>3 DEF TurnsInv
<1>5. UNCHANGED <<stage, open, folders>>
  BY DEF parseVars
<1>6. OpenFolders(open)'
  BY <1>5 DEF TurnsInv, OpenFolders
<1>7. IsSequence(items)'
  BY <1>2
<1> QED BY <1>4, <1>5, <1>6, <1>7 DEF TurnsInv

\* The services are parsed before any folder is open.
LEMMA ServiceTurns ==
  ASSUME TurnsInv, ParseGlobal \/ ParseWMS \/ ParseWCS
  PROVE  TurnsInv'
<1>1. /\ stage \in {"global", "wms", "wcs"} /\ stage' \in {"wms", "wcs", "layers", "refused", "crashed"}
      /\ UNCHANGED <<items, reading, open, folders>>
      /\ reading = "read"
  BY DEF ParseGlobal, ParseWMS, ParseWCS, Sections, Advance, fileVars, TurnsInv
<1>2. OpenFolders(open)' = OpenFolders(open) /\ IsSequence(items)' = IsSequence(items)
  BY <1>1 DEF OpenFolders
<1>3. Len(open) = 0 /\ Len(open)' = 0 /\ folders' = {}
  BY <1>1 DEF TurnsInv
<1> QED BY <1>1, <1>2, <1>3 DEF TurnsInv

\* The root opens with every section that waits.
LEMMA RootTurns ==
  ASSUME TurnsInv, OpenRoot
  PROVE  TurnsInv'
<1> DEFINE root == [label |-> <<"ows_root">>, todo |-> items, sibling |-> 0]
<1>1. stage = "layers" /\ UNCHANGED <<items, reading, stage, g, folders, index>> /\ open' = <<root>>
  BY DEF OpenRoot, fileVars
<1>2. IsSequence(items) /\ reading = "read"
  BY <1>1 DEF TurnsInv
<1>3. DOMAIN root = {"label", "todo", "sibling"} /\ root.todo = items
  OBVIOUS
<1> HIDE DEF root
<1>4. open' = [i \in 1 .. 1 |-> root] /\ Len(open') = 1 /\ open'[1] = root
  BY <1>1
<1>5. OpenFolders(open')
  BY <1>3, <1>4 DEF OpenFolders, IsSequence
<1>6. \A raw : raw \in Waiting(Range(items)) => HasTurn(raw, index', open')
  BY <1>2, <1>3, <1>4 DEF HasTurn
<1>7. AllHaveTurns'
  BY <1>1, <1>6 DEF AllHaveTurns
<1>8. OpenFolders(open)'
  BY <1>5 DEF OpenFolders
<1>9. IsSequence(items)'
  BY <1>1, <1>2
<1> QED BY <1>1, <1>2, <1>7, <1>8, <1>9 DEF TurnsInv

\* A sound layer whose turn it is is indexed, and the others still have theirs.
LEMMA LayerTurns ==
  ASSUME TurnsInv, ParseLayer
  PROVE  TurnsInv'
<1>1. /\ stage = "layers" /\ open # <<>> /\ Last(open).todo # <<>> /\ Has(Turn, "name")
      /\ open' = Rest /\ UNCHANGED <<items, reading, g, folders>>
      /\ stage' \in {"layers", "crashed"}
  BY LayerIndexed DEF ParseLayer, Turn, fileVars
<1>2. /\ OpenFolders(Rest) /\ Len(Rest) = Len(open) /\ Len(open) # 0
      /\ reading = "read" /\ IsSequence(items) /\ AllHaveTurns
  BY <1>1, RestOpen DEF TurnsInv
<1>3. DOMAIN index \subseteq DOMAIN index'
  <2>1. index' = index \/ \E name, lyr : index' = WithEntry(index, name, lyr)
    BY LayerIndexed
  <2> QED BY <2>1 DEF WithEntry
<1>4. ASSUME NEW raw \in Waiting(Range(items)), SoundListed(raw)
      PROVE  HasTurn(raw, index', Rest)
  <2>1. HasTurn(raw, index, open)
    BY <1>2, <1>4 DEF AllHaveTurns
  <2>2. HasTurn(raw, index, Rest) \/ raw \in Waiting({Turn})
    BY <1>1, <2>1, WaitsOn DEF TurnsInv
  <2>3. CASE HasTurn(raw, index, Rest)
    BY <1>3, <2>3 DEF HasTurn
  <2>4. CASE raw \in Waiting({Turn})
    <3>1. raw = Turn
      BY <1>1, <2>4, WaitingHead DEF Openable
    <3>2. Turn["name"].v \in DOMAIN index'
      BY <1>4, <3>1, SoundLayerTaken DEF SoundListed
    <3> QED BY <3>1, <3>2 DEF HasTurn
  <2> QED BY <2>2, <2>3, <2>4
<1>5. AllHaveTurns'
  BY <1>1, <1>4, SoundKept DEF AllHaveTurns
<1>6. OpenFolders(open)'
  BY <1>1, <1>2 DEF OpenFolders
<1>7. IsSequence(items)'
  BY <1>1, <1>2
<1> QED BY <1>1, <1>2, <1>5, <1>6, <1>7 DEF TurnsInv

\* No folder is refused because its label is taken.
FoldersTaken == ParseFolder => LabelOf(Turn, Last(open)) \notin folders

\* What waits in a folder waits on when it is opened.
LEMMA FolderTurns ==
  ASSUME TurnsInv, ParseFolder, FoldersTaken
  PROVE  TurnsInv'
<1> DEFINE n == Len(open)
           frame == [label |-> LabelOf(Turn, Last(open)), todo |-> Turn["layers"].v, sibling |-> 0]
<1>1. /\ stage = "layers" /\ open # <<>> /\ Last(open).todo # <<>> /\ ~Has(Turn, "name")
      /\ open' = IF FolderSound(Turn) THEN Append(Rest, frame) ELSE Rest
      /\ UNCHANGED <<items, reading, stage, g, folders, index>>
  BY DEF ParseFolder, FoldersTaken, Turn, fileVars
<1>2. /\ OpenFolders(Rest) /\ Len(Rest) = n /\ n \in Nat \ {0}
      /\ reading = "read" /\ IsSequence(items) /\ AllHaveTurns
  BY <1>1, RestOpen DEF TurnsInv
<1>3. DOMAIN frame = {"label", "todo", "sibling"} /\ frame.todo = Turn["layers"].v
  OBVIOUS
<1> HIDE DEF frame
<1>4. /\ OpenFolders(open') /\ Len(open') \in Nat \ {0}
      /\ \A i \in 1 .. n : i \in 1 .. Len(open') /\ open'[i] = Rest[i]
      /\ FolderSound(Turn) => n + 1 \in 1 .. Len(open') /\ open'[n + 1] = frame
  <2>1. CASE ~FolderSound(Turn)
    BY <1>1, <1>2, <2>1
  <2>2. CASE FolderSound(Turn)
    <3> DEFINE X == Range(Rest) \cup {frame}
               new == Append(Rest, frame)
    <3>1. Rest \in Seq(X) /\ frame \in X
      <4>1. Rest \in Seq(Range(Rest))
        BY <1>2, ListsAreSequences DEF OpenFolders
      <4> QED BY <4>1, SeqMonotonic
    <3> HIDE DEF X
    <3>2. /\ new \in Seq(X) /\ Len(new) = n + 1
          /\ \A i \in 1 .. n : new[i] = Rest[i]
          /\ new[n + 1] = frame
      BY <1>2, <3>1, AppendProperties
    <3>3. IsSequence(new)
      BY <3>2, ListsAreSequences
    <3>4. open' = new
      BY <1>1, <2>2
    <3> HIDE DEF new
    <3>5. ASSUME NEW i \in 1 .. Len(new) PROVE DOMAIN new[i] = {"label", "todo", "sibling"}
      <4>1. i = n + 1 \/ i \in 1 .. n
        BY <1>2, <3>2
      <4>2. i \in 1 .. n => DOMAIN Rest[i] = {"label", "todo", "sibling"}
        BY <1>2 DEF OpenFolders
      <4> QED BY <1>3, <3>2, <4>1, <4>2
    <3>6. OpenFolders(new)
      BY <3>3, <3>5 DEF OpenFolders
    <3>7. \A i \in 1 .. n : i \in 1 .. n + 1
      BY <1>2
    <3>8. n + 1 \in 1 .. n + 1 /\ n + 1 \in Nat \ {0}
      BY <1>2
    <3> QED BY <3>2, <3>4, <3>6, <3>7, <3>8
  <2> QED BY <2>1, <2>2
<1>5. ASSUME NEW raw \in Waiting(Range(items)), SoundListed(raw)
      PROVE  HasTurn(raw, index, open')
  <2>1. HasTurn(raw, index, open)
    BY <1>2, <1>5 DEF AllHaveTurns
  <2>2. HasTurn(raw, index, Rest) \/ raw \in Waiting({Turn})
    BY <1>1, <2>1, WaitsOn DEF TurnsInv
  <2>3. CASE HasTurn(raw, index, Rest)
    BY <1>2, <1>4, <2>3 DEF HasTurn
  <2>4. CASE raw \in Waiting({Turn})
    <3>1. raw # Turn
      BY <1>1, <1>5 DEF SoundListed, SoundAlone
    <3>2. Openable(Turn) /\ IsSequence(Turn["layers"].v) /\ raw \in Waiting(Range(Turn["layers"].v))
      BY <2>4, <3>1, WaitingHead
    <3> QED BY <1>3, <1>4, <3>2 DEF HasTurn, Openable
  <2> QED BY <2>2, <2>3, <2>4
<1>6. AllHaveTurns'
  BY <1>1, <1>5, SoundKept DEF AllHaveTurns
<1>7. OpenFolders(open)'
  BY <1>4 DEF OpenFolders
<1>8. IsSequence(items)'
  BY <1>1, <1>2
<1> QED BY <1>1, <1>2, <1>6, <1>7, <1>8 DEF TurnsInv

\* A folder is closed when nothing waits in it.
LEMMA CloseTurns ==
  ASSUME TurnsInv, CloseFolder
  PROVE  TurnsInv'
<1> DEFINE n == Len(open)
           front == [i \in 1 .. n - 1 |-> open[i]]
<1>1. /\ stage = "layers" /\ open # <<>> /\ Last(open).todo = <<>> /\ open' = Front(open)
      /\ stage' = IF n = 1 THEN "wmts" ELSE stage
      /\ UNCHANGED <<items, reading, g, index>>
  BY DEF CloseFolder, fileVars
<1>2. /\ open \in Seq(Range(open)) /\ DOMAIN open = 1 .. n /\ n \in Nat \ {0} /\ Last(open) = open[n]
      /\ reading = "read" /\ IsSequence(items) /\ AllHaveTurns
  BY <1>1, ListsAreSequences, RestOpen DEF TurnsInv, OpenFolders
<1>3. open' = front /\ front \in Seq(Range(open)) /\ Len(front) = n - 1
      /\ \A i \in 1 .. n - 1 : front[i] = open[i]
  <2>1. Front(open) = front
    BY <1>2 DEF Front
  <2>2. front \in [1 .. n - 1 -> Range(open)] /\ n - 1 \in Nat
    BY <1>2 DEF Range
  <2>3. Len(front) = n - 1 /\ front \in Seq(Range(open))
    BY <2>2, SeqDef
  <2> QED BY <1>1, <2>1, <2>3
<1> HIDE DEF front
<1>4. OpenFolders(front)
  <2>1. IsSequence(front)
    BY <1>3, ListsAreSequences
  <2>2. \A i \in 1 .. n - 1 : DOMAIN front[i] = {"label", "todo", "sibling"}
    BY <1>2, <1>3 DEF TurnsInv, OpenFolders
  <2> QED BY <1>3, <2>1, <2>2 DEF OpenFolders
<1>5. ASSUME NEW raw \in Waiting(Range(items)), SoundListed(raw)
      PROVE  HasTurn(raw, index, front)
  <2>1. HasTurn(raw, index, open)
    BY <1>2, <1>5 DEF AllHaveTurns
  <2>2. Waiting(Range(open[n].todo)) = {}
    <3>1. Range(<<>>) = {}
      BY DEF Range
    <3> QED BY <1>1, <1>2, <3>1, WaitingHead
  <2>3. ASSUME NEW i \in 1 .. n, IsSequence(open[i].todo), raw \in Waiting(Range(open[i].todo))
        PROVE  HasTurn(raw, index, front)
    <3>1. i # n
      BY <2>2, <2>3
    <3>2. i \in 1 .. n - 1
      <4>1. n \in Nat \ {0}
        BY <1>2
      <4> HIDE DEF n
      <4> QED BY <2>3, <3>1, <4>1, BelowLast
    <3> QED BY <1>3, <2>3, <3>2 DEF HasTurn
  <2> QED BY <2>1, <2>3 DEF HasTurn
<1>6. AllHaveTurns'
  BY <1>1, <1>3, <1>5, SoundKept DEF AllHaveTurns
<1>7. OpenFolders(open)'
  BY <1>3, <1>4 DEF OpenFolders
<1>8. IsSequence(items)'
  BY <1>1, <1>2
<1>9. n = 1 => Len(open') = 0
  BY <1>3
<1> QED BY <1>1, <1>2, <1>6, <1>7, <1>8, <1>9 DEF TurnsInv

\* Every step keeps the turns, if no folder is refused for its label.
LEMMA TurnsStep ==
  ASSUME TurnsInv, [DrawNext]_<<vars, drawn>>, [FoldersTaken]_<<vars, drawn>>
  PROVE  TurnsInv'
<1>1. CASE UNCHANGED vars
  BY <1>1, TurnsKept DEF vars, fileVars, parseVars
<1>2. CASE ReadFailed
  BY <1>2, TurnsKept DEF ReadFailed, Sections, fileVars
<1>3. CASE MakeReady
  BY <1>3, TurnsKept DEF MakeReady, fileVars
<1>4. CASE Up
  BY <1>4, TurnsKept DEF Up, fileVars
<1>5. CASE ParseWMTS
  <2>1. UNCHANGED <<items, reading, g, open, folders, index>> /\ stage = "wmts"
        /\ stage' \in {"parsed", "refused", "crashed"}
    BY <1>5 DEF ParseWMTS, Sections, Advance, fileVars
  <2> QED BY <2>1, TurnsKept
<1>6. CASE ParseFolder
  <2>1. CASE FoldersTaken
    BY <1>6, <2>1, FolderTurns
  <2>2. CASE UNCHANGED <<vars, drawn>>
    BY <1>1, <2>2
  <2> QED BY <2>1, <2>2
<1> QED BY <1>1, <1>2, <1>3, <1>4, <1>5, <1>6, ReadTurns, ServiceTurns, RootTurns, LayerTurns,
           CloseTurns DEF DrawNext, ConfigNext, vars

-----------------------------------------------------------------------------
(* The labels of folders.                                                       *)
-----------------------------------------------------------------------------

IsLabel(l) == IsSequence(l) /\ l # <<>>
Labels(stack, closed) == closed \cup {stack[i].label : i \in 1 .. Len(stack)}
\* A folder that is numbered lies in one of the others.
Prefixed(labels) == \A p, k : IsLabel(p) /\ Append(p, k) \in labels => p \in labels
\* The next folder in frame gets a number that no other has there.
Counted(frame, labels) ==
    /\ frame.sibling \in Nat
    /\ \A k : Append(frame.label, k) \in labels => k \in Nat /\ k < frame.sibling
\* No two of the folders that are open have one label.
Different(stack) == \A i, j \in 1 .. Len(stack) : stack[i].label = stack[j].label => i = j
Labelled(stack, closed) ==
    /\ \A l \in Labels(stack, closed) : IsLabel(l)
    /\ Prefixed(Labels(stack, closed))
    /\ \A i \in 1 .. Len(stack) : Counted(stack[i], Labels(stack, closed))
    /\ Different(stack)

\* A number is added to a label.
LEMMA LabelAppended ==
  ASSUME NEW p, IsLabel(p), NEW k
  PROVE  /\ IsLabel(Append(p, k)) /\ \A x : Append(p, k) # <<x>>
         /\ \A q, j : IsLabel(q) /\ Append(q, j) = Append(p, k) => q = p /\ j = k
<1>1. ASSUME NEW q, NEW j, IsLabel(q)
      PROVE  LET X == Range(q) \cup {j}
             IN /\ q \in Seq(X) /\ Append(q, j) \in Seq(X) /\ Append(q, j) # <<>>
                /\ Len(q) \in Nat \ {0} /\ Len(Append(q, j)) = Len(q) + 1
                /\ \A i \in 1 .. Len(q) : Append(q, j)[i] = q[i]
                /\ Append(q, j)[Len(q) + 1] = j
  <2> DEFINE X == Range(q) \cup {j}
  <2>1. q \in Seq(Range(q)) /\ q # <<>>
    BY <1>1, ListsAreSequences DEF IsLabel
  <2>2. q \in Seq(X) /\ j \in X
    BY <2>1, SeqMonotonic
  <2>3. Len(q) \in Nat \ {0}
    BY <2>1, EmptySeq
  <2> HIDE DEF X
  <2>4. /\ Append(q, j) \in Seq(X) /\ Append(q, j) # <<>> /\ Len(Append(q, j)) = Len(q) + 1
        /\ \A i \in 1 .. Len(q) : Append(q, j)[i] = q[i]
        /\ Append(q, j)[Len(q) + 1] = j
    BY <2>2, AppendProperties
  <2> QED BY <2>2, <2>3, <2>4 DEF X
<1>2. IsLabel(Append(p, k))
  BY <1>1, ListsAreSequences DEF IsLabel
<1>3. \A x : Append(p, k) # <<x>>
  <2>1. Len(Append(p, k)) = Len(p) + 1 /\ Len(p) \in Nat \ {0}
    BY <1>1
  <2>2. \A x : Len(<<x>>) = 1
    OBVIOUS
  <2> QED BY <2>1, <2>2
<1>4. ASSUME NEW q, NEW j, IsLabel(q), Append(q, j) = Append(p, k)
      PROVE  q = p /\ j = k
  <2> DEFINE X == Range(p) \cup Range(q)
             n == Len(p)
             both == Append(p, k)
  <2>1. /\ n \in Nat \ {0} /\ Len(both) = n + 1 /\ both[n + 1] = k
        /\ \A i \in 1 .. n : both[i] = p[i]
    BY <1>1
  <2>2. /\ Len(q) \in Nat \ {0} /\ Len(both) = Len(q) + 1 /\ both[Len(q) + 1] = j
        /\ \A i \in 1 .. Len(q) : both[i] = q[i]
    <3>1. both = Append(q, j)
      BY <1>4
    <3>2. /\ Len(q) \in Nat \ {0} /\ Len(Append(q, j)) = Len(q) + 1
          /\ \A i \in 1 .. Len(q) : Append(q, j)[i] = q[i]
          /\ Append(q, j)[Len(q) + 1] = j
      <4>1. IsLabel(q)
        BY <1>4
      <4> QED BY <1>1, <4>1
    <3> HIDE DEF both
    <3> QED BY <3>1, <3>2
  <2>3. p \in Seq(Range(p)) /\ q \in Seq(Range(q))
    BY <1>4, ListsAreSequences DEF IsLabel
  <2>4. p \in Seq(X) /\ q \in Seq(X)
    BY <2>3, SeqMonotonic
  <2> HIDE DEF X, both
  <2>5. Len(q) = n
    BY <2>1, <2>2
  <2>6. \A i \in 1 .. n : q[i] = p[i]
    BY <2>1, <2>2, <2>5
  <2>7. q = p
    BY <2>4, <2>5, <2>6, SeqEqual
  <2> QED BY <2>1, <2>2, <2>5, <2>7
<1> QED BY <1>2, <1>3, <1>4

\* A list of one is a label.
LEMMA LabelAlone == \A x : IsLabel(<<x>>)
<1>1. \A x : <<x>> \in Seq({x}) /\ Len(<<x>>) = 1
  OBVIOUS
<1> QED BY <1>1, ListsAreSequences, EmptySeq DEF IsLabel

\* The labels are as they were when the current child is dealt with, and the
\* number it has will not be used again.
LEMMA RestLabelled ==
  ASSUME OpenFolders(open), open # <<>>, Labelled(open, folders)
  PROVE  /\ Labelled(Rest, folders) /\ Labels(Rest, folders) = Labels(open, folders)
         /\ Rest[Len(open)].label = Last(open).label
         /\ Rest[Len(open)].sibling = Last(open).sibling + 1 /\ Last(open).sibling \in Nat
<1> DEFINE n == Len(open)
<1>1. /\ n \in Nat \ {0} /\ Len(Rest) = n /\ Last(open) = open[n]
      /\ \A i \in 1 .. n : i # n => Rest[i] = open[i]
      /\ Rest[n].label = open[n].label /\ Rest[n].sibling = open[n].sibling + 1
  BY RestOpen
<1>2. n \in 1 .. n
  BY <1>1, BelowLast
<1>3. ASSUME NEW i \in 1 .. n
      PROVE  Rest[i].label = open[i].label /\ (Rest[i].sibling = open[i].sibling \/ Rest[i].sibling = open[i].sibling + 1)
  <2> HIDE DEF n
  <2> QED BY <1>1, <1>3
<1>4. Labels(Rest, folders) = Labels(open, folders)
  BY <1>1, <1>3 DEF Labels
<1>5. Different(Rest)
  BY <1>1, <1>3 DEF Labelled, Different
<1>6. ASSUME NEW i \in 1 .. n PROVE Counted(Rest[i], Labels(open, folders))
  <2>1. Counted(open[i], Labels(open, folders))
    BY DEF Labelled
  <2> QED BY <1>3, <2>1 DEF Counted
<1>7. Labelled(Rest, folders)
  BY <1>1, <1>4, <1>5, <1>6 DEF Labelled
<1>8. Last(open).sibling \in Nat
  BY <1>1, <1>2 DEF Labelled, Counted
<1> QED BY <1>1, <1>4, <1>7, <1>8

\* A folder that opens with a new label, given or numbered by the innermost open
\* one, has no folders yet.
LEMMA FolderLabelled ==
  ASSUME NEW stack, OpenFolders(stack), Len(stack) # 0, NEW closed, Labelled(stack, closed),
         NEW frame, frame.label \notin Labels(stack, closed), frame.sibling = 0,
         \/ \E x : frame.label = <<x>>
         \/ \E k \in Nat : /\ frame.label = Append(stack[Len(stack)].label, k)
                           /\ k < stack[Len(stack)].sibling
  PROVE  Labelled(Append(stack, frame), closed)
<1> DEFINE n == Len(stack)
           all == Labels(stack, closed)
           new == frame.label
           both == Append(stack, frame)
           X == Range(stack) \cup {frame}
<1>1. stack \in Seq(Range(stack)) /\ n \in Nat \ {0}
  BY ListsAreSequences DEF OpenFolders
<1>2. stack \in Seq(X) /\ frame \in X
  BY <1>1, SeqMonotonic
<1>3. Len(both) = n + 1 /\ both[n + 1] = frame /\ \A i \in 1 .. n : both[i] = stack[i]
  <2> HIDE DEF X
  <2> QED BY <1>2, AppendProperties
<1>4. n \in 1 .. n /\ n \in Nat /\ \A i \in 1 .. n + 1 : i = n + 1 \/ i \in 1 .. n
  BY <1>1
<1> HIDE DEF both
<1>5. Labels(both, closed) = all \cup {new}
  <2>1. \A i \in 1 .. n : i \in 1 .. n + 1 /\ both[i].label = stack[i].label
    BY <1>1, <1>3
  <2>2. n + 1 \in 1 .. n + 1 /\ both[n + 1].label = new
    BY <1>1, <1>3
  <2> HIDE DEF n
  <2>3. \A i \in 1 .. n + 1 : both[i].label = new \/ \E m \in 1 .. n : both[i].label = stack[m].label
    BY <1>3, <1>4, <2>1
  <2>4. /\ Labels(both, closed) = closed \cup {both[i].label : i \in 1 .. n + 1}
        /\ all = closed \cup {stack[i].label : i \in 1 .. n}
    BY <1>3 DEF Labels, n
  <2> HIDE DEF all, new
  <2>5. Labels(both, closed) \subseteq all \cup {new}
    BY <2>3, <2>4
  <2>6. all \cup {new} \subseteq Labels(both, closed)
    BY <2>1, <2>2, <2>4
  <2> QED BY <2>5, <2>6
<1>6. /\ \A l \in all : IsLabel(l)
      /\ Prefixed(all) /\ Different(stack)
      /\ \A i \in 1 .. n : Counted(stack[i], all) /\ stack[i].label \in all
  BY DEF Labelled, Labels
<1>7. /\ IsLabel(new)
      /\ \A q, j : IsLabel(q) /\ Append(q, j) = new
                   => q = stack[n].label /\ j \in Nat /\ j < stack[n].sibling
  <2>1. CASE \E x : new = <<x>>
    BY <2>1, LabelAlone, LabelAppended
  <2>2. CASE \E k \in Nat : new = Append(stack[n].label, k) /\ k < stack[n].sibling
    <3>1. PICK k \in Nat : new = Append(stack[n].label, k) /\ k < stack[n].sibling
      BY <2>2
    <3>2. IsLabel(stack[n].label)
      BY <1>4, <1>6
    <3>3. /\ IsLabel(new)
          /\ \A q, j : IsLabel(q) /\ Append(q, j) = new => q = stack[n].label /\ j = k
      <4> DEFINE above == stack[n].label
      <4>1. IsLabel(above) /\ new = Append(above, k)
        BY <3>1, <3>2
      <4> HIDE DEF above, new
      <4>2. /\ IsLabel(Append(above, k))
            /\ \A q, j : IsLabel(q) /\ Append(q, j) = Append(above, k) => q = above /\ j = k
        BY <4>1, LabelAppended
      <4>3. IsLabel(new) /\ \A q, j : IsLabel(q) /\ Append(q, j) = new => q = above /\ j = k
        BY <4>1, <4>2
      <4> QED BY <4>3 DEF above
    <3> HIDE DEF new
    <3> QED BY <3>1, <3>3
  <2> QED BY <2>1, <2>2
<1> HIDE DEF all, new, n
<1>8. \A x \in all \cup {new} : IsLabel(x)
  BY <1>6, <1>7
<1>9. Prefixed(all \cup {new})
  <2> SUFFICES ASSUME NEW p, NEW k, IsLabel(p), Append(p, k) \in all \cup {new}
               PROVE  p \in all \cup {new}
    BY DEF Prefixed
  <2>1. CASE Append(p, k) \in all
    BY <1>6, <2>1 DEF Prefixed
  <2>2. CASE Append(p, k) = new
    BY <1>4, <1>6, <1>7, <2>2
  <2> QED BY <2>1, <2>2
<1>10. ASSUME NEW i \in 1 .. n PROVE Counted(stack[i], all \cup {new})
  <2>1. Counted(stack[i], all) /\ IsLabel(stack[i].label)
    BY <1>6
  <2> SUFFICES ASSUME NEW k, Append(stack[i].label, k) \in all \cup {new}
               PROVE  k \in Nat /\ k < stack[i].sibling
    BY <2>1 DEF Counted
  <2>2. CASE Append(stack[i].label, k) \in all
    BY <2>1, <2>2 DEF Counted
  <2>3. CASE Append(stack[i].label, k) = new
    <3>1. stack[i].label = stack[n].label /\ k \in Nat /\ k < stack[n].sibling
      BY <1>7, <2>1, <2>3
    <3>2. i = n
      BY <1>4, <1>6, <3>1 DEF Different, n
    <3> QED BY <3>1, <3>2
  <2> QED BY <2>2, <2>3
<1>11. Counted(frame, all \cup {new})
  <2> SUFFICES ASSUME NEW k, Append(frame.label, k) \in all \cup {new}
               PROVE  FALSE
    BY DEF Counted
  <2>1. frame.label = new /\ new \notin all /\ IsLabel(new)
    BY <1>7 DEF new, all
  <2>2. CASE Append(new, k) \in all
    BY <1>6, <2>1, <2>2 DEF Prefixed
  <2>3. CASE Append(new, k) = new
    <3>1. new \in Seq(Range(new))
      BY <2>1, ListsAreSequences DEF IsLabel
    <3>2. Len(new) \in Nat /\ Len(Append(new, k)) = Len(new) + 1
      <4>1. new \in Seq(Range(new) \cup {k}) /\ k \in Range(new) \cup {k}
        BY <3>1, SeqMonotonic
      <4>2. Len(new) \in Nat
        BY <3>1
      <4> QED BY <4>1, <4>2, AppendProperties
    <3> QED BY <2>3, <3>2
  <2> QED BY <2>1, <2>2, <2>3
<1>12. \A i \in 1 .. n + 1 : Counted(both[i], all \cup {new})
  BY <1>3, <1>4, <1>10, <1>11 DEF n
<1>13. Different(both)
  <2> SUFFICES ASSUME NEW i \in 1 .. n + 1, NEW j \in 1 .. n + 1, both[i].label = both[j].label
               PROVE  i = j
    BY <1>3 DEF Different, n
  <2>1. \A m \in 1 .. n : both[m].label = stack[m].label /\ stack[m].label \in all
    BY <1>3, <1>6 DEF n
  <2>2. both[n + 1].label = new /\ new \notin all
    BY <1>3 DEF new, all, n
  <2>3. CASE i \in 1 .. n /\ j \in 1 .. n
    BY <1>6, <2>1, <2>3 DEF Different, n
  <2> QED BY <1>4, <2>1, <2>2, <2>3
<1> QED BY <1>3, <1>5, <1>8, <1>9, <1>12, <1>13 DEF Labelled, both, n

\* A folder with a label has one that no folder before it has, the root's
\* "ows_root" among them.
LabelsDistinct == ParseFolder /\ Has(Turn, "label") => LabelOf(Turn, Last(open)) \notin Labels(open, folders)

\* The label of a folder whose turn it is is new.
LEMMA LabelIsNew ==
  ASSUME OpenFolders(open), Labelled(open, folders), ParseFolder, LabelsDistinct
  PROVE  LabelOf(Turn, Last(open)) \notin Labels(open, folders)
<1>1. CASE Has(Turn, "label")
  BY <1>1 DEF LabelsDistinct
<1>2. CASE ~Has(Turn, "label")
  <2> DEFINE n == Len(open)
  <2>1. open # <<>>
    BY DEF ParseFolder
  <2>2. n \in Nat \ {0} /\ Last(open) = open[n]
    BY <2>1, RestOpen
  <2>3. n \in 1 .. n
    BY <2>2, BelowLast
  <2>4. Counted(open[n], Labels(open, folders))
    BY <2>3 DEF Labelled
  <2>5. LabelOf(Turn, Last(open)) = Append(open[n].label, open[n].sibling)
    BY <1>2, <2>2 DEF LabelOf
  <2> HIDE DEF n
  <2> QED BY <2>4, <2>5 DEF Counted
<1> QED BY <1>1, <1>2

LabelsInv == Labelled(open, folders)

\* No label is lost or found while the folders stay as they are.
LEMMA LabelsKept ==
  ASSUME LabelsInv, UNCHANGED <<open, folders>>
  PROVE  LabelsInv'
BY DEF LabelsInv, Labelled, Labels, Different

\* The labels of the folders known change only when a folder opens.
LEMMA LabelsStep ==
  ASSUME TurnsInv, LabelsInv, [DrawNext]_<<vars, drawn>>, [LabelsDistinct]_<<vars, drawn>>
  PROVE  LabelsInv'
<1>1. CASE UNCHANGED <<open, folders>>
  BY <1>1, LabelsKept
<1>2. CASE OpenRoot
  <2> DEFINE root == [label |-> <<"ows_root">>, todo |-> items, sibling |-> 0]
  <2>1. open' = <<root>> /\ folders = {} /\ folders' = {}
    BY <1>2 DEF OpenRoot
  <2>2. root.label = <<"ows_root">> /\ root.sibling = 0
    OBVIOUS
  <2> HIDE DEF root
  <2>3. Len(<<root>>) = 1 /\ <<root>>[1] = root
    OBVIOUS
  <2>4. Labels(<<root>>, {}) = {<<"ows_root">>}
    BY <2>2, <2>3 DEF Labels
  <2>5. \A p, k : IsLabel(p) => Append(p, k) # <<"ows_root">>
    BY LabelAppended
  <2>6. Prefixed({<<"ows_root">>}) /\ Counted(root, {<<"ows_root">>})
    <3>1. IsLabel(<<"ows_root">>)
      BY LabelAlone
    <3> QED BY <2>2, <2>5, <3>1 DEF Prefixed, Counted
  <2>7. Different(<<root>>)
    BY <2>3 DEF Different
  <2>8. Labelled(<<root>>, {})
    BY <2>3, <2>4, <2>6, <2>7, LabelAlone DEF Labelled
  <2> QED BY <2>1, <2>8 DEF LabelsInv
<1>3. CASE ParseLayer
  <2>1. open # <<>> /\ open' = Rest /\ folders' = folders
    BY <1>3 DEF ParseLayer
  <2>2. Labelled(Rest, folders)
    BY <2>1, RestLabelled DEF TurnsInv, LabelsInv
  <2> QED BY <2>1, <2>2 DEF LabelsInv
<1>4. CASE ParseFolder /\ LabelsDistinct
  <2> DEFINE n == Len(open)
             frame == [label |-> LabelOf(Turn, Last(open)), todo |-> Turn["layers"].v, sibling |-> 0]
  <2>1. /\ open # <<>> /\ folders' = folders
        /\ open' = Rest \/ open' = Append(Rest, frame)
    BY <1>4 DEF ParseFolder, Turn
  <2>2. /\ OpenFolders(Rest) /\ Len(Rest) = n /\ n \in Nat \ {0}
        /\ Labelled(Rest, folders) /\ Labels(Rest, folders) = Labels(open, folders)
        /\ Rest[n].label = Last(open).label
        /\ Rest[n].sibling = Last(open).sibling + 1 /\ Last(open).sibling \in Nat
    BY <2>1, RestOpen, RestLabelled DEF TurnsInv, LabelsInv
  <2>3. frame.label \notin Labels(Rest, folders)
    BY <1>4, <2>2, LabelIsNew DEF TurnsInv, LabelsInv
  <2>4. \/ \E x : frame.label = <<x>>
        \/ \E k \in Nat : frame.label = Append(Rest[n].label, k) /\ k < Rest[n].sibling
    <3>1. CASE Has(Turn, "label")
      BY <3>1 DEF LabelOf
    <3>2. CASE ~Has(Turn, "label")
      <4>1. frame.label = Append(Rest[n].label, Last(open).sibling)
        BY <2>2, <3>2 DEF LabelOf
      <4>2. Last(open).sibling \in Nat /\ Last(open).sibling < Rest[n].sibling
        BY <2>2
      <4> HIDE DEF frame
      <4> QED BY <4>1, <4>2
    <3> QED BY <3>1, <3>2
  <2>5. frame.sibling = 0
    OBVIOUS
  <2> HIDE DEF frame, n
  <2>6. Labelled(Append(Rest, frame), folders)
    BY <2>2, <2>3, <2>4, <2>5, FolderLabelled
  <2>7. Labelled(open', folders')
    BY <2>1, <2>2, <2>6
  <2> QED BY <2>7 DEF LabelsInv
<1>5. CASE CloseFolder
  <2> DEFINE n == Len(open)
             all == Labels(open, folders)
  <2>1. open # <<>> /\ open' = Front(open) /\ folders' = folders \cup {Last(open).label}
    BY <1>5 DEF CloseFolder
  <2>2. n \in Nat \ {0} /\ Last(open) = open[n] /\ open \in Seq(Range(open))
    BY <2>1, RestOpen, ListsAreSequences DEF TurnsInv, OpenFolders
  <2>3. Len(open') = n - 1 /\ \A i \in 1 .. n - 1 : open'[i] = open[i]
    <3>1. open' = [i \in 1 .. n - 1 |-> open[i]]
      BY <2>1, <2>2 DEF Front
    <3>2. [i \in 1 .. n - 1 |-> open[i]] \in [1 .. n - 1 -> Range(open)] /\ n - 1 \in Nat
      BY <2>2 DEF Range
    <3> QED BY <3>1, <3>2, SeqDef
  <2>4. n \in 1 .. n /\ \A i \in 1 .. n : i # n => i \in 1 .. n - 1
    BY <2>2, BelowLast
  <2>5. \A i \in 1 .. n - 1 : i \in 1 .. n
    BY <2>2
  <2> HIDE DEF n
  <2>6. Labels(open', folders') = all
    <3>1. \A i \in 1 .. n : open[i].label = Last(open).label \/ \E m \in 1 .. n - 1 : open[i].label = open'[m].label
      BY <2>2, <2>3, <2>4
    <3> QED BY <2>1, <2>2, <2>3, <2>4, <2>5, <3>1 DEF Labels, n
  <2>7. Different(open')
    BY <2>3, <2>5 DEF LabelsInv, Labelled, Different, n
  <2>8. \A i \in 1 .. n - 1 : Counted(open'[i], all)
    BY <2>3, <2>5 DEF LabelsInv, Labelled, n
  <2> HIDE DEF all
  <2>9. (\A l \in all : IsLabel(l)) /\ Prefixed(all)
    BY DEF LabelsInv, Labelled, all
  <2>10. Labelled(open', folders')
    BY <2>3, <2>6, <2>7, <2>8, <2>9 DEF Labelled
  <2> QED BY <2>10 DEF LabelsInv
<1>6. CASE ReadNext /\ UNCHANGED <<parseVars, drawn>>
  BY <1>1, <1>6 DEF parseVars
<1>7. CASE UNCHANGED <<vars, drawn>>
  BY <1>1, <1>7 DEF vars, parseVars
<1>8. CASE ReadFailed \/ ParseGlobal \/ ParseWMS \/ ParseWCS \/ ParseWMTS \/ MakeReady \/ Up
  BY <1>1, <1>8 DEF ReadFailed, ParseGlobal, ParseWMS, ParseWCS, ParseWMTS, MakeReady, Up, Sections
<1> QED BY <1>1, <1>2, <1>3, <1>4, <1>5, <1>6, <1>7, <1>8 DEF DrawNext, ConfigNext, vars, parseVars

\* No folder is refused for its label, then.
LEMMA NoneTaken ==
  ASSUME TurnsInv, LabelsInv, [LabelsDistinct]_<<vars, drawn>>
  PROVE  [FoldersTaken]_<<vars, drawn>>
<1>1. CASE LabelsDistinct /\ ParseFolder
  BY <1>1, LabelIsNew DEF FoldersTaken, TurnsInv, LabelsInv, Labels
<1>2. CASE ~ParseFolder
  BY <1>2 DEF FoldersTaken
<1>3. CASE UNCHANGED <<vars, drawn>>
  BY <1>3
<1> QED BY <1>1, <1>2, <1>3

\* What is known of turns and labels holds while labels are distinct.
LEMMA TurnsHold == DrawSpec /\ [][LabelsDistinct]_<<vars, drawn>> => [](TurnsInv /\ LabelsInv)
<1>1. DrawInit => TurnsInv /\ LabelsInv
  <2>1. IsSequence(<<>>) /\ Len(<<>>) = 0
    BY EmptySeq DEF IsSequence
  <2>2. OpenFolders(<<>>)
    BY <2>1 DEF OpenFolders
  <2>3. Labels(<<>>, {}) = {}
    BY <2>1 DEF Labels
  <2>4. Labelled(<<>>, {})
    BY <2>1, <2>3 DEF Labelled, Prefixed, Different
  <2> QED BY <2>1, <2>2, <2>4 DEF DrawInit, ConfigInit, FilesInit, TurnsInv, LabelsInv
<1>2. TurnsInv /\ LabelsInv /\ [DrawNext]_<<vars, drawn>> /\ [LabelsDistinct]_<<vars, drawn>>
        => TurnsInv' /\ LabelsInv'
  BY LabelsStep, NoneTaken, TurnsStep
<1> QED BY <1>1, <1>2, PTL DEF DrawSpec

\* The layers that are sound on their own give their styles in lists, and folders
\* their layers.
SectionsListed ==
    /\ FoldersListed
    /\ \A i \in DOMAIN LayerSections : SoundAlone(LayerSections[i]) => StylesInList(LayerSections[i])

(* A faulty layer or folder costs only itself, for any configurations that give *)
(* their sections in lists and in which no two folders have one label: every    *)
(* layer that is sound on its own is indexed once the layers are parsed,        *)
(* whatever was refused before it (OWSFolder.__init__ goes on after a           *)
(* ConfigException).                                                            *)
THEOREM SoundLayersAlwaysIndexed ==
    DrawSpec /\ [][LabelsDistinct]_<<vars, drawn>> => [](SectionsListed => SoundLayersIndexed)
<1>1. TurnsInv => (SectionsListed => SoundLayersIndexed)
  <2> SUFFICES ASSUME TurnsInv, SectionsListed, stage \in {"wmts", "parsed"},
                      NEW i \in DOMAIN LayerSections, SoundAlone(LayerSections[i])
               PROVE  LayerSections[i]["name"].v \in DOMAIN index
    BY DEF SoundLayersIndexed
  <2>1. LayerSections[i] \in Waiting(Range(items))
    BY SectionsWait DEF SectionsListed, TurnsInv, Range
  <2>2. HasTurn(LayerSections[i], index, open) /\ Len(open) = 0
    BY <2>1 DEF SectionsListed, TurnsInv, AllHaveTurns, SoundListed
  <2> QED BY <2>2 DEF HasTurn
<1> QED BY <1>1, TurnsHold, PTL
================================================================================
