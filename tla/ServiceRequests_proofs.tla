------------------------- MODULE ServiceRequests_proofs ------------------------
(***************************************************************************)
(* Proofs about requests, for any layers, tile matrix sets, versions and   *)
(* requests.  What is known of a request on its way (Underway) carries the *)
(* service the client addressed, the version negotiated for it and the     *)
(* checks already passed; from it follow the version the client gets, the  *)
(* family of exceptions it gets, the area that is loaded for it and the    *)
(* data that is found for its times.                                       *)
(***************************************************************************)
EXTENDS ServiceRequests, SequenceTheorems, FiniteSetTheorems, WellFoundedInduction, TLAPS

-----------------------------------------------------------------------------
(* Versions *)

\* Numbers between 1 and n have a greatest one among them.
LEMMA GreatestNumber ==
  ASSUME NEW n \in Nat, NEW s \in SUBSET (1 .. n), s # {}
  PROVE  Max(s) \in s /\ \A k \in s : k <= Max(s)
<1> DEFINE Bounds == {m \in 0 .. n : \A k \in s : k <= m}
<1>1. n \in Bounds /\ Bounds \subseteq Nat
  OBVIOUS
<1>2. PICK m \in Bounds : \A k \in Bounds : <<k, m>> \notin OpToRel(<, Nat)
  <2> HIDE DEF Bounds
  <2> QED BY <1>1, NatLessThanWellFounded, WFMin
<1>3. \A k \in Bounds : ~(k < m)
  BY <1>1, <1>2 DEF OpToRel
<1>4. m \in s
  <2>0. m \in 0 .. n /\ \A k \in s : k <= m
    OBVIOUS
  <2>1. m # 0
    <3>1. PICK k \in s : k \in 1 .. n
      OBVIOUS
    <3> QED BY <2>0, <3>1
  <2>2. SUFFICES ASSUME m \notin s PROVE FALSE
    OBVIOUS
  <2>3. m - 1 \in Bounds
    BY <2>0, <2>1, <2>2
  <2> QED BY <1>3, <2>0, <2>3
<1>5. \E x \in s : \A y \in s : x >= y
  BY <1>4
<1> QED BY <1>5 DEF Max

\* The first three parts, the missing ones zero.
At(parts, i) == IF i \in DOMAIN parts THEN parts[i] ELSE 0

\* Versions compare by them.
LEMMA NotAboveAt ==
  ASSUME NEW v, NEW w
  PROVE  NotAbove(v, w) <=>
            \/ At(v, 1) < At(w, 1)
            \/ At(v, 1) = At(w, 1) /\ At(v, 2) < At(w, 2)
            \/ At(v, 1) = At(w, 1) /\ At(v, 2) = At(w, 2) /\ At(v, 3) <= At(w, 3)
BY DEF NotAbove, At

\* The numbers of a version.
Numbers(parts) == [i \in DOMAIN parts |-> CHOOSE n \in parts[i].digits : TRUE]
Plain(parts)   == \A i \in DOMAIN parts : parts[i].pure

\* What _clean_version_parts makes of a version that consists of numbers are
\* these numbers, filled up with zeros to three.
LEMMA CleanPlain ==
  ASSUME NEW text \in DOMAIN VersionParts, Plain(VersionParts[text])
  PROVE  /\ CleanParts(VersionParts[text]) \in Seq(Nat)
         /\ Len(CleanParts(VersionParts[text])) >= 3
         /\ \A i \in 1 .. 3 : CleanParts(VersionParts[text])[i] = At(Numbers(VersionParts[text]), i)
<1> DEFINE parts == VersionParts[text]
           taken == {i \in 1 .. Len(parts) : parts[i].digits # {}}
           S == {3} \cup taken
           length == Max(S)
           clean == [i \in 1 .. length |-> IF i \in taken THEN CHOOSE n \in parts[i].digits : TRUE ELSE 0]
<1> DEFINE P == [pure : BOOLEAN, digits : SUBSET Nat]
<1>0. parts \in Seq(P) /\ \A part \in Range(parts) : part.pure => part.digits # {}
  BY VersionPartsAssumption
<1>1. \A i \in DOMAIN parts : parts[i] \in P /\ parts[i].digits # {}
  <2> HIDE DEF P, parts
  <2>1. \A i \in DOMAIN parts : parts[i] \in P
    BY <1>0, LenProperties, ElementOfSeq
  <2> QED BY <1>0, <2>1 DEF Plain, Range, parts
<1>2. DOMAIN parts = 1 .. Len(parts) /\ Len(parts) \in Nat
  <2> HIDE DEF P, parts
  <2> QED BY <1>0, LenProperties
<1>3. {i \in DOMAIN parts : ~parts[i].pure} = {}
  BY DEF Plain
<1>4. CleanParts(parts) = clean
  BY <1>3 DEF CleanParts
<1>5. taken = 1 .. Len(parts)
  BY <1>1, <1>2
<1>6. length \in S /\ \A k \in S : k <= length
  <2> DEFINE n == Len(parts) + 3
  <2>1. n \in Nat /\ S \subseteq 1 .. n /\ S # {}
    BY <1>2
  <2> HIDE DEF n, S
  <2> QED BY <2>1, GreatestNumber
<1>7. length \in Nat /\ length >= 3 /\ \A k \in 1 .. Len(parts) : k <= length
  <2> HIDE DEF length, taken
  <2> QED BY <1>2, <1>5, <1>6
<1>8. \A i \in 1 .. length : clean[i] \in Nat
  BY <1>1, <1>2, <1>5
<1> HIDE DEF length
<1>9. clean \in Seq(Nat) /\ Len(clean) = length
  BY <1>7, <1>8
<1>10. \A i \in 1 .. 3 : clean[i] = At(Numbers(parts), i)
  BY <1>2, <1>5, <1>7 DEF At, Numbers
<1> QED BY <1>4, <1>7, <1>9, <1>10

\* Python's order of lists is, for a list of three numbers and one of at least
\* three, the order of versions.
LEMMA BelowIsAbove ==
  ASSUME NEW a \in Seq(Nat), Len(a) >= 3, NEW v \in Seq(Nat), Len(v) = 3
  PROVE  Below(a, v) <=> ~NotAbove(v, a)
<1>1. DOMAIN a \cap DOMAIN v = 1 .. 3
  BY LenProperties
<1>2. ~IsStrictPrefix(a, v)
  <2>1. SUFFICES ASSUME IsStrictPrefix(a, v) PROVE FALSE
    OBVIOUS
  <2>2. Len(a) <= 3 /\ SubSeq(a, 1, Len(a)) = SubSeq(v, 1, Len(a)) /\ a # v
    BY <2>1 DEF IsStrictPrefix, IsPrefix
  <2>3. Len(a) = Len(v)
    BY <2>2, LenProperties
  <2> QED BY <2>2, <2>3, SubSeqFull
<1>3. /\ a[1] \in Nat /\ a[2] \in Nat /\ a[3] \in Nat
      /\ v[1] \in Nat /\ v[2] \in Nat /\ v[3] \in Nat
  <2>1. 1 \in 1 .. Len(a) /\ 2 \in 1 .. Len(a) /\ 3 \in 1 .. Len(a)
    BY LenProperties
  <2>2. 1 \in 1 .. Len(v) /\ 2 \in 1 .. Len(v) /\ 3 \in 1 .. Len(v)
    OBVIOUS
  <2> QED BY <2>1, <2>2, ElementOfSeq
<1>4. Below(a, v) <=> \E i \in 1 .. 3 : a[i] < v[i] /\ \A j \in 1 .. i - 1 : a[j] = v[j]
  BY <1>1, <1>2 DEF Below
<1>5. /\ At(v, 1) = v[1] /\ At(v, 2) = v[2] /\ At(v, 3) = v[3]
      /\ At(a, 1) = a[1] /\ At(a, 2) = a[2] /\ At(a, 3) = a[3]
  BY <1>1 DEF At
<1>6. (\E i \in 1 .. 3 : a[i] < v[i] /\ \A j \in 1 .. i - 1 : a[j] = v[j])
         <=> \/ a[1] < v[1]
             \/ a[1] = v[1] /\ a[2] < v[2]
             \/ a[1] = v[1] /\ a[2] = v[2] /\ a[3] < v[3]
  <2> DEFINE P(i) == a[i] < v[i] /\ \A j \in 1 .. i - 1 : a[j] = v[j]
  <2>1. (\E i \in 1 .. 3 : P(i)) <=> P(1) \/ P(2) \/ P(3)
    <3>1. 1 .. 3 = {1, 2, 3}
      OBVIOUS
    <3> HIDE DEF P
    <3> QED BY <3>1
  <2>2. P(1) <=> a[1] < v[1]
    OBVIOUS
  <2>3. P(2) <=> a[1] = v[1] /\ a[2] < v[2]
    <3>1. 1 .. 2 - 1 = {1}
      OBVIOUS
    <3> QED BY <3>1
  <2>4. P(3) <=> a[1] = v[1] /\ a[2] = v[2] /\ a[3] < v[3]
    <3>1. 1 .. 3 - 1 = {1, 2}
      OBVIOUS
    <3> QED BY <3>1
  <2> QED BY <2>1, <2>2, <2>3, <2>4
<1>7. Below(a, v) <=> \/ a[1] < v[1]
                      \/ a[1] = v[1] /\ a[2] < v[2]
                      \/ a[1] = v[1] /\ a[2] = v[2] /\ a[3] < v[3]
  BY <1>4, <1>6
<1>8. NotAbove(v, a) <=> \/ v[1] < a[1]
                         \/ v[1] = a[1] /\ v[2] < a[2]
                         \/ v[1] = a[1] /\ v[2] = a[2] /\ v[3] <= a[3]
  BY <1>5, NotAboveAt
<1>9. /\ a[1] < v[1] <=> ~(v[1] < a[1]) /\ a[1] # v[1]
      /\ a[2] < v[2] <=> ~(v[2] < a[2]) /\ a[2] # v[2]
      /\ a[3] < v[3] <=> ~(v[3] <= a[3])
      /\ ~(v[1] < a[1] /\ a[1] = v[1]) /\ ~(v[2] < a[2] /\ a[2] = v[2])
  <2>1. \A m, n \in Nat : /\ m < n <=> ~(n < m) /\ m # n
                          /\ m < n <=> ~(n <= m)
                          /\ ~(n < m /\ m = n)
    OBVIOUS
  <2> QED BY Zenon, <1>3, <2>1
<1> QED BY Zenon, <1>7, <1>8, <1>9

\* The versions of a service, in their order.
LEMMA SupportedVersions ==
  ASSUME NEW s \in DOMAIN Supported
  PROVE  /\ DOMAIN Supported[s] = 1 .. Len(Supported[s]) /\ Len(Supported[s]) \in 1 .. 3
         /\ \A i \in DOMAIN Supported[s] :
               Supported[s][i].parts \in Seq(Nat) /\ Len(Supported[s][i].parts) = 3
         /\ \A i, j \in DOMAIN Supported[s] :
               i <= j => NotAbove(Supported[s][i].parts, Supported[s][j].parts)
<1>1. s \in {"wms", "wmts", "wcs"}
  BY DEF Supported
<1>2. \A v \in {<<1, 3, 0>>, <<1, 0, 0>>, <<2, 0, 0>>, <<2, 1, 0>>} :
         v \in Seq(Nat) /\ Len(v) = 3 /\ NotAbove(v, v)
  <2>1. \A a, b, c \in Nat : <<a, b, c>> \in Seq(Nat) /\ Len(<<a, b, c>>) = 3
    OBVIOUS
  <2>2. \A a, b, c \in Nat : NotAbove(<<a, b, c>>, <<a, b, c>>)
    BY DEF NotAbove
  <2> QED BY <2>1, <2>2
<1>3. /\ NotAbove(<<1, 0, 0>>, <<2, 0, 0>>)
      /\ NotAbove(<<1, 0, 0>>, <<2, 1, 0>>)
      /\ NotAbove(<<2, 0, 0>>, <<2, 1, 0>>)
  BY DEF NotAbove
<1>4. CASE s = "wms"
  <2>1. /\ DOMAIN Supported[s] = {1} /\ Len(Supported[s]) = 1
        /\ Supported[s][1].parts = <<1, 3, 0>>
    BY <1>4 DEF Supported
  <2>2. {1} = 1 .. 1
    OBVIOUS
  <2>3. \A i \in DOMAIN Supported[s] :
           Supported[s][i].parts \in Seq(Nat) /\ Len(Supported[s][i].parts) = 3
    BY <1>2, <2>1
  <2>4. ASSUME NEW i \in DOMAIN Supported[s], NEW j \in DOMAIN Supported[s]
        PROVE  NotAbove(Supported[s][i].parts, Supported[s][j].parts)
    BY <1>2, <2>1
  <2> QED BY <2>1, <2>2, <2>3, <2>4
<1>5. CASE s = "wmts"
  <2>1. /\ DOMAIN Supported[s] = {1} /\ Len(Supported[s]) = 1
        /\ Supported[s][1].parts = <<1, 0, 0>>
    BY <1>5 DEF Supported
  <2>2. {1} = 1 .. 1
    OBVIOUS
  <2>3. \A i \in DOMAIN Supported[s] :
           Supported[s][i].parts \in Seq(Nat) /\ Len(Supported[s][i].parts) = 3
    BY <1>2, <2>1
  <2>4. ASSUME NEW i \in DOMAIN Supported[s], NEW j \in DOMAIN Supported[s]
        PROVE  NotAbove(Supported[s][i].parts, Supported[s][j].parts)
    BY <1>2, <2>1
  <2> QED BY <2>1, <2>2, <2>3, <2>4
<1>6. CASE s = "wcs"
  <2>1. /\ DOMAIN Supported[s] = {1, 2, 3} /\ Len(Supported[s]) = 3
        /\ Supported[s][1].parts = <<1, 0, 0>>
        /\ Supported[s][2].parts = <<2, 0, 0>>
        /\ Supported[s][3].parts = <<2, 1, 0>>
    BY <1>6 DEF Supported
  <2>2. {1, 2, 3} = 1 .. 3
    OBVIOUS
  <2>3. \A i \in DOMAIN Supported[s] :
           Supported[s][i].parts \in Seq(Nat) /\ Len(Supported[s][i].parts) = 3
    BY <1>2, <2>1
  <2>4. ASSUME NEW i \in DOMAIN Supported[s], NEW j \in DOMAIN Supported[s], i <= j
        PROVE  NotAbove(Supported[s][i].parts, Supported[s][j].parts)
    BY <1>2, <1>3, <2>1, <2>4
  <2> QED BY <2>1, <2>2, <2>3, <2>4
<1> QED BY <1>1, <1>4, <1>5, <1>6

\* The versions that requests name; none is the empty text.
Texts == DOMAIN VersionParts \cup {""}
Given(text) == text # ""

\* A version is negotiated that is supported; if it was asked for in numbers, it
\* is the highest that is not above them, or the lowest.
LEMMA NegotiatedVersion ==
  ASSUME NEW s \in DOMAIN Supported, NEW text \in Texts
  PROVE  /\ Negotiated(s, text) \in DOMAIN Supported[s]
         /\ Given(text) /\ Plain(VersionParts[text]) =>
               /\ \A i \in DOMAIN Supported[s] :
                      NotAbove(Supported[s][i].parts, Numbers(VersionParts[text])) =>
                          i <= Negotiated(s, text)
               /\ \/ Negotiated(s, text) = 1
                  \/ NotAbove(Supported[s][Negotiated(s, text)].parts, Numbers(VersionParts[text]))
<1> DEFINE versions == Supported[s]
           asked == CleanParts(VersionParts[text])
           fitting == {i \in DOMAIN versions : ~Below(asked, versions[i].parts)}
<1>1. DOMAIN versions = 1 .. Len(versions) /\ Len(versions) \in 1 .. 3
  BY SupportedVersions
<1>2. /\ Given(text) => Negotiated(s, text) = IF fitting = {} THEN 1 ELSE Max(fitting)
      /\ ~Given(text) => Negotiated(s, text) = Len(versions)
  BY Zenon DEF Negotiated, Given
<1>3. fitting # {} => Max(fitting) \in fitting /\ \A k \in fitting : k <= Max(fitting)
  <2>1. fitting \subseteq DOMAIN versions
    OBVIOUS
  <2> HIDE DEF fitting, versions
  <2>2. fitting \in SUBSET (1 .. Len(versions)) /\ Len(versions) \in Nat
    BY <1>1, <2>1
  <2> QED BY <2>2, GreatestNumber
<1>4. ASSUME Given(text), Plain(VersionParts[text]), NEW i \in DOMAIN versions
      PROVE  i \in fitting <=> NotAbove(versions[i].parts, Numbers(VersionParts[text]))
  <2> DEFINE numbers == Numbers(VersionParts[text])
  <2>1. /\ asked \in Seq(Nat) /\ Len(asked) >= 3
        /\ \A k \in 1 .. 3 : asked[k] = At(numbers, k)
    <3>1. text \in DOMAIN VersionParts
      BY <1>4 DEF Given, Texts
    <3> QED BY <1>4, <3>1, CleanPlain
  <2>2. versions[i].parts \in Seq(Nat) /\ Len(versions[i].parts) = 3
    BY <1>4, SupportedVersions
  <2>3. i \in fitting <=> ~Below(asked, versions[i].parts)
    BY <1>4
  <2> HIDE DEF asked, versions, numbers, fitting
  <2>4. Below(asked, versions[i].parts) <=> ~NotAbove(versions[i].parts, asked)
    BY <2>1, <2>2, BelowIsAbove
  <2>5. 1 \in DOMAIN asked /\ 2 \in DOMAIN asked /\ 3 \in DOMAIN asked
    BY <2>1, LenProperties
  <2>6. /\ At(asked, 1) = At(numbers, 1) /\ At(asked, 2) = At(numbers, 2)
        /\ At(asked, 3) = At(numbers, 3)
    <3>1. At(asked, 1) = asked[1] /\ At(asked, 2) = asked[2] /\ At(asked, 3) = asked[3]
      BY <2>5 DEF At
    <3> QED BY <2>1, <3>1
  <2>7. NotAbove(versions[i].parts, asked) <=> NotAbove(versions[i].parts, numbers)
    BY <2>6, NotAboveAt
  <2> QED BY <2>3, <2>4, <2>7 DEF numbers
<1> HIDE DEF fitting, asked
<1>5. fitting \subseteq DOMAIN versions
  BY DEF fitting
<1> HIDE DEF versions
<1>6. Negotiated(s, text) \in DOMAIN versions
  BY <1>1, <1>2, <1>3, <1>5
<1>7. ASSUME Given(text), Plain(VersionParts[text])
      PROVE  /\ \A i \in DOMAIN versions :
                    NotAbove(versions[i].parts, Numbers(VersionParts[text])) =>
                        i <= Negotiated(s, text)
             /\ \/ Negotiated(s, text) = 1
                \/ NotAbove(versions[Negotiated(s, text)].parts, Numbers(VersionParts[text]))
  BY <1>2, <1>3, <1>4, <1>5, <1>7
<1> QED BY <1>6, <1>7 DEF versions

-----------------------------------------------------------------------------
(* A request on its way *)

\* The version a request names.
VersionOf(sent) == Get(sent, "version", "")

MapOperations == {"GETMAP", "GETFEATUREINFO", "GETLEGENDGRAPHIC"}
StepNames == {"version", "crs", "layer", "bbox", "geobox", "times", "format", "style", "size",
              "info_format", "point"}

\* The arguments that are checked: those of the request, or of the map request a
\* tile is translated into.
CheckedArgs ==
    \/ svc = "wms" /\ args = request.args
    \/ svc = "wmts" /\ CheckTile(request.args) = "ok" /\ args = TileArgs(request.args)

\* Every check of the operation is still to be made or passed.
ChecksPassed == \A step \in Range(StepsOf(op)) : step \in Range(todo) \/ Check(step, op, args) = OK

\* What is known of a request on its way.
Underway ==
    /\ request \in Requests
    /\ stage \in {"route", "service", "handle", "capabilities", "translate", "coverage",
                  "check", "done"}
    /\ stage \notin {"check", "done"} => args = request.args
    /\ stage \notin {"route", "done"} => OwsPath /\ svc = Addressed
    /\ stage \in {"route", "service"} => version = 0
    /\ stage \notin {"route", "service", "done"} => version # 0
    /\ version # 0 => /\ svc \in DOMAIN Supported
                     /\ version = Negotiated(svc, VersionOf(request.args))
    /\ stage = "translate" => svc = "wmts" /\ op \in {"GETTILE", "GETFEATUREINFO"}
    /\ stage = "check" => /\ op \in MapOperations /\ todo \in Seq(StepNames)
                         /\ CheckedArgs /\ ChecksPassed

\* The service a request addresses is a matter of the request alone.
LEMMA AddressedStands == ASSUME request' = request
                         PROVE  Addressed' = Addressed /\ OwsPath' = OwsPath
BY Zenon DEF Addressed, OwsPath

\* The service "/" derives from a request is the one it addresses.
LEMMA DerivedIsAddressed ==
  ASSUME request.path = "/", args = request.args, NEW s \in DerivedService
  PROVE  s = Addressed
<1> DEFINE sent == request.args
           operation == Get(sent, "request", "")
<1>1. Addressed = IF Get(sent, "service", "") # "" THEN sent["service"]
                  ELSE IF operation \in WCSRequests THEN "wcs" ELSE "wms"
  BY Zenon DEF Addressed
<1>2. Service # "" => Service = sent["service"] /\ s = Service
  BY Zenon DEF Service, Get, DerivedService
<1>3. Service = Get(sent, "service", "") /\ Operation = operation
  BY Zenon DEF Service, Operation
<1>4. CASE Service # ""
  BY Zenon, <1>1, <1>2, <1>3, <1>4
<1>5. CASE Service = "" /\ Operation \in WMSRequests
  <2>1. operation \notin WCSRequests
    BY Zenon, <1>3, <1>5 DEF WMSRequests, WCSRequests
  <2>2. s = "wms"
    BY Zenon, <1>5 DEF DerivedService
  <2> QED BY Zenon, <1>1, <1>3, <1>5, <2>1, <2>2
<1>6. CASE Service = "" /\ Operation \notin WMSRequests
  <2>1. s = "wcs" /\ Operation \in WCSRequests
    BY Zenon, <1>6 DEF DerivedService
  <2> QED BY Zenon, <1>1, <1>3, <1>6, <2>1
<1> QED BY Zenon, <1>4, <1>5, <1>6

\* A service without a root is addressed by its path.
LEMMA PathIsAddressed ==
  ASSUME request.path \in DOMAIN PathService
  PROVE  PathService[request.path] = Addressed /\ OwsPath
<1>1. request.path # "/"
  BY DEF PathService
<1> QED BY Zenon, <1>1 DEF Addressed, OwsPath

\* An answer ends the way of a request.
LEMMA AnswerEnds ==
  ASSUME Underway, NEW family, NEW status, Answer(family, status)
  PROVE  Underway'
<1>1. stage' = "done" /\ UNCHANGED <<request, svc, version>>
  BY DEF Answer
<1> QED BY <1>1 DEF Underway

\* The version a request names is one of the texts.
LEMMA VersionNamed == \A r \in Requests : VersionOf(r.args) \in Texts
BY RequestsAssumption DEF VersionOf, Texts

\* What is known at the start.
LEMMA UnderwayInit == Init => Underway
BY DEF Init, Underway

\* The checks of an operation.
LEMMA StepsNamed == \A o \in MapOperations : StepsOf(o) \in Seq(StepNames)
<1> DEFINE Names == StepNames
<1>1. /\ <<"version", "crs", "layer", "bbox", "geobox", "times">> \in Seq(Names)
      /\ <<"format", "style", "size">> \in Seq(Names)
      /\ <<"info_format", "point", "style">> \in Seq(Names)
      /\ <<"layer", "format", "style", "times">> \in Seq(Names)
  BY DEF StepNames
<1> HIDE DEF Names
<1>2. \A s, t \in Seq(Names) : s \o t \in Seq(Names)
  OBVIOUS
<1>3. StepsOf("GETMAP") \in Seq(Names)
  BY <1>1, <1>2 DEF StepsOf, CommonSteps
<1>4. StepsOf("GETFEATUREINFO") \in Seq(Names)
  BY <1>1, <1>2 DEF StepsOf, CommonSteps
<1>5. StepsOf("GETLEGENDGRAPHIC") \in Seq(Names)
  BY <1>1 DEF StepsOf
<1> QED BY <1>3, <1>4, <1>5 DEF MapOperations, Names

\* Among three there is a first.
LEMMA FirstOfThree == ASSUME NEW bad \in SUBSET (1 .. 3), bad # {} PROVE Min(bad) \in bad
<1>1. bad \subseteq {1, 2, 3}
  <2>1. 1 .. 3 = {1, 2, 3}
    OBVIOUS
  <2> QED BY <2>1
<1>2. \E x \in bad : \A y \in bad : x =< y
  <2>1. CASE 1 \in bad
    BY <1>1, <2>1
  <2>2. CASE 1 \notin bad /\ 2 \in bad
    BY <1>1, <2>2
  <2>3. CASE 1 \notin bad /\ 2 \notin bad
    <3>1. bad = {3}
      BY <1>1, <2>3
    <3> QED BY <3>1
  <2> QED BY <2>1, <2>2, <2>3
<1> QED BY <1>2 DEF Min

\* The outcome of a tile's checks.
LEMMA TileOutcome ==
  ASSUME NEW sent
  PROVE  /\ CheckTile(sent) \in {"ok", "refuse", "error"}
         /\ CheckTile(sent) = "ok" =>
               /\ TileSetArg(sent) # {}
               /\ TileNumber(sent, "tilematrix", 0 .. Len(TileSet(sent).spans) - 1) = "ok"
               /\ TileNumber(sent, "tilerow", Int) = "ok"
               /\ TileNumber(sent, "tilecol", Int) = "ok"
<1> DEFINE numbers == <<TileNumber(sent, "tilematrix", 0 .. Len(TileSet(sent).spans) - 1),
                        TileNumber(sent, "tilerow", Int),
                        TileNumber(sent, "tilecol", Int)>>
           bad == {i \in 1 .. 3 : numbers[i] # "ok"}
<1>1. \A name, values : TileNumber(sent, name, values) \in {"ok", "refuse", "error"}
  BY DEF TileNumber
<1>2. \A i \in 1 .. 3 : numbers[i] \in {"ok", "refuse", "error"}
  <2>1. 1 .. 3 = {1, 2, 3}
    OBVIOUS
  <2> QED BY <1>1, <2>1
<1>3. bad # {} => Min(bad) \in bad
  <2>1. bad \in SUBSET (1 .. 3)
    OBVIOUS
  <2> HIDE DEF bad
  <2> QED BY <2>1, FirstOfThree
<1>4. CheckTile(sent) = IF TileSetArg(sent) = {}
                        THEN IF Has(sent, "tilematrixset") THEN "refuse" ELSE "error"
                        ELSE IF bad = {} THEN "ok" ELSE numbers[Min(bad)]
  BY DEF CheckTile
<1>5. \A i \in bad : i \in 1 .. 3 /\ numbers[i] # "ok"
  OBVIOUS
<1>6. bad = {} => numbers[1] = "ok" /\ numbers[2] = "ok" /\ numbers[3] = "ok"
  OBVIOUS
<1>7. /\ numbers[1] = TileNumber(sent, "tilematrix", 0 .. Len(TileSet(sent).spans) - 1)
      /\ numbers[2] = TileNumber(sent, "tilerow", Int)
      /\ numbers[3] = TileNumber(sent, "tilecol", Int)
  OBVIOUS
<1> HIDE DEF numbers, bad
<1> QED BY <1>2, <1>3, <1>4, <1>5, <1>6, <1>7

\* The operations of the services.
LEMMA OperationsNamed ==
  /\ \A o \in OperationsOf("wms") : o # "GETCAPABILITIES" => o \in MapOperations
  /\ \A o \in OperationsOf("wmts") : o # "GETCAPABILITIES" => o \in {"GETTILE", "GETFEATUREINFO"}
BY DEF OperationsOf, MapOperations, WMSRequests

\* A service that is off, or that the parameter contradicts.
Unwelcome == svc \notin Activated \/ Get(args, "service", svc) # svc

\* What becomes of a request for a service (ogc_svc_impl).
LEMMA Selecting ==
  ASSUME Select
  PROVE  /\ stage = "service"
         /\ ~config => \E family, status : Answer(family, status)
         /\ config /\ svc \notin DOMAIN Supported => Answer("WMS", 400)
         /\ config /\ svc \in DOMAIN Supported /\ Unwelcome => Answer(DefaultClass(svc), 400)
         /\ config /\ svc \in DOMAIN Supported /\ ~Unwelcome =>
                /\ version' = Negotiated(svc, VersionOf(args)) /\ stage' = "handle"
                /\ UNCHANGED <<config, request, svc, op, args, todo, resp>>
<1> DEFINE known == svc \in DOMAIN Supported
           bad1 == Answer("unhandled", 500)
           bad2 == Answer("WMS", 400)
           bad3 == Answer(DefaultClass(svc), 400)
           good == /\ version' = Negotiated(svc, VersionOf(args)) /\ stage' = "handle"
                   /\ UNCHANGED <<config, request, svc, op, args, todo, resp>>
<1>1. /\ stage = "service"
      /\ IF ~config THEN bad1
         ELSE IF ~known THEN bad2 ELSE IF Unwelcome THEN bad3 ELSE good
  BY ZenonT(40) DEF Select, Unwelcome, VersionOf, Unhandled
<1>2. bad1 => \E family, status : Answer(family, status)
  BY Zenon
<1> HIDE DEF known, bad1, bad2, bad3, good
<1>3. ~config => bad1
  BY Zenon, <1>1
<1>4. config /\ ~known => bad2
  BY Zenon, <1>1
<1>5. config /\ known /\ Unwelcome => bad3
  BY Zenon, <1>1
<1>6. config /\ known /\ ~Unwelcome => good
  BY Zenon, <1>1
<1> QED BY Zenon, <1>1, <1>2, <1>3, <1>4, <1>5, <1>6 DEF known, bad2, bad3, good

\* What is known of a request on its way stays known.
LEMMA UnderwayNext == ASSUME Underway, [Next]_vars PROVE Underway'
<1>1. ASSUME UNCHANGED vars PROVE Underway'
  BY <1>1 DEF vars, Underway, Addressed, OwsPath, CheckedArgs, ChecksPassed
<1>2. ASSUME NEW s, ToService(s), stage = "route", s = Addressed, OwsPath PROVE Underway'
  <2>1. UNCHANGED <<request, args, version>> /\ svc' = s /\ stage' = "service"
    BY <1>2 DEF ToService
  <2>2. Addressed' = Addressed /\ OwsPath' = OwsPath
    BY <2>1, AddressedStands
  <2>3. version = 0
    BY <1>2 DEF Underway
  <2> QED BY <1>2, <2>1, <2>2, <2>3 DEF Underway
<1>3. CASE RouteByPath
  <2>1. ToService(PathService[request.path]) /\ request.path \in DOMAIN PathService
    BY <1>3 DEF RouteByPath
  <2> QED BY <1>2, <1>3, <2>1, PathIsAddressed DEF RouteByPath
<1>4. CASE RouteRoot
  <2>1. stage = "route" /\ request.path = "/" /\ args = request.args /\ OwsPath
    BY <1>4 DEF RouteRoot, OwsPath, Underway
  <2>2. CASE \E s \in DerivedService : ToService(s)
    BY <1>2, <2>1, <2>2, DerivedIsAddressed
  <2>3. CASE ~\E s \in DerivedService : ToService(s)
    BY <1>4, <2>3, AnswerEnds DEF RouteRoot, Unhandled
  <2> QED BY <2>2, <2>3
<1>5. CASE Ping
  BY <1>5, AnswerEnds DEF Ping, Unhandled
<1>6. CASE Legend
  BY <1>6, AnswerEnds DEF Legend, Unhandled
<1>7. CASE Select
  <2>1. CASE /\ version' = Negotiated(svc, VersionOf(args))
             /\ svc \in DOMAIN Supported
             /\ stage' = "handle"
             /\ UNCHANGED <<config, request, svc, op, args, todo, resp>>
    <3>1. stage = "service" /\ args = request.args /\ OwsPath /\ svc = Addressed
      BY <1>7, Selecting DEF Underway
    <3>2. version' # 0
      <4>1. VersionOf(args) \in Texts
        BY <3>1, VersionNamed DEF Underway
      <4> QED BY <2>1, <4>1, NegotiatedVersion, SupportedVersions
    <3> QED BY <2>1, <3>1, <3>2, AddressedStands DEF Underway
  <2>2. CASE \E family, status : Answer(family, status)
    BY <2>2, AnswerEnds
  <2>3. CASE ~config \/ svc \notin DOMAIN Supported \/ Unwelcome
    BY Zenon, <1>7, <2>2, <2>3, Selecting
  <2>4. CASE config /\ svc \in DOMAIN Supported /\ ~Unwelcome
    BY Zenon, <1>7, <2>1, <2>4, Selecting
  <2> QED BY Zenon, <2>3, <2>4
<1>8. ASSUME NEW next, NEW steps, stage = "handle", Enter(next, steps),
             \/ next \in {"capabilities", "coverage"}
             \/ next = "translate" /\ svc = "wmts" /\ Operation \in {"GETTILE", "GETFEATUREINFO"}
             \/ /\ next = "check" /\ svc = "wms" /\ Operation \in MapOperations
                /\ steps = StepsOf(Operation)
      PROVE  Underway'
  <2>1. /\ op' = Operation /\ stage' = next /\ todo' = steps
        /\ UNCHANGED <<request, svc, version, args>>
    BY <1>8 DEF Enter
  <2>2. args = request.args /\ OwsPath /\ svc = Addressed /\ version # 0
    BY <1>8 DEF Underway
  <2>3. next = "check" => todo' \in Seq(StepNames) /\ CheckedArgs' /\ ChecksPassed'
    BY <1>8, <2>1, <2>2, StepsNamed DEF CheckedArgs, ChecksPassed
  <2>4. Addressed' = Addressed /\ OwsPath' = OwsPath
    BY <2>1, AddressedStands
  <2>5. next = "translate" => svc = "wmts" /\ Operation \in {"GETTILE", "GETFEATUREINFO"}
    BY <1>8
  <2>6. next = "check" => Operation \in MapOperations
    BY <1>8
  <2>7. next \in {"capabilities", "coverage", "translate", "check"}
    BY <1>8
  <2>8. /\ request \in Requests
        /\ svc \in DOMAIN Supported /\ version = Negotiated(svc, VersionOf(request.args))
    BY <2>2 DEF Underway
  <2> QED BY <2>1, <2>2, <2>3, <2>4, <2>5, <2>6, <2>7, <2>8 DEF Underway
<1>9. CASE Handle
  <2>1. stage = "handle" /\ svc \in {"wms", "wmts", "wcs"}
    BY <1>9 DEF Handle, Underway, Supported
  <2>2. CASE Operation \notin OperationsOf(svc)
    BY <1>9, <2>2, AnswerEnds DEF Handle
  <2>3. CASE Operation \in OperationsOf(svc) /\ Operation = "GETCAPABILITIES"
    BY <1>8, <1>9, <2>1, <2>3 DEF Handle
  <2>4. CASE Operation \in OperationsOf(svc) /\ Operation # "GETCAPABILITIES"
    BY <1>8, <1>9, <2>1, <2>4, OperationsNamed DEF Handle
  <2> QED BY <2>2, <2>3, <2>4
<1>10. CASE Capabilities
  BY <1>10, AnswerEnds DEF Capabilities, Failed
<1>11. CASE Translate
  <2> DEFINE wmsOp == IF op = "GETTILE" THEN "GETMAP" ELSE "GETFEATUREINFO"
  <2>1. CASE /\ CheckTile(args) = "ok"
             /\ args' = TileArgs(args)
             /\ op' = wmsOp
             /\ stage' = "check" /\ todo' = StepsOf(wmsOp)
             /\ UNCHANGED <<config, request, svc, version, resp>>
    <3>1. /\ stage = "translate" /\ args = request.args /\ OwsPath /\ svc = Addressed
          /\ version # 0 /\ svc = "wmts"
      BY <1>11 DEF Translate, Underway
    <3>2. wmsOp \in MapOperations
      BY DEF MapOperations
    <3> HIDE DEF wmsOp
    <3>3. op' \in MapOperations /\ todo' \in Seq(StepNames)
      BY <2>1, <3>2, StepsNamed
    <3>4. CheckedArgs' /\ ChecksPassed'
      BY <2>1, <3>1 DEF CheckedArgs, ChecksPassed
    <3> QED BY <2>1, <3>1, <3>3, <3>4, AddressedStands DEF Underway
  <2>2. CASE \E family, status : Answer(family, status)
    BY <2>2, AnswerEnds
  <2> QED BY <1>11, <2>1, <2>2, TileOutcome DEF Translate, Failed
<1>12. CASE CheckParameter
  <2>1. CASE Check(todo[1], op, args) = OK
    <3>1. /\ stage = "check" /\ todo # <<>> /\ todo' = Tail(todo)
          /\ UNCHANGED <<request, stage, svc, version, op, args>>
      BY <1>12, <2>1 DEF CheckParameter
    <3>2. todo \in Seq(StepNames) /\ CheckedArgs /\ ChecksPassed
      BY <3>1 DEF Underway
    <3>3. todo' \in Seq(StepNames) /\ Range(todo) \subseteq Range(todo') \cup {todo[1]}
      <4> DEFINE Names == StepNames
      <4> HIDE DEF Names
      <4>1. todo \in Seq(Names)
        BY <3>2 DEF Names
      <4>2. /\ Tail(todo) \in Seq(Names) /\ Len(Tail(todo)) = Len(todo) - 1
            /\ \A i \in 1 .. Len(Tail(todo)) : Tail(todo)[i] = todo[i + 1]
        BY <3>1, <4>1, HeadTailProperties
      <4>3. ASSUME NEW i \in DOMAIN todo, i # 1
            PROVE  \E j \in DOMAIN Tail(todo) : todo[i] = Tail(todo)[j]
        <5>1. i \in 1 .. Len(todo) /\ Len(todo) \in Nat
          BY <4>1, LenProperties
        <5>2. i - 1 \in 1 .. Len(Tail(todo)) /\ (i - 1) + 1 = i
          BY <4>2, <4>3, <5>1
        <5>3. DOMAIN Tail(todo) = 1 .. Len(Tail(todo))
          BY <4>2, LenProperties
        <5> QED BY <4>2, <5>2, <5>3
      <4> QED BY <3>1, <4>2, <4>3 DEF Range, Names
    <3>4. CheckedArgs'
      BY <3>1, <3>2 DEF CheckedArgs
    <3>5. ChecksPassed'
      BY <2>1, <3>1, <3>2, <3>3 DEF ChecksPassed
    <3> QED BY <3>1, <3>3, <3>4, <3>5, AddressedStands DEF Underway
  <2>2. CASE Check(todo[1], op, args) # OK
    BY <1>12, <2>2, AnswerEnds DEF CheckParameter, HandlerFails, Failed
  <2> QED BY <2>1, <2>2
<1>13. CASE Serve
  BY <1>13, AnswerEnds DEF Serve, HandlerFails, Failed
<1>14. CASE Coverage
  BY <1>14, AnswerEnds DEF Coverage, Failed
<1>15. CASE Done
  BY <1>1, <1>15 DEF Done
<1> QED BY <1>1, <1>3, <1>4, <1>5, <1>6, <1>7, <1>9, <1>10, <1>11, <1>12, <1>13, <1>14, <1>15 DEF Next

\* What is known of a request on its way holds throughout.
LEMMA UnderwayAlways == Spec => []Underway
BY UnderwayInit, UnderwayNext, PTL DEF Spec

-----------------------------------------------------------------------------
(* The version that is honoured *)

\* A plain version is one that is given and consists of numbers: these.
LEMMA PlainNumbers ==
  ASSUME PlainVersion
  PROVE  /\ Given(VersionOf(request.args)) /\ Plain(VersionParts[VersionOf(request.args)])
         /\ AskedVersion = Numbers(VersionParts[VersionOf(request.args)])
<1>1. VersionOf(request.args) # ""
  BY Zenon DEF PlainVersion, VersionOf
<1>2. VersionOf(request.args) = request.args["version"]
  BY Zenon, <1>1 DEF VersionOf, Get
<1>3. Plain(VersionParts[request.args["version"]])
  BY Zenon DEF PlainVersion, Plain
<1>4. AskedVersion = Numbers(VersionParts[request.args["version"]])
  BY DEF AskedVersion, Numbers
<1> QED BY Zenon, <1>1, <1>2, <1>3, <1>4 DEF Given

\* What is known of a request fixes the version it gets.
LEMMA UnderwayHonours == ASSUME Underway PROVE VersionHonoured
<1> SUFFICES ASSUME version # 0, PlainVersion PROVE VersionHonoured
  BY DEF VersionHonoured
<1> DEFINE text == VersionOf(request.args)
<1>1. svc \in DOMAIN Supported /\ version = Negotiated(svc, text) /\ text \in Texts
  BY VersionNamed DEF Underway
<1>2. Given(text) /\ Plain(VersionParts[text]) /\ AskedVersion = Numbers(VersionParts[text])
  BY PlainNumbers
<1> HIDE DEF text
<1>3. /\ version \in DOMAIN Supported[svc]
      /\ \A i \in DOMAIN Supported[svc] :
             NotAbove(Supported[svc][i].parts, AskedVersion) => i <= version
      /\ version = 1 \/ NotAbove(Supported[svc][version].parts, AskedVersion)
  BY <1>1, <1>2, NegotiatedVersion
<1>4. \A i \in DOMAIN Supported[svc] :
         i <= version => NotAbove(Supported[svc][i].parts, Supported[svc][version].parts)
  BY <1>1, <1>3, SupportedVersions
<1> QED BY <1>3, <1>4 DEF VersionHonoured

\* The client gets the version it asked for if it is supported, and never one
\* below a supported one that is not above what it asked for (negotiated_version):
\* for any versions that consist of numbers, however many.
THEOREM VersionIsHonoured == Spec => []VersionHonoured
BY UnderwayAlways, UnderwayHonours, PTL

-----------------------------------------------------------------------------
(* The family of exceptions *)

\* The classes of exceptions of the service a request addresses.
Families == IF Addressed \in DOMAIN Supported
            THEN {v.class : v \in Range(Supported[Addressed])} ELSE {"WMS"}

\* A client of WCS 2.
WantsWCS2 == /\ Addressed = "wcs" /\ "wcs" \in Activated
             /\ Get(request.args, "service", "wcs") = "wcs"
             /\ PlainVersion /\ NotAbove(<<2, 0, 0>>, AskedVersion)

\* A family that may report an error of this request.
Fits(family) == config /\ OwsPath => family \in Families /\ (WantsWCS2 => family = "WCS2")

\* What a client may get is a matter of the request alone.
LEMMA WantsStand ==
  ASSUME request' = request
  PROVE  Families' = Families /\ WantsWCS2' = WantsWCS2
<1>1. Addressed' = Addressed
  BY AddressedStands
<1>2. PlainVersion' = PlainVersion /\ AskedVersion' = AskedVersion
  <2>1. PlainVersion' = PlainVersion
    BY Zenon DEF PlainVersion
  <2>2. AskedVersion' = AskedVersion
    BY DEF AskedVersion
  <2> QED BY <2>1, <2>2
<1> QED BY Zenon, <1>1, <1>2 DEF Families, WantsWCS2

\* An error of a family that fits keeps the promise, as does a success.
LEMMA AnswerFits ==
  ASSUME NEW family, NEW status, Answer(family, status),
         Fits(family) \/ ~(status >= 400)
  PROVE  FamilyKept'
<1>1. /\ request' = request /\ config' = config
      /\ resp'.family = family /\ resp'.status = status
  BY DEF Answer
<1>2. Families' = Families /\ WantsWCS2' = WantsWCS2 /\ OwsPath' = OwsPath
  BY <1>1, WantsStand, AddressedStands
<1>3. (status >= 400 /\ config /\ OwsPath) => family \in Families /\ (WantsWCS2 => family = "WCS2")
  BY DEF Fits
<1>4. (status >= 400 /\ config' /\ OwsPath') =>
          resp'.family \in Families' /\ (WantsWCS2' => resp'.family = "WCS2")
  BY <1>1, <1>2, <1>3
<1> QED BY Zenon, <1>1, <1>4 DEF FamilyKept, Families, WantsWCS2

\* The class of the negotiated version fits.
LEMMA ClassFits ==
  ASSUME Underway, stage \notin {"route", "service", "done"}
  PROVE  Fits(Class)
<1> DEFINE text == VersionOf(request.args)
<1>1. /\ svc \in DOMAIN Supported /\ svc = Addressed
      /\ version = Negotiated(svc, text) /\ text \in Texts
  BY VersionNamed DEF Underway
<1>2. version \in DOMAIN Supported[svc]
  BY <1>1, NegotiatedVersion
<1>3. Class \in Families
  BY <1>1, <1>2 DEF Class, Families, Range
<1>4. ASSUME WantsWCS2 PROVE Class = "WCS2"
  <2>1. Given(text) /\ Plain(VersionParts[text]) /\ AskedVersion = Numbers(VersionParts[text])
    BY <1>4, PlainNumbers DEF WantsWCS2
  <2>2. svc = "wcs"
    BY <1>1, <1>4 DEF WantsWCS2
  <2>3. NotAbove(<<2, 0, 0>>, AskedVersion)
    BY <1>4 DEF WantsWCS2
  <2>4. /\ DOMAIN Supported["wcs"] = {1, 2, 3}
        /\ Supported["wcs"][2].parts = <<2, 0, 0>>
        /\ Supported["wcs"][2].class = "WCS2" /\ Supported["wcs"][3].class = "WCS2"
    BY DEF Supported
  <2> HIDE DEF text
  <2>5. 2 <= version
    BY <1>1, <2>1, <2>2, <2>3, <2>4, NegotiatedVersion
  <2> QED BY <1>2, <2>2, <2>4, <2>5 DEF Class
<1> QED BY <1>3, <1>4 DEF Fits

\* What a check answers with.
LEMMA CheckOutcome ==
  ASSUME NEW step \in StepNames, NEW o, NEW given
  PROVE  Check(step, o, given) \in {OK, Error, Refuse}
<1>1. \A name, values : Permitted(given, name, values) \in {OK, Error, Refuse}
  BY Zenon DEF Permitted
<1>2. \A name : CheckLayer(given, name) \in {OK, Error, Refuse}
  BY Zenon DEF CheckLayer
<1>3. \A crs : CheckBox(given, crs) \in {OK, Error, Refuse}
  BY Zenon DEF CheckBox
<1>4. \A crs : CheckGeobox(given, crs) \in {OK, Error, Refuse}
  BY Zenon DEF CheckGeobox
<1>5. \A layer : CheckTimes(given, layer) \in {OK, Error, Refuse}
  BY Zenon DEF CheckTimes
<1>6. \A layer : CheckStyle(given, layer) \in {OK, Error, Refuse}
  BY Zenon DEF CheckStyle, CheckUserMath
<1>7. CheckSize(given) \in {OK, Error, Refuse} /\ CheckPoint(given) \in {OK, Error, Refuse}
  BY Zenon DEF CheckSize, CheckPoint
<1> QED BY <1>1, <1>2, <1>3, <1>4, <1>5, <1>6, <1>7 DEF Check, StepNames

\* An error of a handler fits, because the translated tiles raise WMS exceptions
\* again as theirs.
LEMMA HandlerFits ==
  ASSUME Underway, stage = "check", NEW e \in [class : {"WMS", "error"}, status : Nat],
         HandlerFails(e)
  PROVE  FamilyKept'
<1>1. Fits(Class)
  BY ClassFits
<1>2. svc = "wms" \/ svc = "wmts"
  BY DEF Underway, CheckedArgs
<1>3. version \in DOMAIN Supported[svc]
  BY VersionNamed, NegotiatedVersion DEF Underway
<1>4. svc = "wms" => Class = "WMS"
  BY <1>3 DEF Class, Supported
<1>5. svc = "wmts" => Class = "WMTS"
  BY <1>3 DEF Class, Supported
<1>6. CASE e.class = "error"
  <2>1. Answer(Class, e.status)
    BY <1>6 DEF HandlerFails, Rewrapped, Failed
  <2> QED BY <1>1, <2>1, AnswerFits
<1>7. CASE e.class = "WMS" /\ svc = "wms"
  <2>1. Answer("WMS", e.status)
    BY <1>7 DEF HandlerFails, Rewrapped, Failed
  <2> QED BY <1>1, <1>4, <1>7, <2>1, AnswerFits
<1>8. CASE e.class = "WMS" /\ svc = "wmts"
  <2>1. Answer("WMTS", e.status)
    BY <1>8 DEF HandlerFails, Rewrapped, Failed
  <2> QED BY <1>1, <1>5, <1>8, <2>1, AnswerFits
<1> QED BY <1>2, <1>6, <1>7, <1>8

\* Every step keeps errors in the family of the service.
LEMMA FamilyNext == ASSUME Underway, FamilyKept, [Next]_vars PROVE FamilyKept'
<1>1. ASSUME UNCHANGED vars PROVE FamilyKept'
  <2>1. /\ request' = request /\ config' = config /\ resp' = resp /\ stage' = stage
    BY <1>1 DEF vars
  <2>2. Families' = Families /\ WantsWCS2' = WantsWCS2 /\ OwsPath' = OwsPath
    BY <2>1, WantsStand, AddressedStands
  <2>3. (stage = "done" /\ config /\ OwsPath /\ resp.status >= 400) =>
            resp.family \in Families /\ (WantsWCS2 => resp.family = "WCS2")
    BY Zenon DEF FamilyKept, Families, WantsWCS2
  <2>4. (stage' = "done" /\ config' /\ OwsPath' /\ resp'.status >= 400) =>
            resp'.family \in Families' /\ (WantsWCS2' => resp'.family = "WCS2")
    BY Zenon, <2>1, <2>2, <2>3
  <2> QED BY Zenon, <2>4 DEF FamilyKept, Families, WantsWCS2
<1>2. ASSUME stage' # "done" PROVE FamilyKept'
  BY <1>2 DEF FamilyKept
<1>3. ASSUME stage \notin {"route", "service", "done"}, NEW status, Answer(Class, status)
      PROVE  FamilyKept'
  BY <1>3, ClassFits, AnswerFits
<1>4. ASSUME NEW family, Answer(family, 200) PROVE FamilyKept'
  BY <1>4, AnswerFits
<1>5. CASE RouteByPath
  BY <1>2, <1>5 DEF RouteByPath, ToService
<1>6. CASE RouteRoot
  <2>1. CASE \E s \in DerivedService : ToService(s)
    BY <1>2, <2>1 DEF ToService
  <2>2. CASE DerivedService = {} /\ Answer("WMS", 400)
    <3>1. request.path = "/" /\ args = request.args
      BY <1>6 DEF RouteRoot, Underway
    <3>2. Service = "" /\ Operation \notin WCSRequests
      BY Zenon, <2>2 DEF DerivedService, WMSRequests, WCSRequests
    <3>3. Addressed = "wms"
      BY Zenon, <3>1, <3>2 DEF Addressed, Service, Operation
    <3>4. Families = {"WMS"} /\ ~WantsWCS2
      BY <3>3 DEF Families, WantsWCS2, Supported, Range
    <3> QED BY <2>2, <3>4, AnswerFits DEF Fits
  <2>3. CASE Answer("html", 200)
    BY <1>4, <2>3
  <2>4. CASE ~config /\ Answer("unhandled", 500)
    BY <2>4, AnswerFits DEF Fits
  <2> QED BY Zenon, <1>6, <2>1, <2>2, <2>3, <2>4 DEF RouteRoot, Unhandled
<1>7. CASE Ping \/ Legend
  <2>1. ~OwsPath
    BY <1>7 DEF Ping, Legend, OwsPath, PathService
  <2>2. PICK family, status : Answer(family, status)
    BY <1>7 DEF Ping, Legend, Unhandled
  <2> QED BY <2>1, <2>2, AnswerFits DEF Fits
<1>8. CASE Select
  <2>1. stage = "service" /\ args = request.args /\ svc = Addressed
    BY <1>8, Selecting DEF Underway
  <2>2. CASE ~config
    <3>1. PICK family, status : Answer(family, status)
      BY Zenon, <1>8, <2>2, Selecting
    <3> QED BY <2>2, <3>1, AnswerFits DEF Fits
  <2>3. CASE config /\ svc \notin DOMAIN Supported
    <3>1. Answer("WMS", 400)
      BY Zenon, <1>8, <2>3, Selecting
    <3>2. Fits("WMS")
      BY <2>1, <2>3 DEF Fits, Families, WantsWCS2, Supported
    <3> QED BY <3>1, <3>2, AnswerFits
  <2>4. CASE config /\ svc \in DOMAIN Supported /\ Unwelcome
    <3>1. Answer(DefaultClass(svc), 400)
      BY Zenon, <1>8, <2>4, Selecting
    <3>2. DefaultClass(svc) \in Families /\ ~WantsWCS2
      <4>1. DefaultClass(svc) \in {v.class : v \in Range(Supported[svc])}
        <5>1. 1 \in DOMAIN Supported[svc]
          BY <2>4, SupportedVersions
        <5> QED BY <5>1 DEF DefaultClass, Range
      <4> QED BY <2>1, <2>4, <4>1 DEF Families, WantsWCS2, Unwelcome
    <3> QED BY <3>1, <3>2, AnswerFits DEF Fits
  <2>5. CASE config /\ svc \in DOMAIN Supported /\ ~Unwelcome
    <3>1. stage' = "handle"
      BY Zenon, <1>8, <2>5, Selecting
    <3> QED BY <1>2, <3>1
  <2> QED BY <2>2, <2>3, <2>4, <2>5
<1>9. CASE Handle
  <2>1. CASE Answer(Class, 400)
    BY <1>3, <1>9, <2>1 DEF Handle
  <2>2. CASE stage' \in {"capabilities", "check", "translate", "coverage"}
    BY <1>2, <2>2
  <2> QED BY <1>9, <2>1, <2>2 DEF Handle, Enter
<1>10. CASE Capabilities
  BY <1>3, <1>4, <1>10 DEF Capabilities, Failed
<1>11. CASE Translate
  <2>1. stage = "translate" /\ svc = "wmts"
    BY <1>11 DEF Translate, Underway
  <2>2. Class = "WMTS"
    <3>1. version \in DOMAIN Supported[svc]
      BY <2>1, VersionNamed, NegotiatedVersion DEF Underway
    <3> QED BY <2>1, <3>1 DEF Class, Supported
  <2>3. CASE Answer("WMTS", 400) \/ Answer(Class, 500)
    BY <1>3, <2>1, <2>2, <2>3
  <2>4. CASE stage' = "check"
    BY <1>2, <2>4
  <2> QED BY <1>11, <2>3, <2>4, TileOutcome DEF Translate, Failed, Error
<1>12. CASE CheckParameter
  <2> DEFINE outcome == Check(todo[1], op, args)
  <2>1. stage = "check" /\ todo # <<>> /\ todo \in Seq(StepNames)
    BY <1>12 DEF CheckParameter, Underway
  <2>2. todo[1] \in StepNames
    BY <2>1
  <2>3. outcome \in {OK, Error, Refuse}
    BY <2>2, CheckOutcome
  <2> HIDE DEF outcome
  <2>4. CASE outcome # OK
    <3>1. HandlerFails(outcome)
      BY <1>12, <2>4 DEF CheckParameter, outcome
    <3>2. outcome \in [class : {"WMS", "error"}, status : Nat]
      BY <2>3, <2>4 DEF Error, Refuse, WMSError
    <3> QED BY <2>1, <3>1, <3>2, HandlerFits
  <2>5. CASE outcome = OK
    BY <1>2, <1>12, <2>1, <2>5 DEF CheckParameter, outcome
  <2> QED BY <2>4, <2>5
<1>13. CASE Serve
  <2>1. stage = "check" /\ \A e \in {Error, Refuse, WMSError(404)} :
           e \in [class : {"WMS", "error"}, status : Nat]
    BY <1>13 DEF Serve, Error, Refuse, WMSError
  <2>2. \/ HandlerFails(Refuse) \/ HandlerFails(Error) \/ HandlerFails(WMSError(404))
        \/ \E family : Answer(family, 200)
    BY <1>13 DEF Serve
  <2> QED BY <1>4, <2>1, <2>2, HandlerFits
<1>14. CASE Coverage
  BY <1>3, <1>4, <1>14 DEF Coverage, Failed, Error
<1>15. CASE Done
  BY <1>1, <1>15 DEF Done
<1> QED BY <1>1, <1>5, <1>6, <1>7, <1>8, <1>9, <1>10, <1>11, <1>12, <1>13, <1>14, <1>15 DEF Next

\* However a request fails, its error is reported as an exception of the service
\* the client addressed, and to a client of WCS 2 as one of WCS 2 (ogc_svc_impl,
\* wmts.py): for any versions, layers and tile matrix sets.
THEOREM FamilyIsKept == Spec => []FamilyKept
<1>1. Init => FamilyKept
  BY DEF Init, FamilyKept
<1> QED BY <1>1, UnderwayAlways, FamilyNext, PTL DEF Spec

-----------------------------------------------------------------------------
(* The area that is loaded *)

\* A box that lies in one turn of the Pacific projection keeps its width in it,
\* and its west comes back as it was, up to whole turns.
LEMMA PacificKeeps ==
  ASSUME NEW x \in Int, NEW y \in Int, (x + 30) \div 360 = (y + 30) \div 360
  PROVE  /\ ToPacific(y) - ToPacific(x) = y - x
         /\ (FromPacific(ToPacific(x)) - x) % 360 = 0
<1>1. ToPacific(x) = ((x + 30) % 360) - 180 /\ ToPacific(y) = ((y + 30) % 360) - 180
  BY DEF ToPacific
<1>2. /\ (x + 30) % 360 = (x + 30) - 360 * ((x + 30) \div 360)
      /\ (y + 30) % 360 = (y + 30) - 360 * ((y + 30) \div 360)
  OBVIOUS
<1>3. FromPacific(ToPacific(x)) - x = -360 * ((x + 30) \div 360)
  BY <1>1, <1>2 DEF FromPacific
<1>4. \A k \in Int : (-360 * k) % 360 = 0
  OBVIOUS
<1> QED BY <1>1, <1>2, <1>3, <1>4

\* A box of whole degrees.
Box == [minx : Int, miny : Int, maxx : Int, maxy : Int]

\* The corners of a request that gives four numbers.
LEMMA CornersOfFour ==
  ASSUME NEW given, NEW crs, given["bbox"] \in [1 .. 4 -> Int]
  PROVE  Corners(given, crs) \in Box
BY DEF Corners, Box

\* The corners of a tile are those of the area asked for.
LEMMA CornersOfTile ==
  ASSUME svc = "wmts", CheckTile(request.args) = "ok", args = TileArgs(request.args)
  PROVE  Corners(args, CRSOf(args)) = AskedArea /\ AskedArea \in Box
<1> DEFINE sent == request.args
           tms == TileSet(sent)
           scale == sent["tilematrix"].val
           row == sent["tilerow"].val
           col == sent["tilecol"].val
           span == tms.spans[scale + 1]
<1>1. /\ TileSetArg(sent) # {}
      /\ TileNumber(sent, "tilematrix", 0 .. Len(tms.spans) - 1) = "ok"
      /\ TileNumber(sent, "tilerow", Int) = "ok" /\ TileNumber(sent, "tilecol", Int) = "ok"
  BY TileOutcome
<1>2. row \in Int /\ col \in Int /\ scale \in 0 .. Len(tms.spans) - 1
  BY <1>1 DEF TileNumber
<1>3. tms.origin \in [1 .. 2 -> Int] /\ tms.spans \in Seq(Int)
  <2>1. TileSetArg(sent) \subseteq DOMAIN TileSets
    BY DEF TileSetArg, TileSetNamed
  <2>2. PICK s \in DOMAIN TileSets : tms = TileSets[s]
    BY <1>1, <2>1 DEF TileSet
  <2> QED BY <2>2, TileSetsAssumption
<1>4. span \in Int
  <2> HIDE DEF scale, tms
  <2> QED BY <1>2, <1>3 DEF span
<1>5. CRSOf(args) = tms.crs /\ args["bbox"] = TileBox(tms, scale, row, col)
  BY DEF CRSOf, CRSArg, TileArgs
<1>6. AskedArea = [minx |-> tms.origin[1] + span * col, maxx |-> tms.origin[1] + span * col + span,
                   miny |-> tms.origin[2] - span * row - span, maxy |-> tms.origin[2] - span * row]
  BY DEF AskedArea
<1>7. /\ tms.origin[1] + col * span = tms.origin[1] + span * col
      /\ tms.origin[2] - row * span = tms.origin[2] - span * row
      /\ tms.origin[1] + span * col \in Int /\ tms.origin[2] - span * row \in Int
  <2> HIDE DEF span, tms, row, col
  <2> QED BY <1>2, <1>3, <1>4
<1>8. Corners(args, tms.crs) =
          [minx |-> tms.origin[1] + col * span, maxx |-> tms.origin[1] + col * span + span,
           miny |-> tms.origin[2] - row * span - span, maxy |-> tms.origin[2] - row * span]
  <2>1. CASE CRSs[tms.crs].verticalFirst
    <3>1. args["bbox"] = <<tms.origin[2] - row * span - span, tms.origin[1] + col * span,
                           tms.origin[2] - row * span, tms.origin[1] + col * span + span>>
      BY <1>5, <2>1 DEF TileBox
    <3> HIDE DEF span, tms, row, col
    <3> QED BY <2>1, <3>1 DEF Corners
  <2>2. CASE ~CRSs[tms.crs].verticalFirst
    <3>1. args["bbox"] = <<tms.origin[1] + col * span, tms.origin[2] - row * span - span,
                           tms.origin[1] + col * span + span, tms.origin[2] - row * span>>
      BY <1>5, <2>2 DEF TileBox
    <3> HIDE DEF span, tms, row, col
    <3> QED BY <2>2, <3>1 DEF Corners
  <2> QED BY <2>1, <2>2
<1> HIDE DEF span, tms, row, col
<1> QED BY <1>4, <1>5, <1>6, <1>7, <1>8 DEF Box

\* Maps and feature information check their layer, their box and their times.
LEMMA CommonChecks ==
  \A o \in {"GETMAP", "GETFEATUREINFO"} : {"layer", "bbox", "times"} \subseteq Range(StepsOf(o))
<1>1. /\ CommonSteps \in Seq(StepNames) /\ Len(CommonSteps) = 6
      /\ CommonSteps[3] = "layer" /\ CommonSteps[4] = "bbox" /\ CommonSteps[6] = "times"
  BY DEF CommonSteps, StepNames
<1>2. \A t \in Seq(StepNames) : {"layer", "bbox", "times"} \subseteq Range(CommonSteps \o t)
  <2> DEFINE Names == StepNames
  <2> HIDE DEF Names
  <2> SUFFICES ASSUME NEW t \in Seq(Names)
               PROVE  {"layer", "bbox", "times"} \subseteq Range(CommonSteps \o t)
    BY DEF Names
  <2>1. /\ CommonSteps \o t \in Seq(Names) /\ Len(CommonSteps \o t) = 6 + Len(t)
        /\ \A i \in {3, 4, 6} : (CommonSteps \o t)[i] = CommonSteps[i]
    <3>1. CommonSteps \in Seq(Names) /\ Len(CommonSteps) = 6
      BY <1>1 DEF Names
    <3>2. Len(t) \in Nat
      BY LenProperties
    <3>3. /\ CommonSteps \o t \in Seq(Names)
          /\ Len(CommonSteps \o t) = Len(CommonSteps) + Len(t)
          /\ \A i \in 1 .. Len(CommonSteps) + Len(t) :
                 (CommonSteps \o t)[i] = IF i <= Len(CommonSteps) THEN CommonSteps[i]
                                         ELSE t[i - Len(CommonSteps)]
      BY <3>1, ConcatProperties
    <3> HIDE DEF CommonSteps
    <3>4. \A i \in {3, 4, 6} : i \in 1 .. Len(CommonSteps) + Len(t) /\ i <= Len(CommonSteps)
      BY <3>1, <3>2
    <3> QED BY <3>1, <3>3, <3>4
  <2>2. \A i \in {3, 4, 6} : i \in DOMAIN (CommonSteps \o t)
    BY <2>1, LenProperties
  <2> HIDE DEF CommonSteps
  <2> QED BY <1>1, <2>1, <2>2 DEF Range
<1>3. <<"format", "style", "size">> \in Seq(StepNames)
      /\ <<"info_format", "point", "style">> \in Seq(StepNames)
  BY DEF StepNames
<1>4. {"layer", "bbox", "times"} \subseteq Range(StepsOf("GETMAP"))
  BY <1>2, <1>3 DEF StepsOf
<1>5. {"layer", "bbox", "times"} \subseteq Range(StepsOf("GETFEATUREINFO"))
  BY <1>2, <1>3 DEF StepsOf
<1> QED BY <1>4, <1>5

\* A request that passed its checks, for a map or feature information, has an
\* area; its corners are those of the area it asks for.
LEMMA AreaIsAsked ==
  ASSUME Underway, Parsed, op # "GETLEGENDGRAPHIC"
  PROVE  Corners(args, CRSOf(args)) = AskedArea /\ AskedArea \in Box
<1>1. /\ stage = "check" /\ todo = <<>> /\ request \in Requests
      /\ op \in {"GETMAP", "GETFEATUREINFO"} /\ CheckedArgs /\ ChecksPassed
  BY DEF Parsed, Underway, MapOperations
<1>2. CASE svc = "wmts"
  BY <1>1, <1>2, CornersOfTile DEF CheckedArgs
<1>3. CASE svc = "wms"
  <2>1. args = request.args
    BY <1>1, <1>3 DEF CheckedArgs
  <2>2. "bbox" \in Range(StepsOf(op)) /\ "bbox" \notin Range(todo)
    BY <1>1, CommonChecks DEF Range
  <2>3. CheckBox(args, CRSOf(args)) = OK
    BY <1>1, <2>2 DEF ChecksPassed, Check
  <2>4. Has(args, "bbox") /\ args["bbox"] # <<>>
    BY <2>3 DEF CheckBox, OK, Error, Get
  <2>5. args["bbox"] \in [1 .. 4 -> Int]
    BY Zenon, <1>1, <2>1, <2>4, RequestsAssumption
  <2>6. AskedArea = Corners(args, CRSOf(args))
    BY <1>3, <2>1 DEF AskedArea
  <2> QED BY <2>5, <2>6, CornersOfFour
<1> QED BY <1>1, <1>2, <1>3 DEF CheckedArgs

\* What is known of a request makes the area it loads the one it asks for.
LEMMA UnderwayCovers == ASSUME Underway PROVE FootprintKept
<1> SUFFICES ASSUME Parsed, op # "GETLEGENDGRAPHIC", ~CrossesAgain PROVE FootprintKept
  BY DEF FootprintKept
<1>1. Corners(args, CRSOf(args)) = AskedArea /\ AskedArea \in Box
  BY AreaIsAsked
<1> DEFINE box == Geobox(args, CRSOf(args))
           west == IF box.pacific THEN FromPacific(box.west) ELSE box.west
           near == CRSs[CRSOf(args)].epsg3857 /\ NearAntimeridian(AskedArea)
<1>2. AskedArea.minx \in Int /\ AskedArea.maxx \in Int
  BY <1>1 DEF Box
<1>3. /\ box.pacific = near
      /\ box.south = AskedArea.miny /\ box.north = AskedArea.maxy
      /\ near => box.west = ToPacific(AskedArea.minx) /\ box.east = ToPacific(AskedArea.maxx)
      /\ ~near => box.west = AskedArea.minx /\ box.east = AskedArea.maxx
  BY <1>1 DEF Geobox
<1> HIDE DEF box
<1>4. CASE near
  <2>1. (AskedArea.minx + 30) \div 360 = (AskedArea.maxx + 30) \div 360
    <3>1. AskedArea.maxx < -117 \/ AskedArea.minx > 117
      BY <1>4 DEF NearAntimeridian, FarFromPrime
    <3> QED BY <1>2, <3>1 DEF CrossesAgain
  <2>2. /\ ToPacific(AskedArea.maxx) - ToPacific(AskedArea.minx) = AskedArea.maxx - AskedArea.minx
        /\ (FromPacific(ToPacific(AskedArea.minx)) - AskedArea.minx) % 360 = 0
    BY <1>2, <2>1, PacificKeeps
  <2> QED BY <1>3, <1>4, <2>2 DEF FootprintKept, box
<1>5. CASE ~near
  <2>1. (AskedArea.minx - AskedArea.minx) % 360 = 0
    BY <1>2
  <2> QED BY <1>3, <1>5, <2>1 DEF FootprintKept, box
<1> QED BY <1>4, <1>5

\* The grid that is loaded covers the area the client asked for, through the tile
\* arithmetic, the axis order of the CRS and the projection near the anti-meridian
\* (tile_matrix_sets.py, wmts.py, wms_utils.py): for any boxes, tiles and tile
\* matrix sets in whole degrees.
THEOREM FootprintIsKept == Spec => []FootprintKept
BY UnderwayAlways, UnderwayCovers, PTL

-----------------------------------------------------------------------------
(* What a date means *)

\* Among numbers there is a least one.
LEMMA LeastOf ==
  ASSUME NEW s \in SUBSET Nat, s # {}
  PROVE  Min(s) \in s /\ \A k \in s : Min(s) <= k
<1>1. PICK m \in s : \A k \in s : <<k, m>> \notin OpToRel(<, Nat)
  BY NatLessThanWellFounded, WFMin
<1>2. \A k \in s : ~(k < m)
  BY <1>1 DEF OpToRel
<1>3. \A k \in s : m <= k
  BY <1>2
<1> QED BY <1>3 DEF Min

\* Quotients are the counts of whole divisors.
LEMMA Quotients ==
  ASSUME NEW n \in Int, NEW d \in Nat \ {0}
  PROVE  /\ n \div d \in Int
         /\ (n \div d) * d <= n /\ n < (n \div d) * d + d
         /\ \A q \in Int : q * d <= n /\ n < q * d + d => n \div d = q
<1>1. n \div d \in Int /\ n % d \in 0 .. d - 1 /\ n = d * (n \div d) + (n % d)
  OBVIOUS
<1>2. (n \div d) * d <= n /\ n < (n \div d) * d + d
  BY <1>1
<1>3. ASSUME NEW q \in Int, q * d <= n, n < q * d + d PROVE n \div d = q
  <2> DEFINE k == n \div d
  <2>1. k \in Int /\ k * d < q * d + d /\ q * d < k * d + d
    BY <1>1, <1>2, <1>3
  <2> HIDE DEF k
  <2>2. (k - q) * d < d /\ (q - k) * d < d
    BY <2>1
  <2>3. \A x \in Int : x >= 1 => x * d >= d
    OBVIOUS
  <2>4. ~(k - q >= 1) /\ ~(q - k >= 1)
    BY <2>1, <2>2, <2>3
  <2> QED BY <2>1, <2>4 DEF k
<1> QED BY <1>1, <1>2, <1>3

\* Every place in the order of a finite set has its number, in that order.
LEMMA AscendingLists ==
  ASSUME NEW S \in SUBSET Int, IsFiniteSet(S)
  PROVE  /\ Cardinality(S) \in Nat
         /\ \A i \in 1 .. Cardinality(S) : Ascending(S)[i] \in S
         /\ \A i, j \in 1 .. Cardinality(S) : i <= j => Ascending(S)[i] <= Ascending(S)[j]
<1> DEFINE UpTo(n) == {m \in S : m <= n}
           rank == [n \in S |-> Cardinality(UpTo(n))]
           size == Cardinality(S)
<1>1. size \in Nat
  BY FS_CardinalityType
<1>2. ASSUME NEW n \in S PROVE IsFiniteSet(UpTo(n)) /\ Cardinality(UpTo(n)) \in 1 .. size
  <2>1. UpTo(n) \in SUBSET S /\ n \in UpTo(n)
    OBVIOUS
  <2> HIDE DEF UpTo
  <2>2. IsFiniteSet(UpTo(n)) /\ Cardinality(UpTo(n)) <= size
    BY <2>1, FS_Subset
  <2>3. Cardinality(UpTo(n)) \in Nat /\ Cardinality(UpTo(n)) # 0
    BY <2>1, <2>2, FS_CardinalityType, FS_EmptySet
  <2> QED BY <1>1, <2>2, <2>3
<1>3. ASSUME NEW m \in S, NEW n \in S, m < n PROVE rank[m] < rank[n]
  <2>0. \A x, y, z \in Int : x <= y /\ y < z => x <= z /\ ~(z <= y)
    OBVIOUS
  <2>1. UpTo(m) \in SUBSET UpTo(n) /\ n \in UpTo(n) /\ n \notin UpTo(m)
    <3>1. \A x \in S : x <= m => x <= n
      BY <1>3, <2>0
    <3>2. n <= n /\ ~(n <= m)
      BY <1>3, <2>0
    <3> QED BY <3>1, <3>2
  <2>2. UpTo(m) # UpTo(n)
    BY <2>1
  <2> HIDE DEF UpTo
  <2>3. Cardinality(UpTo(m)) <= Cardinality(UpTo(n)) /\ Cardinality(UpTo(m)) # Cardinality(UpTo(n))
    BY <1>2, <2>1, <2>2, FS_Subset
  <2>4. Cardinality(UpTo(m)) \in Int /\ Cardinality(UpTo(n)) \in Int
    BY <1>1, <1>2
  <2> QED BY <2>3, <2>4
<1>4. rank \in Injection(S, 1 .. size)
  <2>1. rank \in [S -> 1 .. size]
    <3> HIDE DEF UpTo, size
    <3> QED BY <1>2
  <2>2. \A m, n \in S : m < n \/ n < m \/ m = n
    OBVIOUS
  <2>3. \A m \in S : rank[m] \in Int
    BY <2>1
  <2> HIDE DEF rank
  <2>4. \A m, n \in S : rank[m] = rank[n] => m = n
    BY <1>3, <2>2, <2>3
  <2> QED BY <2>1, <2>4 DEF Injection, IsInjective
<1>5. rank \in Surjection(S, 1 .. size)
  <2>1. IsFiniteSet(1 .. size) /\ Cardinality(1 .. size) = size
    BY <1>1, FS_Interval
  <2> HIDE DEF rank
  <2> QED BY <1>4, <2>1, FS_Injection
<1>6. ASSUME NEW i \in 1 .. size
      PROVE  Ascending(S)[i] \in S /\ rank[Ascending(S)[i]] = i
  <2>1. PICK n \in S : rank[n] = i
    <3> HIDE DEF rank
    <3> QED BY <1>5 DEF Surjection
  <2>2. Cardinality({m \in S : m <= n}) = i
    BY <2>1
  <2>3. Ascending(S)[i] = CHOOSE k \in S : Cardinality({m \in S : m <= k}) = i
    BY DEF Ascending
  <2>4. Ascending(S)[i] \in S /\ Cardinality({m \in S : m <= Ascending(S)[i]}) = i
    BY <2>2, <2>3
  <2> QED BY <2>4
<1>7. ASSUME NEW i \in 1 .. size, NEW j \in 1 .. size, i <= j
      PROVE  Ascending(S)[i] <= Ascending(S)[j]
  <2> DEFINE m == Ascending(S)[i]
             n == Ascending(S)[j]
  <2>1. m \in S /\ n \in S /\ rank[m] = i /\ rank[n] = j
    BY <1>6
  <2> HIDE DEF m, n, rank
  <2>2. ~(n < m)
    BY <1>3, <1>7, <2>1
  <2>3. m \in Int /\ n \in Int
    BY <2>1
  <2>4. m <= n
    BY <2>2, <2>3
  <2> QED BY <2>4 DEF m, n
<1> HIDE DEF rank, size
<1> QED BY <1>1, <1>6, <1>7 DEF size

\* Times in the same second.
SameSecond(t, u) == Second(t) = Second(u)

\* A time lies before the second of another, in it or after it.
LEMMA SecondsOrdered ==
  ASSUME NEW t \in Int, NEW u \in Int
  PROVE  /\ t >= Second(u) * SecondLen /\ t < Second(u) * SecondLen + SecondLen <=> SameSecond(u, t)
         /\ t < Second(u) * SecondLen => Second(t) < Second(u)
         /\ t >= Second(u) * SecondLen + SecondLen => Second(u) < Second(t)
<1> DEFINE a == Second(t)
           b == Second(u)
           S == SecondLen
<1>1. S \in Nat \ {0}
  BY UnitsAssumption
<1>2. a \in Int /\ b \in Int /\ a * S <= t /\ t < a * S + S
  BY <1>1, Quotients DEF Second
<1>3. t >= b * S /\ t < b * S + S => a = b
  BY <1>1, <1>2, Quotients DEF Second
<1> HIDE DEF a, b, S
<1>4. t < b * S => a < b
  <2>1. SUFFICES ASSUME a >= b PROVE t >= b * S
    BY <1>1, <1>2
  <2>2. \A x \in Int : x >= 0 => x * S >= 0
    BY <1>1
  <2>3. (a - b) * S >= 0
    BY <1>2, <2>1, <2>2
  <2>4. (a - b) * S = a * S - b * S
    BY <1>1, <1>2
  <2> QED BY <1>1, <1>2, <2>3, <2>4
<1>5. t >= b * S + S => b < a
  <2>1. SUFFICES ASSUME a <= b PROVE t < b * S + S
    BY <1>1, <1>2
  <2>2. \A x \in Int : x >= 0 => x * S >= 0
    BY <1>1
  <2>3. (b - a) * S >= 0
    BY <1>2, <2>1, <2>2
  <2>4. (b - a) * S = b * S - a * S
    BY <1>1, <1>2
  <2> QED BY <1>1, <1>2, <2>3, <2>4
<1>6. b = a => t >= b * S /\ t < b * S + S
  BY <1>2
<1>7. (t >= b * S /\ t < b * S + S) <=> b = a
  BY <1>3, <1>6
<1> QED BY <1>4, <1>5, <1>7 DEF a, b, S, SameSecond

\* Later times lie in later seconds.
LEMMA SecondsMonotone ==
  \A t, u \in Int : t <= u => ~(Second(u) < Second(t))
<1> SUFFICES ASSUME NEW t \in Int, NEW u \in Int, t <= u PROVE ~(Second(u) < Second(t))
  OBVIOUS
<1> DEFINE a == Second(t)
           b == Second(u)
           S == SecondLen
<1>1. S \in Nat \ {0}
  BY UnitsAssumption
<1>2. a \in Int /\ b \in Int /\ a * S <= t /\ u < b * S + S
  BY <1>1, Quotients DEF Second
<1> HIDE DEF a, b, S
<1>3. \A x \in Int : x >= 1 => x * S >= S
  BY <1>1
<1>4. a * S < b * S + S
  BY <1>1, <1>2
<1>5. (a - b) * S = a * S - b * S
  BY <1>1, <1>2
<1>6. ~(a - b >= 1)
  BY <1>1, <1>2, <1>3, <1>4, <1>5
<1>7. ~(b < a)
  BY <1>2, <1>6
<1> QED BY <1>7 DEF a, b

\* The binary search finds a date only if there is one in the second it looks for.
LEMMA MatchingIsThere ==
  ASSUME NEW n \in Nat, NEW dates, Len(dates) = n, \A i \in 1 .. n : dates[i] \in Int,
         \A i, j \in 1 .. n : i <= j => dates[i] <= dates[j],
         NEW t \in Int, MatchingDate(t, dates)
  PROVE  \E i \in 1 .. n : SameSecond(dates[i], t)
<1> DEFINE D == 0 .. n
           middle(p) == p[1] + (p[2] - p[1]) \div 2
           from(p) == Second(dates[middle(p) + 1]) * SecondLen
           Value(f, p) == /\ p[1] < p[2]
                          /\ \/ t >= from(p) /\ t < from(p) + SecondLen
                             \/ t < from(p) /\ f[<<p[1], middle(p)>>]
                             \/ t >= from(p) + SecondLen /\ f[<<middle(p) + 1, p[2]>>]
           Defines(f) == f = [p \in D \X D |-> Value(f, p)]
           has == CHOOSE f : Defines(f)
           there == [p \in D \X D |-> \E i \in p[1] + 1 .. p[2] : SameSecond(dates[i], t)]
<1>1. MatchingDate(t, dates) <=> has[<<0, n>>]
  BY DEF MatchingDate
<1>2. ASSUME NEW l \in D, NEW h \in D, l < h
      PROVE  /\ middle(<<l, h>>) \in l .. h - 1 /\ <<l, middle(<<l, h>>)>> \in D \X D
             /\ <<middle(<<l, h>>) + 1, h>> \in D \X D
             /\ middle(<<l, h>>) + 1 \in 1 .. n
  <2>1. \A x, y \in Int : x < y => x + (y - x) \div 2 \in x .. y - 1
    OBVIOUS
  <2> QED BY <1>2, <2>1
<1>3. ASSUME NEW i \in 1 .. n
      PROVE  /\ t >= Second(dates[i]) * SecondLen /\ t < Second(dates[i]) * SecondLen + SecondLen
                    <=> SameSecond(dates[i], t)
             /\ t < Second(dates[i]) * SecondLen =>
                    \A j \in 1 .. n : SameSecond(dates[j], t) => j < i
             /\ t >= Second(dates[i]) * SecondLen + SecondLen =>
                    \A j \in 1 .. n : SameSecond(dates[j], t) => i < j
  <2>1. ASSUME NEW j \in 1 .. n, SameSecond(dates[j], t)
        PROVE  Second(t) < Second(dates[i]) => j < i
    <3>1. i <= j => ~(Second(dates[j]) < Second(dates[i]))
      BY SecondsMonotone
    <3> QED BY <2>1, <3>1 DEF SameSecond
  <2>2. ASSUME NEW j \in 1 .. n, SameSecond(dates[j], t)
        PROVE  Second(dates[i]) < Second(t) => i < j
    <3>1. j <= i => ~(Second(dates[i]) < Second(dates[j]))
      BY SecondsMonotone
    <3> QED BY <2>2, <3>1 DEF SameSecond
  <2>3. dates[i] \in Int
    OBVIOUS
  <2> QED BY <2>1, <2>2, <2>3, SecondsOrdered
<1>4. ASSUME NEW l \in D, NEW h \in D
      PROVE  there[<<l, h>>] <=> Value(there, <<l, h>>)
  <2> DEFINE W(a, b) == \E i \in a + 1 .. b : SameSecond(dates[i], t)
             m == middle(<<l, h>>)
             start == Second(dates[m + 1]) * SecondLen
  <2>1. \A a, b \in D : there[<<a, b>>] <=> W(a, b)
    OBVIOUS
  <2>2. CASE ~(l < h)
    <3>1. ~W(l, h)
      BY <2>2
    <3> QED BY <2>1, <2>2, <3>1
  <2>3. CASE l < h
    <3>1. m \in l .. h - 1 /\ l \in D /\ m \in D /\ m + 1 \in D /\ h \in D /\ m + 1 \in 1 .. n
      BY <1>2, <2>3
    <3>2. Value(there, <<l, h>>) <=>
             \/ t >= start /\ t < start + SecondLen
             \/ t < start /\ there[<<l, m>>]
             \/ t >= start + SecondLen /\ there[<<m + 1, h>>]
      BY <2>3
    <3>3. there[<<l, h>>] <=> W(l, h)
      BY <2>1
    <3>4. there[<<l, m>>] <=> W(l, m)
      BY <2>1, <3>1
    <3>5. there[<<m + 1, h>>] <=> W(m + 1, h)
      BY <2>1, <3>1
    <3>6. /\ t >= start /\ t < start + SecondLen <=> SameSecond(dates[m + 1], t)
          /\ t < start => \A j \in 1 .. n : SameSecond(dates[j], t) => j < m + 1
          /\ t >= start + SecondLen => \A j \in 1 .. n : SameSecond(dates[j], t) => m + 1 < j
      BY <1>3, <3>1
    <3>7. t < start \/ (t >= start /\ t < start + SecondLen) \/ t >= start + SecondLen
      <4>1. SecondLen \in Nat \ {0} /\ Second(dates[m + 1]) \in Int
        BY <3>1, UnitsAssumption, Quotients DEF Second
      <4>2. start \in Int
        BY <4>1
      <4> HIDE DEF start
      <4> QED BY <4>1, <4>2
    <3> HIDE DEF start, m, there
    <3>8. W(l, h) <=>
             \/ t >= start /\ t < start + SecondLen
             \/ t < start /\ W(l, m)
             \/ t >= start + SecondLen /\ W(m + 1, h)
      BY <3>1, <3>6, <3>7
    <3> HIDE DEF W, Value
    <3> QED BY <3>2, <3>3, <3>4, <3>5, <3>8
  <2> QED BY <2>2, <2>3
<1>5. Defines(there)
  <2> DEFINE W(p) == \E i \in p[1] + 1 .. p[2] : SameSecond(dates[i], t)
  <2>1. ASSUME NEW p \in D \X D PROVE W(p) <=> Value(there, p)
    <3>1. PICK l \in D, h \in D : p = <<l, h>>
      OBVIOUS
    <3>2. W(p) <=> there[<<l, h>>]
      BY <3>1
    <3> HIDE DEF there, Value, W
    <3>3. Value(there, p) <=> Value(there, <<l, h>>)
      BY Zenon, <3>1
    <3>4. there[<<l, h>>] <=> Value(there, <<l, h>>)
      BY <1>4
    <3> QED BY Zenon, <3>2, <3>3, <3>4
  <2>2. there = [p \in D \X D |-> W(p)]
    OBVIOUS
  <2>3. \A p \in D \X D : W(p) = Value(there, p)
    <3> HIDE DEF there
    <3> QED BY <2>1
  <2> HIDE DEF there, W, Value, D
  <2>4. there = [p \in D \X D |-> Value(there, p)]
    BY Zenon, <2>2, <2>3
  <2> QED BY <2>4
<1>6. \A l, h \in D : has[<<l, h>>] = Value(has, <<l, h>>)
  <2>1. Defines(has)
    BY <1>5
  <2> QED BY <2>1
<1> HIDE DEF has
<1> DEFINE Wrong == {k \in Nat : \E l, h \in D : k = h - l /\ has[<<l, h>>] /\ ~there[<<l, h>>]}
<1>7. Wrong = {}
  <2>1. SUFFICES ASSUME Wrong # {} PROVE FALSE
    OBVIOUS
  <2>2. PICK k \in Wrong : \A j \in Wrong : k <= j
    <3>1. Wrong \in SUBSET Nat
      OBVIOUS
    <3> HIDE DEF Wrong
    <3> QED BY <2>1, <3>1, LeastOf
  <2>3. PICK l \in D, h \in D : k = h - l /\ has[<<l, h>>] /\ ~there[<<l, h>>]
    OBVIOUS
  <2> DEFINE m == middle(<<l, h>>)
             start == Second(dates[m + 1]) * SecondLen
  <2>4. /\ l < h
        /\ \/ t >= start /\ t < start + SecondLen
           \/ t < start /\ has[<<l, m>>]
           \/ t >= start + SecondLen /\ has[<<m + 1, h>>]
    BY <1>6, <2>3
  <2>5. m \in l .. h - 1 /\ m \in D /\ m + 1 \in D
    BY <1>2, <2>4
  <2> HIDE DEF there
  <2>6. has[<<l, m>>] => there[<<l, m>>]
    <3>1. m - l \in Nat /\ ~(k <= m - l)
      BY <2>3, <2>5
    <3> QED BY <2>2, <2>5, <3>1
  <2>7. has[<<m + 1, h>>] => there[<<m + 1, h>>]
    <3>1. h - (m + 1) \in Nat /\ ~(k <= h - (m + 1))
      BY <2>3, <2>5
    <3> QED BY <2>2, <2>5, <3>1
  <2>8. Value(there, <<l, h>>)
    <3> HIDE DEF m
    <3> QED BY <2>4, <2>6, <2>7 DEF m
  <2> QED BY <1>4, <2>3, <2>8
<1>8. has[<<0, n>>] => there[<<0, n>>]
  <2>1. 0 \in D /\ n \in D /\ n - 0 \in Nat
    OBVIOUS
  <2>2. n - 0 \notin Wrong
    <3> HIDE DEF Wrong
    <3> QED BY <1>7
  <2> HIDE DEF there
  <2> QED BY <2>1, <2>2
<1> QED BY <1>1, <1>8

\* A dataset of a layer has a date, in days or in ticks.
LEMMA DateIsNumber ==
  ASSUME NEW name \in DOMAIN Layers, NEW ds \in Layers[name].datasets
  PROVE  /\ DateOf(Layers[name].resolution, ds) \in Int
         /\ Advertises(Layers[name], DateOf(Layers[name].resolution, ds), ds)
<1>1. /\ ds.begin \in Int /\ ds.end \in Int /\ ds.lon \in Int
      /\ Layers[name].resolution \in {"solar", "subday", "summary"}
  BY LayersAssumption DEF Resolutions
<1>2. DayLen \in Nat \ {0}
  BY UnitsAssumption DEF DayLen
<1>3. Middle(ds) + ds.lon \in Int
  BY <1>1 DEF Middle
<1>4. Day(Middle(ds) + ds.lon) \in Int /\ Day(ds.begin) \in Int
  BY <1>1, <1>2, <1>3, Quotients DEF Day
<1> QED BY <1>1, <1>4 DEF DateOf, SolarDay, Advertises

\* The dates of a layer are those of its datasets, in their order, and there are some.
LEMMA DatesOfLayer ==
  ASSUME NEW name \in DOMAIN Layers
  PROVE  LET times == TimesOf(Layers[name])
         IN  /\ Len(times) \in Nat \ {0} /\ DOMAIN times = 1 .. Len(times)
             /\ \A i \in 1 .. Len(times) :
                    /\ times[i] \in Int
                    /\ \E ds \in Layers[name].datasets : Advertises(Layers[name], times[i], ds)
             /\ \A i, j \in 1 .. Len(times) : i <= j => times[i] <= times[j]
<1> DEFINE layer == Layers[name]
           date == [ds \in layer.datasets |-> DateOf(layer.resolution, ds)]
           S == {DateOf(layer.resolution, ds) : ds \in layer.datasets}
           times == TimesOf(layer)
<1>1. layer.datasets # {} /\ IsFiniteSet(layer.datasets)
  BY LayersAssumption
<1>2. date \in Surjection(layer.datasets, S)
  BY DEF Surjection
<1>3. IsFiniteSet(S)
  <2> HIDE DEF date, S, layer
  <2> QED BY <1>1, <1>2, FS_Surjection
<1>4. S \in SUBSET Int /\ S # {}
  BY <1>1, DateIsNumber
<1>5. times = Ascending(S)
  BY DEF TimesOf, DatesOf
<1>6. /\ Cardinality(S) \in Nat
      /\ \A i \in 1 .. Cardinality(S) : Ascending(S)[i] \in S
      /\ \A i, j \in 1 .. Cardinality(S) : i <= j => Ascending(S)[i] <= Ascending(S)[j]
  <2> HIDE DEF S
  <2> QED BY <1>3, <1>4, AscendingLists
<1>7. Cardinality(S) # 0
  <2> HIDE DEF S
  <2> QED BY <1>3, <1>4, FS_EmptySet
<1>8. DOMAIN Ascending(S) = 1 .. Cardinality(S) /\ Len(Ascending(S)) = Cardinality(S)
  <2> HIDE DEF S
  <2> QED BY <1>6 DEF Ascending
<1>9. \A d \in S : d \in Int /\ \E ds \in layer.datasets : Advertises(layer, d, ds)
  BY DateIsNumber
<1> HIDE DEF S, layer, times
<1>10. \A i \in 1 .. Len(times) : times[i] \in S
  BY <1>5, <1>6, <1>8
<1>11. \A i, j \in 1 .. Len(times) : i <= j => times[i] <= times[j]
  BY <1>5, <1>6, <1>8
<1>12. Len(times) \in Nat \ {0} /\ DOMAIN times = 1 .. Len(times)
  BY <1>5, <1>6, <1>7, <1>8
<1>13. \A i \in 1 .. Len(times) :
          times[i] \in Int /\ \E ds \in layer.datasets : Advertises(layer, times[i], ds)
  BY <1>9, <1>10
<1> QED BY <1>11, <1>12, <1>13 DEF times, layer

\* An item of the TIME parameter.
ItemKnown(item) == /\ item.kind \in {"none", "time", "range", "junk"}
                   /\ item.kind = "time" => item.at \in Int

\* An item that is accepted is a time of the layer; one of its dates, unless the
\* layer has a regular time axis.
LEMMA AcceptedIsDate ==
  ASSUME NEW name \in DOMAIN Layers, NEW item, ItemKnown(item),
         ParseTimeItem(Layers[name], TimesOf(Layers[name]), item).kind = "time"
  PROVE  LET t == ParseTimeItem(Layers[name], TimesOf(Layers[name]), item).at
         IN  /\ t \in Int
             /\ Layers[name].axis.interval = 0 =>
                    \E ds \in Layers[name].datasets : Advertises(Layers[name], t, ds)
<1> DEFINE layer == Layers[name]
           times == TimesOf(layer)
           parsed == ParseTimeItem(layer, times, item)
           good(t) == t \in Int /\ (layer.axis.interval = 0 =>
                          \E ds \in layer.datasets : Advertises(layer, t, ds))
<1>1. /\ Len(times) \in Nat \ {0} /\ DOMAIN times = 1 .. Len(times)
      /\ \A i \in 1 .. Len(times) :
             times[i] \in Int /\ \E ds \in layer.datasets : Advertises(layer, times[i], ds)
      /\ \A i, j \in 1 .. Len(times) : i <= j => times[i] <= times[j]
  BY DatesOfLayer
<1>2. \A i \in DOMAIN times : good(times[i])
  BY <1>1
<1>3. Invalid.kind # "time" /\ Unexpected.kind # "time" /\ \A t : Accepted(t).at = t
  BY DEF Invalid, Unexpected, Accepted
<1>4. parsed.kind = "time"
  OBVIOUS
<1> SUFFICES good(parsed.at)
  OBVIOUS
<1>5. CASE item.kind = "range"
  <2> DEFINE ends == RangeEnds(item.from, item.to)
             matching == {i \in DOMAIN times : InRange(layer.resolution, ends, times[i])}
  <2>1. parsed = ParseRange(layer, times, item)
    BY <1>5 DEF ParseTimeItem
  <2>2. matching # {} /\ parsed = Accepted(times[Min(matching)])
    <3>1. \/ parsed = Invalid \/ parsed = Unexpected
          \/ matching # {} /\ parsed = Accepted(times[Min(matching)])
      <4>1. parsed = IF BothDurations(item) THEN Invalid
                     ELSE IF ends.naive /\ layer.resolution = "subday" THEN Unexpected
                     ELSE IF matching = {} THEN Invalid ELSE Accepted(times[Min(matching)])
        <5> HIDE DEF parsed, times, layer
        <5> QED BY Zenon, <2>1 DEF ParseRange
      <4> HIDE DEF parsed, matching, times, layer, ends
      <4> QED BY Zenon, <4>1
    <3> QED BY <1>3, <1>4, <3>1
  <2>3. matching \in SUBSET Nat /\ matching \subseteq DOMAIN times
    BY <1>1
  <2> HIDE DEF matching, times, good, parsed
  <2>4. Min(matching) \in DOMAIN times
    BY <2>2, <2>3, LeastOf
  <2> QED BY <1>2, <1>3, <2>2, <2>4
<1>6. CASE item.kind = "none"
  <2>1. parsed = Accepted(times[Len(times)])
    BY <1>6 DEF ParseTimeItem
  <2>2. Len(times) \in DOMAIN times
    BY <1>1
  <2> HIDE DEF times, good, parsed
  <2> QED BY <1>2, <1>3, <2>1, <2>2
<1>7. CASE item.kind = "junk"
  BY <1>3, <1>4, <1>7 DEF ParseTimeItem
<1>8. CASE item.kind = "time"
  <2> DEFINE t == IF layer.resolution = "subday" THEN item.at ELSE Day(item.at)
  <2>1. parsed = ParseTime(layer, times, item)
    BY <1>8 DEF ParseTimeItem
  <2>2. /\ parsed = Accepted(t)
        /\ layer.axis.interval = 0 => IF layer.resolution = "subday" THEN MatchingDate(t, times)
                                      ELSE Contains(times, t)
    <3> HIDE DEF layer, times
    <3>1. parsed \in {Invalid, Accepted(t)}
      BY <2>1 DEF ParseTime
    <3>2. parsed = Accepted(t)
      BY <1>3, <1>4, <3>1
    <3>3. Accepted(t) # Invalid
      BY DEF Accepted, Invalid
    <3>4. ASSUME layer.axis.interval = 0
          PROVE  IF layer.resolution = "subday" THEN MatchingDate(t, times) ELSE Contains(times, t)
      BY <2>1, <3>2, <3>3, <3>4 DEF ParseTime
    <3> QED BY <3>2, <3>4
  <2>3. t \in Int
    <3>1. item.at \in Int
      BY <1>8 DEF ItemKnown
    <3>2. Day(item.at) \in Int
      BY <3>1, UnitsAssumption, Quotients DEF Day, DayLen
    <3> QED BY <3>1, <3>2
  <2> HIDE DEF t
  <2>4. ASSUME layer.axis.interval = 0, layer.resolution = "subday"
        PROVE  \E ds \in layer.datasets : Advertises(layer, t, ds)
    <3>1. PICK i \in 1 .. Len(times) : SameSecond(times[i], t)
      <4>1. MatchingDate(t, times)
        BY <2>2, <2>4
      <4> HIDE DEF times, layer
      <4> QED BY <1>1, <2>3, <4>1, MatchingIsThere
    <3>2. PICK ds \in layer.datasets : Advertises(layer, times[i], ds)
      BY <1>1
    <3> QED BY <2>4, <3>1, <3>2 DEF Advertises, SameSecond
  <2>5. ASSUME layer.axis.interval = 0, layer.resolution # "subday"
        PROVE  \E ds \in layer.datasets : Advertises(layer, t, ds)
    <3>1. PICK i \in 1 .. Len(times) : times[i] = t
      BY <2>2, <2>5 DEF Contains
    <3> QED BY <1>1, <3>1
  <2>6. good(t)
    BY <2>3, <2>4, <2>5
  <2> HIDE DEF good, parsed
  <2> QED BY <1>3, <2>2, <2>6
<1> HIDE DEF good, parsed
<1> QED BY <1>5, <1>6, <1>7, <1>8 DEF ItemKnown

-----------------------------------------------------------------------------
(* What a search finds *)

\* A dataset that is clear of midnight where the request is, in a solar layer: the
\* search finds it for its own day and for no other.
LEMMA SolarSearch ==
  ASSUME NEW ds, ds.begin \in Int, ds.end \in Int, ds.lon \in Int, ds.begin <= ds.end,
         NEW date \in Int, NEW lon \in Int,
         ZoneOffset[lon] \in lon - HourLen .. lon + HourLen - SecondLen, ds.lon - lon \in -HourLen .. HourLen,
         Day(ds.begin + ds.lon - 2 * HourLen) = Day(ds.end + ds.lon + 2 * HourLen)
  PROVE  Matches("solar", ds, lon, date) <=> SolarDay(ds) = date
<1> DEFINE D == DayLen
           H == HourLen
           S == SecondLen
           Z == ZoneOffset[lon]
           q == Day(ds.begin + ds.lon - 2 * HourLen)
           early == ds.begin + ds.lon - 2 * HourLen
           late == ds.end + ds.lon + 2 * HourLen
           mid == Middle(ds) + ds.lon
<1>1. D \in Nat \ {0} /\ H \in Nat \ {0} /\ S \in Nat \ {0}
  BY UnitsAssumption DEF DayLen
<1>2. early \in Int /\ late \in Int /\ mid \in Int /\ early <= mid /\ mid <= late
  <2>1. \A b, e \in Int : b <= e => b + (e - b) \div 2 \in b .. e
    OBVIOUS
  <2>2. Middle(ds) \in ds.begin .. ds.end
    BY <2>1 DEF Middle
  <2> QED BY <1>1, <2>2
<1>3. q \in Int /\ q * D <= early /\ late < q * D + D
  BY <1>1, <1>2, Quotients DEF Day
<1>4. Day(mid) = q
  <2> HIDE DEF q, mid, early, late, D
  <2>1. q * D <= mid /\ mid < q * D + D
    BY <1>1, <1>2, <1>3
  <2>2. mid \div D = q
    BY <1>1, <1>2, <1>3, <2>1, Quotients
  <2> QED BY <2>2 DEF Day, D
<1>5. Matches("solar", ds, lon, date) <=>
         ds.begin < date * D + D - S - Z /\ ds.end >= date * D - Z
  BY DEF Matches, LocalSolarDateRange
<1>6. date * D \in Int /\ q * D \in Int
  BY <1>1, <1>3
<1>7. q = date => ds.begin < date * D + D - S - Z /\ ds.end >= date * D - Z
  <2> SUFFICES ASSUME q = date
               PROVE  ds.begin < q * D + D - S - Z /\ ds.end >= q * D - Z
    OBVIOUS
  <2> DEFINE qD == q * D
  <2>1. qD \in Int /\ qD <= early /\ late < qD + D
    BY <1>3, <1>6
  <2> HIDE DEF qD, D, S, H, q
  <2> QED BY <1>1, <2>1 DEF qD, H, S
<1>8. ds.begin < date * D + D - S - Z /\ ds.end >= date * D - Z => q = date
  <2> SUFFICES ASSUME ds.begin < date * D + D - S - Z, ds.end >= date * D - Z
               PROVE  q = date
    OBVIOUS
  <2>1. q * D < date * D + D /\ date * D < q * D + D
    <3> DEFINE qD == q * D
               tD == date * D
    <3>1. qD \in Int /\ tD \in Int /\ qD <= early /\ late < qD + D
      BY <1>3, <1>6
    <3> HIDE DEF qD, tD, D, q
    <3>2. ds.begin < tD + D - S - Z /\ ds.end >= tD - Z
      BY DEF tD
    <3>3. qD < tD + D /\ tD < qD + D
      BY <1>1, <3>1, <3>2
    <3> QED BY <3>3 DEF qD, tD
  <2>2. \A x \in Int : x >= 1 => x * D >= D
    BY <1>1
  <2>3. (q - date) * D = q * D - date * D /\ (date - q) * D = date * D - q * D
    BY <1>1, <1>3
  <2> HIDE DEF q, D
  <2>4. ~(q - date >= 1) /\ ~(date - q >= 1)
    BY <1>1, <1>3, <1>6, <2>1, <2>2, <2>3
  <2> QED BY <1>3, <2>4
<1> QED BY <1>4, <1>5, <1>7, <1>8 DEF SolarDay

\* In a layer of summary or sub-day products a search finds the datasets that
\* begin on the day, or in the second from the time on.
LEMMA BeginSearch ==
  ASSUME NEW ds, ds.begin \in Int, NEW t \in Int, NEW lon
  PROVE  /\ Matches("summary", ds, lon, t) <=> Day(ds.begin) = t
         /\ Second(ds.begin) = Second(t) /\ ds.begin >= t => Matches("subday", ds, lon, t)
         /\ Matches("subday", ds, lon, t) /\ t % SecondLen = 0 => Second(ds.begin) = Second(t)
<1> DEFINE b == ds.begin
           D == DayLen
           S == SecondLen
<1>1. D \in Nat \ {0} /\ S \in Nat \ {0}
  BY UnitsAssumption DEF DayLen
<1>2. /\ Matches("summary", ds, lon, t) <=> b >= t * D /\ b < t * D + D
      /\ Matches("subday", ds, lon, t) <=> b >= t /\ b < t + S
  BY DEF Matches
<1>3. b >= t * D /\ b < t * D + D <=> Day(b) = t
  <2> HIDE DEF b, D
  <2>1. b \in Int
    BY DEF b
  <2>2. b >= t * D /\ b < t * D + D <=> b \div D = t
    BY <1>1, <2>1, Quotients
  <2> QED BY <2>2 DEF Day, D
<1>4. Second(b) = Second(t) /\ b >= t => b < t + S
  <2> DEFINE s == Second(t)
             x == s * S
  <2>1. s \in Int /\ x <= t
    BY <1>1, Quotients DEF Second
  <2>2. Second(b) = s => b < x + S
    BY <1>1, Quotients DEF Second
  <2>3. x \in Int
    BY <1>1, <2>1
  <2> HIDE DEF x
  <2> QED BY <1>1, <2>1, <2>2, <2>3
<1>5. t % S = 0 /\ b >= t /\ b < t + S => Second(b) = Second(t)
  <2> SUFFICES ASSUME t % S = 0, b >= t, b < t + S PROVE Second(b) = Second(t)
    OBVIOUS
  <2> DEFINE s == t \div S
  <2>1. s \in Int /\ t = s * S
    BY <1>1
  <2>2. s * S <= b /\ b < s * S + S
    BY <2>1
  <2> HIDE DEF s
  <2>3. b \div S = s
    BY <1>1, <2>1, <2>2, Quotients
  <2> QED BY <2>3 DEF Second, s
<1> QED BY <1>2, <1>3, <1>4, <1>5

\* The items of a request that is checked are such items.
Items == Get(args, "time", <<NoItem>>)

LEMMA ItemsKnown ==
  ASSUME request \in Requests, CheckedArgs
  PROVE  \A i \in DOMAIN Items : ItemKnown(Items[i])
<1> DEFINE sent == Get(request.args, "time", <<NoItem>>)
<1>1. Items = sent
  <2>1. CASE args = request.args
    BY Zenon, <2>1 DEF Items
  <2>2. CASE args = TileArgs(request.args)
    <3>1. Has(args, "time") /\ args["time"] = sent
      BY <2>2 DEF TileArgs, Has
    <3> QED BY Zenon, <3>1 DEF Items, Get
  <2> QED BY <2>1, <2>2 DEF CheckedArgs
<1>2. CASE Has(request.args, "time")
  <2> DEFINE given == request.args["time"]
  <2>1. sent = given
    BY Zenon, <1>2 DEF Get
  <2>2. \A item \in Range(given) : ItemKnown(item)
    BY Zenon, <1>2, RequestsAssumption DEF ItemKnown
  <2> HIDE DEF given, sent
  <2>3. \A i \in DOMAIN given : given[i] \in Range(given)
    BY DEF Range
  <2> QED BY Zenon, <1>1, <2>1, <2>2, <2>3
<1>3. CASE ~Has(request.args, "time")
  <2>1. sent = <<NoItem>>
    BY Zenon, <1>3 DEF Get
  <2>2. \A i \in DOMAIN <<NoItem>> : ItemKnown(<<NoItem>>[i])
    BY DEF ItemKnown, NoItem
  <2> HIDE DEF sent
  <2> QED BY Zenon, <1>1, <2>1, <2>2
<1> QED BY <1>2, <1>3

\* The checks that a map or feature information passed leave it with a layer that
\* is configured and with times that the layer's parser accepted.
LEMMA ChecksAreMade ==
  ASSUME Underway, Parsed, op # "GETLEGENDGRAPHIC"
  PROVE  \E name \in DOMAIN Layers :
            /\ LayerOf(op, args) = Layers[name]
            /\ \A t \in Range(AcceptedTimes(args, Layers[name])) :
                  \E item : /\ ItemKnown(item)
                            /\ ParseTimeItem(Layers[name], TimesOf(Layers[name]), item).kind = "time"
                            /\ ParseTimeItem(Layers[name], TimesOf(Layers[name]), item).at = t
<1> DEFINE names == LayerNames(args, LayerArg(op))
           layer == LayerOf(op, args)
           parsed == ParsedTimes(args, layer)
<1>1. /\ todo = <<>> /\ request \in Requests
      /\ op \in {"GETMAP", "GETFEATUREINFO"} /\ CheckedArgs /\ ChecksPassed
  BY DEF Parsed, Underway, MapOperations
<1>2. /\ {"layer", "times"} \subseteq Range(StepsOf(op))
      /\ "layer" \notin Range(todo) /\ "times" \notin Range(todo)
  BY <1>1, CommonChecks DEF Range
<1>3. CheckLayer(args, LayerArg(op)) = OK /\ CheckTimes(args, layer) = OK
  BY <1>1, <1>2 DEF ChecksPassed, Check
<1>4. OK # Error /\ OK # Refuse
  BY DEF OK, Error, Refuse, WMSError
<1>5. names[1] \in DOMAIN Layers /\ layer = Layers[names[1]]
  <2>1. names[1] \in DOMAIN Layers
    BY Zenon, <1>3, <1>4 DEF CheckLayer
  <2> QED BY Zenon, <2>1 DEF LayerOf
<1>6. \A i \in DOMAIN parsed : parsed[i].kind = "time"
  <2> DEFINE bad == {i \in DOMAIN parsed : parsed[i].kind # "time"}
  <2>1. bad = {}
    BY Zenon, <1>3, <1>4 DEF CheckTimes
  <2> HIDE DEF parsed
  <2> QED BY <2>1
<1>7. parsed = [i \in DOMAIN Items |-> ParseTimeItem(layer, TimesOf(layer), Items[i])]
  BY Zenon DEF ParsedTimes, Items
<1>8. \A i \in DOMAIN Items : ItemKnown(Items[i])
  BY <1>1, ItemsKnown
<1>9. ASSUME NEW t \in Range(AcceptedTimes(args, layer))
      PROVE  \E item : /\ ItemKnown(item)
                       /\ ParseTimeItem(layer, TimesOf(layer), item).kind = "time"
                       /\ ParseTimeItem(layer, TimesOf(layer), item).at = t
  <2>1. AcceptedTimes(args, layer) = [i \in DOMAIN parsed |-> parsed[i].at]
    BY Zenon DEF AcceptedTimes
  <2> HIDE DEF parsed, layer
  <2>2. PICK i \in DOMAIN parsed : t = parsed[i].at
    BY <2>1 DEF Range
  <2>3. i \in DOMAIN Items /\ parsed[i] = ParseTimeItem(layer, TimesOf(layer), Items[i])
    BY <1>7, <2>2
  <2> QED BY Zenon, <1>6, <1>8, <2>2, <2>3
<1>10. PICK name \in DOMAIN Layers : LayerOf(op, args) = Layers[name]
  BY <1>5
<1>11. \A t \in Range(AcceptedTimes(args, Layers[name])) :
          \E item : /\ ItemKnown(item)
                    /\ ParseTimeItem(Layers[name], TimesOf(Layers[name]), item).kind = "time"
                    /\ ParseTimeItem(Layers[name], TimesOf(Layers[name]), item).at = t
  BY Zenon, <1>9, <1>10
<1> QED BY Zenon, <1>10, <1>11

\* A number of a request is one of those the client sent, or the size of a tile.
LEMMA NumbersKnown ==
  ASSUME CheckedArgs, request \in Requests
  PROVE  /\ Has(args, "width") => args["width"].val \in Nat
         /\ \A name \in {"i", "x"} : Has(args, name) => args[name].val \in Int
<1>1. CASE args = request.args
  BY Zenon, <1>1, RequestsAssumption
<1>2. CASE args = TileArgs(request.args)
  <2> DEFINE sent == request.args
  <2>1. Has(args, "width") => args["width"].val = 256
    BY <1>2 DEF TileArgs, Has, Num
  <2>2. Has(args, "i") => args["i"] = sent["i"] /\ Has(sent, "i")
    BY <1>2 DEF TileArgs, Has, Get
  <2>3. ~Has(args, "x")
    BY <1>2 DEF TileArgs, Has
  <2>4. Has(sent, "i") => sent["i"].val \in Int
    BY Zenon, RequestsAssumption
  <2> HIDE DEF sent
  <2> QED BY <2>1, <2>2, <2>3, <2>4
<1> QED BY <1>1, <1>2 DEF CheckedArgs

\* Feature information is only given once the map and the point are checked.
LEMMA InfoChecks == {"geobox", "point"} \subseteq Range(StepsOf("GETFEATUREINFO"))
<1> DEFINE info == <<"info_format", "point", "style">>
           steps == CommonSteps \o info
<1>1. /\ CommonSteps \in Seq(StepNames) /\ Len(CommonSteps) = 6 /\ CommonSteps[5] = "geobox"
      /\ info \in Seq(StepNames) /\ Len(info) = 3 /\ info[2] = "point"
  BY DEF CommonSteps, StepNames
<1>2. StepsOf("GETFEATUREINFO") = steps
  BY DEF StepsOf
<1> HIDE DEF info, CommonSteps
<1>3. /\ steps \in Seq(StepNames) /\ Len(steps) = Len(CommonSteps) + Len(info)
      /\ \A i \in 1 .. Len(CommonSteps) + Len(info) :
             steps[i] = IF i <= Len(CommonSteps) THEN CommonSteps[i]
                        ELSE info[i - Len(CommonSteps)]
  BY <1>1, ConcatProperties
<1> HIDE DEF steps
<1>4. steps[5] = "geobox" /\ steps[8] = "point" /\ {5, 8} \subseteq DOMAIN steps
  BY <1>1, <1>3, LenProperties
<1> QED BY <1>2, <1>4 DEF Range

\* The longitude of the search is a place: the map has columns, and feature
\* information was asked for in one of them.
LEMMA LongitudeIsPlace ==
  ASSUME Underway, Parsed, op # "GETLEGENDGRAPHIC" PROVE Longitude \in Int
<1> DEFINE column == args[PointNames(args)[1]].val
           width == args["width"].val
<1>1. /\ stage = "check" /\ todo = <<>> /\ request \in Requests
      /\ op \in {"GETMAP", "GETFEATUREINFO"} /\ CheckedArgs /\ ChecksPassed
  BY DEF Parsed, Underway, MapOperations
<1>2. AskedArea.minx \in Int /\ AskedArea.maxx \in Int
  BY AreaIsAsked DEF Box
<1>3. CASE op = "GETMAP"
  BY <1>2, <1>3 DEF Longitude
<1>4. CASE op = "GETFEATUREINFO"
  <2>1. /\ {"geobox", "point"} \subseteq Range(StepsOf(op))
        /\ "geobox" \notin Range(todo) /\ "point" \notin Range(todo)
    BY <1>1, <1>4, InfoChecks DEF Range
  <2>2. CheckGeobox(args, CRSOf(args)) = OK /\ CheckPoint(args) = OK
    BY <1>1, <2>1 DEF ChecksPassed, Check
  <2>3. width \in Nat \ {0}
    <3>1. Has(args, "width") /\ width # 0
      BY <2>2 DEF CheckGeobox, OK, Error, Refuse, WMSError, Get, NaN
    <3> QED BY <1>1, <3>1, NumbersKnown
  <2>4. column \in Int
    <3>1. Has(args, PointNames(args)[1])
      BY <2>2 DEF CheckPoint, OK, Error, Refuse, WMSError
    <3>2. PointNames(args)[1] \in {"i", "x"}
      BY DEF PointNames
    <3> QED BY <1>1, <3>1, <3>2, NumbersKnown
  <2>5. Longitude = AskedArea.minx + ((2 * (column % width) + 1) * (AskedArea.maxx - AskedArea.minx))
                                  \div (2 * width)
    BY <1>4 DEF Longitude
  <2> HIDE DEF column, width
  <2>6. column % width \in Int
    BY <2>3, <2>4
  <2> DEFINE part == (2 * (column % width) + 1) * (AskedArea.maxx - AskedArea.minx)
             whole == 2 * width
  <2>7. part \in Int /\ whole \in Nat \ {0}
    BY <1>2, <2>3, <2>6
  <2> HIDE DEF part, whole
  <2>8. part \div whole \in Int
    BY <2>7
  <2> QED BY <1>2, <2>5, <2>8 DEF part, whole
<1> QED BY <1>1, <1>3, <1>4

\* The time zone the search takes is one near the middle of what is searched.
LEMMA CentreZone ==
  ASSUME ZonesNear, Longitude \in Int
  PROVE  Centre \in Int /\ ZoneOffset[Centre] \in Centre - HourLen .. Centre + HourLen - SecondLen
<1> DEFINE degrees == ((Longitude + 180) % 360) - 180
<1>2. degrees \in -180 .. 179
  OBVIOUS
<1>3. Centre = SolarTime(degrees)
  BY DEF Centre
<1>4. SolarTime(degrees) \in Int
  <2>1. DayLen \in Int
    BY UnitsAssumption DEF DayLen
  <2> HIDE DEF degrees
  <2>2. degrees * DayLen \in Int
    BY <1>2, <2>1
  <2> QED BY <2>2 DEF SolarTime
<1> HIDE DEF degrees
<1> QED BY <1>2, <1>3, <1>4 DEF ZonesNear

\* What is known of a request makes its search find the data of its times.
LEMMA UnderwayFinds == ASSUME ZonesNear, Underway PROVE AcceptedTimesFindData
<1> SUFFICES ASSUME Parsed, op # "GETLEGENDGRAPHIC" PROVE AcceptedTimesFindData
  BY DEF AcceptedTimesFindData
<1>1. Centre \in Int /\ ZoneOffset[Centre] \in Centre - HourLen .. Centre + HourLen - SecondLen
  BY LongitudeIsPlace, CentreZone
<1>2. PICK name \in DOMAIN Layers :
         /\ LayerOf(op, args) = Layers[name]
         /\ \A t \in Range(AcceptedTimes(args, Layers[name])) :
               \E item : /\ ItemKnown(item)
                         /\ ParseTimeItem(Layers[name], TimesOf(Layers[name]), item).kind = "time"
                         /\ ParseTimeItem(Layers[name], TimesOf(Layers[name]), item).at = t
  BY ChecksAreMade
<1> DEFINE layer == Layers[name]
<1>3. layer.resolution \in {"solar", "subday", "summary"}
  BY LayersAssumption DEF Resolutions
<1>4. ASSUME NEW t \in Range(AcceptedTimes(args, layer))
      PROVE  t \in Int /\ (layer.axis.interval = 0 =>
                               \E ds \in layer.datasets : Advertises(layer, t, ds))
  <2>1. PICK item : /\ ItemKnown(item)
                    /\ ParseTimeItem(layer, TimesOf(layer), item).kind = "time"
                    /\ ParseTimeItem(layer, TimesOf(layer), item).at = t
    BY <1>2, <1>4
  <2> QED BY <2>1, AcceptedIsDate
<1>5. ASSUME NEW t \in Int, NEW ds \in layer.datasets,
             layer.resolution = "solar" => Near(ds) /\ Clear(ds)
      PROVE  /\ Advertises(layer, t, ds) /\ (layer.resolution = "subday" => ds.begin >= t) =>
                    Matches(layer.resolution, ds, Centre, t)
             /\ Matches(layer.resolution, ds, Centre, t) /\ (layer.resolution = "subday" => t % SecondLen = 0) =>
                    Advertises(layer, t, ds)
  <2>1. ds.begin \in Int /\ ds.end \in Int /\ ds.lon \in Int /\ ds.begin <= ds.end
    BY LayersAssumption
  <2>2. CASE layer.resolution = "solar"
    <3>1. /\ ds.lon - Centre \in -HourLen .. HourLen
          /\ Day(ds.begin + ds.lon - 2 * HourLen) = Day(ds.end + ds.lon + 2 * HourLen)
      BY <1>5, <2>2 DEF Near, Clear, Margin
    <3>2. Matches("solar", ds, Centre, t) <=> SolarDay(ds) = t
      BY <1>1, <2>1, <3>1, SolarSearch
    <3>3. Advertises(layer, t, ds) <=> SolarDay(ds) = t
      BY <2>2 DEF Advertises, DateOf
    <3> QED BY <2>2, <3>2, <3>3
  <2>3. CASE layer.resolution = "summary"
    <3>1. Matches("summary", ds, Centre, t) <=> Day(ds.begin) = t
      BY <1>5, <2>1, BeginSearch
    <3>2. Advertises(layer, t, ds) <=> Day(ds.begin) = t
      BY <2>3 DEF Advertises, DateOf
    <3> QED BY <2>3, <3>1, <3>2
  <2>4. CASE layer.resolution = "subday"
    <3>1. Advertises(layer, t, ds) <=> Second(ds.begin) = Second(t)
      BY <2>4 DEF Advertises
    <3> QED BY <1>5, <2>1, <2>4, <3>1, BeginSearch
  <2> QED BY <1>3, <2>2, <2>3, <2>4
<1> DEFINE found(t) == Found(layer.resolution, layer.datasets, Centre, t)
<1>6. \A t, ds : ds \in found(t) <=> ds \in layer.datasets /\ Matches(layer.resolution, ds, Centre, t)
  BY DEF Found
<1>7. ASSUME NEW t \in Range(AcceptedTimes(args, layer))
      PROVE  /\ layer.axis.interval = 0 => \E ds \in layer.datasets : Advertises(layer, t, ds)
             /\ \A ds \in layer.datasets :
                    /\ Advertises(layer, t, ds)
                    /\ layer.resolution = "solar" => Near(ds) /\ Clear(ds)
                    /\ layer.resolution = "subday" => ds.begin >= t
                    => ds \in found(t)
             /\ \A ds \in found(t) :
                    /\ layer.resolution = "solar" => Near(ds) /\ Clear(ds)
                    /\ layer.resolution = "subday" => t % SecondLen = 0
                    => Advertises(layer, t, ds)
  <2>1. t \in Int
    BY <1>4
  <2> HIDE DEF layer, found
  <2> QED BY Zenon, <1>4, <1>5, <1>6, <2>1
<1>8. layer = LayerOf(op, args)
  BY <1>2
<1> HIDE DEF layer
<1> QED BY Zenon, <1>7, <1>8 DEF AcceptedTimesFindData

\* The times that are accepted of a request are dates of its layer (unless it has a
\* regular time axis), the search finds the datasets that made them dates, and none
\* of another date (product_ranges.py, wms_utils.py, time_utils.py, mv_index.py):
\* for any datasets, any requests and any time zones within an hour of the sun.
THEOREM AcceptedTimesAlwaysFindData ==
  ASSUME ZonesNear PROVE Spec => []AcceptedTimesFindData
BY UnderwayAlways, UnderwayFinds, PTL
=============================================================================
