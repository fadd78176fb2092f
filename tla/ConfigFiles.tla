----------------------------- MODULE ConfigFiles ------------------------------
(* Reading the configuration: read_config opens what DATACUBE_OWS_CFG names,   *)
(* and cfg_expand replaces every include by the JSON file or python object it  *)
(* names, depth first.  The recursion is a stack: a frame holds the items still *)
(* to expand, the directory JSON includes are looked up in and the inclusions  *)
(* the items lie under.  A configuration is the sequence of the items that     *)
(* matter to the other modules (its layer sections) and of its includes.       *)
EXTENDS Integers, Sequences, FiniteSets, SequencesExt

CONSTANTS
    Here,        \* the directory the process runs in, a sequence of names
    Files,       \* path (a sequence of names) -> the items of the JSON file there
    Objects,     \* dotted name (a sequence of names) -> the items of that python object
    DefaultName, \* datacube_ows.ows_cfg.ows_cfg
    S3Allowed    \* DATACUBE_OWS_CFG_ALLOW_S3

VARIABLES source, frames, items, reading

fileVars == <<source, frames, items, reading>>

Frame(its, dir, under) == [todo |-> its, cwd |-> dir, inclusions |-> under]

\* Every name some include uses, as it is written, when s is read.
IncludedBy(its) == {its[i].raw : i \in {j \in DOMAIN its : its[j].is = "include"}}
RawPaths(s) == (UNION {IncludedBy(Files[p]) : p \in DOMAIN Files})
               \cup (UNION {IncludedBy(Objects[p]) : p \in DOMAIN Objects})
               \cup (IF s.is = "literal" THEN IncludedBy(s.items) ELSE {})

IsSequence(s) == Len(s) \in Nat /\ s = [i \in 1 .. Len(s) |-> s[i]]
ASSUME FilesAssumption ==
    /\ \A p \in DOMAIN Files : IsSequence(Files[p])
    /\ \A p \in DOMAIN Objects : IsSequence(Objects[p])
\* What a configuration can be read from: includes use finitely many names.
SourceSound(s) == /\ s.is \in {"location", "object", "attribute", "literal", "unset"}
                  /\ s.is = "literal" => IsSequence(s.items)
                  /\ IsFiniteSet(RawPaths(s))

(* ---- read_config ----                                                       *)
\* What the environment names cannot be opened: an error of the loader itself
\* for a file, an import error or a missing attribute for the default module's.
Missing(s) ==
    CASE s.is = "location"  -> s.path \notin DOMAIN Files
      [] s.is = "object"    -> FALSE
      [] s.is = "attribute" -> s.path \notin DOMAIN Objects
      [] s.is = "unset"     -> DefaultName \notin DOMAIN Objects
      [] OTHER              -> FALSE
\* get_file_loc, which runs when the file has been read already.
LocationRefused(s) ==
    /\ s.is = "location"
    /\ \/ s.scheme = "s3" /\ ~S3Allowed
       \/ s.scheme \notin {"", "s3"}
\* import_python_obj refuses what it cannot import.
ObjectRefused(s) == s.is = "object" /\ s.path \notin DOMAIN Objects

Opened(s) ==
    CASE s.is = "location"  -> Frame(Files[s.path], Front(s.path), {})
      [] s.is \in {"object", "attribute"} -> Frame(Objects[s.path], Here, {})
      [] s.is = "literal"   -> Frame(s.items, Here, {})
      [] s.is = "unset"     -> Frame(Objects[DefaultName], Here, {})

FilesInit ==
    /\ frames = <<>>
    /\ items = <<>>
    /\ reading = "unread"

ReadConfig ==
    /\ reading = "unread"
    /\ IF Missing(source) THEN reading' = "crashed" /\ UNCHANGED frames
       ELSE IF LocationRefused(source) \/ ObjectRefused(source)
       THEN reading' = "refused" /\ UNCHANGED frames
       ELSE reading' = "expanding" /\ frames' = <<Opened(source)>>
    /\ UNCHANGED <<source, items>>

(* ---- cfg_expand ----                                                        *)
Top == Last(frames)
Current == Head(Top.todo)
\* The frames once the current item has been taken.
Taken == [frames EXCEPT ![Len(frames)].todo = Tail(@)]
\* Mutant: only the include itself is remembered, not what it lies under.
UnderLast == {Current.raw}
Under == Top.inclusions \cup {Current.raw}

\* A JSON include is looked for in the directory of the process, whose file then
\* sets the directory of its own includes, and else in the directory at hand,
\* which the file found there leaves as it is.
FromHere == Here \o Current.raw
FromCwd == Top.cwd \o Current.raw

ExpandValue ==
    /\ reading = "expanding" /\ Top.todo # <<>> /\ Current.is = "value"
    /\ items' = Append(items, Current.value)
    /\ frames' = Taken
    /\ UNCHANGED <<source, reading>>

RefuseCycle ==
    /\ reading = "expanding" /\ Top.todo # <<>> /\ Current.is = "include"
    /\ Current.raw \in Top.inclusions
    /\ reading' = "refused"
    /\ UNCHANGED <<source, frames, items>>

Including(type) ==
    /\ reading = "expanding" /\ Top.todo # <<>> /\ Current.is = "include"
    /\ Current.raw \notin Top.inclusions
    /\ Current.type = type

ExpandJSON ==
    /\ Including("json")
    /\ \/ /\ FromHere \in DOMAIN Files
          /\ frames' = Append(Taken, Frame(Files[FromHere], Front(FromHere), Under))
          /\ UNCHANGED reading
       \/ /\ FromHere \notin DOMAIN Files /\ FromCwd \in DOMAIN Files
          /\ frames' = Append(Taken, Frame(Files[FromCwd], Top.cwd, Under))
          /\ UNCHANGED reading
       \/ /\ FromHere \notin DOMAIN Files /\ FromCwd \notin DOMAIN Files
          /\ reading' = "refused"
          /\ UNCHANGED frames
    /\ UNCHANGED <<source, items>>

ExpandPython ==
    /\ Including("python")
    /\ IF Current.raw \in DOMAIN Objects
       THEN /\ frames' = Append(Taken, Frame(Objects[Current.raw], Top.cwd, Under))
            /\ UNCHANGED reading
       ELSE reading' = "refused" /\ UNCHANGED frames
    /\ UNCHANGED <<source, items>>

RefuseType ==
    /\ reading = "expanding" /\ Top.todo # <<>> /\ Current.is = "include"
    /\ Current.raw \notin Top.inclusions
    /\ Current.type \notin {"json", "python"}
    /\ reading' = "refused"
    /\ UNCHANGED <<source, frames, items>>

EndOfInclude ==
    /\ reading = "expanding" /\ Top.todo = <<>>
    /\ frames' = Front(frames)
    /\ reading' = IF Len(frames) = 1 THEN "read" ELSE reading
    /\ UNCHANGED <<source, items>>

ReadNext == \/ ReadConfig \/ ExpandValue \/ RefuseCycle \/ ExpandJSON \/ ExpandPython
            \/ RefuseType \/ EndOfInclude

(* Inclusion always ends (config_utils.cfg_expand: "prevents infinite          *)
(* recursion"): no chain of includes is longer than the number of different    *)
(* names the includes use, whatever cycle the files form, and however a file   *)
(* is reached under several names.                                             *)
InclusionsBounded == Len(frames) <= 1 + Cardinality(RawPaths(source))
===============================================================================
