------------------------------ MODULE RawConfig -------------------------------
(* Raw configuration values and their inheritance.  A raw value is a scalar, a *)
(* list, a list of numbers or a dictionary, as deepupdate tells them apart; a   *)
(* layer or style configuration is a function from its keys to raw values.      *)
(* The outcome of reading a part of it is "ok", "refused" (a ConfigException),  *)
(* "missing" (a KeyError, which some sections turn into a ConfigException) or   *)
(* "crash" (any other exception, which nothing short of get_config's caller     *)
(* catches).                                                                    *)
EXTENDS Integers, Sequences, FiniteSets, SequencesExt

CONSTANTS
    Importable,  \* the functions that configurations name and that import
    Dotless      \* names without a dot, which rsplit cannot unpack

One(x) == [kind |-> "one", v |-> x]
Items(s) == [kind |-> "list", v |-> s]
Numbers(s) == [kind |-> "numbers", v |-> s]
Dict(f) == [kind |-> "dict", v |-> f]
NoItems == [x \in {} |-> x]
\* What stands for a name where there is none.
NoName == ""
WithEntry(f, k, v) == [x \in DOMAIN f \cup {k} |-> IF x = k THEN v ELSE f[x]]

Has(cfg, k) == k \in DOMAIN cfg
Opt(cfg, k, default) == IF Has(cfg, k) THEN cfg[k].v ELSE default
\* cfg.get(k, False) for the switches.
On(cfg, k) == Opt(cfg, k, FALSE)

(* ---- config_toolkit.deepinherit ----                                         *)
\* Lists of anything but numbers grow: the child's items follow the parent's.
Leaf(target, k, v) ==
    IF v.kind = "list" /\ v.v # <<>> /\ k \in DOMAIN target
    THEN Items(target[k].v \o v.v) ELSE v
UpdateWith(Put(_, _, _), target, src) ==
    [k \in DOMAIN target \cup DOMAIN src |->
        IF k \in DOMAIN src THEN Put(target, k, src[k]) ELSE target[k]]
Held(target, k) == IF k \in DOMAIN target THEN target[k].v ELSE NoItems
PutInner(target, k, v) ==
    IF v.kind = "dict" THEN Dict(UpdateWith(Leaf, Held(target, k), v.v)) ELSE Leaf(target, k, v)
PutOuter(target, k, v) ==
    IF v.kind = "dict" THEN Dict(UpdateWith(PutInner, Held(target, k), v.v)) ELSE Leaf(target, k, v)
DeepInherit(parent, child) == UpdateWith(PutOuter, parent, child)

\* A dictionary that meets a parent value which is none, or a list that meets a
\* dictionary or scalar, fails inside deepupdate.
Clash(p, c) == \/ c.kind = "dict" /\ p.kind # "dict"
               \/ c.kind = "list" /\ c.v # <<>> /\ p.kind \notin {"list", "numbers"}
InheritClash(parent, child) ==
    \E k \in DOMAIN parent \cap DOMAIN child :
        \/ Clash(parent[k], child[k])
        \/ /\ parent[k].kind = "dict" /\ child[k].kind = "dict"
           /\ \E j \in DOMAIN parent[k].v \cap DOMAIN child[k].v :
                  Clash(parent[k].v[j], child[k].v[j])

(* ---- outcomes ----                                                           *)
FirstBad(outcomes) == LET bad == {i \in DOMAIN outcomes : outcomes[i] # "ok"}
                      IN IF bad = {} THEN "ok" ELSE outcomes[Min(bad)]
\* The entries of a dictionary are checked in its order; with one fault the order
\* does not matter, and with several any of them may be reported.
AnyOf(S, Outcome(_)) == LET bad == {Outcome(x) : x \in S} \ {"ok"}
                        IN IF bad = {} THEN "ok" ELSE CHOOSE o \in bad : TRUE
FirstOf(s, Outcome(_)) == FirstBad([i \in DOMAIN s |-> Outcome(s[i])])
\* What is only looked at when all is well so far.
Then(outcome, next) == IF outcome = "ok" THEN next ELSE outcome
RefusedIf(b) == IF b THEN "refused" ELSE "ok"
Required(cfg, k) == IF Has(cfg, k) THEN "ok" ELSE "missing"
\* parse_cache_age: what is no number is a negative one.
AgeOutcome(cfg, k) == RefusedIf(Opt(cfg, k, 0) < 0)
KeyErrorRefused(o) == IF o = "missing" THEN "refused" ELSE o
KeyErrorEscapes(o) == IF o = "missing" THEN "crash" ELSE o

\* FunctionWrapper and get_function: a name, or a dictionary with a "function".
Imported(name) == IF name \in Importable THEN "ok"
                  ELSE IF name \in Dotless THEN "crash" ELSE "refused"
FunctionOutcome(f) ==
    IF f.kind = "one" THEN Imported(f.v)
    ELSE IF Has(f.v, "function") THEN Imported(f.v["function"].v) ELSE "missing"
OptionalFunction(cfg, k) == IF Has(cfg, k) THEN FunctionOutcome(cfg[k]) ELSE "ok"
\* A dictionary of functions, such as custom_includes.
FunctionsOutcome(cfg, k) ==
    IF ~Has(cfg, k) THEN "ok"
    ELSE AnyOf(DOMAIN cfg[k].v, LAMBDA n : FunctionOutcome(cfg[k].v[n]))

(* ---- AbstractMaskRule.parse_rule_spec ----                                   *)
\* flags: a dictionary, with "or" or "and" around it or not; values: a number or
\* several.
AnyFlag(flags) == Has(flags, "or")
BothWays(flags) == AnyFlag(flags) /\ Has(flags, "and")
Wanted(flags) == Opt(flags, "or", Opt(flags, "and", flags))
RuleOutcome(rule) ==
    LET flags == Opt(rule, "flags", NoItems)
    IN RefusedIf(\/ BothWays(flags)
                 \/ (Wanted(flags) = NoItems) = (Opt(rule, "values", <<>>) = <<>>))
===============================================================================
