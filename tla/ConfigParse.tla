------------------------------ MODULE ConfigParse ------------------------------
(***************************************************************************)
(* ConfigBuilder::from_str (scheduler/src/config.rs): the section parsers, *)
(* check_for_unparsed_keys, the phase defaults and Config::validate, run   *)
(* once on a YAML document.  A section parser is its table of attributes   *)
(* (key, type, whether the field is an Option) read in the code's order,   *)
(* then its list of expected keys.  The outcome keeps the parsed values    *)
(* the properties tell apart: paths, options and the phase timeouts.       *)
(***************************************************************************)
EXTENDS ConfigValues, TLC

CONSTANT Docs       \* the YAML documents given to from_str

VARIABLES
    doc,        \* the document
    result      \* the outcome of from_str

vars == <<doc, result>>

Pending == [tag |-> "pending"]

(* No document at all: YamlLoader returns an empty vector.                *)
NoDocument == [t |-> "none"]

Req(k, ty) == [key |-> k, ty |-> ty, opt |-> FALSE]
Opt(k, ty) == [key |-> k, ty |-> ty, opt |-> TRUE]
Keys(attrs) == {attrs[i].key : i \in DOMAIN attrs}

GeneralAttrs ==
    <<Req("work-directory", "PathBuf"), Req("input-directory", "PathBuf"),
      Opt("jail-uid", "u32"), Opt("jail-gid", "u32"),
      Opt("jail-drop-to-sudo-callee", "bool")>>
GeneralKeys ==
    Keys(GeneralAttrs) \cup {"sink", "sink-cov", "source", "afl-net", "state-afl",
                             "sgfuzz", "vanilla", "phases"}
SourceAttrs ==
    <<Opt("env", "Env"), Req("bin-path", "PathBuf"), Req("arguments", "Args"),
      Req("input-type", "InputChannel"), Req("output-type", "OutputChannel"),
      Opt("output-suffix", "String"), Req("log-stdout", "bool"),
      Req("log-stderr", "bool"), Opt("is-server", "bool"),
      Opt("server-port", "String"), Opt("server-ready-on", "ServerReady"),
      Opt("allowed-patch-points", "Ids"), Opt("max-patch-points", "i64"),
      Opt("blocked-patch-point-instructions", "Instrs"),
      Opt("working-dir", "PathBuf")>>
DiscoveryAttrs ==
    <<Req("enabled", "bool"), Req("batch-size", "u32"),
      Req("terminate-when-finished", "bool"),
      Opt("batch-cov-timeout", "Duration"), Opt("phase-cov-timeout", "Duration")>>
MutateAttrs == <<Req("weight", "u32"), Opt("entry-cov-timeout", "Duration")>>
AddAttrs ==
    <<Req("weight", "u32"), Req("batch-size", "u32"),
      Req("select-unfuzzed-weight", "u32"), Req("select-yielding-weight", "u32"),
      Req("select-random-weight", "u32"), Opt("entry-cov-timeout", "Duration")>>
CombineAttrs == MutateAttrs
PhasesKeys == {"generation-ceiling", "discovery", "mutate", "add", "combine"}
AflNetAttrs ==
    <<Req("bin-path", "PathBuf"), Opt("env", "Env"), Req("input-dir", "PathBuf"),
      Req("netinfo", "String"), Req("protocol", "String"),
      Opt("send-sigterm", "bool"), Opt("enable-state-aware-mode", "bool")>>
StateAflAttrs == AflNetAttrs
SgfuzzAttrs ==
    <<Req("bin-path", "PathBuf"), Opt("arguments", "Args"), Opt("env", "Env"),
      Req("input-dir", "PathBuf"), Req("netinfo", "String")>>
SinkAttrs ==
    <<Opt("env", "Env"), Req("bin-path", "PathBuf"), Req("arguments", "Args"),
      Req("input-type", "InputChannel"), Req("output-type", "OutputChannel"),
      Req("log-stdout", "bool"), Req("log-stderr", "bool"),
      Opt("allow-unstable-sink", "bool"), Opt("is-server", "bool"),
      Opt("server-port", "String"), Opt("server-ready-on", "ServerReady"),
      Opt("working-dir", "PathBuf"), Opt("send-sigterm", "bool")>>
SinkKeys == Keys(SinkAttrs) \cup {"bin-path-cov"}
SinkCovAttrs == <<Opt("env", "Env"), Req("bin-path", "PathBuf"), Opt("working-dir", "PathBuf")>>
VanillaAttrs == <<Opt("env", "Env"), Req("bin-path", "PathBuf")>>

(* get_attribute: T::try_from_yaml of yaml[attr_name].                     *)
GetAttribute(a, y) ==
    IF a.opt THEN OptionOf(a.ty, Index(y, a.key)) ELSE Convert(a.ty, Index(y, a.key))

(* The attributes of a section, read in order until the first failure.    *)
GetAttributes(attrs, y) ==
    AndThen(FirstFailure([i \in DOMAIN attrs |-> GetAttribute(attrs[i], y)]), LAMBDA vs :
        Ok([k \in Keys(attrs) |-> vs[CHOOSE i \in DOMAIN attrs : attrs[i].key = k]]))

(* Variant of CheckKeys that never reports an unexpected key.             *)
CheckKeysNoUnexpected(y, keys) ==
    IF y.t # "hash" THEN Panic("as_hash unwrap")
    ELSE IF IntKey \in DOMAIN y.v THEN Panic("as_str unwrap")
    ELSE Ok(TRUE)

(* check_for_unparsed_keys: as_hash().unwrap(), as_str().unwrap() on each *)
(* key, then UnexpectedAttribute for a key not in the list.               *)
CheckKeys(y, keys) ==
    IF y.t # "hash" THEN Panic("as_hash unwrap")
    ELSE IF IntKey \in DOMAIN y.v THEN Panic("as_str unwrap")
    ELSE IF DOMAIN y.v \subseteq keys THEN Ok(TRUE)
    ELSE Err("UnexpectedAttribute")

(* A parse_*_section: its attributes, then the check of its keys.         *)
ParseSection(attrs, keys, y) ==
    AndThen(GetAttributes(attrs, y), LAMBDA sec :
        AndThen(CheckKeys(y, keys), LAMBDA ok : Ok(sec)))

(* parse_general_section: both or none of jail-uid and jail-gid.          *)
ParseGeneral(y) ==
    AndThen(GetAttributes(GeneralAttrs, y), LAMBDA g :
        IF (g["jail-uid"] = None) # (g["jail-gid"] = None) THEN Err("jail")
        ELSE AndThen(CheckKeys(y, GeneralKeys), LAMBDA ok : Ok(g)))

PhaseOrder == <<"discovery", "mutate", "add", "combine">>
PhaseAttrs == [discovery |-> DiscoveryAttrs, mutate |-> MutateAttrs,
               add |-> AddAttrs, combine |-> CombineAttrs]

(* The unwrap_or_else fallbacks of the phase parsers' timeouts, seconds.  *)
PhaseFallback ==
    [discovery |-> ("batch-cov-timeout" :> 60 * 5 @@ "phase-cov-timeout" :> 60 * 10),
     mutate |-> ("entry-cov-timeout" :> 60 * 10),
     add |-> ("entry-cov-timeout" :> 60 * 10),
     combine |-> ("entry-cov-timeout" :> 60 * 30)]

(* The Default impls of the phase configs, used for an absent section.    *)
PhaseDefault ==
    [discovery |-> ("enabled" :> TRUE @@ "batch-size" :> 50
                    @@ "terminate-when-finished" :> FALSE
                    @@ "batch-cov-timeout" :> 60 * 10 @@ "phase-cov-timeout" :> 60 * 20),
     mutate |-> ("weight" :> 40 @@ "entry-cov-timeout" :> 60 * 15),
     add |-> ("weight" :> 3 @@ "batch-size" :> 12 @@ "select-unfuzzed-weight" :> 1
              @@ "select-yielding-weight" :> 1 @@ "select-random-weight" :> 1
              @@ "entry-cov-timeout" :> 60 * 15),
     combine |-> ("weight" :> 10 @@ "entry-cov-timeout" :> 60 * 10)]

(* One phase of parse_phases_section: get_optional_section, then the      *)
(* phase's parser and its timeout fallbacks, or the Default impl.         *)
PhaseSection(y, p) ==
    AndThen(OptionOf("Hash", Index(y, p)), LAMBDA s :
        IF s = None THEN Ok(PhaseDefault[p])
        ELSE AndThen(ParseSection(PhaseAttrs[p], Keys(PhaseAttrs[p]), YHash(UnwrapOr(s, <<>>))),
                     LAMBDA c :
                        Ok([k \in DOMAIN c |->
                              IF k \in DOMAIN PhaseFallback[p]
                              THEN UnwrapOr(c[k], PhaseFallback[p][k]) ELSE c[k]])))

(* parse_phases_section: generation-ceiling, the four phases, then the    *)
(* check of the section's keys.                                           *)
ParsePhases(y) ==
    AndThen(FirstFailure(<<OptionOf("u32", Index(y, "generation-ceiling"))>>
                         \o [i \in 1..4 |-> PhaseSection(y, PhaseOrder[i])]), LAMBDA vs :
        AndThen(CheckKeys(y, PhasesKeys), LAMBDA ok :
            Ok([p \in DOMAIN PhaseAttrs |-> vs[1 + CHOOSE i \in 1..4 : PhaseOrder[i] = p]])))

(* A section from_str requires: MissingSection when the key is absent.    *)
ReqSection(d, name, attrs, keys) ==
    IF Index(d, name) = BadValue THEN Err("MissingSection")
    ELSE ParseSection(attrs, keys, Index(d, name))

(* A section from_str parses only when the key is present.                *)
OptSection(d, name, attrs) ==
    IF Index(d, name) = BadValue THEN Ok(None)
    ELSE AndThen(ParseSection(attrs, Keys(attrs), Index(d, name)), LAMBDA sec : Ok({sec}))

(* Config::validate: the input directory and the source, sink and vanilla *)
(* binaries exist.                                                        *)
Validate(cfg) ==
    IF /\ Exists(cfg.general["input-directory"])
       /\ Exists(cfg.source["bin-path"])
       /\ Exists(cfg.sink["bin-path"])
       /\ Exists(cfg.vanilla["bin-path"])
    THEN Ok(cfg) ELSE Err("Validate")

(* ConfigBuilder::from_str: yaml[0] of the loaded documents, the sections *)
(* in the code's order up to the first failure, then validate.            *)
FromStr(d) ==
    IF d = NoDocument THEN Panic("index out of bounds")
    ELSE AndThen(FirstFailure(<<ParseGeneral(d),
                                ReqSection(d, "source", SourceAttrs, Keys(SourceAttrs)),
                                IF Index(d, "phases") = BadValue
                                THEN Ok([p \in DOMAIN PhaseAttrs |-> PhaseDefault[p]])
                                ELSE ParsePhases(Index(d, "phases")),
                                ReqSection(d, "sink", SinkAttrs, SinkKeys),
                                OptSection(d, "sink-cov", SinkCovAttrs),
                                OptSection(d, "afl-net", AflNetAttrs),
                                OptSection(d, "state-afl", StateAflAttrs),
                                OptSection(d, "sgfuzz", SgfuzzAttrs),
                                ReqSection(d, "vanilla", VanillaAttrs, Keys(VanillaAttrs))>>),
                 LAMBDA v : Validate([general |-> v[1], source |-> v[2], phases |-> v[3],
                                      sink |-> v[4], aflnet |-> v[6], vanilla |-> v[9]]))

Init ==
    /\ doc \in Docs
    /\ result = Pending

(* from_path hands the file's text to from_str.                           *)
Parse ==
    /\ result = Pending
    /\ result' = FromStr(doc)
    /\ UNCHANGED doc

Next == Parse

Spec == Init /\ [][Next]_vars
-----------------------------------------------------------------------------
(* Spec 6: the top-level sections of the configuration.                   *)
SpecTopKeys ==
    {"work-directory", "input-directory", "jail-uid", "jail-gid",
     "jail-drop-to-sudo-callee", "source", "sink", "sink-cov", "vanilla",
     "phases", "afl-net", "state-afl", "sgfuzz"}

(* Spec 6: the phase timeouts a configuration leaves out, in seconds.     *)
SpecPhaseDefault ==
    [discovery |-> ("batch-cov-timeout" :> 10 * 60 @@ "phase-cov-timeout" :> 20 * 60),
     mutate |-> ("entry-cov-timeout" :> 15 * 60),
     add |-> ("entry-cov-timeout" :> 15 * 60),
     combine |-> ("entry-cov-timeout" :> 10 * 60)]

(* The document gives timeout k of phase p.                               *)
Given(d, p, k) == Index(Index(Index(d, "phases"), p), k) # BadValue

(***************************************************************************)
(* Spec 6 and 8: a configuration with a top-level key outside the spec's   *)
(* list, such as foo: bar, is rejected, wherever the key sits among the    *)
(* sections and whatever else the document gets wrong.                     *)
(***************************************************************************)
RejectsUnknownTopKeys ==
    (result # Pending /\ doc.t = "hash" /\ ~(DOMAIN doc.v \subseteq SpecTopKeys))
        => result.tag # "ok"

(* AddPhaseConfig::weights_sum of an accepted configuration.              *)
AddWeightsSum(cfg) ==
    cfg.phases.add["select-unfuzzed-weight"] + cfg.phases.add["select-yielding-weight"]
        + cfg.phases.add["select-random-weight"]

(***************************************************************************)
(* Spec 7: a bad configuration aborts startup with a ConfigError.  from_str *)
(* never panics (check_for_unparsed_keys unwraps as_hash and as_str, the   *)
(* server-ready-on parser unwraps its captures, from_str indexes yaml[0]), *)
(* and a configuration it accepts never trips the assert of weights_sum    *)
(* when a worker enters the Add phase.                                     *)
(***************************************************************************)
NeverPanics ==
    /\ result.tag # "panic"
    /\ result.tag = "ok" => AddWeightsSum(result.val) > 0

(***************************************************************************)
(* Spec 6: every phase timeout the configuration leaves out has its        *)
(* documented default, whether or not the phase's section is present.      *)
(***************************************************************************)
PhaseDefaults ==
    result.tag = "ok" =>
        \A p \in DOMAIN SpecPhaseDefault : \A k \in DOMAIN SpecPhaseDefault[p] :
            Given(doc, p, k) \/ result.val.phases[p][k] = SpecPhaseDefault[p][k]
=============================================================================
