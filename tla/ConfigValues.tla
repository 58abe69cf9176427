----------------------------- MODULE ConfigValues -----------------------------
(***************************************************************************)
(* The value conversions of the configuration parser (scheduler/src/       *)
(* config.rs): the YAML values yaml_rust hands the parser, the TryFromYaml *)
(* impls, FromStrDuration and the server-ready-on parser.                  *)
(*                                                                         *)
(* A string is a sequence of symbols: single characters where the parsers  *)
(* look at characters (digits, duration units, parentheses) and whole      *)
(* words where they only compare words (bind, listen, channel names).      *)
(* Durations are kept in seconds: every unit of the grammar is a whole     *)
(* number of seconds, and milliseconds of a year overflow TLC's integers.  *)
(***************************************************************************)
EXTENDS Integers, Sequences, FiniteSets

(* The YAML values: BadValue is what indexing a missing key returns.      *)
BadValue == [t |-> "bad"]
Null == [t |-> "null"]
YStr(s) == [t |-> "str", v |-> s]
YInt(n) == [t |-> "int", v |-> n]
YBool(b) == [t |-> "bool", v |-> b]
YHash(h) == [t |-> "hash", v |-> h]
YList(s) == [t |-> "vec", v |-> s]

(* A YAML integer used as a mapping key (all other keys are strings).     *)
IntKey == "<integer key>"

(* Outcomes: Ok, an error (ConfigError, io or anyhow), or a panic.        *)
Ok(x) == [tag |-> "ok", val |-> x]
Err(e) == [tag |-> "err", val |-> e]
Panic(e) == [tag |-> "panic", val |-> e]

(* Option<T>: None is the empty set, Some(x) is {x}.                      *)
None == {}
UnwrapOr(o, d) == IF o = None THEN d ELSE CHOOSE x \in o : TRUE

(* yaml[attr_name]: a missing key or a non-hash gives BadValue.           *)
Index(y, k) == IF y.t = "hash" /\ k \in DOMAIN y.v THEN y.v[k] ELSE BadValue

LowerSym(c) ==
    CASE c = "None" -> "none" [] c = "Stdin" -> "stdin"
      [] c = "Listen" -> "listen" [] c = "BIND" -> "bind" [] OTHER -> c
Lower(s) == [i \in DOMAIN s |-> LowerSym(s[i])]

Digit == [d \in {"0", "1", "3", "5"} |-> CASE d = "0" -> 0 [] d = "1" -> 1
                                           [] d = "3" -> 3 [] OTHER -> 5]
IsDigit(c) == c \in DOMAIN Digit

(* The value of the numeral ds.                                            *)
Numeral(ds) ==
    LET f[i \in 0..Len(ds)] == IF i = 0 THEN 0 ELSE 10 * f[i - 1] + Digit[ds[i]]
    IN f[Len(ds)]

(* The end of the longest run of digits of s that starts at i.            *)
RunEnd(s, i) ==
    CHOOSE k \in i..Len(s) : /\ \A j \in i..k : IsDigit(s[j])
                             /\ k = Len(s) \/ ~IsDigit(s[k + 1])

MinIndex(S) == CHOOSE i \in S : \A j \in S : i <= j

(* F applied to the value of x, which is computed once (TLC evaluates the *)
(* elements of a set it enumerates, while it computes a LET definition or *)
(* an operator argument anew at each use when it collects coverage).      *)
Bind(x, F(_)) == CHOOSE o \in {F(v) : v \in {x}} : TRUE

(* Rust's ? operator: the value of an Ok result handed on to F, any other *)
(* outcome returned as it is.                                             *)
AndThen(r, F(_)) == Bind(r, LAMBDA v : IF v.tag = "ok" THEN F(v.val) ELSE v)

(* Variant of UnitSeconds with the hour's factor for minutes.             *)
UnitSecondsMinuteAsHour == [s |-> 1, m |-> 3600, h |-> 3600, d |-> 86400, a |-> 31536000]

UnitSeconds == [s |-> 1, m |-> 60, h |-> 3600, d |-> 86400, a |-> 31536000]

(* The duration regex (digits, then one of s m h d a) matches at i: the greedy digit run there is  *)
(* followed by a unit.                                                    *)
DurationMatchAt(s, i) ==
    /\ IsDigit(s[i])
    /\ RunEnd(s, i) < Len(s)
    /\ s[RunEnd(s, i) + 1] \in DOMAIN UnitSeconds

(* FromStrDuration::from_str: the leftmost match anywhere in s.           *)
FromStrDuration(s) ==
    LET starts == {i \in 1..Len(s) : DurationMatchAt(s, i)}
    IN IF starts = {} THEN Err("InvalidDuration")
       ELSE LET i == MinIndex(starts)
                k == RunEnd(s, i)
            IN Ok(Numeral(SubSeq(s, i, k)) * UnitSeconds[s[k + 1]])

(* Variant of CountAt whose count group holds a single digit.            *)
CountAtOneDigit(s, i) ==
    /\ i + 3 <= Len(s)
    /\ s[i + 1] = "("
    /\ IsDigit(s[i + 2]) /\ s[i + 2] # "0"
    /\ s[i + 3] = ")"

(* The optional count group of the server-ready-on regex matches after   *)
(* keyword i: an open parenthesis, digits not starting with 0, a close.  *)
CountAt(s, i) ==
    /\ i + 2 <= Len(s)
    /\ s[i + 1] = "("
    /\ IsDigit(s[i + 2]) /\ s[i + 2] # "0"
    /\ RunEnd(s, i + 2) < Len(s)
    /\ s[RunEnd(s, i + 2) + 1] = ")"

(* ServerReadySignalKind from a lowercased string: captures(..).unwrap()  *)
(* panics when no keyword occurs; a missing count is 0.                   *)
ServerReady(s) ==
    LET l == Lower(s)
        starts == {i \in 1..Len(l) : l[i] \in {"bind", "listen"}}
    IN IF starts = {} THEN Panic("CapturesUnwrap")
       ELSE LET i == MinIndex(starts)
            IN Ok([kind |-> l[i],
                   count |-> IF CountAt(l, i) THEN Numeral(SubSeq(l, i + 2, RunEnd(l, i + 2)))
                                             ELSE 0])

InputChannels == {"none", "stdin", "file", "tcp", "udp"}
OutputChannels == {"none", "stdout", "file", "tcp", "udp"}

(* InputChannel / OutputChannel: the lowercased string names a variant.   *)
Channel(s, names) ==
    IF Len(s) = 1 /\ LowerSym(s[1]) \in names THEN Ok(LowerSym(s[1]))
    ELSE Err("InvalidValue")

(* PathBuf: a relative path is joined to the config's directory and       *)
(* canonicalised, which fails when it does not exist.                     *)
Absolute(s) == Len(s) > 0 /\ s[1] = "/"
Exists(s) == \A i \in DOMAIN s : s[i] # "gone"
PathBuf(s) ==
    IF Absolute(s) THEN Ok(s)
    ELSE IF Exists(s) THEN Ok(<<"/">> \o s) ELSE Err("Io")

(* The outcome of a loop over results rs that stops at the first failure. *)
FirstFailure(rs) ==
    Bind(rs, LAMBDA vs :
      Bind({<<i, vs[i]>> : i \in DOMAIN vs}, LAMBDA ps :
        LET bad == {p \in ps : p[2].tag # "ok"}
        IN IF bad = {} THEN Ok([i \in DOMAIN vs |-> (CHOOSE p \in ps : p[1] = i)[2].val])
           ELSE (CHOOSE p \in bad : \A q \in bad : p[1] <= q[1])[2]))

(* String::try_from_yaml.                                                 *)
String(y) == IF y.t = "str" THEN Ok(y.v) ELSE Err("ConvertionFailed")

(* One entry of Vec<(String, String)>: a mapping with exactly one pair.   *)
EnvPair(y) ==
    IF y.t # "hash" THEN Err("ConvertionFailed")
    ELSE IF Cardinality(DOMAIN y.v) # 1 THEN Err("InvalidValue")
    ELSE LET k == CHOOSE x \in DOMAIN y.v : TRUE
         IN IF k = IntKey \/ y.v[k].t # "str" THEN Err("ConvertionFailed")
            ELSE Ok(<<k, y.v[k].v>>)

(* T::try_from_yaml for the scalar attribute types of the config structs. *)
Scalar(ty, y) ==
    CASE ty = "String" -> String(y)
      [] ty = "PathBuf" -> IF y.t = "str" THEN PathBuf(y.v) ELSE Err("ConvertionFailed")
      [] ty = "bool" -> IF y.t = "bool" THEN Ok(y.v) ELSE Err("ConvertionFailed")
      [] ty \in {"u32", "usize"} ->
            IF y.t # "int" THEN Err("NotAnInteger")
            ELSE IF y.v < 0 THEN Err("TryFromInt") ELSE Ok(y.v)
      [] ty \in {"i64", "MutationSiteID"} ->
            IF y.t = "int" THEN Ok(y.v) ELSE Err("NotAnInteger")
      [] ty = "Hash" -> IF y.t = "hash" THEN Ok(y.v) ELSE Err("InvalidValue")
      [] ty = "Duration" ->
            IF y.t # "str" THEN Err("ConvertionFailed")
            ELSE Bind(FromStrDuration(y.v), LAMBDA r :
                        IF r.tag = "ok" THEN r ELSE Err("InvalidValue"))
      [] ty = "InputChannel" ->
            IF y.t = "str" THEN Channel(y.v, InputChannels) ELSE Err("ConvertionFailed")
      [] ty = "OutputChannel" ->
            IF y.t = "str" THEN Channel(y.v, OutputChannels) ELSE Err("ConvertionFailed")
      [] ty = "ServerReady" ->
            IF y.t = "str" THEN ServerReady(y.v) ELSE Err("ConvertionFailed")

(* The element type of a Vec attribute type.                              *)
ElemType == [Env |-> "EnvPair", Args |-> "String", Ids |-> "MutationSiteID",
             Instrs |-> "usize"]

(* Vec<T>::try_from_yaml: a sequence whose elements all convert.          *)
Convert(ty, y) ==
    IF ty \notin DOMAIN ElemType THEN Scalar(ty, y)
    ELSE IF y.t # "vec" THEN Err("ConvertionFailed")
    ELSE FirstFailure([i \in DOMAIN y.v |->
                         IF ty = "Env" THEN EnvPair(y.v[i])
                         ELSE Scalar(ElemType[ty], y.v[i])])

(* Option<T>::try_from_yaml: missing, null or the string "none" is None.  *)
OptionOf(ty, y) ==
    IF y.t \in {"bad", "null"} THEN Ok(None)
    ELSE IF y.t = "str" /\ Lower(y.v) = <<"none">> THEN Ok(None)
    ELSE AndThen(Convert(ty, y), LAMBDA x : Ok({x}))
=============================================================================
