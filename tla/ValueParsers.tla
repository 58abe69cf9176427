----------------------------- MODULE ValueParsers -----------------------------
(***************************************************************************)
(* The two string grammars of the configuration (scheduler/src/config.rs), *)
(* checked over every short string against the grammar of spec 6:          *)
(* Duration::try_from_yaml with FromStrDuration, and ServerReadySignalKind *)
(* ::try_from_yaml.  Each behaviour parses one input once.                 *)
(***************************************************************************)
EXTENDS ConfigValues

CONSTANTS
    DurationSymbols,    \* the symbols of the duration strings tried
    DurationLen,        \* their maximal length
    ReadySymbols,       \* the symbols of the server-ready-on strings tried
    ReadyLen            \* their maximal length

ASSUME ConstantsAssumption == DurationLen \in Nat /\ ReadyLen \in Nat

VARIABLES
    parser,     \* which attribute type is parsed
    input,      \* the YAML string
    out         \* the outcome of try_from_yaml

vars == <<parser, input, out>>

Pending == [tag |-> "pending"]

StringsOf(A, n) == UNION {[1..k -> A] : k \in 0..n}

Init ==
    /\ \/ parser = "duration" /\ input \in StringsOf(DurationSymbols, DurationLen)
       \/ parser = "ready" /\ input \in StringsOf(ReadySymbols, ReadyLen)
    /\ out = Pending

(* Duration::try_from_yaml on the string attribute value.                 *)
ParseDuration ==
    /\ parser = "duration" /\ out = Pending
    /\ out' = Scalar("Duration", YStr(input))
    /\ UNCHANGED <<parser, input>>

(* ServerReadySignalKind::try_from_yaml on the string attribute value.    *)
ParseReady ==
    /\ parser = "ready" /\ out = Pending
    /\ out' = Scalar("ServerReady", YStr(input))
    /\ UNCHANGED <<parser, input>>

Next == ParseDuration \/ ParseReady

Spec == Init /\ [][Next]_vars

-----------------------------------------------------------------------------
(* Spec 6: a duration is <n>(s|m|h|d|a), and nothing else.                *)
DurationGrammar(s) ==
    /\ Len(s) >= 2
    /\ \A i \in 1..Len(s) - 1 : IsDigit(s[i])
    /\ s[Len(s)] \in {"s", "m", "h", "d", "a"}

(* The units in seconds: second, minute, hour, day, year of 365 days.    *)
SpecUnit == [s |-> 1, m |-> 60, h |-> 60 * 60, d |-> 24 * 60 * 60,
             a |-> 365 * 24 * 60 * 60]

SpecDuration(s) == Numeral(SubSeq(s, 1, Len(s) - 1)) * SpecUnit[s[Len(s)]]

(* Spec 6: server-ready-on is (bind|listen), optionally followed by a     *)
(* positive count in parentheses; the default count is 0.                 *)
ReadyGrammar(s) ==
    LET l == Lower(s) IN
    /\ Len(l) >= 1 /\ l[1] \in {"bind", "listen"}
    /\ \/ Len(l) = 1
       \/ /\ Len(l) >= 4 /\ l[2] = "(" /\ l[Len(l)] = ")"
          /\ \A i \in 3..Len(l) - 1 : IsDigit(l[i])
          /\ l[3] # "0"

SpecReady(s) ==
    LET l == Lower(s) IN
    [kind |-> l[1], count |-> IF Len(l) = 1 THEN 0 ELSE Numeral(SubSeq(l, 3, Len(l) - 1))]

(***************************************************************************)
(* Every duration written in the grammar of spec 6 parses to its value,    *)
(* whatever the unit: FromStrDuration's regex and unit table agree with    *)
(* the grammar on the strings it is meant for.                             *)
(***************************************************************************)
DurationOnGrammar ==
    (parser = "duration" /\ out # Pending /\ DurationGrammar(input))
        => out = Ok(SpecDuration(input))

(***************************************************************************)
(* Every server-ready-on value in the grammar, such as "Listen(30)",       *)
(* parses to its keyword and count.                                        *)
(***************************************************************************)
ReadyOnGrammar ==
    (parser = "ready" /\ out # Pending /\ ReadyGrammar(input))
        => out = Ok(SpecReady(input))

(***************************************************************************)
(* Spec 6, 8 and 9: both parsers reject exactly the strings outside their  *)
(* grammar, such as "5min", "x1s" or "listen(0)", with a parse error,     *)
(* never a value and never a panic.                                        *)
(***************************************************************************)
OnlyGrammar ==
    /\ (parser = "duration" /\ out # Pending)
           => IF DurationGrammar(input) THEN out.tag = "ok" ELSE out.tag = "err"
    /\ (parser = "ready" /\ out # Pending)
           => IF ReadyGrammar(input) THEN out.tag = "ok" ELSE out.tag = "err"
=============================================================================
