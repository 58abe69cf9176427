-------------------------- MODULE ValueParsersProofs --------------------------
(***************************************************************************)
(* Proofs about ValueParsers for strings of every length over every        *)
(* alphabet: FromStrDuration and the server-ready-on parser return the     *)
(* value spec 6 gives every string of its grammar (DurationOnGrammar,      *)
(* ReadyOnGrammar).  Numeral is never unfolded: on a string of the grammar *)
(* the code and the grammar read the same run of digits.                   *)
(***************************************************************************)
EXTENDS ValueParsers, TLAPS

(***************************************************************************)
(* The greedy digit run of the regex: when the symbols a..b are digits and *)
(* the one after b is not, the run that starts at a ends at b.             *)
(***************************************************************************)
LEMMA RunEndOfDigits ==
    ASSUME NEW A, NEW s \in Seq(A), NEW a \in Nat \ {0}, NEW b \in Nat,
           a <= b, b < Len(s),
           \A j \in a..b : IsDigit(s[j]),
           ~IsDigit(s[b + 1])
    PROVE  RunEnd(s, a) = b
<1> DEFINE Ends(k) == /\ \A j \in a..k : IsDigit(s[j])
                      /\ k = Len(s) \/ ~IsDigit(s[k + 1])
<1>1. b \in a..Len(s) /\ Ends(b)
  OBVIOUS
<1>2. \A k \in a..Len(s) : Ends(k) => k = b
  <2> SUFFICES ASSUME NEW k \in a..Len(s), Ends(k), k # b PROVE FALSE
    OBVIOUS
  <2>1. CASE k < b
    BY <2>1
  <2>2. CASE k > b
    BY <2>2
  <2>3. QED
    BY <2>1, <2>2
<1>3. QED
  BY <1>1, <1>2 DEF RunEnd

(***************************************************************************)
(* The leftmost match is at the first position when that one matches.      *)
(***************************************************************************)
LEMMA MinIndexFirst ==
    ASSUME NEW S \in SUBSET (Nat \ {0}), 1 \in S
    PROVE  MinIndex(S) = 1
<1>1. \A j \in S : 1 <= j
  OBVIOUS
<1>2. \A i \in S : (\A j \in S : i <= j) => i = 1
  OBVIOUS
<1>3. QED
  BY <1>1, <1>2 DEF MinIndex

(***************************************************************************)
(* Bind hands the value on unchanged.                                      *)
(***************************************************************************)
LEMMA BindDuration ==
    ASSUME NEW x
    PROVE  Bind(x, LAMBDA r : IF r.tag = "ok" THEN r ELSE Err("InvalidValue"))
               = IF x.tag = "ok" THEN x ELSE Err("InvalidValue")
BY DEF Bind

(***************************************************************************)
(* Duration::try_from_yaml on a string <n><unit> of the grammar returns    *)
(* n times the unit in seconds: the regex matches at the first symbol,     *)
(* its digit run stops before the unit, and the unit table is spec 6's.    *)
(***************************************************************************)
LEMMA DurationParse ==
    ASSUME NEW A, NEW s \in Seq(A), DurationGrammar(s)
    PROVE  Scalar("Duration", YStr(s)) = Ok(SpecDuration(s))
<1> DEFINE n == Len(s)
           k == n - 1
<1>1. /\ n \in Nat /\ n >= 2 /\ k \in Nat \ {0}
      /\ \A i \in 1..k : IsDigit(s[i])
      /\ s[n] \in {"s", "m", "h", "d", "a"}
  BY DEF DurationGrammar
<1>2. ~IsDigit(s[n])
  BY <1>1 DEF IsDigit, Digit
<1>3. RunEnd(s, 1) = k
  BY <1>1, <1>2, RunEndOfDigits
<1>4. DurationMatchAt(s, 1)
  BY <1>1, <1>3 DEF DurationMatchAt, UnitSeconds
<1>5. MinIndex({i \in 1..n : DurationMatchAt(s, i)}) = 1
  BY <1>1, <1>4, MinIndexFirst
<1>6. FromStrDuration(s) = Ok(Numeral(SubSeq(s, 1, k)) * UnitSeconds[s[n]])
  BY <1>1, <1>3, <1>4, <1>5 DEF FromStrDuration
<1>7. UnitSeconds[s[n]] = SpecUnit[s[n]]
  BY <1>1 DEF UnitSeconds, SpecUnit
<1>8. FromStrDuration(s) = Ok(SpecDuration(s))
  BY <1>6, <1>7 DEF SpecDuration
<1>9. Scalar("Duration", YStr(s))
        = Bind(FromStrDuration(s),
               LAMBDA r : IF r.tag = "ok" THEN r ELSE Err("InvalidValue"))
  BY DEF Scalar, YStr
<1>10. Bind(FromStrDuration(s),
            LAMBDA r : IF r.tag = "ok" THEN r ELSE Err("InvalidValue"))
         = IF FromStrDuration(s).tag = "ok" THEN FromStrDuration(s)
           ELSE Err("InvalidValue")
  BY BindDuration
<1>11. QED
  BY <1>8, <1>9, <1>10 DEF Ok

(***************************************************************************)
(* ServerReadySignalKind::try_from_yaml on a string of the grammar returns *)
(* its keyword and its count, 0 when there is none: the keyword regex      *)
(* matches at the first word and the count group takes the whole digit    *)
(* run up to the closing parenthesis.                                      *)
(***************************************************************************)
LEMMA ReadyParse ==
    ASSUME NEW A, NEW s \in Seq(A), ReadyGrammar(s)
    PROVE  Scalar("ServerReady", YStr(s)) = Ok(SpecReady(s))
<1> DEFINE l == Lower(s)
           n == Len(l)
<1>1. /\ l \in Seq({LowerSym(x) : x \in A})
      /\ n = Len(s)
      /\ \A i \in 1..n : l[i] = LowerSym(s[i])
  BY DEF Lower
<1>2. /\ n >= 1 /\ l[1] \in {"bind", "listen"}
      /\ \/ n = 1
         \/ /\ n >= 4 /\ l[2] = "(" /\ l[n] = ")"
            /\ \A i \in 3..n - 1 : IsDigit(l[i])
            /\ l[3] # "0"
  BY DEF ReadyGrammar
<1>3. MinIndex({i \in 1..n : l[i] \in {"bind", "listen"}}) = 1
  BY <1>1, <1>2, MinIndexFirst
<1>4. CASE n = 1
  <2>1. ~CountAt(l, 1)
    BY <1>4 DEF CountAt
  <2>2. ServerReady(s) = Ok([kind |-> l[1], count |-> 0])
    BY <1>1, <1>2, <1>3, <2>1 DEF ServerReady
  <2>3. QED
    BY <1>4, <2>2 DEF Scalar, YStr, SpecReady
<1>5. CASE n # 1
  <2>1. /\ n >= 4 /\ l[2] = "(" /\ l[n] = ")" /\ l[3] # "0"
        /\ \A i \in 3..n - 1 : IsDigit(l[i])
    BY <1>2, <1>5
  <2>2. ~IsDigit(l[n])
    BY <2>1 DEF IsDigit, Digit
  <2>3. RunEnd(l, 3) = n - 1
    BY <1>1, <2>1, <2>2, RunEndOfDigits
  <2>4. CountAt(l, 1)
    BY <2>1, <2>3 DEF CountAt
  <2>5. ServerReady(s)
          = Ok([kind |-> l[1], count |-> Numeral(SubSeq(l, 3, n - 1))])
    BY <1>1, <1>2, <1>3, <2>3, <2>4 DEF ServerReady
  <2>6. QED
    BY <1>5, <2>5 DEF Scalar, YStr, SpecReady
<1>6. QED
  BY <1>4, <1>5

-----------------------------------------------------------------------------
(* The input is a string over the parser's alphabet, and never changes.   *)
InputOK ==
    \/ parser = "duration" /\ input \in Seq(DurationSymbols)
    \/ parser = "ready" /\ input \in Seq(ReadySymbols)

LEMMA InitInputOK == Init => InputOK
<1> SUFFICES ASSUME Init PROVE InputOK
  OBVIOUS
<1>1. ASSUME NEW A, NEW m \in Nat, NEW s \in StringsOf(A, m) PROVE s \in Seq(A)
  BY ConstantsAssumption DEF StringsOf
<1>2. QED
  BY <1>1, ConstantsAssumption DEF Init, InputOK

LEMMA InputStep == InputOK /\ [Next]_vars => InputOK'
BY DEF InputOK, Next, ParseDuration, ParseReady, vars

(***************************************************************************)
(* For every alphabet and every length, a duration string of spec 6's      *)
(* grammar that Duration::try_from_yaml has parsed has the spec's value.   *)
(***************************************************************************)
THEOREM DurationParsesOnGrammar == Spec => []DurationOnGrammar
<1>1. Init => InputOK /\ DurationOnGrammar
  BY InitInputOK DEF Init, DurationOnGrammar, Pending
<1>2. InputOK /\ DurationOnGrammar /\ [Next]_vars
          => (InputOK /\ DurationOnGrammar)'
  <2> SUFFICES ASSUME InputOK, DurationOnGrammar, [Next]_vars
               PROVE  InputOK' /\ DurationOnGrammar'
    OBVIOUS
  <2>1. InputOK'
    BY InputStep
  <2>2. ParseDuration => DurationOnGrammar'
    BY DurationParse DEF ParseDuration, InputOK, DurationOnGrammar, Pending
  <2>3. ParseReady => DurationOnGrammar'
    BY DEF ParseReady, DurationOnGrammar
  <2>4. UNCHANGED vars => DurationOnGrammar'
    BY DEF vars, DurationOnGrammar
  <2>5. QED
    BY <2>1, <2>2, <2>3, <2>4 DEF Next
<1>3. QED
  BY <1>1, <1>2, PTL DEF Spec

(***************************************************************************)
(* For every alphabet and every length, a server-ready-on string of spec   *)
(* 6's grammar that ServerReadySignalKind::try_from_yaml has parsed gives  *)
(* the spec's keyword and count.                                           *)
(***************************************************************************)
THEOREM ReadyParsesOnGrammar == Spec => []ReadyOnGrammar
<1>1. Init => InputOK /\ ReadyOnGrammar
  BY InitInputOK DEF Init, ReadyOnGrammar, Pending
<1>2. InputOK /\ ReadyOnGrammar /\ [Next]_vars
          => (InputOK /\ ReadyOnGrammar)'
  <2> SUFFICES ASSUME InputOK, ReadyOnGrammar, [Next]_vars
               PROVE  InputOK' /\ ReadyOnGrammar'
    OBVIOUS
  <2>1. InputOK'
    BY InputStep
  <2>2. ParseReady => ReadyOnGrammar'
    BY ReadyParse DEF ParseReady, InputOK, ReadyOnGrammar, Pending
  <2>3. ParseDuration => ReadyOnGrammar'
    BY DEF ParseDuration, ReadyOnGrammar
  <2>4. UNCHANGED vars => ReadyOnGrammar'
    BY DEF vars, ReadyOnGrammar
  <2>5. QED
    BY <2>1, <2>2, <2>3, <2>4 DEF Next
<1>3. QED
  BY <1>1, <1>2, PTL DEF Spec

=============================================================================
