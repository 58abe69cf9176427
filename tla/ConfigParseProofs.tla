--------------------------- MODULE ConfigParseProofs ---------------------------
(***************************************************************************)
(* Proofs about ConfigParse for every YAML document: a configuration that  *)
(* from_str accepts has no top-level key outside spec 6's list             *)
(* (RejectsUnknownTopKeys).  The section parsers are never opened:         *)
(* whatever they return, the ? chain of from_str only reaches Ok after     *)
(* parse_general_section, and its key check, returned Ok.                  *)
(***************************************************************************)
EXTENDS ConfigParse, WellFoundedInduction, TLAPS

(***************************************************************************)
(* A loop over results that stops at the first failure ends in Ok only     *)
(* when every result is Ok: otherwise the failure with the least index is  *)
(* returned, and the indices are naturals, so there is a least one.        *)
(***************************************************************************)
LEMMA FirstFailureOk ==
    ASSUME NEW rs, DOMAIN rs \subseteq Nat, FirstFailure(rs).tag = "ok"
    PROVE  \A i \in DOMAIN rs : rs[i].tag = "ok"
<1> DEFINE ps  == {<<i, rs[i]>> : i \in DOMAIN rs}
           bad == {p \in ps : p[2].tag # "ok"}
           Least(p) == \A q \in bad : p[1] <= q[1]
<1> DEFINE Pick(qs) ==
             LET b == {p \in qs : p[2].tag # "ok"}
             IN IF b = {} THEN Ok([j \in DOMAIN rs |-> (CHOOSE p \in qs : p[1] = j)[2].val])
                ELSE (CHOOSE p \in b : \A q \in b : p[1] <= q[1])[2]
<1> DEFINE Outer(vs) ==
             Bind({<<j, vs[j]>> : j \in DOMAIN vs}, LAMBDA qs :
               LET b == {p \in qs : p[2].tag # "ok"}
               IN IF b = {} THEN Ok([j \in DOMAIN vs |-> (CHOOSE p \in qs : p[1] = j)[2].val])
                  ELSE (CHOOSE p \in b : \A q \in b : p[1] <= q[1])[2])
<1>1. FirstFailure(rs) = Bind(ps, Pick)
  <2>1. FirstFailure(rs) = Bind(rs, Outer)
    BY DEF FirstFailure, Outer
  <2>2. Bind(rs, Outer) = Outer(rs)
    BY DEF Bind
  <2>3. Outer(rs) = Bind(ps, Pick)
    BY DEF Outer, ps, Pick
  <2>4. QED
    BY <2>1, <2>2, <2>3
<1>2. Bind(ps, Pick) = Pick(ps)
  BY DEF Bind
<1>3. FirstFailure(rs)
        = IF bad = {} THEN Ok([i \in DOMAIN rs |-> (CHOOSE p \in ps : p[1] = i)[2].val])
          ELSE (CHOOSE p \in bad : Least(p))[2]
  BY <1>1, <1>2 DEF Pick, bad, Least
<1> SUFFICES ASSUME NEW i \in DOMAIN rs, rs[i].tag # "ok" PROVE FALSE
  OBVIOUS
<1>4. <<i, rs[i]>> \in bad
  <2>1. <<i, rs[i]>> \in ps
    BY DEF ps
  <2>2. QED
    BY <2>1 DEF bad
<1>5. PICK m \in {p[1] : p \in bad} :
          \A n \in {p[1] : p \in bad} : ~(<<n, m>> \in OpToRel(<, Nat))
  <2>1. {p[1] : p \in bad} \subseteq Nat /\ {p[1] : p \in bad} # {}
    BY <1>4 DEF bad, ps
  <2>2. QED
    BY <2>1, NatLessThanWellFounded, WFMin, Zenon
<1>6. m \in Nat /\ \A n \in {p[1] : p \in bad} : ~(n < m)
  <2>1. {p[1] : p \in bad} \subseteq Nat
    BY DEF bad, ps
  <2>2. QED
    BY <1>5, <2>1, Zenon DEF OpToRel
<1>7. \E p \in bad : Least(p)
  <2>1. PICK p \in bad : p[1] = m
    OBVIOUS
  <2>2. \A q \in bad : q[1] \in Nat /\ ~(q[1] < m)
    BY <1>6 DEF bad, ps
  <2>3. Least(p)
    BY <1>6, <2>1, <2>2 DEF Least
  <2>4. QED
    BY <2>1, <2>3
<1>8. (CHOOSE p \in bad : Least(p))[2].tag # "ok"
  BY <1>7 DEF bad
<1>9. QED
  BY <1>3, <1>4, <1>8

(***************************************************************************)
(* from_str returns Ok only when parse_general_section did: the sections   *)
(* are the results of a loop that stops at the first failure, and the      *)
(* general section comes first.                                            *)
(***************************************************************************)
LEMMA FromStrGeneralOk ==
    ASSUME NEW d, FromStr(d).tag = "ok"
    PROVE  ParseGeneral(d).tag = "ok"
<1> DEFINE V(v) == Validate([general |-> v[1], source |-> v[2], phases |-> v[3],
                             sink |-> v[4], aflnet |-> v[6], vanilla |-> v[9]])
<1>1. d # NoDocument
  BY DEF FromStr, Panic
<1> DEFINE rs == <<ParseGeneral(d),
                   ReqSection(d, "source", SourceAttrs, Keys(SourceAttrs)),
                   IF Index(d, "phases") = BadValue
                   THEN Ok([p \in DOMAIN PhaseAttrs |-> PhaseDefault[p]])
                   ELSE ParsePhases(Index(d, "phases")),
                   ReqSection(d, "sink", SinkAttrs, SinkKeys),
                   OptSection(d, "sink-cov", SinkCovAttrs),
                   OptSection(d, "afl-net", AflNetAttrs),
                   OptSection(d, "state-afl", StateAflAttrs),
                   OptSection(d, "sgfuzz", SgfuzzAttrs),
                   ReqSection(d, "vanilla", VanillaAttrs, Keys(VanillaAttrs))>>
<1>2. /\ DOMAIN rs = 1..9
      /\ rs[1] = ParseGeneral(d)
      /\ FromStr(d) = AndThen(FirstFailure(rs), V)
  <2>1. DOMAIN rs = 1..9 /\ rs[1] = ParseGeneral(d)
    BY DEF rs
  <2>2. FromStr(d) = AndThen(FirstFailure(rs), V)
    BY <1>1 DEF FromStr, rs, V
  <2>3. QED
    BY <2>1, <2>2
<1>3. AndThen(FirstFailure(rs), V)
        = IF FirstFailure(rs).tag = "ok" THEN V(FirstFailure(rs).val)
          ELSE FirstFailure(rs)
  BY DEF AndThen, Bind
<1>4. FirstFailure(rs).tag = "ok"
  BY <1>2, <1>3
<1>5. QED
  BY <1>2, <1>4, FirstFailureOk

(***************************************************************************)
(* parse_general_section returns Ok only after check_for_unparsed_keys has *)
(* found the document a mapping with no key outside its list.              *)
(***************************************************************************)
LEMMA GeneralOkKeys ==
    ASSUME NEW d, ParseGeneral(d).tag = "ok"
    PROVE  d.t = "hash" /\ DOMAIN d.v \subseteq GeneralKeys
<1> DEFINE ga == GetAttributes(GeneralAttrs, d)
           ck == CheckKeys(d, GeneralKeys)
           G(g) == IF (g["jail-uid"] = None) # (g["jail-gid"] = None) THEN Err("jail")
                   ELSE AndThen(ck, LAMBDA ok : Ok(g))
<1>1. ParseGeneral(d) = IF ga.tag = "ok" THEN G(ga.val) ELSE ga
  BY DEF ParseGeneral, AndThen, Bind
<1>2. G(ga.val).tag = "ok"
  BY <1>1
<1>3. AndThen(ck, LAMBDA ok : Ok(ga.val)) = IF ck.tag = "ok" THEN Ok(ga.val) ELSE ck
  BY DEF AndThen, Bind
<1>4. ck.tag = "ok"
  BY <1>2, <1>3 DEF Err
<1>5. QED
  BY <1>4 DEF CheckKeys, Panic, Err

(* The keys parse_general_section allows are top-level keys of spec 6.     *)
LEMMA GeneralKeysInSpec == GeneralKeys \subseteq SpecTopKeys
BY DEF GeneralKeys, Keys, GeneralAttrs, Req, Opt, SpecTopKeys

(***************************************************************************)
(* For every document, from_str rejects a mapping with a top-level key     *)
(* outside spec 6's list, wherever the key sits and whatever else the      *)
(* document holds: parse_general_section checks the top-level keys.        *)
(***************************************************************************)
THEOREM UnknownTopKeysRejected == Spec => []RejectsUnknownTopKeys
<1>1. Init => RejectsUnknownTopKeys
  BY DEF Init, RejectsUnknownTopKeys
<1>2. RejectsUnknownTopKeys /\ [Next]_vars => RejectsUnknownTopKeys'
  <2> SUFFICES ASSUME RejectsUnknownTopKeys, [Next]_vars
               PROVE  RejectsUnknownTopKeys'
    OBVIOUS
  <2>1. CASE Parse
    <3> SUFFICES ASSUME FromStr(doc).tag = "ok"
                 PROVE  DOMAIN doc.v \subseteq SpecTopKeys
      BY <2>1 DEF Parse, RejectsUnknownTopKeys
    <3>1. DOMAIN doc.v \subseteq GeneralKeys
      BY FromStrGeneralOk, GeneralOkKeys
    <3>2. QED
      BY <3>1, GeneralKeysInSpec
  <2>2. CASE UNCHANGED vars
    BY <2>2 DEF vars, RejectsUnknownTopKeys
  <2>3. QED
    BY <2>1, <2>2 DEF Next
<1>3. QED
  BY <1>1, <1>2, PTL DEF Spec

=============================================================================
