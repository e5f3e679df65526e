----------------------------- MODULE MatchField -----------------------------
(***************************************************************************)
(* encodeField of tableentry/builder.go: a match value given by the        *)
(* caller becomes a match of a table entry, or is left out of it because   *)
(* it matches everything, or is refused. It works on the codec's byte      *)
(* strings; the inputs are those of the Codec module with the kind of the  *)
(* field and the kind of the value added.                                  *)
(***************************************************************************)
EXTENDS Codec

\* Kinds of fields. A match value is of one of them; an OptionalMatch may hold
\* nil instead of a byte string.
MatchTypes == {"EXACT", "LPM", "TERNARY", "RANGE", "OPTIONAL"}
NilOptional == "OPTIONAL nil"

VARIABLES matchType, given

mvars == <<cvars, matchType, given>>

Refused == [out |-> "error", a |-> <<>>, b |-> <<>>, len |-> 0]
Omitted == [Refused EXCEPT !.out = "omit"]
Match(a, b, len) == [out |-> "match", a |-> a, b |-> b, len |-> len]

AllZero(b) == \A i \in DOMAIN b : b[i] = 0

\* Canonical ends of a range that spans the whole field.
IsFullRange(low, high, w) ==
  /\ AllZero(low) /\ Len(high) = ((w - 1) \div ByteBits) + 1
  /\ high[1] = IF w % ByteBits # 0 THEN Pow2[w % ByteBits] - 1 ELSE Base - 1
  /\ \A i \in 2..Len(high) : high[i] = Base - 1

EncodeExact(v, w) ==
  IF EncodeBytes(v, w) = Error THEN Refused ELSE Match(EncodeBytes(v, w), <<>>, 0)

EncodeLPM(v, p, w) ==
  IF p = 0 THEN Omitted
  ELSE IF LPMMask(v, p, w) = Error THEN Refused
  ELSE Match(LPMMask(v, p, w), <<>>, p)

MutEncodeTernary(v, m, w) ==
  IF AllZero(m) THEN Omitted
  ELSE IF TernaryApply(v, m, w) = Error THEN Refused
  ELSE Match(EncodeBytes(v, w), EncodeBytes(m, w), 0)
EncodeTernary(v, m, w) ==
  IF AllZero(m) THEN Omitted
  ELSE IF TernaryApply(v, m, w) = Error THEN Refused
  ELSE Match(TernaryApply(v, m, w), EncodeBytes(m, w), 0)

EncodeRange(l, h, w) ==
  IF ~ValidateRange(l, h, w) THEN Refused
  ELSE IF IsFullRange(EncodeBytes(l, w), EncodeBytes(h, w), w) THEN Omitted
  ELSE Match(EncodeBytes(l, w), EncodeBytes(h, w), 0)

EncodeField ==
  CASE given = "EXACT" /\ matchType = "EXACT" -> EncodeExact(value, width)
    [] given = "LPM" /\ matchType = "LPM" -> EncodeLPM(value, prefix, width)
    [] given = "TERNARY" /\ matchType = "TERNARY" -> EncodeTernary(value, second, width)
    [] given = "RANGE" /\ matchType = "RANGE" -> EncodeRange(value, second, width)
    [] given = NilOptional /\ matchType = "OPTIONAL" -> Omitted
    [] given = "OPTIONAL" /\ matchType = "OPTIONAL" -> EncodeExact(value, width)
    [] OTHER -> Refused

MatchInit ==
  /\ CodecInit
  /\ matchType \in MatchTypes /\ given \in MatchTypes \cup {NilOptional}

\* The inputs a value of the given kind has.
MatchNext ==
  /\ \/ given # NilOptional /\ GrowValue
     \/ given \in {"TERNARY", "RANGE"} /\ GrowSecond
     \/ given = "LPM" /\ Lengthen
     \/ Widen
  /\ UNCHANGED <<matchType, given>>

MatchSpec == MatchInit /\ [][MatchNext]_mvars

-----------------------------------------------------------------------------
(* Properties *)

\* Whether a field holding x matches what the caller gave, and what was encoded.
Wanted(x) ==
  CASE given \in {"EXACT", "OPTIONAL"} -> x = ValueOf(value)
    [] given = "LPM" -> x \div Pow2[width - prefix] = ValueOf(value) \div Pow2[width - prefix]
    [] given = "TERNARY" -> \A i \in 0..width - 1 :
         BitOf(ValueOf(second), i) = 1 => BitOf(x, i) = BitOf(ValueOf(value), i)
    [] given = "RANGE" -> ValueOf(value) <= x /\ x <= ValueOf(second)
    [] OTHER -> TRUE

Encoded(m, x) ==
  CASE m.out = "omit" -> TRUE
    [] given \in {"EXACT", "OPTIONAL"} -> x = ValueOf(m.a)
    [] given = "LPM" -> x \div Pow2[width - m.len] = ValueOf(m.a) \div Pow2[width - m.len]
    [] given = "TERNARY" -> \A i \in 0..width - 1 :
         BitOf(x, i) * BitOf(ValueOf(m.b), i) = BitOf(ValueOf(m.a), i)
    [] OTHER -> ValueOf(m.a) <= x /\ x <= ValueOf(m.b)

FieldValues == 0..Pow2[width] - 1

\* What the caller gave is a match of the field's kind. (A byte string that does
\* not fit goes unnoticed where the rest of the match alone is everything.)
Sensible ==
  CASE given \in {"EXACT", "OPTIONAL"} -> Fits(value)
    [] given = "LPM" -> prefix = 0 \/ (Fits(value) /\ prefix \in 1..width)
    [] given = "TERNARY" -> AllZero(second) \/ (Fits(value) /\ Fits(second))
    [] given = "RANGE" -> Fits(value) /\ Fits(second) /\ ValueOf(value) <= ValueOf(second)
    [] OTHER -> TRUE

\* A match is refused exactly when it makes no sense for the field. Otherwise it
\* is left out of the entry exactly when it matches every value of the field,
\* and one that is encoded matches the values the caller's matches, in the form
\* P4Runtime asks for: canonical, no bits outside mask or prefix.
FieldExact ==
  LET m == EncodeField IN
  /\ m.out # "error" <=> (given = matchType \/ (given = NilOptional /\ matchType = "OPTIONAL"))
                           /\ Sensible
  /\ m.out = "match" => /\ \A x \in FieldValues : Encoded(m, x) <=> Wanted(x)
                        /\ m.a = StripLeadingZeros(m.a) /\ Fits(m.a)
  /\ m.out = "omit" /\ Fits(value) => \A x \in FieldValues : Wanted(x)
  /\ m.out = "match" /\ given \notin {"EXACT", "OPTIONAL"} =>
       \E x \in FieldValues : ~Encoded(m, x)
=============================================================================
