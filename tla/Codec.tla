------------------------------- MODULE Codec -------------------------------
(***************************************************************************)
(* internal/codec/codec.go: canonical byte strings of P4Runtime integers.  *)
(*                                                                         *)
(* A byte string is a sequence of bytes, most significant first. A byte    *)
(* has ByteBits bits, 8 in the code: with fewer bits every alignment of a  *)
(* field against its bytes can be enumerated. An error is the empty        *)
(* string, which no function returns otherwise. The parsing of textual     *)
(* addresses is left out.                                                  *)
(*                                                                         *)
(* The state is the input of a call. It grows a bit or a byte at a time,   *)
(* and the properties say what each function returns for it. The MatchField*)
(* module, the codec's main caller, says which parts grow together.        *)
(***************************************************************************)
EXTENDS Powers, Sequences, FiniteSetsExt

CONSTANTS
  ByteBits,  \* bits of a byte
  MaxBytes,  \* longest byte string
  MaxWidth   \* widest field

ASSUME CodecAssumption == ByteBits \in Nat \ {0} /\ MaxBytes \in Nat /\ MaxWidth \in Nat

Base == Pow2[ByteBits]
Byte == 0..Base - 1
WordBytes == 8  \* bytes of a uint64
Error == <<>>

ByteLen(w) == (w + ByteBits - 1) \div ByteBits

StripLeadingZeros(b) ==
  LET nonzero == {i \in DOMAIN b : b[i] # 0}
  IN  IF nonzero = {} THEN <<0>> ELSE SubSeq(b, Min(nonzero), Len(b))

\* Refused if it is longer than the width allows, or as long with bits of the
\* top byte outside the width.
MutEncodeBytes(b, w) ==
  LET sig == StripLeadingZeros(b)
  IN  IF \/ w <= 0 \/ Len(sig) > ByteLen(w)
         \/ Len(sig) = ByteLen(w) /\ sig[1] \div Pow2[w % ByteBits] # 0
      THEN Error ELSE sig
EncodeBytes(b, w) ==
  LET sig == StripLeadingZeros(b)
      leading == w % ByteBits
  IN  IF \/ w <= 0 \/ Len(sig) > ByteLen(w)
         \/ Len(sig) = ByteLen(w) /\ leading # 0 /\ sig[1] \div Pow2[leading] # 0
      THEN Error ELSE sig

EncodeUint(v, w) ==
  IF \/ w <= 0 \/ w > WordBytes * ByteBits
     \/ w < WordBytes * ByteBits /\ v >= Pow2[w]
  THEN Error
  ELSE StripLeadingZeros([i \in 1..WordBytes |-> (v \div Pow2[ByteBits * (WordBytes - i)]) % Base])

\* Each byte is shifted in from the right of a uint64; a longer string is an
\* error.
ShiftIn(b) ==
  LET v[i \in 0..Len(b)] == IF i = 0 THEN 0 ELSE v[i - 1] * Base + b[i] IN v
DecodeUint(b) == IF Len(b) > WordBytes THEN -1 ELSE ShiftIn(b)[Len(b)]

\* The bits still to be cleared when the loop comes to byte i from the end.
MutClearLowBits(b, count) ==
  [i \in DOMAIN b |->
     LET rest == count - ByteBits * (Len(b) - i)
     IN  IF rest > 0 THEN 0 ELSE b[i]]
ClearLowBits(b, count) ==
  [i \in DOMAIN b |->
     LET rest == count - ByteBits * (Len(b) - i)
     IN  IF rest >= ByteBits THEN 0
         ELSE IF rest > 0 THEN b[i] - (b[i] % Pow2[rest]) ELSE b[i]]

ValidPrefix(p, w) == w > 0 /\ p \in 0..w

LPMMask(b, p, w) ==
  LET v == EncodeBytes(b, w)
  IN  IF ~ValidPrefix(p, w) \/ v = Error THEN Error
      ELSE StripLeadingZeros(ClearLowBits(v, w - p))

TernaryMask(p, w) ==
  IF ~ValidPrefix(p, w) THEN Error
  ELSE IF p = 0 THEN <<0>>
  ELSE LET ones == [i \in 1..ByteLen(w) |->
                      IF i = 1 /\ w % ByteBits # 0 THEN Pow2[w % ByteBits] - 1 ELSE Base - 1]
       IN  StripLeadingZeros(ClearLowBits(ones, w - p))

\* Bit i of a number, and the bits two bytes have in common.
BitOf(n, i) == (n \div Pow2[i]) % 2
AndBits(x, y) ==
  LET sum[k \in 0..ByteBits] ==
        IF k = 0 THEN 0 ELSE sum[k - 1] + BitOf(x, k - 1) * BitOf(y, k - 1) * Pow2[k - 1]
  IN  sum
And(x, y) == AndBits(x, y)[ByteBits]

\* Value and mask are aligned at their ends.
TernaryApply(b, m, w) ==
  LET v == EncodeBytes(b, w)
      k == EncodeBytes(m, w)
  IN  IF v = Error \/ k = Error THEN Error
      ELSE StripLeadingZeros(
             [i \in DOMAIN v |->
                LET j == i + Len(k) - Len(v) IN IF j < 1 THEN 0 ELSE And(v[i], k[j])])

\* bytes.Compare(a, b) > 0, for strings of one length.
Greater(a, b) ==
  \E i \in DOMAIN a : a[i] > b[i] /\ \A j \in 1..i - 1 : a[j] = b[j]

ValidateRange(l, h, w) ==
  LET low == EncodeBytes(l, w)
      high == EncodeBytes(h, w)
  IN  /\ low # Error /\ high # Error
      /\ Len(low) < Len(high) \/ (Len(low) = Len(high) /\ ~Greater(low, high))

-----------------------------------------------------------------------------
VARIABLES
  value,   \* a byte string, perhaps with leading zeros
  second,  \* another: a mask or the upper end of a range
  width,   \* a bit width, perhaps not positive
  prefix   \* a prefix length, perhaps out of range

cvars == <<value, second, width, prefix>>

CodecInit == value = <<>> /\ second = <<>> /\ width = 0 /\ prefix = -1

GrowValue == /\ Len(value) < MaxBytes /\ \E x \in Byte : value' = Append(value, x)
             /\ UNCHANGED <<second, width, prefix>>
GrowSecond == /\ Len(second) < MaxBytes /\ \E x \in Byte : second' = Append(second, x)
              /\ UNCHANGED <<value, width, prefix>>
Widen == width < MaxWidth /\ width' = width + 1 /\ UNCHANGED <<value, second, prefix>>
Lengthen == prefix <= MaxWidth /\ prefix' = prefix + 1 /\ UNCHANGED <<value, second, width>>

-----------------------------------------------------------------------------
(* Properties *)

\* The numbers the ends of a byte string stand for, a place at a time, and the
\* number the string stands for.
Places(b) ==
  LET sum[k \in 0..Len(b)] ==
        IF k = 0 THEN 0 ELSE sum[k - 1] + b[Len(b) - k + 1] * Pow2[ByteBits * (k - 1)]
  IN  sum
ValueOf(b) == Places(b)[Len(b)]

FitsWidth(b, w) == w > 0 /\ ValueOf(b) < Pow2[w]
Fits(b) == FitsWidth(b, width)

\* The one canonical string of the number n.
CanonicalOf(b, n) ==
  /\ b # Error /\ ValueOf(b) = n
  /\ b[1] # 0 \/ Len(b) = 1

\* EncodeBytes refuses exactly the values that do not fit the width, wherever
\* the width's top bit lies in its byte, and returns the canonical string of the
\* others; EncodeUint does the same for the numbers of a uint64 and the widths
\* up to its own, and DecodeUint undoes both.
EncodingExact ==
  LET n == ValueOf(value) IN
  /\ IF Fits(value) THEN CanonicalOf(EncodeBytes(value, width), n)
                    ELSE EncodeBytes(value, width) = Error
  /\ Len(value) <= WordBytes =>
       /\ EncodeUint(n, width) = IF width <= WordBytes * ByteBits
                                 THEN EncodeBytes(value, width) ELSE Error
       /\ DecodeUint(value) = n

\* LPMMask keeps exactly the prefix bits of the field, counted from the field's
\* top bit and not from the top of its first byte, and TernaryMask is the mask
\* of those bits.
PrefixExact ==
  LET unit == Pow2[width - prefix] IN
  /\ IF Fits(value) /\ prefix \in 0..width
     THEN CanonicalOf(LPMMask(value, prefix, width), (ValueOf(value) \div unit) * unit)
     ELSE LPMMask(value, prefix, width) = Error
  /\ IF width > 0 /\ prefix \in 0..width
     THEN CanonicalOf(TernaryMask(prefix, width), Pow2[width] - unit)
     ELSE TernaryMask(prefix, width) = Error
=============================================================================
