-------------------------- MODULE RegisterNumeric --------------------------
(***************************************************************************)
(* register/numeric.go: the byte strings of bit<W> and int<W> values in    *)
(* register data. An int<W> is in two's complement, its sign in the top    *)
(* bit of its first byte.                                                  *)
(***************************************************************************)
EXTENDS Codec

\* bit<0> has one value.
UnsignedBytes(b, w) ==
  IF w < 0 THEN Error
  ELSE IF w = 0 THEN IF \E i \in DOMAIN b : b[i] # 0 THEN Error ELSE <<0>>
  ELSE EncodeBytes(b, w)

Negative(byte) == byte >= Base \div 2

\* The first byte only repeats the sign of the second.
Redundant(b, i) ==
  \/ b[i] = 0 /\ ~Negative(b[i + 1])
  \/ b[i] = Base - 1 /\ Negative(b[i + 1])

\* The loop drops the longest run of such bytes and leaves at least one byte.
StripSign(b) ==
  LET kept == {i \in 1..Len(b) : i = Len(b) \/ ~Redundant(b, i)}
  IN  SubSeq(b, Min(kept), Len(b))

\* bits of a byte up to its highest one
BitLen(byte) == Min({n \in 0..ByteBits : byte < Pow2[n]})

\* The first byte, with the sign taken out, has to leave room for a sign bit.
SignedBits(byte) == 1 + BitLen(IF Negative(byte) THEN Base - 1 - byte ELSE byte)

MutFitsSigned(v, w) ==
  /\ Len(v) - 1 <= (w - 1) \div ByteBits
  /\ BitLen(v[1]) <= w - (Len(v) - 1) * ByteBits
FitsSigned(v, w) ==
  /\ Len(v) - 1 <= (w - 1) \div ByteBits
  /\ SignedBits(v[1]) <= w - (Len(v) - 1) * ByteBits

SignedOrError(v, w) == IF FitsSigned(v, w) THEN v ELSE Error
SignedBytes(b, w) ==
  IF w <= 0 THEN Error ELSE IF b = <<>> THEN <<0>> ELSE SignedOrError(StripSign(b), w)

-----------------------------------------------------------------------------
(* Properties *)

\* The number a byte string stands for in two's complement.
SignedOf(b) ==
  IF b # <<>> /\ Negative(b[1]) THEN ValueOf(b) - Pow2[ByteBits * Len(b)] ELSE ValueOf(b)

\* signedBytes refuses exactly the numbers outside int<W>, the asymmetric ends of
\* the range included, and returns the shortest string that reads back as the
\* same signed number; unsignedBytes refuses exactly the numbers outside bit<W>,
\* where bit<0> holds 0 alone.
SignedExact ==
  LET n == SignedOf(value)
      s == SignedBytes(value, width)
      u == UnsignedBytes(value, width)
  IN  /\ s # Error <=> width > 0 /\ -Pow2[width - 1] <= n /\ n < Pow2[width - 1]
      /\ s # Error => /\ SignedOf(s) = n
                      /\ \A i \in 2..Len(s) : SignedOf(SubSeq(s, i, Len(s))) # n
      /\ u # Error <=> width >= 0 /\ ValueOf(value) < Pow2[width]
      /\ u # Error => CanonicalOf(u, ValueOf(value))
=============================================================================
