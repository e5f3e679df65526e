--------------------------- MODULE NumericProofs ----------------------------
(***************************************************************************)
(* Proofs about numbers and the values made of them: election IDs of any   *)
(* width, reconnection delays of any range, the byte strings of the codec, *)
(* of match fields, packet metadata and register numbers, for bytes of any *)
(* number of bits, strings of any length and fields of any width, and      *)
(* register data for any types of a P4Info and values of any depth.        *)
(***************************************************************************)
EXTENDS ElectionID, Backoff, MatchField, RegisterData, PacketIO,
        WellFoundedInduction, FiniteSetTheorems, TLAPS

-----------------------------------------------------------------------------
(* Election IDs *)

\* A larger high half outweighs any low half.
LEMMA HighWins ==
  ASSUME NEW a \in Word, NEW b \in Word, NEW c \in Word, NEW d \in Word, a < b
  PROVE  a * Half + c < b * Half + d
<1>1. (b - a) \in Nat /\ b - a >= 1 /\ Half \in Nat /\ Half >= 1 /\ c < Half
  BY HalfAssumption DEF Word
<1>2. (b - a) * Half >= Half
  <2>. DEFINE k == b - a
  <2>1. k \in Nat /\ k >= 1 BY <1>1
  <2>. HIDE DEF k
  <2>2. k * Half = Half + (k - 1) * Half /\ (k - 1) * Half >= 0 BY <1>1, <2>1
  <2>3. k * Half >= Half BY <1>1, <2>1, <2>2
  <2>. QED BY <2>3 DEF k
<1>3. b * Half = a * Half + (b - a) * Half BY <1>1 DEF Word
<1>4. a * Half \in Nat /\ b * Half \in Nat /\ (b - a) * Half \in Nat BY <1>1 DEF Word
<1>. QED BY <1>1, <1>2, <1>3, <1>4 DEF Word

\* The order of the IDs is the order of their numbers.
LEMMA LessIsOrder ==
  ASSUME NEW e \in ID, NEW f \in ID
  PROVE  /\ Less(e, f) <=> BigInt(e) < BigInt(f)
         /\ Equal(e, f) <=> BigInt(e) = BigInt(f)
         /\ BigInt(e) \in Nat
<1>1. e.High \in Word /\ e.Low \in Word /\ f.High \in Word /\ f.Low \in Word BY DEF ID
<1>2. e.High \in Nat /\ e.Low \in Nat /\ f.High \in Nat /\ f.Low \in Nat /\ Half \in Nat
  BY <1>1, HalfAssumption DEF Word
<1>3. e.High * Half \in Nat /\ f.High * Half \in Nat BY <1>2
<1>4. BigInt(e) \in Nat /\ BigInt(f) \in Nat BY <1>2, <1>3 DEF BigInt
<1>5. CASE e.High = f.High
  <2>. DEFINE h == e.High * Half
  <2>1. h \in Nat /\ BigInt(e) = h + e.Low /\ BigInt(f) = h + f.Low
    BY <1>3, <1>5 DEF BigInt
  <2>. HIDE DEF h
  <2>2. e.Low < f.Low <=> BigInt(e) < BigInt(f) BY <1>2, <2>1
  <2>3. e.Low = f.Low <=> BigInt(e) = BigInt(f) BY <1>2, <2>1
  <2>. QED BY <1>4, <1>5, <2>2, <2>3 DEF Less, Equal
<1>6. CASE e.High < f.High
  <2>1. BigInt(e) < BigInt(f) BY <1>1, <1>6, HighWins DEF BigInt
  <2>. QED BY <1>2, <1>4, <1>6, <2>1 DEF Less, Equal
<1>7. CASE f.High < e.High
  <2>1. BigInt(f) < BigInt(e) BY <1>1, <1>7, HighWins DEF BigInt
  <2>. QED BY <1>2, <1>4, <1>7, <2>1 DEF Less, Equal
<1>. QED BY <1>2, <1>5, <1>6, <1>7

\* Increment stays among the IDs, and adds one unless it refuses, which it does
\* when there is no larger ID.
LEMMA IncrementAdds ==
  ASSUME NEW e \in ID
  PROVE  /\ Increment(e).id \in ID
         /\ Increment(e).id # e => BigInt(Increment(e).id) = BigInt(e) + 1
         /\ Increment(e).ok <=> Increment(e).id # e
         /\ Increment(e).ok <=> \E f \in ID : BigInt(f) > BigInt(e)
<1>1. e.High \in Word /\ e.Low \in Word /\ e = [High |-> e.High, Low |-> e.Low] BY DEF ID
<1>2. e.High \in Nat /\ e.Low \in Nat /\ Half \in Nat /\ Half >= 1
  BY <1>1, HalfAssumption DEF Word
<1>3. e.High * Half \in Nat /\ (e.High + 1) * Half = e.High * Half + Half BY <1>2
<1>4. CASE e.Low = Half - 1 /\ e.High = Half - 1
  <2>1. Increment(e).id = e /\ ~Increment(e).ok BY <1>4 DEF Increment
  <2>2. ASSUME NEW f \in ID PROVE ~(BigInt(f) > BigInt(e))
    <3>1. f.High \in Nat /\ f.Low \in Nat /\ f.High <= Half - 1 /\ f.Low <= Half - 1
      BY <1>2 DEF ID, Word
    <3>2. ~Less(e, f) BY <1>2, <1>4, <3>1 DEF Less
    <3>3. BigInt(e) \in Nat /\ BigInt(f) \in Nat /\ ~(BigInt(e) < BigInt(f)) BY <3>2, LessIsOrder
    <3>. QED BY <3>3
  <2>. QED BY <2>1, <2>2
<1>5. CASE e.Low = Half - 1 /\ e.High # Half - 1
  <2>1. Increment(e).id = [High |-> e.High + 1, Low |-> 0] /\ Increment(e).ok
    BY <1>5 DEF Increment
  <2>2. e.High + 1 \in Word /\ 0 \in Word BY <1>1, <1>2, <1>5 DEF Word
  <2>3. Increment(e).id \in ID /\ BigInt(Increment(e).id) = BigInt(e) + 1
    BY <1>2, <1>3, <1>5, <2>1, <2>2 DEF ID, BigInt
  <2>4. BigInt(e) \in Nat BY LessIsOrder
  <2>. QED BY <2>1, <2>3, <2>4
<1>6. CASE e.Low # Half - 1
  <2>1. Increment(e).id = [High |-> e.High, Low |-> e.Low + 1] /\ Increment(e).ok
    BY <1>6 DEF Increment
  <2>2. e.Low + 1 \in Word BY <1>1, <1>2, <1>6 DEF Word
  <2>3. Increment(e).id \in ID /\ BigInt(Increment(e).id) = BigInt(e) + 1
    BY <1>1, <1>2, <1>3, <2>1, <2>2 DEF ID, BigInt
  <2>4. BigInt(e) \in Nat BY LessIsOrder
  <2>. QED BY <2>1, <2>3, <2>4
<1>. QED BY <1>4, <1>5, <1>6

\* The comparison of electionid.go is that of 128-bit numbers, whatever the
\* width of a half and however often IDs are raised.
THEOREM OrderCorrect == IDSpec => []OrderExact
<1>. DEFINE Typed == mine \in ID /\ theirs \in ID
<1>1. IDInit => Typed BY DEF IDInit
<1>2. Typed /\ [IDNext]_idVars => Typed'
  BY IncrementAdds DEF IDNext, Raise, RaiseTheirs, idVars
<1>3. Typed => OrderExact
  <2>1. SUFFICES ASSUME Typed PROVE OrderExact OBVIOUS
  <2>2. /\ Less(mine, theirs) <=> BigInt(mine) < BigInt(theirs)
        /\ Equal(mine, theirs) <=> BigInt(mine) = BigInt(theirs)
        /\ BigInt(mine) \in Nat /\ BigInt(theirs) \in Nat
    BY <2>1, LessIsOrder
  <2>3. IsZero(mine) <=> BigInt(mine) = 0
    <3>1. mine.High \in Nat /\ mine.Low \in Nat /\ Half \in Nat /\ Half >= 1
      BY <2>1, HalfAssumption DEF ID, Word
    <3>. DEFINE h == mine.High * Half
    <3>2. h \in Nat /\ (mine.High >= 1 => h >= 1) /\ (mine.High = 0 => h = 0) BY <3>1
    <3>3. BigInt(mine) = h + mine.Low BY DEF BigInt
    <3>. HIDE DEF h
    <3>. QED BY <3>1, <3>2, <3>3 DEF IsZero
  <2>4. Cmp(mine, theirs) = IF BigInt(mine) < BigInt(theirs) THEN -1
                            ELSE IF BigInt(mine) = BigInt(theirs) THEN 0 ELSE 1
    BY <2>2 DEF Cmp
  <2>. QED BY <2>1, <2>2, <2>3, <2>4 DEF OrderExact
<1>. QED BY <1>1, <1>2, <1>3, PTL DEF IDSpec

\* Raising an election ID adds one, is refused only for the largest one and never
\* rolls over, for halves of any width.
THEOREM RaisingNeverWraps == IDSpec => NeverWraps
<1>. DEFINE Typed == mine \in ID /\ theirs \in ID
<1>1. IDInit => Typed BY DEF IDInit
<1>2. Typed /\ [IDNext]_idVars => Typed'
  BY IncrementAdds DEF IDNext, Raise, RaiseTheirs, idVars
<1>3. Typed /\ [IDNext]_idVars =>
        [/\ mine' # mine => BigInt(mine') = BigInt(mine) + 1 /\ Less(mine, mine')
         /\ Increment(mine).ok <=> \E e \in ID : BigInt(e) > BigInt(mine)
         /\ Increment(mine).ok <=> Increment(mine).id # mine]_idVars
  <2>1. ASSUME Typed, IDNext, mine' # mine
        PROVE  BigInt(mine') = BigInt(mine) + 1 /\ Less(mine, mine')
    <3>1. mine' = Increment(mine).id BY <2>1 DEF IDNext, Raise, RaiseTheirs
    <3>2. mine' \in ID /\ BigInt(mine') = BigInt(mine) + 1 BY <2>1, <3>1, IncrementAdds
    <3>. QED BY <2>1, <3>2, LessIsOrder
  <2>2. ASSUME Typed
        PROVE  /\ Increment(mine).ok <=> \E e \in ID : BigInt(e) > BigInt(mine)
               /\ Increment(mine).ok <=> Increment(mine).id # mine
    BY <2>2, IncrementAdds
  <2>. QED BY <2>1, <2>2 DEF idVars
<1>. QED BY <1>1, <1>2, <1>3, PTL DEF IDSpec, NeverWraps

-----------------------------------------------------------------------------
(* Induction and recursive functions *)

\* A set of numbers that is not empty has a least one.
LEMMA LeastNat ==
  ASSUME NEW T, T \subseteq Nat, T # {} PROVE \E n \in T : \A m \in T : n <= m
<1>1. PICK n \in T : \A m \in T : ~(<<m, n>> \in OpToRel(<, Nat))
  BY NatLessThanWellFounded, WFMin
<1>2. \A m \in T : <<m, n>> \in OpToRel(<, Nat) <=> m < n
  BY DEF OpToRel
<1>3. n \in Nat /\ \A m \in T : m \in Nat /\ ~(m < n) BY <1>1, <1>2
<1>. QED BY <1>3

\* Induction, for a property given as a set.
LEMMA SetInduction ==
  ASSUME NEW S, 0 \in S, \A n \in Nat : n \in S => n + 1 \in S
  PROVE  \A n \in Nat : n \in S
<1>1. SUFFICES ASSUME Nat \ S # {} PROVE FALSE OBVIOUS
<1>2. PICK n \in Nat \ S : \A m \in Nat \ S : n <= m BY <1>1, LeastNat
<1>3. n # 0 /\ n - 1 \in Nat OBVIOUS
<1>4. n - 1 \in S BY <1>2, <1>3
<1>5. (n - 1) + 1 \in S BY <1>3, <1>4
<1>. QED BY <1>3, <1>5

\* f starts with z, and g says how each value yields the next.
Follows(f, z, g) == f[0] = z /\ \A n \in Nat : f[n + 1] = g[n][f[n]]

\* A sequence of values is determined by the first and by how each yields the
\* next.
LEMMA Recursion ==
  ASSUME NEW T, NEW z \in T, NEW g \in [Nat -> [T -> T]]
  PROVE  \E f \in [Nat -> T] : Follows(f, z, g)
<1>. DEFINE Upto(f, n) == f[0] = z /\ \A i \in Nat : i < n => f[i + 1] = g[i][f[i]]
            S == {n \in Nat : \E f \in [Nat -> T] : Upto(f, n)}
<1>1. \A n \in Nat : n \in S
  <2>1. 0 \in S
    <3>1. [i \in Nat |-> z] \in [Nat -> T] /\ Upto([i \in Nat |-> z], 0) OBVIOUS
    <3>. QED BY <3>1
  <2>2. ASSUME NEW n \in Nat, n \in S PROVE n + 1 \in S
    <3>1. PICK f \in [Nat -> T] : Upto(f, n) BY <2>2
    <3>. DEFINE h == [i \in Nat |-> IF i = n + 1 THEN g[n][f[n]] ELSE f[i]]
    <3>2. g[n][f[n]] \in T OBVIOUS
    <3>3. h \in [Nat -> T] BY <3>2
    <3>4. Upto(h, n + 1)
      <4>1. h[0] = z BY <3>1
      <4>2. ASSUME NEW i \in Nat, i < n + 1 PROVE h[i + 1] = g[i][h[i]]
        <5>1. h[i] = f[i] BY <4>2
        <5>2. CASE i = n BY <5>1, <5>2
        <5>3. CASE i < n
          <6>1. h[i + 1] = f[i + 1] BY <5>3
          <6>. QED BY <3>1, <5>1, <5>3, <6>1
        <5>. QED BY <4>2, <5>2, <5>3
      <4>. QED BY <4>1, <4>2
    <3>. HIDE DEF h, Upto
    <3>. QED BY <3>3, <3>4
  <2>. HIDE DEF S
  <2>. QED BY <2>1, <2>2, SetInduction
<1>2. ASSUME NEW f \in [Nat -> T], NEW h \in [Nat -> T], NEW n \in Nat, NEW m \in Nat,
             Upto(f, n), Upto(h, m)
      PROVE  \A k \in Nat : k <= n /\ k <= m => f[k] = h[k]
  <2>. DEFINE R == {k \in Nat : k <= n /\ k <= m => f[k] = h[k]}
  <2>1. 0 \in R BY <1>2
  <2>2. ASSUME NEW k \in Nat, k \in R PROVE k + 1 \in R
    <3>1. SUFFICES ASSUME k + 1 <= n, k + 1 <= m PROVE f[k + 1] = h[k + 1] OBVIOUS
    <3>2. f[k] = h[k] BY <2>2, <3>1
    <3>. QED BY <1>2, <3>1, <3>2
  <2>3. \A k \in Nat : k \in R
    <3>. HIDE DEF R
    <3>. QED BY <2>1, <2>2, SetInduction
  <2>. QED BY <2>3
<1>. DEFINE c(n) == CHOOSE f \in [Nat -> T] : Upto(f, n)
            F == [n \in Nat |-> c(n)[n]]
<1>3. \A n \in Nat : c(n) \in [Nat -> T] /\ Upto(c(n), n)
  <2>. TAKE n \in Nat
  <2>1. \E f \in [Nat -> T] : Upto(f, n) BY <1>1
  <2>. HIDE DEF Upto
  <2>. QED BY <2>1
<1>4. F \in [Nat -> T] 
  <2>. HIDE DEF c
  <2>. QED BY <1>3
<1>5. F[0] = z
  <2>1. c(0)[0] = z BY <1>3
  <2>. HIDE DEF c
  <2>. QED BY <2>1
<1>6. ASSUME NEW n \in Nat PROVE F[n + 1] = g[n][F[n]]
  <2>. HIDE DEF c
  <2>1. Upto(c(n), n) /\ Upto(c(n + 1), n + 1) /\ c(n) \in [Nat -> T] /\ c(n + 1) \in [Nat -> T]
    <3>. HIDE DEF Upto
    <3>1. n + 1 \in Nat OBVIOUS
    <3>. QED BY <1>3, <3>1
  <2>2. c(n)[n] = c(n + 1)[n]
    <3>. HIDE DEF Upto
    <3>. QED BY <2>1, <1>2
  <2>3. c(n + 1)[n + 1] = g[n][c(n + 1)[n]] BY <2>1
  <2>. QED BY <2>2, <2>3
<1>. HIDE DEF F
<1>. QED BY <1>4, <1>5, <1>6 DEF Follows

\* The same up to N.
FollowsUpTo(f, z, g, N) == f[0] = z /\ \A k \in 1..N : f[k] = g[k - 1][f[k - 1]]

\* The same for finitely many values.
LEMMA RecursionUpTo ==
  ASSUME NEW N \in Nat, NEW T, NEW z \in T, NEW g \in [0..N - 1 -> [T -> T]]
  PROVE  \E f \in [0..N -> T] : FollowsUpTo(f, z, g, N)
<1>. DEFINE h == [n \in Nat |-> IF n < N THEN g[n] ELSE [x \in T |-> x]]
<1>1. h \in [Nat -> [T -> T]] OBVIOUS
<1>2. \A n \in Nat : n < N => h[n] = g[n] OBVIOUS
<1>. HIDE DEF h
<1>3. PICK f \in [Nat -> T] : Follows(f, z, h) BY <1>1, Recursion
<1>. DEFINE e == [k \in 0..N |-> f[k]]
<1>4. e \in [0..N -> T] /\ e[0] = z BY <1>3 DEF Follows
<1>5. ASSUME NEW k \in 1..N PROVE e[k] = g[k - 1][e[k - 1]]
  <2>1. k - 1 \in Nat /\ k - 1 < N /\ (k - 1) + 1 = k OBVIOUS
  <2>2. f[k] = h[k - 1][f[k - 1]] BY <1>3, <2>1 DEF Follows
  <2>3. e[k] = f[k] /\ e[k - 1] = f[k - 1] BY <2>1
  <2>. QED BY <1>2, <2>1, <2>2, <2>3
<1>. HIDE DEF e
<1>. QED BY <1>4, <1>5 DEF FollowsUpTo

-----------------------------------------------------------------------------
(* Powers of two *)

\* Pow2 satisfies the equation it is defined by.
LEMMA Pow2Equation ==
  Pow2[0] = 1 /\ \A n \in Nat : Pow2[n + 1] = 2 * Pow2[n]
<1>. DEFINE g == [n \in Nat |-> [x \in Nat |-> 2 * x]]
<1>1. g \in [Nat -> [Nat -> Nat]] OBVIOUS
<1>2. \A n, x \in Nat : g[n][x] = 2 * x OBVIOUS
<1>. HIDE DEF g
<1>3. PICK f \in [Nat -> Nat] : Follows(f, 1, g) BY <1>1, Recursion
<1>4. f = [n \in Nat |-> IF n = 0 THEN 1 ELSE 2 * f[n - 1]]
  <2>1. ASSUME NEW n \in Nat PROVE f[n] = IF n = 0 THEN 1 ELSE 2 * f[n - 1]
    <3>1. CASE n = 0 BY <1>3, <3>1 DEF Follows
    <3>2. CASE n # 0
      <4>1. n - 1 \in Nat /\ (n - 1) + 1 = n BY <3>2
      <4>2. f[n] = g[n - 1][f[n - 1]] BY <1>3, <4>1 DEF Follows
      <4>. QED BY <1>2, <3>2, <4>1, <4>2
    <3>. QED BY <3>1, <3>2
  <2>. QED BY <2>1
<1>5. Pow2 = [n \in Nat |-> IF n = 0 THEN 1 ELSE 2 * Pow2[n - 1]]
  BY <1>4, Zenon DEF Pow2
<1>6. Pow2[0] = 1 BY <1>5
<1>7. ASSUME NEW n \in Nat PROVE Pow2[n + 1] = 2 * Pow2[n]
  <2>1. n + 1 \in Nat /\ n + 1 # 0 /\ (n + 1) - 1 = n OBVIOUS
  <2>2. Pow2[n + 1] = IF n + 1 = 0 THEN 1 ELSE 2 * Pow2[(n + 1) - 1] BY <1>5, <2>1
  <2>. QED BY <2>1, <2>2
<1>. QED BY <1>6, <1>7

\* A power of two is a positive number.
LEMMA Pow2Type == \A n \in Nat : Pow2[n] \in Nat /\ Pow2[n] >= 1
<1>. DEFINE S == {n \in Nat : Pow2[n] \in Nat /\ Pow2[n] >= 1}
<1>1. 0 \in S BY Pow2Equation
<1>2. \A n \in Nat : n \in S => n + 1 \in S BY Pow2Equation
<1>3. \A n \in Nat : n \in S
  <2>. HIDE DEF S
  <2>. QED BY <1>1, <1>2, SetInduction
<1>. QED BY <1>3

\* Powers of two multiply by adding exponents.
LEMMA Pow2Plus == \A m, n \in Nat : Pow2[m + n] = Pow2[m] * Pow2[n]
<1>. TAKE m \in Nat
<1>. DEFINE S == {n \in Nat : Pow2[m + n] = Pow2[m] * Pow2[n]}
<1>1. 0 \in S
  <2>1. m + 0 = m /\ Pow2[m] \in Nat /\ Pow2[0] = 1 BY Pow2Type, Pow2Equation
  <2>. QED BY <2>1
<1>2. ASSUME NEW n \in Nat, n \in S PROVE n + 1 \in S
  <2>1. Pow2[(m + n) + 1] = 2 * Pow2[m + n] /\ Pow2[n + 1] = 2 * Pow2[n] BY Pow2Equation
  <2>2. m + (n + 1) = (m + n) + 1 /\ n + 1 \in Nat OBVIOUS
  <2>3. Pow2[m + n] = Pow2[m] * Pow2[n] BY <1>2
  <2>4. Pow2[m] \in Nat /\ Pow2[n] \in Nat BY Pow2Type
  <2>5. \A x, y \in Nat : 2 * (x * y) = x * (2 * y) OBVIOUS
  <2>6. Pow2[m + (n + 1)] = Pow2[m] * Pow2[n + 1] BY <2>1, <2>2, <2>3, <2>4, <2>5
  <2>. QED BY <2>2, <2>6
<1>3. \A n \in Nat : n \in S
  <2>. HIDE DEF S
  <2>. QED BY <1>1, <1>2, SetInduction
<1>. QED BY <1>3

\* Multiplication is monotonic.
LEMMA TimesMonotonic ==
  \A x, y, z \in Nat : x <= y => x * z <= y * z /\ z * x <= z * y
<1>. SUFFICES ASSUME NEW x \in Nat, NEW y \in Nat, NEW z \in Nat, x <= y
              PROVE  x * z <= y * z /\ z * x <= z * y
  OBVIOUS
<1>1. y * z = x * z + (y - x) * z /\ (y - x) * z >= 0 OBVIOUS
<1>2. x * z \in Nat /\ y * z \in Nat /\ z * x = x * z /\ z * y = y * z OBVIOUS
<1>. QED BY <1>1, <1>2

\* A larger exponent gives a power that is no smaller.
LEMMA Pow2Monotonic == \A m, n \in Nat : m <= n => Pow2[m] <= Pow2[n]
<1>. SUFFICES ASSUME NEW m \in Nat, NEW n \in Nat, m <= n PROVE Pow2[m] <= Pow2[n]
  OBVIOUS
<1>1. n - m \in Nat /\ m + (n - m) = n OBVIOUS
<1>2. Pow2[n] = Pow2[m] * Pow2[n - m] BY <1>1, Pow2Plus
<1>3. Pow2[m] \in Nat /\ Pow2[n - m] \in Nat /\ Pow2[n - m] >= 1 BY <1>1, Pow2Type
<1>4. \A x, y \in Nat : y >= 1 => x <= x * y
  <2>1. \A x, y \in Nat : y >= 1 => x * 1 <= x * y BY TimesMonotonic
  <2>. QED BY <2>1
<1>. QED BY <1>2, <1>3, <1>4

-----------------------------------------------------------------------------
(* Reconnection delays *)

Configured == initial \in 1..MaxInt /\ max \in 1..MaxInt /\ fails \in Nat /\ delay \in Int

BackoffInv == Configured /\ DelaySane /\ GrowsToMax

\* nextBackoff returns the double of the delay up to the maximum, also when the
\* doubling overflows.
LEMMA NextIsDouble ==
  ASSUME NEW cur \in 1..MaxInt, NEW m \in 1..MaxInt
  PROVE  NextBackoff(cur, m) = IF 2 * cur > m THEN m ELSE 2 * cur
BY BackoffAssumption DEF NextBackoff, Wrap

\* A jittered delay differs from d by at most a fifth, or it overflows, and then
\* it is negative and d was above the limit.
LEMMA JitterInRange ==
  ASSUME NEW d \in 1..MaxInt, NEW j \in Jitter(d)
  PROVE  j \in Int /\ (Within(j, d) \/ (d > Limit /\ j < 0))
<1>1. MaxInt \in Nat /\ d \in Nat /\ d >= 1 /\ d <= MaxInt BY BackoffAssumption
<1>2. Limit \in Int /\ 6 * Limit <= 5 * MaxInt BY <1>1 DEF Limit
<1>. DEFINE delta == d \div 5
<1>3. delta \in Nat /\ 5 * delta <= d BY <1>1
<1>4. CASE delta <= 0 BY <1>1, <1>4 DEF Jitter, Within
<1>5. CASE delta > 0
  <2>1. PICK o \in -delta..delta - 1 : j = Wrap(d + o) BY <1>5 DEF Jitter
  <2>. HIDE DEF delta
  <2>2. o \in Int /\ -delta <= o /\ o < delta BY <1>3, <2>1
  <2>3. CASE d + o <= MaxInt
    <3>1. j = d + o BY <1>1, <2>1, <2>2, <2>3 DEF Wrap
    <3>. QED BY <1>1, <1>3, <2>2, <3>1 DEF Within
  <2>4. CASE d + o > MaxInt
    <3>1. j = d + o - 2 * (MaxInt + 1) BY <1>1, <2>1, <2>2, <2>4 DEF Wrap
    <3>2. j \in Int /\ j < 0 BY <1>1, <1>3, <2>2, <3>1
    <3>3. d > Limit BY <1>1, <1>2, <1>3, <2>2, <2>4
    <3>. QED BY <3>2, <3>3
  <2>. QED BY <1>1, <2>2, <2>3, <2>4
<1>. QED BY <1>3, <1>4, <1>5

\* One more failure doubles the delay up to the maximum.
LEMMA DelayDoubles ==
  ASSUME Configured, NEW k \in Nat
  PROVE  /\ DelayAfter(k) \in 1..Ceiling /\ DelayAfter(k) \in 1..MaxInt
         /\ NextBackoff(DelayAfter(k), max) = DelayAfter(k + 1)
<1>1. /\ MaxInt \in Nat /\ initial \in 1..MaxInt /\ max \in 1..MaxInt
      /\ initial \in Nat /\ max \in Nat
  BY BackoffAssumption DEF Configured
<1>. DEFINE x == initial * Pow2[k]
<1>2. x \in Nat /\ x >= 1 /\ initial * Pow2[k + 1] = 2 * x
  <2>1. Pow2[k] \in Nat /\ Pow2[k] >= 1 /\ Pow2[k + 1] = 2 * Pow2[k] BY Pow2Type, Pow2Equation
  <2>2. \A i, p \in Nat : i >= 1 /\ p >= 1 => i * p \in Nat /\ i * p >= 1 /\ i * (2 * p) = 2 * (i * p)
    OBVIOUS
  <2>. QED BY <1>1, <2>1, <2>2
<1>3. k = 0 => x = initial BY <1>1, Pow2Equation
<1>4. DelayAfter(k) = IF k = 0 THEN initial ELSE IF x > max THEN max ELSE x BY DEF DelayAfter
<1>5. DelayAfter(k + 1) = IF 2 * x > max THEN max ELSE 2 * x BY <1>2 DEF DelayAfter
<1>. HIDE DEF x
<1>6. DelayAfter(k) \in 1..MaxInt /\ DelayAfter(k) \in 1..Ceiling BY <1>1, <1>2, <1>4 DEF Ceiling
<1>7. NextBackoff(DelayAfter(k), max) =
        IF 2 * DelayAfter(k) > max THEN max ELSE 2 * DelayAfter(k)
  BY <1>1, <1>6, NextIsDouble
<1>8. NextBackoff(DelayAfter(k), max) = DelayAfter(k + 1)
  <2>1. CASE k = 0 BY <1>3, <1>4, <1>5, <1>7, <2>1
  <2>2. CASE k # 0 BY <1>1, <1>2, <1>4, <1>5, <1>7, <2>2
  <2>. QED BY <2>1, <2>2
<1>. QED BY <1>6, <1>8

\* What New makes of any options.
LEMMA BackoffInitial == BackoffInit => BackoffInv
<1>1. MaxInt \in Nat BY BackoffAssumption
<1>2. SUFFICES ASSUME BackoffInit PROVE BackoffInv OBVIOUS
<1>3. PICK i \in Durations, m \in Durations :
        /\ initial = Initial(i) /\ max = Maximum(m)
        /\ backoff = initial /\ requested = 0 /\ delay = 0 /\ fails = 0
  BY <1>2 DEF BackoffInit
<1>4. initial \in 1..MaxInt /\ max \in 1..MaxInt
  BY <1>1, <1>3, BackoffAssumption DEF Initial, Maximum, Durations
<1>. QED BY <1>1, <1>3, <1>4 DEF BackoffInv, Configured, DelaySane, Within, Ceiling, GrowsToMax, DelayAfter

\* Both steps of the loop keep the delays as they should be.
LEMMA BackoffStep == BackoffInv /\ [BackoffNext]_bvars => BackoffInv'
<1>1. SUFFICES ASSUME BackoffInv, [BackoffNext]_bvars PROVE BackoffInv' OBVIOUS
<1>2. Configured /\ DelaySane /\ backoff = DelayAfter(fails) /\ fails \in Nat
  BY <1>1 DEF BackoffInv, Configured, GrowsToMax
<1>3. initial' = initial /\ max' = max /\ Ceiling' = Ceiling
  BY <1>1 DEF BackoffNext, Retry, Reset, bvars, Ceiling
<1>4. \A k : DelayAfter(k)' = DelayAfter(k) BY <1>3 DEF DelayAfter
<1>5. CASE Retry
  <2>1. /\ DelayAfter(fails) \in 1..MaxInt /\ DelayAfter(fails) \in 1..Ceiling
        /\ DelayAfter(fails + 1) \in 1..Ceiling
        /\ NextBackoff(DelayAfter(fails), max) = DelayAfter(fails + 1)
    BY <1>2, DelayDoubles
  <2>2. fails' = fails + 1 /\ requested' = DelayAfter(fails) /\ backoff' = DelayAfter(fails + 1)
    BY <1>2, <1>5, <2>1 DEF Retry
  <2>3. delay' \in Int /\ (Within(delay', requested') \/ (requested' > Limit /\ delay' < 0))
    BY <1>2, <1>5, <2>1, <2>2, JitterInRange DEF Retry
  <2>4. Configured' BY <1>2, <1>3, <2>2, <2>3 DEF Configured
  <2>5. DelaySane' BY <1>2, <1>3, <2>1, <2>2, <2>3 DEF DelaySane, Within, Limit
  <2>6. GrowsToMax' BY <1>2, <1>4, <2>2 DEF GrowsToMax
  <2>. QED BY <2>4, <2>5, <2>6 DEF BackoffInv
<1>6. CASE Reset
  <2>1. initial \in 1..Ceiling
    BY <1>2, BackoffAssumption DEF Configured, Ceiling
  <2>2. fails' = 0 /\ backoff' = initial /\ requested' = requested /\ delay' = delay BY <1>6 DEF Reset
  <2>3. Configured' /\ DelaySane' BY <1>2, <1>3, <2>1, <2>2 DEF Configured, DelaySane, Within, Limit
  <2>4. GrowsToMax' BY <1>3, <2>2 DEF GrowsToMax, DelayAfter
  <2>. QED BY <2>3, <2>4 DEF BackoffInv
<1>7. CASE UNCHANGED bvars
  BY <1>1, <1>7 DEF bvars, BackoffInv, Configured, DelaySane, Within, Ceiling, Limit, GrowsToMax, DelayAfter
<1>. QED BY <1>1, <1>5, <1>6, <1>7 DEF BackoffNext

\* For every width of a duration and every configuration run asks for a positive
\* delay no longer than the configured ones, and waits for it within a fifth
\* unless it is so long that jitter overflows.
THEOREM DelaysSane == BackoffSpec => []DelaySane
<1>1. BackoffInv => DelaySane BY DEF BackoffInv
<1>. QED BY <1>1, BackoffInitial, BackoffStep, PTL DEF BackoffSpec

\* After k failures in a row the delay is initial * 2^k up to the maximum, for
\* every k, and after an arbitration it is the initial one.
THEOREM DelaysGrow == BackoffSpec => []GrowsToMax
<1>1. BackoffInv => GrowsToMax BY DEF BackoffInv
<1>. QED BY <1>1, BackoffInitial, BackoffStep, PTL DEF BackoffSpec

-----------------------------------------------------------------------------
(* Division *)

\* Quotient and remainder.
LEMMA DivMod ==
  \A a, d \in Nat : d > 0 =>
    a \div d \in Nat /\ (a % d) \in Nat /\ (a % d) < d /\ a = d * (a \div d) + (a % d)
OBVIOUS

\* A number is written with a quotient and a remainder in one way.
LEMMA DivUnique ==
  \A q, r, d \in Nat : r < d => (d * q + r) \div d = q /\ (d * q + r) % d = r
OBVIOUS

\* A digit d before a number below the unit.
LEMMA DigitBound ==
  \A low, d, unit, top \in Nat : low < unit => (low + d * unit < top * unit <=> d < top)
<1>. SUFFICES ASSUME NEW low \in Nat, NEW d \in Nat, NEW unit \in Nat, NEW top \in Nat, low < unit
              PROVE  low + d * unit < top * unit <=> d < top
  OBVIOUS
<1>1. CASE d < top
  <2>1. d + 1 \in Nat /\ d + 1 <= top BY <1>1
  <2>2. (d + 1) * unit <= top * unit BY <2>1, TimesMonotonic
  <2>3. (d + 1) * unit = d * unit + unit /\ d * unit \in Nat /\ top * unit \in Nat OBVIOUS
  <2>. QED BY <1>1, <2>2, <2>3
<1>2. CASE top <= d
  <2>1. top * unit <= d * unit BY <1>2, TimesMonotonic
  <2>2. d * unit \in Nat /\ top * unit \in Nat OBVIOUS
  <2>. QED BY <1>2, <2>1, <2>2
<1>. QED BY <1>1, <1>2

-----------------------------------------------------------------------------
(* Byte strings and the numbers they stand for *)

\* The byte strings.
Bytes == Seq(Byte)

\* What place k of a byte string counts for.
Unit(k) == Pow2[ByteBits * k]

\* The units of the places: each is Base times the one before.
LEMMA UnitFacts ==
  /\ ByteBits \in Nat /\ ByteBits > 0 /\ Base \in Nat /\ Base >= 2 /\ Unit(0) = 1
  /\ \A k \in Nat : Unit(k) \in Nat /\ Unit(k) >= 1 /\ Unit(k + 1) = Unit(k) * Base
  /\ \A k, n \in Nat : k <= n => Unit(k) <= Unit(n)
<1>1. ByteBits \in Nat /\ ByteBits > 0 BY CodecAssumption
<1>2. Base \in Nat /\ Base >= 2
  <2>1. Pow2[0 + 1] = 2 * 1 BY Pow2Equation
  <2>2. Pow2[1] = 2 BY <2>1
  <2>3. Pow2[1] <= Pow2[ByteBits] BY <1>1, Pow2Monotonic
  <2>. QED BY <1>1, <2>2, <2>3, Pow2Type DEF Base
<1>3. Unit(0) = 1
  <2>1. ByteBits * 0 = 0 BY <1>1
  <2>. QED BY <2>1, Pow2Equation DEF Unit
<1>4. \A k \in Nat : ByteBits * k \in Nat BY <1>1
<1>5. ASSUME NEW k \in Nat PROVE Unit(k) \in Nat /\ Unit(k) >= 1 /\ Unit(k + 1) = Unit(k) * Base
  <2>1. ByteBits * (k + 1) = ByteBits * k + ByteBits BY <1>1
  <2>2. Pow2[ByteBits * k + ByteBits] = Pow2[ByteBits * k] * Pow2[ByteBits]
    BY <1>1, <1>4, Pow2Plus
  <2>. QED BY <1>4, <2>1, <2>2, Pow2Type DEF Unit, Base
<1>6. ASSUME NEW k \in Nat, NEW n \in Nat, k <= n PROVE Unit(k) <= Unit(n)
  <2>1. ByteBits * k <= ByteBits * n BY <1>1, <1>6, TimesMonotonic
  <2>. QED BY <1>4, <2>1, Pow2Monotonic DEF Unit
<1>. QED BY <1>1, <1>2, <1>3, <1>5, <1>6

\* The bytes of a string are numbers below Base.
LEMMA ByteFacts ==
  ASSUME NEW b \in Bytes
  PROVE  Len(b) \in Nat /\ DOMAIN b = 1..Len(b)
         /\ \A i \in 1..Len(b) : b[i] \in Nat /\ b[i] < Base
<1>1. \A i \in 1..Len(b) : b[i] \in Byte BY DEF Bytes
<1>2. Len(b) \in Nat /\ DOMAIN b = 1..Len(b) BY DEF Bytes
<1>3. \A x \in Byte : x \in Nat /\ x < Base BY UnitFacts DEF Byte
<1>. QED BY <1>1, <1>2, <1>3

\* Places satisfies the equation it is defined by.
LEMMA PlacesEquation ==
  ASSUME NEW b \in Bytes
  PROVE  /\ Places(b) \in [0..Len(b) -> Nat] /\ Places(b)[0] = 0
         /\ \A k \in 1..Len(b) :
              Places(b)[k] = Places(b)[k - 1] + b[Len(b) - k + 1] * Unit(k - 1)
<1>. DEFINE N == Len(b)
            g == [k \in 0..N - 1 |-> [x \in Nat |-> x + b[N - k] * Unit(k)]]
<1>0. N \in Nat BY ByteFacts
<1>1. g \in [0..N - 1 -> [Nat -> Nat]]
  <2>1. \A k \in 0..N - 1 : b[N - k] * Unit(k) \in Nat
    <3>. TAKE k \in 0..N - 1
    <3>1. k \in Nat /\ N - k \in 1..N BY <1>0
    <3>2. b[N - k] \in Nat /\ Unit(k) \in Nat BY <3>1, ByteFacts, UnitFacts
    <3>. QED BY <3>2
  <2>. QED BY <2>1
<1>2. \A k \in 0..N - 1, x \in Nat : g[k][x] = x + b[N - k] * Unit(k) OBVIOUS
<1>. HIDE DEF g, N
<1>3. PICK f \in [0..N -> Nat] : FollowsUpTo(f, 0, g, N) BY <1>0, <1>1, RecursionUpTo
<1>4. \A k \in 1..N : f[k] = f[k - 1] + b[N - k + 1] * Unit(k - 1)
  <2>. TAKE k \in 1..N
  <2>1. k - 1 \in 0..N - 1 /\ k - 1 \in 0..N /\ N - (k - 1) = N - k + 1 BY <1>0
  <2>2. f[k - 1] \in Nat BY <2>1
  <2>. QED BY <1>2, <1>3, <2>1, <2>2 DEF FollowsUpTo
<1>5. f = [k \in 0..N |-> IF k = 0 THEN 0
                          ELSE f[k - 1] + b[N - k + 1] * Pow2[ByteBits * (k - 1)]]
  <2>1. \A k \in 0..N : k # 0 => k \in 1..N BY <1>0
  <2>. QED BY <1>3, <1>4, <2>1 DEF Unit, FollowsUpTo
<1>. DEFINE p == Places(b)
<1>6. p = [k \in 0..N |-> IF k = 0 THEN 0
                          ELSE p[k - 1] + b[N - k + 1] * Pow2[ByteBits * (k - 1)]]
  BY <1>5, Zenon DEF Places, N
<1>. HIDE DEF p
<1>. DEFINE S == {k \in Nat : k <= N => p[k] = f[k]}
<1>7. 0 \in S BY <1>0, <1>3, <1>6 DEF FollowsUpTo
<1>8. ASSUME NEW k \in Nat, k \in S PROVE k + 1 \in S
  <2>1. SUFFICES ASSUME k + 1 <= N PROVE p[k + 1] = f[k + 1] BY <1>8
  <2>2. k + 1 \in 1..N /\ k + 1 \in 0..N /\ (k + 1) - 1 = k /\ p[k] = f[k] BY <1>0, <1>8, <2>1
  <2>3. p[k + 1] = p[k] + b[N - (k + 1) + 1] * Pow2[ByteBits * k]
    <3>1. p[k + 1] = IF k + 1 = 0 THEN 0 ELSE p[(k + 1) - 1]
                       + b[N - (k + 1) + 1] * Pow2[ByteBits * ((k + 1) - 1)]
      BY <1>6, <2>2
    <3>2. k + 1 # 0 OBVIOUS
    <3>. QED BY <2>2, <3>1, <3>2
  <2>4. f[k + 1] = f[k] + b[N - (k + 1) + 1] * Pow2[ByteBits * k] BY <1>4, <2>2 DEF Unit
  <2>. QED BY <2>2, <2>3, <2>4
<1>9. \A k \in Nat : k \in S
  <2>. HIDE DEF S
  <2>. QED BY <1>7, <1>8, SetInduction
<1>10. p = f
  <2>1. \A k \in 0..N : p[k] = f[k] BY <1>0, <1>9
  <2>2. DOMAIN p = 0..N BY <1>6
  <2>. QED BY <1>6, <2>1, <2>2
<1>. QED BY <1>3, <1>4, <1>10 DEF p, N, FollowsUpTo

\* The last k bytes stand for less than the unit of place k.
LEMMA PlacesBound ==
  ASSUME NEW b \in Bytes
  PROVE  \A k \in 0..Len(b) : Places(b)[k] \in Nat /\ Places(b)[k] < Unit(k)
<1>. DEFINE p == Places(b)
            S == {k \in Nat : k <= Len(b) => p[k] < Unit(k)}
<1>0. Len(b) \in Nat BY ByteFacts
<1>1. /\ p \in [0..Len(b) -> Nat] /\ p[0] = 0
      /\ \A k \in 1..Len(b) : p[k] = p[k - 1] + b[Len(b) - k + 1] * Unit(k - 1)
  BY PlacesEquation
<1>. HIDE DEF p
<1>2. 0 \in S BY <1>1, UnitFacts
<1>3. ASSUME NEW k \in Nat, k \in S PROVE k + 1 \in S
  <2>1. SUFFICES ASSUME k + 1 <= Len(b) PROVE p[k + 1] < Unit(k + 1) OBVIOUS
  <2>2. k + 1 \in 1..Len(b) /\ (k + 1) - 1 = k /\ Len(b) - (k + 1) + 1 \in 1..Len(b)
    BY <1>0, <2>1
  <2>. DEFINE d == b[Len(b) - (k + 1) + 1]
  <2>3. d \in Nat /\ d < Base BY <2>2, ByteFacts
  <2>4. p[k + 1] = p[k] + d * Unit(k) BY <1>1, <2>2
  <2>. HIDE DEF d
  <2>5. p[k] \in Nat /\ p[k] < Unit(k) BY <1>0, <1>1, <1>3, <2>1
  <2>6. Unit(k) \in Nat /\ Base \in Nat /\ Unit(k + 1) = Unit(k) * Base BY UnitFacts
  <2>7. p[k] + d * Unit(k) < Base * Unit(k) BY <2>3, <2>5, <2>6, DigitBound
  <2>8. Base * Unit(k) = Unit(k) * Base BY <2>6
  <2>. QED BY <2>4, <2>6, <2>7, <2>8
<1>4. \A k \in Nat : k \in S
  <2>. HIDE DEF S
  <2>. QED BY <1>2, <1>3, SetInduction
<1>5. \A k \in 0..Len(b) : p[k] < Unit(k) BY <1>0, <1>4
<1>. QED BY <1>1, <1>5 DEF p

\* A string of n bytes stands for a number below the unit of place n.
LEMMA ValueType ==
  ASSUME NEW b \in Bytes PROVE ValueOf(b) \in Nat /\ ValueOf(b) < Unit(Len(b))
<1>1. Len(b) \in 0..Len(b) BY ByteFacts
<1>. QED BY <1>1, PlacesBound DEF ValueOf

\* Strings that end alike agree on the numbers of their ends.
LEMMA PlacesSame ==
  ASSUME NEW b \in Bytes, NEW c \in Bytes, NEW n \in Nat, n <= Len(b), n <= Len(c),
         \A i \in 0..n - 1 : b[Len(b) - i] = c[Len(c) - i]
  PROVE  Places(b)[n] = Places(c)[n]
<1>. DEFINE S == {k \in Nat : k <= n => Places(b)[k] = Places(c)[k]}
<1>0. Len(b) \in Nat /\ Len(c) \in Nat BY ByteFacts
<1>1. 0 \in S BY PlacesEquation
<1>2. ASSUME NEW k \in Nat, k \in S PROVE k + 1 \in S
  <2>1. SUFFICES ASSUME k + 1 <= n PROVE Places(b)[k + 1] = Places(c)[k + 1] OBVIOUS
  <2>2. k + 1 \in 1..Len(b) /\ k + 1 \in 1..Len(c) /\ (k + 1) - 1 = k /\ k \in 0..n - 1
    BY <1>0, <2>1
  <2>3. Len(b) - (k + 1) + 1 = Len(b) - k /\ Len(c) - (k + 1) + 1 = Len(c) - k BY <1>0
  <2>4. Places(b)[k + 1] = Places(b)[k] + b[Len(b) - k] * Unit(k)
    BY <2>2, <2>3, PlacesEquation
  <2>5. Places(c)[k + 1] = Places(c)[k] + c[Len(c) - k] * Unit(k)
    BY <2>2, <2>3, PlacesEquation
  <2>6. Places(b)[k] = Places(c)[k] BY <1>2, <2>1
  <2>. QED BY <2>2, <2>4, <2>5, <2>6
<1>3. \A k \in Nat : k \in S
  <2>. HIDE DEF S
  <2>. QED BY <1>1, <1>2, SetInduction
<1>. QED BY <1>3

\* The number of a string is that of its last k bytes and a multiple of the unit
\* of place k, none if the other bytes are 0.
LEMMA PlacesAbove ==
  ASSUME NEW b \in Bytes, NEW k \in 0..Len(b)
  PROVE  \E q \in Nat : /\ ValueOf(b) = Unit(k) * q + Places(b)[k]
                        /\ (\A i \in 1..Len(b) - k : b[i] = 0) => q = 0
<1>. DEFINE zeros == \A i \in 1..Len(b) - k : b[i] = 0
            Above(n, q) == Places(b)[n] = Unit(k) * q + Places(b)[k] /\ (zeros => q = 0)
            S == {d \in Nat : k + d <= Len(b) => \E q \in Nat : Above(k + d, q)}
<1>0. Len(b) \in Nat /\ k \in Nat /\ k <= Len(b) BY ByteFacts
<1>1. Unit(k) \in Nat /\ Places(b)[k] \in Nat BY <1>0, UnitFacts, PlacesBound
<1>2. 0 \in S
  <2>1. k + 0 = k /\ Unit(k) * 0 + Places(b)[k] = Places(b)[k] BY <1>0, <1>1
  <2>2. Above(k + 0, 0) BY <2>1
  <2>. HIDE DEF Above
  <2>. QED BY <2>2
<1>3. ASSUME NEW d \in Nat, d \in S PROVE d + 1 \in S
  <2>1. SUFFICES ASSUME k + (d + 1) <= Len(b) PROVE \E q \in Nat : Above(k + (d + 1), q)
    OBVIOUS
  <2>. DEFINE n == k + d
              x == b[Len(b) - n]
  <2>2. n \in Nat /\ n + 1 \in 1..Len(b) /\ (n + 1) - 1 = n /\ k + (d + 1) = n + 1
        /\ Len(b) - (n + 1) + 1 = Len(b) - n /\ Len(b) - n \in 1..Len(b) - k
        /\ Len(b) - n \in 1..Len(b)
    BY <1>0, <2>1
  <2>3. PICK q \in Nat : Above(n, q) BY <1>0, <1>3, <2>1
  <2>4. x \in Nat BY <2>2, ByteFacts
  <2>5. Places(b)[n + 1] = Places(b)[n] + x * Unit(n)
    <3>. HIDE DEF n
    <3>. QED BY <2>2, PlacesEquation
  <2>6. zeros => x = 0 BY <2>2
  <2>7. Unit(n) = Unit(k) * Pow2[ByteBits * d] /\ Pow2[ByteBits * d] \in Nat
    <3>1. ByteBits * k \in Nat /\ ByteBits * d \in Nat
          /\ ByteBits * (k + d) = ByteBits * k + ByteBits * d
      BY <1>0, UnitFacts
    <3>. QED BY <3>1, Pow2Plus, Pow2Type DEF Unit
  <2>. DEFINE e == Pow2[ByteBits * d]
  <2>. HIDE DEF n, x, e, zeros
  <2>8. Unit(k) * (q + x * e) = Unit(k) * q + x * (Unit(k) * e) /\ q + x * e \in Nat
    <3>1. \A u, a, y, z \in Nat : u * (a + y * z) = u * a + y * (u * z) /\ a + y * z \in Nat
      OBVIOUS
    <3>2. Unit(k) \in Nat /\ q \in Nat /\ x \in Nat /\ e \in Nat BY <1>1, <2>4, <2>7 DEF e
    <3>. QED BY ONLY <3>1, <3>2
  <2>9. Places(b)[n + 1] = Unit(k) * (q + x * e) + Places(b)[k]
    <3>1. Places(b)[n] = Unit(k) * q + Places(b)[k] BY <2>3
    <3>2. x * Unit(n) = x * (Unit(k) * e) /\ x * Unit(n) \in Nat /\ Unit(k) * q \in Nat
      BY <1>1, <2>4, <2>7 DEF e
    <3>. QED BY <1>1, <2>5, <2>8, <3>1, <3>2
  <2>10. zeros => q + x * e = 0
    <3>1. zeros => q = 0 BY <2>3
    <3>2. e \in Nat BY <2>7 DEF e
    <3>. QED BY <2>6, <3>1, <3>2
  <2>11. Above(n + 1, q + x * e) BY <2>9, <2>10
  <2>. HIDE DEF Above
  <2>. QED BY <2>2, <2>8, <2>11
<1>4. \A d \in Nat : d \in S
  <2>. HIDE DEF S
  <2>. QED BY <1>2, <1>3, SetInduction
<1>5. k + (Len(b) - k) = Len(b) /\ Len(b) - k \in Nat BY <1>0
<1>6. \E q \in Nat : Above(Len(b), q)
  <2>1. Len(b) - k \in S BY <1>4, <1>5
  <2>2. \E q \in Nat : Above(k + (Len(b) - k), q)
    <3>. HIDE DEF Above
    <3>. QED BY <1>0, <1>5, <2>1
  <2>. QED BY <1>5, <2>2
<1>. QED BY <1>6 DEF ValueOf

\* A set of positions that is not empty has a first one.
LEMMA FirstPosition ==
  ASSUME NEW n \in Nat, NEW S, S \subseteq 1..n, S # {}
  PROVE  Min(S) \in S /\ \A y \in S : Min(S) <= y
<1>1. S \subseteq Nat OBVIOUS
<1>2. \E x \in S : \A y \in S : x <= y BY <1>1, LeastNat
<1>. QED BY <1>2 DEF Min

\* A suffix of a byte string, and its number when only zeros are before it.
LEMMA Suffix ==
  ASSUME NEW b \in Bytes, NEW m \in 1..Len(b)
  PROVE  LET c == SubSeq(b, m, Len(b)) IN
         /\ c \in Bytes /\ Len(c) = Len(b) - m + 1
         /\ \A i \in 1..Len(c) : c[i] = b[m + i - 1]
         /\ ValueOf(c) = Places(b)[Len(c)]
         /\ (\A i \in 1..m - 1 : b[i] = 0) => ValueOf(c) = ValueOf(b)
<1>. DEFINE c == SubSeq(b, m, Len(b))
<1>0. Len(b) \in Nat /\ m \in Nat /\ 1 <= m /\ m <= Len(b) BY ByteFacts
<1>1. c \in Bytes /\ Len(c) = Len(b) - m + 1
  BY <1>0 DEF Bytes
<1>2. \A i \in 1..Len(c) : c[i] = b[m + i - 1] BY <1>0 DEF Bytes
<1>. HIDE DEF c
<1>3. Len(c) \in Nat /\ Len(c) >= 1 /\ Len(c) <= Len(b) BY <1>0, <1>1
<1>4. \A i \in 0..Len(c) - 1 : c[Len(c) - i] = b[Len(b) - i]
  <2>. TAKE i \in 0..Len(c) - 1
  <2>1. Len(c) - i \in 1..Len(c) /\ m + (Len(c) - i) - 1 = Len(b) - i BY <1>0, <1>1, <1>3
  <2>. QED BY <1>2, <2>1
<1>5. Places(c)[Len(c)] = Places(b)[Len(c)]
  <2>. DEFINE n == Len(c)
  <2>1. n \in Nat /\ n <= Len(c) /\ n <= Len(b) BY <1>3
  <2>2. \A i \in 0..n - 1 : c[Len(c) - i] = b[Len(b) - i] BY <1>4
  <2>. HIDE DEF n
  <2>3. Places(c)[n] = Places(b)[n] BY <1>1, <2>1, <2>2, PlacesSame
  <2>. QED BY <2>3 DEF n
<1>6. ASSUME \A i \in 1..m - 1 : b[i] = 0 PROVE ValueOf(c) = ValueOf(b)
  <2>1. Len(c) \in 0..Len(b) /\ Len(b) - Len(c) = m - 1 BY <1>0, <1>1, <1>3
  <2>2. PICK q \in Nat : /\ ValueOf(b) = Unit(Len(c)) * q + Places(b)[Len(c)]
                         /\ (\A i \in 1..Len(b) - Len(c) : b[i] = 0) => q = 0
    BY <2>1, PlacesAbove
  <2>3. q = 0 BY <1>6, <2>1, <2>2
  <2>4. Unit(Len(c)) \in Nat /\ Places(b)[Len(c)] \in Nat BY <1>3, <2>1, UnitFacts, PlacesBound
  <2>. QED BY <1>5, <2>2, <2>3, <2>4 DEF ValueOf
<1>7. ValueOf(c) = Places(b)[Len(c)] BY <1>5 DEF ValueOf
<1>. QED BY <1>1, <1>2, <1>6, <1>7 DEF c

\* A string of zeros stands for 0.
LEMMA ZerosValue ==
  ASSUME NEW b \in Bytes, \A i \in 1..Len(b) : b[i] = 0 PROVE ValueOf(b) = 0
<1>1. Len(b) \in Nat /\ 0 \in 0..Len(b) /\ Len(b) - 0 = Len(b) BY ByteFacts
<1>2. PICK q \in Nat : /\ ValueOf(b) = Unit(0) * q + Places(b)[0]
                       /\ (\A i \in 1..Len(b) - 0 : b[i] = 0) => q = 0
  BY <1>1, PlacesAbove
<1>3. q = 0 BY <1>1, <1>2
<1>4. Places(b)[0] = 0 /\ Unit(0) = 1 BY PlacesEquation, UnitFacts
<1>. QED BY <1>2, <1>3, <1>4

\* A byte string that starts with a nonzero byte or is one byte long.
Canonical(c) == c \in Bytes /\ Len(c) >= 1 /\ (c[1] # 0 \/ Len(c) = 1)

\* StripLeadingZeros keeps the number and returns a canonical string.
LEMMA StripFacts ==
  ASSUME NEW b \in Bytes
  PROVE  LET c == StripLeadingZeros(b) IN
         Canonical(c) /\ ValueOf(c) = ValueOf(b) /\ (Len(c) <= Len(b) \/ Len(c) = 1)
<1>. DEFINE nonzero == {i \in DOMAIN b : b[i] # 0}
<1>0. Len(b) \in Nat /\ DOMAIN b = 1..Len(b) BY ByteFacts
<1>1. CASE nonzero = {}
  <2>1. StripLeadingZeros(b) = <<0>> BY <1>1 DEF StripLeadingZeros
  <2>2. 0 \in Byte BY UnitFacts DEF Byte
  <2>3. <<0>> \in Bytes /\ Len(<<0>>) = 1 /\ \A i \in 1..Len(<<0>>) : <<0>>[i] = 0
    BY <2>2 DEF Bytes
  <2>4. ValueOf(<<0>>) = 0 BY <2>3, ZerosValue
  <2>5. ValueOf(b) = 0 BY <1>0, <1>1, ZerosValue
  <2>. QED BY <2>1, <2>3, <2>4, <2>5 DEF Canonical
<1>2. CASE nonzero # {}
  <2>. DEFINE m == Min(nonzero)
  <2>1. StripLeadingZeros(b) = SubSeq(b, m, Len(b)) BY <1>2 DEF StripLeadingZeros
  <2>2. nonzero \subseteq 1..Len(b) BY <1>0
  <2>3. m \in nonzero /\ \A y \in nonzero : m <= y BY <1>0, <1>2, <2>2, FirstPosition
  <2>. HIDE DEF m
  <2>4. m \in 1..Len(b) /\ b[m] # 0 BY <2>2, <2>3
  <2>5. \A i \in 1..m - 1 : b[i] = 0 BY <1>0, <2>3, <2>4
  <2>. DEFINE c == SubSeq(b, m, Len(b))
  <2>6. /\ c \in Bytes /\ Len(c) = Len(b) - m + 1
        /\ \A i \in 1..Len(c) : c[i] = b[m + i - 1]
        /\ ValueOf(c) = ValueOf(b)
    BY <2>4, <2>5, Suffix
  <2>. HIDE DEF c
  <2>7. Len(c) >= 1 /\ 1 \in 1..Len(c) /\ m + 1 - 1 = m /\ Len(c) <= Len(b) BY <1>0, <2>4, <2>6
  <2>8. c[1] # 0 BY <2>4, <2>6, <2>7
  <2>9. StripLeadingZeros(b) = c BY <2>1 DEF c
  <2>. QED BY <2>6, <2>7, <2>8, <2>9 DEF Canonical
<1>. QED BY <1>1, <1>2

\* The first byte of a string counts for the unit of the last place.
LEMMA TopByte ==
  ASSUME NEW c \in Bytes, Len(c) >= 1
  PROVE  LET low == Places(c)[Len(c) - 1] IN
         /\ low \in Nat /\ low < Unit(Len(c) - 1)
         /\ ValueOf(c) = low + c[1] * Unit(Len(c) - 1)
         /\ c[1] # 0 => ValueOf(c) >= Unit(Len(c) - 1)
<1>0. Len(c) \in Nat /\ Len(c) \in 1..Len(c) /\ Len(c) - Len(c) + 1 = 1 /\ 1 \in 1..Len(c)
      /\ Len(c) - 1 \in 0..Len(c) /\ Len(c) - 1 \in Nat
  BY ByteFacts
<1>. DEFINE low == Places(c)[Len(c) - 1]
<1>1. low \in Nat /\ low < Unit(Len(c) - 1) BY <1>0, PlacesBound
<1>2. ValueOf(c) = low + c[1] * Unit(Len(c) - 1) BY <1>0, PlacesEquation DEF ValueOf
<1>3. c[1] \in Nat /\ Unit(Len(c) - 1) \in Nat BY <1>0, ByteFacts, UnitFacts
<1>. HIDE DEF low
<1>4. ASSUME c[1] # 0 PROVE ValueOf(c) >= Unit(Len(c) - 1)
  <2>1. 1 * Unit(Len(c) - 1) <= c[1] * Unit(Len(c) - 1) BY <1>3, <1>4, TimesMonotonic
  <2>2. c[1] * Unit(Len(c) - 1) \in Nat /\ 1 * Unit(Len(c) - 1) = Unit(Len(c) - 1) BY <1>3
  <2>. QED BY <1>1, <1>2, <1>3, <2>1, <2>2
<1>. QED BY <1>1, <1>2, <1>4 DEF low

\* A byte can be read off the number.
LEMMA DigitOf ==
  ASSUME NEW b \in Bytes, NEW k \in Nat, k < Len(b)
  PROVE  (ValueOf(b) \div Unit(k)) % Base = b[Len(b) - k]
<1>. DEFINE d == b[Len(b) - k]
            low == Places(b)[k]
<1>0. Len(b) \in Nat /\ k + 1 \in 0..Len(b) /\ k \in 0..Len(b) /\ k + 1 \in 1..Len(b)
      /\ (k + 1) - 1 = k /\ Len(b) - (k + 1) + 1 = Len(b) - k /\ Len(b) - k \in 1..Len(b)
  BY ByteFacts
<1>1. PICK q \in Nat : ValueOf(b) = Unit(k + 1) * q + Places(b)[k + 1] BY <1>0, PlacesAbove
<1>2. Places(b)[k + 1] = low + d * Unit(k) BY <1>0, PlacesEquation
<1>3. d \in Nat /\ d < Base BY <1>0, ByteFacts
<1>4. low \in Nat /\ low < Unit(k) BY <1>0, PlacesBound
<1>5. Unit(k) \in Nat /\ Base \in Nat /\ Unit(k + 1) = Unit(k) * Base BY UnitFacts
<1>. HIDE DEF d, low
<1>6. \A u, B, x, y, l \in Nat : (u * B) * x + (l + y * u) = u * (B * x + y) + l /\ B * x + y \in Nat
  OBVIOUS
<1>7. ValueOf(b) = Unit(k) * (Base * q + d) + low /\ Base * q + d \in Nat
  BY <1>1, <1>2, <1>3, <1>4, <1>5, <1>6
<1>8. ValueOf(b) \div Unit(k) = Base * q + d
  <2>. DEFINE x == Base * q + d
              u == Unit(k)
  <2>1. ValueOf(b) = u * x + low /\ x \in Nat /\ u \in Nat /\ low \in Nat /\ low < u
    BY <1>4, <1>5, <1>7
  <2>. HIDE DEF x, u
  <2>2. ValueOf(b) \div u = x BY <2>1, DivUnique
  <2>. QED BY <2>2 DEF x, u
<1>9. (Base * q + d) % Base = d BY <1>3, <1>5, DivUnique
<1>. QED BY <1>8, <1>9 DEF d

\* A number has one canonical string.
LEMMA CanonicalUnique ==
  ASSUME NEW c, NEW d, Canonical(c), Canonical(d), ValueOf(c) = ValueOf(d)
  PROVE  c = d
<1>0. c \in Bytes /\ d \in Bytes /\ Len(c) \in Nat /\ Len(d) \in Nat /\ Len(c) >= 1 /\ Len(d) >= 1
  BY ByteFacts DEF Canonical
<1>1. ASSUME NEW x, NEW y, Canonical(x), Canonical(y), ValueOf(x) = ValueOf(y) PROVE ~(Len(x) < Len(y))
  <2>1. SUFFICES ASSUME Len(x) < Len(y) PROVE FALSE OBVIOUS
  <2>2. x \in Bytes /\ y \in Bytes /\ Len(x) \in Nat /\ Len(y) \in Nat /\ Len(x) >= 1
    BY <1>1, ByteFacts DEF Canonical
  <2>3. y[1] # 0 BY <1>1, <2>1, <2>2 DEF Canonical
  <2>4. ValueOf(y) >= Unit(Len(y) - 1) BY <2>1, <2>2, <2>3, TopByte
  <2>5. ValueOf(x) \in Nat /\ ValueOf(x) < Unit(Len(x)) BY <2>2, ValueType
  <2>6. Unit(Len(x)) <= Unit(Len(y) - 1) /\ Unit(Len(x)) \in Nat /\ Unit(Len(y) - 1) \in Nat
    <3>1. Len(y) - 1 \in Nat /\ Len(x) <= Len(y) - 1 BY <2>1, <2>2
    <3>. QED BY <2>2, <3>1, UnitFacts
  <2>. QED BY <1>1, <2>4, <2>5, <2>6
<1>2. Len(c) = Len(d) BY <1>0, <1>1
<1>3. \A i \in 1..Len(c) : c[i] = d[i]
  <2>. TAKE i \in 1..Len(c)
  <2>1. Len(c) - i \in Nat /\ Len(c) - i < Len(c) /\ Len(c) - (Len(c) - i) = i BY <1>0
  <2>2. c[i] = (ValueOf(c) \div Unit(Len(c) - i)) % Base BY <1>0, <2>1, DigitOf
  <2>3. d[i] = (ValueOf(d) \div Unit(Len(c) - i)) % Base BY <1>0, <1>2, <2>1, DigitOf
  <2>. QED BY <2>2, <2>3
<1>. QED BY <1>0, <1>2, <1>3 DEF Bytes

\* ByteLen is the number of bytes that w bits need; the first holds the bits left over.
LEMMA ByteLenFacts ==
  ASSUME NEW w \in Nat, w > 0
  PROVE  /\ ByteLen(w) \in Nat /\ ByteLen(w) >= 1
         /\ ByteBits * (ByteLen(w) - 1) < w /\ w <= ByteBits * ByteLen(w)
         /\ (w % ByteBits) \in Nat /\ (w % ByteBits) < ByteBits
         /\ w % ByteBits = 0 => w = ByteBits * ByteLen(w)
         /\ w % ByteBits # 0 => w = ByteBits * (ByteLen(w) - 1) + (w % ByteBits)
<1>. DEFINE q == w \div ByteBits
            r == w % ByteBits
<1>0. ByteBits \in Nat /\ ByteBits > 0 BY UnitFacts
<1>1. q \in Nat /\ r \in Nat /\ r < ByteBits /\ w = ByteBits * q + r BY <1>0, DivMod
<1>. HIDE DEF q, r
<1>2. CASE r = 0
  <2>1. w + ByteBits - 1 = ByteBits * q + (ByteBits - 1) /\ ByteBits - 1 \in Nat BY <1>0, <1>1, <1>2
  <2>2. ByteLen(w) = q BY <1>0, <1>1, <2>1, DivUnique DEF ByteLen
  <2>3. q >= 1
    <3>1. q = 0 => ByteBits * q = 0 BY <1>0
    <3>. QED BY <1>1, <1>2, <3>1
  <2>4. ByteBits * (q - 1) = ByteBits * q - ByteBits /\ ByteBits * q \in Nat BY <1>0, <1>1
  <2>. QED BY <1>0, <1>1, <1>2, <2>2, <2>3, <2>4 DEF r
<1>3. CASE r # 0
  <2>1. w + ByteBits - 1 = ByteBits * (q + 1) + (r - 1) /\ r - 1 \in Nat /\ q + 1 \in Nat
    BY <1>0, <1>1, <1>3
  <2>2. ByteLen(w) = q + 1 BY <1>0, <1>1, <2>1, DivUnique DEF ByteLen
  <2>3. ByteBits * (q + 1) = ByteBits * q + ByteBits /\ ByteBits * q \in Nat /\ (q + 1) - 1 = q
    BY <1>0, <1>1
  <2>. QED BY <1>0, <1>1, <1>3, <2>2, <2>3 DEF r
<1>. QED BY <1>2, <1>3

\* EncodeBytes returns the canonical string of a value that fits, and refuses
\* every other.
LEMMA EncodeBytesFacts ==
  ASSUME NEW b \in Bytes, NEW w \in Int
  PROVE  IF FitsWidth(b, w)
         THEN EncodeBytes(b, w) = StripLeadingZeros(b)
         ELSE EncodeBytes(b, w) = Error
<1>. DEFINE sig == StripLeadingZeros(b)
            L == Len(sig)
            B == ByteLen(w)
            lead == w % ByteBits
            low == Places(sig)[L - 1]
            d == sig[1]
<1>1. CASE w <= 0 BY <1>1 DEF EncodeBytes, FitsWidth
<1>2. CASE w > 0
  <2>0. w \in Nat /\ w > 0 BY <1>2
  <2>1. sig \in Bytes /\ L \in Nat /\ L >= 1 /\ (d # 0 \/ L = 1) /\ ValueOf(sig) = ValueOf(b)
    BY StripFacts, ByteFacts DEF Canonical
  <2>2. /\ B \in Nat /\ B >= 1 /\ ByteBits * (B - 1) < w /\ w <= ByteBits * B
        /\ lead \in Nat /\ lead < ByteBits
        /\ lead = 0 => w = ByteBits * B
        /\ lead # 0 => w = ByteBits * (B - 1) + lead
    BY <2>0, ByteLenFacts
  <2>3. EncodeBytes(b, w) = IF L > B \/ (L = B /\ lead # 0 /\ d \div Pow2[lead] # 0)
                            THEN Error ELSE sig
    BY <1>2 DEF EncodeBytes
  <2>4. FitsWidth(b, w) <=> ValueOf(sig) < Pow2[w] BY <1>2, <2>1 DEF FitsWidth
  <2>. HIDE DEF sig
  <2>5. /\ low \in Nat /\ low < Unit(L - 1) /\ ValueOf(sig) = low + d * Unit(L - 1)
        /\ d # 0 => ValueOf(sig) >= Unit(L - 1)
    BY <2>1, TopByte
  <2>6. ValueOf(sig) \in Nat /\ ValueOf(sig) < Unit(L) BY <2>1, ValueType
  <2>7. d \in Nat BY <2>1, ByteFacts
  <2>8. Pow2[w] \in Nat BY <2>0, Pow2Type
  <2>9. ByteBits \in Nat /\ ByteBits * B \in Nat /\ ByteBits * (B - 1) \in Nat /\ B - 1 \in Nat /\ L - 1 \in Nat
    <3>. HIDE DEF L, B
    <3>1. B - 1 \in Nat /\ L - 1 \in Nat /\ B \in Nat BY <2>1, <2>2
    <3>2. ByteBits \in Nat BY UnitFacts
    <3>. QED BY <3>1, <3>2
  <2>. HIDE DEF L, B, lead, low, d
  <2>10. CASE L > B
    <3>1. d # 0 BY <2>1, <2>2, <2>10
    <3>2. Unit(B) <= Unit(L - 1) BY <2>1, <2>2, <2>9, <2>10, UnitFacts
    <3>3. Pow2[w] <= Unit(B) BY <2>0, <2>2, <2>9, Pow2Monotonic DEF Unit
    <3>4. Unit(B) \in Nat /\ Unit(L - 1) \in Nat BY <2>2, <2>9, UnitFacts
    <3>5. ~(ValueOf(sig) < Pow2[w]) BY <2>5, <2>6, <2>8, <3>1, <3>2, <3>3, <3>4
    <3>. QED BY <2>3, <2>4, <2>10, <3>5
  <2>11. CASE L < B
    <3>1. Unit(L) <= Unit(B - 1) BY <2>1, <2>2, <2>9, <2>11, UnitFacts
    <3>2. Unit(B - 1) <= Pow2[w] BY <2>0, <2>2, <2>9, Pow2Monotonic DEF Unit
    <3>3. Unit(L) \in Nat /\ Unit(B - 1) \in Nat BY <2>1, <2>9, UnitFacts
    <3>4. ValueOf(sig) < Pow2[w] BY <2>6, <2>8, <3>1, <3>2, <3>3
    <3>. QED BY <2>1, <2>2, <2>3, <2>4, <2>11, <3>4 DEF sig
  <2>12. CASE L = B /\ lead = 0
    <3>1. Pow2[w] = Unit(L) BY <2>2, <2>12 DEF Unit
    <3>. QED BY <2>1, <2>2, <2>3, <2>4, <2>6, <2>12, <3>1 DEF sig
  <2>13. CASE L = B /\ lead # 0
    <3>1. Pow2[w] = Unit(L - 1) * Pow2[lead] BY <2>2, <2>9, <2>13, Pow2Plus DEF Unit
    <3>2. Pow2[lead] \in Nat /\ Pow2[lead] >= 1 /\ Unit(L - 1) \in Nat
      BY <2>2, <2>9, Pow2Type, UnitFacts
    <3>3. Unit(L - 1) * Pow2[lead] = Pow2[lead] * Unit(L - 1) BY <3>2
    <3>4. ValueOf(sig) < Pow2[w] <=> d < Pow2[lead]
      BY <2>5, <2>7, <3>1, <3>2, <3>3, DigitBound
    <3>5. d \div Pow2[lead] = 0 <=> d < Pow2[lead]
      <4>1. \A x, u \in Nat : u >= 1 => (x \div u = 0 <=> x < u)
        <5>1. ASSUME NEW x \in Nat, NEW u \in Nat, u >= 1 PROVE x \div u = 0 <=> x < u
          <6>1. x \div u \in Nat /\ (x % u) \in Nat /\ (x % u) < u /\ x = u * (x \div u) + (x % u)
            BY <5>1, DivMod
          <6>2. CASE x < u
            <7>1. x = u * 0 + x BY <5>1
            <7>2. (u * 0 + x) \div u = 0 BY <6>2, DivUnique
            <7>. QED BY <6>2, <7>1, <7>2
          <6>3. CASE ~(x < u)
            <7>1. x \div u = 0 => u * (x \div u) = 0 BY <5>1
            <7>. QED BY <6>1, <6>3, <7>1
          <6>. QED BY <6>2, <6>3
        <5>. QED BY <5>1
      <4>. QED BY <2>7, <3>2, <4>1
    <3>. QED BY <2>1, <2>3, <2>4, <2>13, <3>4, <3>5 DEF sig
  <2>. QED BY <2>1, <2>2, <2>10, <2>11, <2>12, <2>13
<1>. QED BY <1>1, <1>2

\* The same in terms of numbers.
LEMMA EncodeBytesExact ==
  ASSUME NEW b \in Bytes, NEW w \in Int
  PROVE  IF FitsWidth(b, w)
         THEN /\ Canonical(EncodeBytes(b, w)) /\ ValueOf(EncodeBytes(b, w)) = ValueOf(b)
              /\ CanonicalOf(EncodeBytes(b, w), ValueOf(b)) /\ EncodeBytes(b, w) # Error
         ELSE EncodeBytes(b, w) = Error
<1>1. Canonical(StripLeadingZeros(b)) /\ ValueOf(StripLeadingZeros(b)) = ValueOf(b) BY StripFacts
<1>2. \A c : Canonical(c) => c # Error BY DEF Canonical, Error, Bytes
<1>. QED BY <1>1, <1>2, EncodeBytesFacts DEF CanonicalOf, Canonical

-----------------------------------------------------------------------------
(* Numbers of a uint64 *)

\* The bytes of a number.
BigEndian(v) == [i \in 1..WordBytes |-> (v \div Pow2[ByteBits * (WordBytes - i)]) % Base]

\* They stand for the number.
LEMMA BigEndianValue ==
  ASSUME NEW v \in Nat, v < Unit(WordBytes)
  PROVE  BigEndian(v) \in Bytes /\ ValueOf(BigEndian(v)) = v
<1>. DEFINE b == BigEndian(v)
            S == {k \in Nat : k <= WordBytes => Places(b)[k] = v % Unit(k)}
<1>0. WordBytes \in Nat BY DEF WordBytes
<1>1. b \in Bytes /\ Len(b) = WordBytes
      /\ \A k \in Nat : k < WordBytes => b[WordBytes - k] = (v \div Unit(k)) % Base
  <2>1. ASSUME NEW i \in 1..WordBytes PROVE (v \div Unit(WordBytes - i)) % Base \in Byte
    <3>1. WordBytes - i \in Nat BY <1>0
    <3>2. Unit(WordBytes - i) \in Nat /\ Unit(WordBytes - i) > 0 /\ Base \in Nat /\ Base > 0
      BY <3>1, UnitFacts
    <3>3. v \div Unit(WordBytes - i) \in Nat BY <3>2, DivMod
    <3>. HIDE DEF Unit
    <3>4. (v \div Unit(WordBytes - i)) % Base \in Nat /\ (v \div Unit(WordBytes - i)) % Base < Base
      BY <3>2, <3>3, DivMod
    <3>. QED BY <3>2, <3>4 DEF Byte
  <2>2. b = [i \in 1..WordBytes |-> (v \div Unit(WordBytes - i)) % Base]
    BY DEF BigEndian, Unit
  <2>3. b \in [1..WordBytes -> Byte] BY <2>1, <2>2
  <2>4. b \in Bytes /\ Len(b) = WordBytes BY <1>0, <2>3 DEF Bytes
  <2>5. ASSUME NEW k \in Nat, k < WordBytes PROVE b[WordBytes - k] = (v \div Unit(k)) % Base
    <3>1. WordBytes - k \in 1..WordBytes /\ WordBytes - (WordBytes - k) = k BY <1>0, <2>5
    <3>. QED BY <2>2, <3>1
  <2>. QED BY <2>4, <2>5
<1>. HIDE DEF b
<1>2. 0 \in S
  <2>1. v % 1 = 0 OBVIOUS
  <2>. QED BY <1>1, <2>1, PlacesEquation, UnitFacts
<1>3. ASSUME NEW k \in Nat, k \in S PROVE k + 1 \in S
  <2>1. SUFFICES ASSUME k + 1 <= WordBytes PROVE Places(b)[k + 1] = v % Unit(k + 1) OBVIOUS
  <2>2. k + 1 \in 1..Len(b) /\ (k + 1) - 1 = k /\ Len(b) - (k + 1) + 1 = WordBytes - k
    BY <1>0, <1>1, <2>1
  <2>3. Places(b)[k + 1] = Places(b)[k] + b[WordBytes - k] * Unit(k)
    BY <1>1, <2>2, PlacesEquation
  <2>. DEFINE u == Unit(k)
              q == v \div u
  <2>4. u \in Nat /\ u > 0 /\ Base \in Nat /\ Base > 0 /\ Unit(k + 1) = u * Base
    <3>. HIDE DEF S
    <3>1. Unit(k) \in Nat /\ Unit(k) >= 1 /\ Unit(k + 1) = Unit(k) * Base BY UnitFacts
    <3>2. Base \in Nat /\ Base >= 2 BY UnitFacts
    <3>. QED BY <3>1, <3>2
  <2>5. Places(b)[k + 1] = (v % u) + (q % Base) * u
    <3>1. Places(b)[k] = v % u BY <1>0, <1>3, <2>1
    <3>2. b[WordBytes - k] = q % Base BY <1>0, <1>1, <2>1
    <3>. QED BY <2>3, <3>1, <3>2
  <2>6. q \in Nat /\ (v % u) \in Nat /\ (v % u) < u /\ v = u * q + (v % u) BY <2>4, DivMod
  <2>. HIDE DEF u, q
  <2>7. q \div Base \in Nat /\ (q % Base) \in Nat /\ (q % Base) < Base
        /\ q = Base * (q \div Base) + (q % Base)
    BY <2>4, <2>6, DivMod
  <2>. DEFINE r == v % u
              h == q \div Base
              d == q % Base
  <2>. HIDE DEF r, h, d
  <2>8. \A x, B, y, e, l \in Nat : x * (B * y + e) + l = (x * B) * y + (l + e * x)
                                   /\ l + e * x \in Nat
    OBVIOUS
  <2>9. v = (u * Base) * h + (r + d * u) /\ r + d * u \in Nat
    <3>1. v = u * (Base * h + d) + r BY <2>6, <2>7 DEF r, h, d
    <3>2. r \in Nat /\ h \in Nat /\ d \in Nat BY <2>6, <2>7 DEF r, h, d
    <3>. QED BY <2>4, <2>8, <3>1, <3>2
  <2>10. r + d * u < u * Base
    <3>1. r \in Nat /\ r < u /\ d \in Nat /\ d < Base BY <2>6, <2>7 DEF r, d
    <3>2. r + d * u < Base * u BY <2>4, <3>1, DigitBound
    <3>3. Base * u = u * Base BY <2>4
    <3>. QED BY <3>2, <3>3
  <2>11. v % (u * Base) = r + d * u
    <3>1. u * Base \in Nat /\ h \in Nat BY <2>4, <2>7 DEF h
    <3>. QED BY <2>9, <2>10, <3>1, DivUnique
  <2>. QED BY <2>4, <2>5, <2>11 DEF r, d
<1>4. \A k \in Nat : k \in S
  <2>. HIDE DEF S
  <2>. QED BY <1>2, <1>3, SetInduction
<1>5. ValueOf(b) = v % Unit(WordBytes) BY <1>0, <1>1, <1>4 DEF ValueOf
<1>6. v % Unit(WordBytes) = v
  <2>1. Unit(WordBytes) \in Nat BY <1>0, UnitFacts
  <2>2. v = Unit(WordBytes) * 0 + v BY <2>1
  <2>3. (Unit(WordBytes) * 0 + v) % Unit(WordBytes) = v BY <2>1, DivUnique
  <2>. QED BY <2>2, <2>3
<1>. QED BY <1>1, <1>5, <1>6 DEF b

\* EncodeUint agrees with EncodeBytes on every number a uint64 holds.
LEMMA EncodeUintExact ==
  ASSUME NEW b \in Bytes, Len(b) <= WordBytes, NEW w \in Int
  PROVE  EncodeUint(ValueOf(b), w)
           = IF w <= WordBytes * ByteBits THEN EncodeBytes(b, w) ELSE Error
<1>. DEFINE v == ValueOf(b)
<1>0. WordBytes \in Nat /\ ByteBits \in Nat /\ Len(b) \in Nat BY UnitFacts, ByteFacts DEF WordBytes
<1>1. v \in Nat /\ v < Unit(WordBytes)
  <2>1. ValueOf(b) \in Nat /\ ValueOf(b) < Unit(Len(b)) BY ValueType
  <2>2. Unit(Len(b)) <= Unit(WordBytes) /\ Unit(Len(b)) \in Nat /\ Unit(WordBytes) \in Nat
    BY <1>0, UnitFacts
  <2>. QED BY <2>1, <2>2
<1>2. WordBytes * ByteBits = ByteBits * WordBytes /\ WordBytes * ByteBits \in Nat BY <1>0
<1>3. CASE w <= 0 BY <1>3, EncodeBytesFacts DEF EncodeUint, FitsWidth
<1>4. CASE w > WordBytes * ByteBits BY <1>2, <1>4 DEF EncodeUint
<1>5. CASE w > 0 /\ w <= WordBytes * ByteBits
  <2>0. w \in Nat /\ ~(w <= 0) /\ ~(w > WordBytes * ByteBits) BY <1>2, <1>5
  <2>1. CASE v < Pow2[w]
    <3>1. FitsWidth(b, w) BY <1>5, <2>1 DEF FitsWidth
    <3>2. Canonical(EncodeBytes(b, w)) /\ ValueOf(EncodeBytes(b, w)) = v
      BY <3>1, EncodeBytesExact
    <3>3. ~(v >= Pow2[w]) BY <1>1, <2>0, <2>1, Pow2Type
    <3>4. EncodeUint(v, w) = StripLeadingZeros(BigEndian(v))
      <4>. HIDE DEF v
      <4>. QED BY <2>0, <3>3 DEF EncodeUint, BigEndian
    <3>5. Canonical(StripLeadingZeros(BigEndian(v))) /\ ValueOf(StripLeadingZeros(BigEndian(v))) = v
      BY <1>1, BigEndianValue, StripFacts
    <3>. QED BY <1>5, <3>2, <3>4, <3>5, CanonicalUnique
  <2>2. CASE ~(v < Pow2[w])
    <3>1. ~FitsWidth(b, w) BY <2>2 DEF FitsWidth
    <3>2. EncodeBytes(b, w) = Error BY <3>1, EncodeBytesExact
    <3>3. w # WordBytes * ByteBits BY <1>1, <1>2, <2>2 DEF Unit
    <3>4. w < WordBytes * ByteBits /\ v >= Pow2[w]
      BY <1>1, <1>2, <1>5, <2>0, <2>2, <3>3, Pow2Type
    <3>5. EncodeUint(v, w) = Error
      <4>. HIDE DEF v
      <4>. QED BY <3>4 DEF EncodeUint
    <3>. QED BY <1>5, <3>2, <3>5
  <2>. QED BY <2>1, <2>2
<1>. QED BY <1>2, <1>3, <1>4, <1>5

\* Reading a string from the left, a byte at a time, yields its number.
LEMMA ShiftInEquation ==
  ASSUME NEW b \in Bytes
  PROVE  /\ ShiftIn(b)[0] = 0
         /\ \A i \in 1..Len(b) : ShiftIn(b)[i] = ShiftIn(b)[i - 1] * Base + b[i]
         /\ \A i \in 0..Len(b) : ShiftIn(b)[i] \in Nat
<1>. DEFINE N == Len(b)
            g == [k \in 0..N - 1 |-> [x \in Nat |-> x * Base + b[k + 1]]]
<1>0. N \in Nat /\ Base \in Nat BY ByteFacts, UnitFacts
<1>1. g \in [0..N - 1 -> [Nat -> Nat]]
  <2>1. \A k \in 0..N - 1 : b[k + 1] \in Nat
    <3>. TAKE k \in 0..N - 1
    <3>1. k + 1 \in 1..N BY <1>0
    <3>. QED BY <3>1, ByteFacts
  <2>2. \A k \in 0..N - 1, x \in Nat : x * Base + b[k + 1] \in Nat
    <3>. TAKE k \in 0..N - 1, x \in Nat
    <3>1. b[k + 1] \in Nat /\ x * Base \in Nat BY <1>0, <2>1
    <3>. QED BY <3>1
  <2>. QED BY <2>2
<1>2. \A k \in 0..N - 1, x \in Nat : g[k][x] = x * Base + b[k + 1] OBVIOUS
<1>. HIDE DEF g, N
<1>3. PICK f \in [0..N -> Nat] : FollowsUpTo(f, 0, g, N) BY <1>0, <1>1, RecursionUpTo
<1>4. \A i \in 1..N : f[i] = f[i - 1] * Base + b[i]
  <2>. TAKE i \in 1..N
  <2>1. i - 1 \in 0..N - 1 /\ i - 1 \in 0..N /\ (i - 1) + 1 = i BY <1>0
  <2>2. f[i - 1] \in Nat BY <2>1
  <2>. QED BY <1>2, <1>3, <2>1, <2>2 DEF FollowsUpTo
<1>5. f = [i \in 0..N |-> IF i = 0 THEN 0 ELSE f[i - 1] * Base + b[i]]
  <2>1. \A i \in 0..N : i # 0 => i \in 1..N BY <1>0
  <2>. QED BY <1>3, <1>4, <2>1 DEF FollowsUpTo
<1>. DEFINE v == ShiftIn(b)
<1>6. v = [i \in 0..N |-> IF i = 0 THEN 0 ELSE v[i - 1] * Base + b[i]]
  BY <1>5, Zenon DEF ShiftIn, N
<1>. HIDE DEF v
<1>7. v[0] = 0 BY <1>0, <1>6
<1>8. \A i \in 1..N : v[i] = v[i - 1] * Base + b[i]
  <2>. TAKE i \in 1..N
  <2>1. i \in 0..N /\ i # 0 BY <1>0
  <2>. QED BY <1>6, <2>1
<1>. DEFINE S == {i \in Nat : i <= N => v[i] \in Nat}
<1>9. 0 \in S BY <1>7
<1>10. ASSUME NEW i \in Nat, i \in S PROVE i + 1 \in S
  <2>1. SUFFICES ASSUME i + 1 <= N PROVE v[i + 1] \in Nat OBVIOUS
  <2>2. i + 1 \in 1..N /\ (i + 1) - 1 = i /\ v[i] \in Nat BY <1>0, <1>10, <2>1
  <2>3. b[i + 1] \in Nat BY <2>2, ByteFacts DEF N
  <2>4. v[i] * Base \in Nat BY <1>0, <2>2
  <2>5. v[i + 1] = v[i] * Base + b[i + 1] BY <1>8, <2>2
  <2>. QED BY <2>3, <2>4, <2>5
<1>11. \A i \in Nat : i \in S
  <2>. HIDE DEF S
  <2>. QED BY <1>9, <1>10, SetInduction
<1>12. \A i \in 0..N : v[i] \in Nat BY <1>0, <1>11
<1>. QED BY <1>7, <1>8, <1>12 DEF v, N

\* DecodeUint reads the number of a string that fits a uint64.
LEMMA DecodeUintExact ==
  ASSUME NEW b \in Bytes, Len(b) <= WordBytes PROVE DecodeUint(b) = ValueOf(b)
<1>. DEFINE N == Len(b)
            v == ShiftIn(b)
            p == Places(b)
            S == {i \in Nat : i <= N => v[i] * Unit(N - i) + p[N - i] = ValueOf(b)}
<1>0. N \in Nat BY ByteFacts
<1>1. /\ v[0] = 0 /\ \A i \in 1..N : v[i] = v[i - 1] * Base + b[i]
      /\ \A i \in 0..N : v[i] \in Nat
  BY ShiftInEquation
<1>2. /\ p[0] = 0 /\ \A i \in 0..N : p[i] \in Nat
      /\ \A k \in 1..N : p[k] = p[k - 1] + b[N - k + 1] * Unit(k - 1)
  <2>1. p \in [0..N -> Nat] BY PlacesEquation
  <2>. QED BY <2>1, PlacesEquation
<1>3. p[N] = ValueOf(b) BY DEF ValueOf
<1>. HIDE DEF v, p
<1>4. 0 \in S
  <2>1. N - 0 = N /\ Unit(N) \in Nat /\ p[N] \in Nat BY <1>0, <1>2, UnitFacts
  <2>2. 0 * Unit(N) + p[N] = p[N] BY <2>1
  <2>. QED BY <1>1, <1>3, <2>1, <2>2
<1>5. ASSUME NEW i \in Nat, i \in S PROVE i + 1 \in S
  <2>1. SUFFICES ASSUME i + 1 <= N
                 PROVE  v[i + 1] * Unit(N - (i + 1)) + p[N - (i + 1)] = ValueOf(b)
    OBVIOUS
  <2>. DEFINE k == N - (i + 1)
  <2>2. k \in Nat /\ k + 1 = N - i /\ k + 1 \in 1..N /\ (k + 1) - 1 = k /\ N - (k + 1) + 1 = i + 1
        /\ i + 1 \in 1..N /\ (i + 1) - 1 = i /\ i \in 0..N /\ k \in 0..N
    BY <1>0, <2>1
  <2>3. v[i] * Unit(N - i) + p[N - i] = ValueOf(b) BY <1>5, <2>1
  <2>. HIDE DEF k
  <2>4. v[i] * Unit(k + 1) + p[k + 1] = ValueOf(b) BY <2>2, <2>3
  <2>5. p[k + 1] = p[k] + b[i + 1] * Unit(k) BY <1>2, <2>2
  <2>6. v[i + 1] = v[i] * Base + b[i + 1] BY <1>1, <2>2
  <2>7. Unit(k) \in Nat /\ Base \in Nat /\ Unit(k + 1) = Unit(k) * Base BY <2>2, UnitFacts
  <2>8. b[i + 1] \in Nat /\ v[i] \in Nat /\ p[k] \in Nat BY <1>1, <1>2, <2>2, ByteFacts DEF N
  <2>9. \A x, B, d, u, l \in Nat : (x * B + d) * u + l = x * (u * B) + (l + d * u) OBVIOUS
  <2>10. v[i + 1] * Unit(k) + p[k] = ValueOf(b)
    <3>. DEFINE x == v[i]
                d == b[i + 1]
                u == Unit(k)
                l == p[k]
    <3>1. x \in Nat /\ d \in Nat /\ u \in Nat /\ l \in Nat /\ Base \in Nat BY <2>7, <2>8
    <3>2. ValueOf(b) = x * (u * Base) + (l + d * u) BY <2>4, <2>5, <2>7
    <3>. HIDE DEF x, d, u, l
    <3>3. (x * Base + d) * u + l = x * (u * Base) + (l + d * u) BY ONLY <2>9, <3>1
    <3>4. (x * Base + d) * u + l = ValueOf(b) BY <3>2, <3>3
    <3>. QED BY <2>6, <3>4 DEF x, d, u, l
  <2>. QED BY <2>10 DEF k
<1>6. \A i \in Nat : i \in S
  <2>. HIDE DEF S
  <2>. QED BY <1>4, <1>5, SetInduction
<1>7. v[N] * Unit(0) + p[0] = ValueOf(b)
  <2>1. N - N = 0 /\ N \in S BY <1>0, <1>6
  <2>. QED BY <1>0, <2>1
<1>8. v[N] = ValueOf(b)
  <2>1. v[N] \in Nat /\ Unit(0) = 1 /\ p[0] = 0 BY <1>0, <1>1, <1>2, UnitFacts
  <2>. QED BY <1>7, <2>1
<1>9. ~(Len(b) > WordBytes) BY ByteFacts DEF WordBytes
<1>. QED BY <1>8, <1>9 DEF DecodeUint, v, N

-----------------------------------------------------------------------------
(* Prefixes *)

\* The multiple of u below x.
RoundDown(x, u) == (x \div u) * u

\* Rounding a number written with a quotient and a remainder.
LEMMA RoundDownIs ==
  ASSUME NEW u \in Nat, NEW q \in Nat, NEW r \in Nat, r < u PROVE RoundDown(u * q + r, u) = u * q
<1>1. (u * q + r) \div u = q BY DivUnique
<1>2. q * u = u * q OBVIOUS
<1>. QED BY <1>1, <1>2 DEF RoundDown

\* A number below the unit rounds down to 0.
LEMMA RoundDownSmall ==
  ASSUME NEW u \in Nat, NEW r \in Nat, r < u PROVE RoundDown(r, u) = 0
<1>1. u * 0 + r = r /\ u * 0 = 0 OBVIOUS
<1>2. RoundDown(u * 0 + r, u) = u * 0 BY RoundDownIs
<1>. QED BY <1>1, <1>2

\* A whole byte above the cleared bits.
LEMMA RoundDownAbove ==
  ASSUME NEW low \in Nat, NEW d \in Nat, NEW u \in Nat, NEW e \in Nat, u > 0
  PROVE  RoundDown(low + d * (u * e), u) = RoundDown(low, u) + d * (u * e)
<1>. DEFINE q == low \div u
            r == low % u
<1>1. q \in Nat /\ r \in Nat /\ r < u /\ low = u * q + r BY DivMod
<1>2. RoundDown(low, u) = q * u /\ q * u = u * q BY <1>1 DEF RoundDown
<1>. HIDE DEF q, r
<1>3. low + d * (u * e) = u * (q + d * e) + r /\ q + d * e \in Nat
  <2>1. \A v, x, y, z, w \in Nat : (v * x + y) + z * (v * w) = v * (x + z * w) + y /\ x + z * w \in Nat
    OBVIOUS
  <2>. QED BY <1>1, <2>1
<1>4. RoundDown(u * (q + d * e) + r, u) = u * (q + d * e) BY <1>1, <1>3, RoundDownIs
<1>5. u * (q + d * e) = u * q + d * (u * e)
  <2>1. \A v, x, z, w \in Nat : v * (x + z * w) = v * x + z * (v * w) OBVIOUS
  <2>. QED BY <1>1, <2>1
<1>. QED BY <1>2, <1>3, <1>4, <1>5

\* clearLowBits rounds the number down, wherever in a byte the count ends.
LEMMA ClearLowBitsValue ==
  ASSUME NEW b \in Bytes, NEW count \in Nat
  PROVE  LET c == ClearLowBits(b, count) IN
         c \in Bytes /\ Len(c) = Len(b) /\ ValueOf(c) = RoundDown(ValueOf(b), Pow2[count])
<1>. DEFINE c == ClearLowBits(b, count)
            U == Pow2[count]
            N == Len(b)
            rest(k) == count - ByteBits * k
            S == {k \in Nat : k <= N => Places(c)[k] = RoundDown(Places(b)[k], U)}
<1>0. N \in Nat /\ DOMAIN b = 1..N /\ ByteBits \in Nat /\ ByteBits > 0 BY ByteFacts, UnitFacts
<1>1. ASSUME NEW i \in 1..N
      PROVE  /\ c[i] \in Byte
             /\ c[i] = LET m == rest(N - i)
                       IN  IF m >= ByteBits THEN 0
                           ELSE IF m > 0 THEN b[i] - (b[i] % Pow2[m]) ELSE b[i]
  <2>1. b[i] \in Nat /\ b[i] < Base /\ Base \in Nat /\ Base >= 2 BY ByteFacts, UnitFacts
  <2>2. c[i] = LET m == rest(N - i)
               IN  IF m >= ByteBits THEN 0
                   ELSE IF m > 0 THEN b[i] - (b[i] % Pow2[m]) ELSE b[i]
    BY <1>0 DEF ClearLowBits
  <2>. DEFINE m == rest(N - i)
  <2>3. m \in Int BY <1>0
  <2>. HIDE DEF m, c
  <2>4. c[i] = IF m >= ByteBits THEN 0
               ELSE IF m > 0 THEN b[i] - (b[i] % Pow2[m]) ELSE b[i]
    BY <2>2 DEF m
  <2>5. m > 0 => b[i] - (b[i] % Pow2[m]) \in Nat /\ b[i] - (b[i] % Pow2[m]) <= b[i]
    <3>1. SUFFICES ASSUME m > 0
                   PROVE  b[i] - (b[i] % Pow2[m]) \in Nat /\ b[i] - (b[i] % Pow2[m]) <= b[i]
      OBVIOUS
    <3>2. m \in Nat BY <2>3, <3>1
    <3>. DEFINE h == Pow2[m]
    <3>3. h \in Nat /\ h > 0 BY <3>2, Pow2Type
    <3>. HIDE DEF h
    <3>4. b[i] \div h \in Nat /\ (b[i] % h) \in Nat /\ b[i] = h * (b[i] \div h) + (b[i] % h)
      BY <2>1, <3>3, DivMod
    <3>5. h * (b[i] \div h) \in Nat
      <4>1. \A x, y \in Nat : x * y \in Nat OBVIOUS
      <4>. QED BY ONLY <3>3, <3>4, <4>1
    <3>6. b[i] - (b[i] % h) = h * (b[i] \div h) BY <3>4, <3>5
    <3>7. b[i] - (b[i] % h) \in Nat /\ b[i] - (b[i] % h) <= b[i] BY <2>1, <3>4, <3>5, <3>6
    <3>. QED BY <3>7 DEF h
  <2>6. c[i] \in Nat /\ c[i] < Base BY <2>1, <2>4, <2>5
  <2>7. c[i] \in Byte BY <2>1, <2>6 DEF Byte
  <2>. QED BY <2>2, <2>7
<1>2. c \in Bytes /\ Len(c) = N
  <2>1. DOMAIN c = 1..N /\ c = [i \in 1..N |-> c[i]] BY <1>0 DEF ClearLowBits
  <2>. HIDE DEF c
  <2>2. c \in [1..N -> Byte] BY <1>1, <2>1
  <2>. QED BY <1>0, <2>2 DEF Bytes
<1>3. U \in Nat /\ U >= 1 BY Pow2Type
<1>4. ASSUME NEW k \in Nat, k < N
      PROVE  c[N - k] = IF rest(k) >= ByteBits THEN 0
                        ELSE IF rest(k) > 0 THEN b[N - k] - (b[N - k] % Pow2[rest(k)])
                        ELSE b[N - k]
  <2>1. N - k \in 1..N /\ N - (N - k) = k BY <1>0, <1>4
  <2>. HIDE DEF c
  <2>. QED BY <1>1, <2>1
<1>. HIDE DEF c, U
<1>5. 0 \in S
  <2>1. Places(c)[0] = 0 /\ Places(b)[0] = 0 BY <1>2, PlacesEquation
  <2>2. RoundDown(0, U) = 0 BY <1>3, RoundDownSmall
  <2>. QED BY <2>1, <2>2
<1>6. ASSUME NEW k \in Nat, k \in S PROVE k + 1 \in S
  <2>1. SUFFICES ASSUME k + 1 <= N PROVE Places(c)[k + 1] = RoundDown(Places(b)[k + 1], U) OBVIOUS
  <2>. DEFINE d == b[N - k]
              u == Unit(k)
              low == Places(b)[k]
              m == count - ByteBits * k
  <2>2. k + 1 \in 1..N /\ (k + 1) - 1 = k /\ N - (k + 1) + 1 = N - k /\ N - k \in 1..N
        /\ k \in 0..N /\ k + 1 \in 0..N
    BY <1>0, <2>1
  <2>3. Places(b)[k + 1] = low + d * u BY <2>2, PlacesEquation
  <2>4. Places(c)[k + 1] = Places(c)[k] + c[N - k] * u BY <1>2, <2>2, PlacesEquation
  <2>5. d \in Nat /\ d < Base BY <2>2, ByteFacts
  <2>6. low \in Nat /\ low < u BY <2>2, PlacesBound
  <2>7. u \in Nat /\ u >= 1 /\ Base \in Nat /\ Unit(k + 1) = u * Base BY UnitFacts
  <2>8. Places(c)[k] = RoundDown(low, U) BY <1>0, <1>6, <2>1
  <2>9. m \in Int /\ ByteBits * k \in Nat BY <1>0
  <2>10. c[N - k] = IF m >= ByteBits THEN 0 ELSE IF m > 0 THEN d - (d % Pow2[m]) ELSE d
    BY <1>0, <1>4, <2>1
  <2>11. CASE m >= ByteBits
    <3>1. ByteBits * (k + 1) \in Nat /\ ByteBits * (k + 1) <= count BY <1>0, <2>9, <2>11
    <3>2. Unit(k + 1) <= U BY <3>1, Pow2Monotonic DEF Unit, U
    <3>3. u <= Unit(k + 1) /\ Unit(k + 1) \in Nat
      <4>1. k + 1 \in Nat /\ k <= k + 1 OBVIOUS
      <4>. QED BY ONLY k \in Nat, <4>1, UnitFacts
    <3>4. Places(b)[k + 1] \in Nat /\ Places(b)[k + 1] < Unit(k + 1) BY <2>2, PlacesBound
    <3>5. RoundDown(Places(b)[k + 1], U) = 0 BY <1>3, <3>2, <3>3, <3>4, RoundDownSmall
    <3>6. RoundDown(low, U) = 0 BY <1>3, <2>6, <2>7, <3>2, <3>3, RoundDownSmall
    <3>7. c[N - k] = 0 BY <2>10, <2>11
    <3>. QED BY <2>4, <2>7, <2>8, <3>5, <3>6, <3>7
  <2>12. CASE m < ByteBits /\ m > 0
    <3>. DEFINE h == Pow2[m]
    <3>1. m \in Nat /\ count = ByteBits * k + m BY <2>9, <2>12
    <3>2. U = u * h /\ h \in Nat /\ h >= 1 BY <2>9, <3>1, Pow2Plus, Pow2Type DEF U, Unit
    <3>3. u <= U
      <4>1. u * 1 <= u * h BY <2>7, <3>2, TimesMonotonic
      <4>2. u * 1 = u BY <2>7
      <4>. QED BY <3>2, <4>1, <4>2
    <3>4. RoundDown(low, U) = 0 BY <1>3, <2>6, <2>7, <3>3, RoundDownSmall
    <3>5. ~(m >= ByteBits) BY <1>0, <2>9, <2>12
    <3>6. c[N - k] = d - (d % h) BY <2>10, <2>12, <3>5
    <3>. HIDE DEF h, m, d, u, low
    <3>. DEFINE r == d % h
    <3>7. d \div h \in Nat /\ r \in Nat /\ r < h /\ d = h * (d \div h) + r
      BY <2>5, <3>2, DivMod
    <3>8. c[N - k] = d - r BY <3>6
    <3>. HIDE DEF r
    <3>9. PICK q \in Nat : d = h * q + r BY <3>7
    <3>10. RoundDown(Places(b)[k + 1], U) = (d - r) * u /\ d - r \in Nat
      <4>1. low + d * u = U * q + (low + r * u) /\ low + r * u \in Nat
        <5>1. \A l, x, y, z, v \in Nat : l + (x * y + z) * v = (v * x) * y + (l + z * v)
                                         /\ l + z * v \in Nat
          OBVIOUS
        <5>. QED BY <2>6, <2>7, <3>2, <3>7, <3>9, <5>1
      <4>2. low + r * u < U
        <5>1. low + r * u < h * u BY <2>6, <2>7, <3>2, <3>7, DigitBound
        <5>2. h * u = u * h BY <2>7, <3>2
        <5>. QED BY <3>2, <5>1, <5>2
      <4>3. RoundDown(U * q + (low + r * u), U) = U * q BY <1>3, <4>1, <4>2, RoundDownIs
      <4>4. d - r = h * q /\ h * q \in Nat BY <3>2, <3>7, <3>9
      <4>5. (u * h) * q = (h * q) * u
        <5>1. \A x, y, z \in Nat : (x * y) * z = (y * z) * x OBVIOUS
        <5>. QED BY <2>7, <3>2, <5>1
      <4>. QED BY <2>3, <3>2, <4>1, <4>3, <4>4, <4>5
    <3>11. (d - r) * u \in Nat BY <2>7, <3>10
    <3>. QED BY <2>4, <2>8, <3>4, <3>8, <3>10, <3>11
  <2>13. CASE m <= 0
    <3>. DEFINE j == ByteBits * k - count
    <3>1. j \in Nat /\ ByteBits * k = count + j BY <2>9, <2>13
    <3>2. u = U * Pow2[j] /\ Pow2[j] \in Nat BY <3>1, Pow2Plus, Pow2Type DEF U, Unit
    <3>3. ~(m >= ByteBits) /\ ~(m > 0) BY <1>0, <2>9, <2>13
    <3>4. c[N - k] = d BY <2>10, <3>3
    <3>. HIDE DEF j, m, d, u, low
    <3>5. RoundDown(low + d * (U * Pow2[j]), U) = RoundDown(low, U) + d * (U * Pow2[j])
      BY <1>3, <2>5, <2>6, <3>2, RoundDownAbove
    <3>. QED BY <2>3, <2>4, <2>8, <3>2, <3>4, <3>5
  <2>. QED BY <1>0, <2>9, <2>11, <2>12, <2>13
<1>7. \A k \in Nat : k \in S
  <2>. HIDE DEF S
  <2>. QED BY <1>5, <1>6, SetInduction
<1>8. ValueOf(c) = RoundDown(ValueOf(b), U) BY <1>0, <1>2, <1>7 DEF ValueOf
<1>. QED BY <1>2, <1>8 DEF c, U

\* LPMMask keeps the prefix bits of a value that fits.
LEMMA LPMMaskExact ==
  ASSUME NEW b \in Bytes, NEW w \in Int, NEW p \in Int
  PROVE  IF FitsWidth(b, w) /\ p \in 0..w
         THEN /\ Canonical(LPMMask(b, p, w)) /\ LPMMask(b, p, w) # Error
              /\ ValueOf(LPMMask(b, p, w)) = RoundDown(ValueOf(b), Pow2[w - p])
         ELSE LPMMask(b, p, w) = Error
<1>. DEFINE v == EncodeBytes(b, w)
            c == ClearLowBits(v, w - p)
<1>1. CASE FitsWidth(b, w) /\ p \in 0..w
  <2>1. ValidPrefix(p, w) BY <1>1 DEF ValidPrefix, FitsWidth
  <2>2. v # Error /\ v \in Bytes /\ ValueOf(v) = ValueOf(b)
    BY <1>1, EncodeBytesExact DEF Canonical
  <2>3. w - p \in Nat BY <1>1
  <2>4. LPMMask(b, p, w) = StripLeadingZeros(c) BY <2>1, <2>2 DEF LPMMask
  <2>. HIDE DEF v
  <2>5. c \in Bytes /\ ValueOf(c) = RoundDown(ValueOf(v), Pow2[w - p])
    BY <2>2, <2>3, ClearLowBitsValue
  <2>. HIDE DEF c
  <2>6. Canonical(StripLeadingZeros(c)) /\ ValueOf(StripLeadingZeros(c)) = ValueOf(c)
    BY <2>5, StripFacts
  <2>7. \A x : Canonical(x) => x # Error BY DEF Canonical, Error, Bytes
  <2>. QED BY <1>1, <2>2, <2>4, <2>5, <2>6, <2>7
<1>2. CASE ~FitsWidth(b, w)
  <2>1. v = Error BY <1>2, EncodeBytesExact
  <2>. QED BY <1>2, <2>1 DEF LPMMask
<1>3. CASE ~(p \in 0..w) BY <1>3 DEF LPMMask, ValidPrefix
<1>. QED BY <1>1, <1>2, <1>3

\* The mask of all bits of a field.
Ones(w) ==
  [i \in 1..ByteLen(w) |->
     IF i = 1 /\ w % ByteBits # 0 THEN Pow2[w % ByteBits] - 1 ELSE Base - 1]

\* It is the largest number of the field.
LEMMA OnesValue ==
  ASSUME NEW w \in Nat, w > 0
  PROVE  Ones(w) \in Bytes /\ Len(Ones(w)) = ByteLen(w) /\ ValueOf(Ones(w)) = Pow2[w] - 1
<1>. DEFINE b == Ones(w)
            N == ByteLen(w)
            lead == w % ByteBits
            S == {k \in Nat : k <= N - 1 => Places(b)[k] = Unit(k) - 1}
<1>1. /\ N \in Nat /\ N >= 1 /\ lead \in Nat /\ lead < ByteBits
      /\ lead = 0 => w = ByteBits * N
      /\ lead # 0 => w = ByteBits * (N - 1) + lead
  BY ByteLenFacts
<1>2. ByteBits \in Nat /\ Base \in Nat /\ Base >= 2 BY UnitFacts
<1>3. Pow2[lead] \in Nat /\ Pow2[lead] >= 1 /\ Pow2[lead] <= Base
  BY <1>1, <1>2, Pow2Type, Pow2Monotonic DEF Base
<1>4. b = [i \in 1..N |-> IF i = 1 /\ lead # 0 THEN Pow2[lead] - 1 ELSE Base - 1]
  BY DEF Ones
<1>. HIDE DEF b, N, lead
<1>5. b \in Bytes /\ Len(b) = N
  <2>1. Pow2[lead] - 1 \in Byte /\ Base - 1 \in Byte BY <1>2, <1>3 DEF Byte
  <2>2. b \in [1..N -> Byte] BY <1>4, <2>1
  <2>. QED BY <1>1, <2>2 DEF Bytes
<1>6. 0 \in S
  <2>1. Places(b)[0] = 0 /\ Unit(0) = 1 BY <1>5, PlacesEquation, UnitFacts
  <2>. QED BY <2>1
<1>7. ASSUME NEW k \in Nat, k \in S PROVE k + 1 \in S
  <2>1. SUFFICES ASSUME k + 1 <= N - 1 PROVE Places(b)[k + 1] = Unit(k + 1) - 1 OBVIOUS
  <2>2. k + 1 \in 1..N /\ (k + 1) - 1 = k /\ N - (k + 1) + 1 = N - k /\ N - k \in 1..N /\ N - k # 1
    BY <1>1, <2>1
  <2>3. Places(b)[k + 1] = Places(b)[k] + b[N - k] * Unit(k) BY <1>5, <2>2, PlacesEquation
  <2>4. b[N - k] = Base - 1 BY <1>4, <2>2
  <2>5. Places(b)[k] = Unit(k) - 1 BY <1>1, <1>7, <2>1
  <2>6. Unit(k) \in Nat /\ Unit(k + 1) = Unit(k) * Base BY UnitFacts
  <2>7. \A u, B \in Nat : (u - 1) + (B - 1) * u = u * B - 1 OBVIOUS
  <2>8. (Unit(k) - 1) + (Base - 1) * Unit(k) = Unit(k) * Base - 1 BY <1>2, <2>6, <2>7
  <2>. QED BY <2>3, <2>4, <2>5, <2>6, <2>8
<1>8. \A k \in Nat : k \in S
  <2>. HIDE DEF S
  <2>. QED BY <1>6, <1>7, SetInduction
<1>9. Places(b)[N - 1] = Unit(N - 1) - 1
  <2>1. N - 1 \in Nat BY <1>1
  <2>. QED BY <1>8, <2>1
<1>10. ValueOf(b) = Unit(N - 1) - 1 + b[1] * Unit(N - 1) BY <1>1, <1>5, <1>9, TopByte
<1>11. N - 1 \in Nat /\ Unit(N - 1) \in Nat /\ Unit(N) = Unit(N - 1) * Base
  <2>1. N - 1 \in Nat /\ (N - 1) + 1 = N BY <1>1
  <2>. QED BY <2>1, UnitFacts
<1>12. \A u, h \in Nat : (u - 1) + (h - 1) * u = u * h - 1 OBVIOUS
<1>13. CASE lead = 0
  <2>1. b[1] = Base - 1 BY <1>1, <1>4, <1>13
  <2>2. Pow2[w] = Unit(N) BY <1>1, <1>13 DEF Unit
  <2>3. (Unit(N - 1) - 1) + (Base - 1) * Unit(N - 1) = Unit(N - 1) * Base - 1
    BY <1>2, <1>11, <1>12
  <2>. QED BY <1>5, <1>10, <1>11, <2>1, <2>2, <2>3 DEF b, N
<1>14. CASE lead # 0
  <2>1. b[1] = Pow2[lead] - 1 BY <1>1, <1>4, <1>14
  <2>2. Pow2[w] = Unit(N - 1) * Pow2[lead]
    <3>1. ByteBits * (N - 1) \in Nat BY <1>2, <1>11
    <3>. QED BY <1>1, <1>14, <3>1, Pow2Plus DEF Unit
  <2>3. (Unit(N - 1) - 1) + (Pow2[lead] - 1) * Unit(N - 1) = Unit(N - 1) * Pow2[lead] - 1
    BY <1>3, <1>11, <1>12
  <2>. QED BY <1>5, <1>10, <2>1, <2>2, <2>3 DEF b, N
<1>. QED BY <1>13, <1>14

\* TernaryMask returns the mask of the p highest of w bits, or refuses p.
LEMMA TernaryMaskExact ==
  ASSUME NEW w \in Int, NEW p \in Int
  PROVE  IF w > 0 /\ p \in 0..w
         THEN /\ Canonical(TernaryMask(p, w)) /\ TernaryMask(p, w) # Error
              /\ ValueOf(TernaryMask(p, w)) = Pow2[w] - Pow2[w - p]
         ELSE TernaryMask(p, w) = Error
<1>0. \A x : Canonical(x) => x # Error BY DEF Canonical, Error, Bytes
<1>1. CASE ~(w > 0 /\ p \in 0..w) BY <1>1 DEF TernaryMask, ValidPrefix
<1>2. CASE w > 0 /\ p \in 0..w /\ p = 0
  <2>1. TernaryMask(p, w) = <<0>> BY <1>2 DEF TernaryMask, ValidPrefix
  <2>2. 0 \in Byte BY UnitFacts DEF Byte
  <2>3. <<0>> \in Bytes /\ Len(<<0>>) = 1 /\ \A i \in 1..Len(<<0>>) : <<0>>[i] = 0
    BY <2>2 DEF Bytes
  <2>4. ValueOf(<<0>>) = 0 BY <2>3, ZerosValue
  <2>5. w - p = w /\ Pow2[w] \in Nat BY <1>2, Pow2Type
  <2>6. Canonical(<<0>>) BY <2>3 DEF Canonical
  <2>. QED BY <1>0, <1>2, <2>1, <2>4, <2>5, <2>6
<1>3. CASE w > 0 /\ p \in 0..w /\ p # 0
  <2>. DEFINE u == Pow2[w - p]
              h == Pow2[p]
              c == ClearLowBits(Ones(w), w - p)
  <2>0. w \in Nat /\ p \in Nat /\ w - p \in Nat /\ (w - p) + p = w BY <1>3
  <2>1. TernaryMask(p, w) = StripLeadingZeros(c)
    BY <1>3 DEF TernaryMask, ValidPrefix, Ones
  <2>2. Ones(w) \in Bytes /\ ValueOf(Ones(w)) = Pow2[w] - 1 BY <1>3, <2>0, OnesValue
  <2>3. c \in Bytes /\ ValueOf(c) = RoundDown(Pow2[w] - 1, u) BY <2>0, <2>2, ClearLowBitsValue
  <2>4. Pow2[w] = u * h /\ u \in Nat /\ u >= 1 /\ h \in Nat /\ h >= 1
    BY <2>0, Pow2Plus, Pow2Type
  <2>. HIDE DEF u, h, c
  <2>5. u * h - 1 = u * (h - 1) + (u - 1) /\ h - 1 \in Nat /\ u - 1 \in Nat /\ u - 1 < u
        /\ u * (h - 1) = u * h - u
    BY <2>4
  <2>6. RoundDown(u * (h - 1) + (u - 1), u) = u * (h - 1) BY <2>4, <2>5, RoundDownIs
  <2>7. ValueOf(c) = Pow2[w] - u BY <2>3, <2>4, <2>5, <2>6
  <2>8. Canonical(StripLeadingZeros(c)) /\ ValueOf(StripLeadingZeros(c)) = ValueOf(c)
    BY <2>3, StripFacts
  <2>. QED BY <1>0, <1>3, <2>1, <2>7, <2>8 DEF u
<1>. QED BY <1>1, <1>2, <1>3

-----------------------------------------------------------------------------
(* The inputs of the codec *)

\* The inputs of the codec's functions.
CodecTyped == value \in Bytes /\ second \in Bytes /\ width \in Nat /\ prefix \in Int

\* Every state of MatchSpec holds such inputs.
LEMMA MatchTyped == MatchSpec => []CodecTyped
<1>1. MatchInit => CodecTyped
  <2>1. <<>> \in Bytes BY DEF Bytes
  <2>. QED BY <2>1 DEF MatchInit, CodecInit, CodecTyped
<1>2. CodecTyped /\ [MatchNext]_mvars => CodecTyped'
  <2>1. SUFFICES ASSUME CodecTyped, [MatchNext]_mvars PROVE CodecTyped' OBVIOUS
  <2>2. \A b \in Bytes, x \in Byte : Append(b, x) \in Bytes BY DEF Bytes
  <2>3. CASE GrowValue BY <2>1, <2>2, <2>3 DEF GrowValue, CodecTyped
  <2>4. CASE GrowSecond BY <2>1, <2>2, <2>4 DEF GrowSecond, CodecTyped
  <2>5. CASE Lengthen BY <2>1, <2>5 DEF Lengthen, CodecTyped
  <2>6. CASE Widen BY <2>1, <2>6 DEF Widen, CodecTyped
  <2>7. CASE UNCHANGED mvars BY <2>1, <2>7 DEF mvars, cvars, CodecTyped
  <2>. QED BY <2>1, <2>3, <2>4, <2>5, <2>6, <2>7 DEF MatchNext
<1>. QED BY <1>1, <1>2, PTL DEF MatchSpec

\* The codec refuses exactly the values that do not fit and returns the canonical
\* string of the others, for every width of a byte and of a field and every
\* length of a string.
THEOREM EncodingCorrect == MatchSpec => []EncodingExact
<1>1. CodecTyped => EncodingExact
  <2>1. SUFFICES ASSUME CodecTyped PROVE EncodingExact OBVIOUS
  <2>2. value \in Bytes /\ width \in Int BY <2>1 DEF CodecTyped
  <2>3. IF Fits(value) THEN CanonicalOf(EncodeBytes(value, width), ValueOf(value))
                       ELSE EncodeBytes(value, width) = Error
    BY <2>2, EncodeBytesExact DEF Fits
  <2>4. Len(value) <= WordBytes =>
          /\ EncodeUint(ValueOf(value), width)
               = IF width <= WordBytes * ByteBits THEN EncodeBytes(value, width) ELSE Error
          /\ DecodeUint(value) = ValueOf(value)
    BY <2>2, EncodeUintExact, DecodeUintExact
  <2>. QED BY <2>3, <2>4 DEF EncodingExact
<1>. QED BY <1>1, MatchTyped, PTL

\* Prefixes are counted from the top bit of the field, for every width of a byte
\* and of a field.
THEOREM PrefixCorrect == MatchSpec => []PrefixExact
<1>1. CodecTyped => PrefixExact
  <2>1. SUFFICES ASSUME CodecTyped PROVE PrefixExact OBVIOUS
  <2>2. value \in Bytes /\ width \in Int /\ prefix \in Int BY <2>1 DEF CodecTyped
  <2>. DEFINE unit == Pow2[width - prefix]
  <2>3. IF Fits(value) /\ prefix \in 0..width
        THEN CanonicalOf(LPMMask(value, prefix, width), (ValueOf(value) \div unit) * unit)
        ELSE LPMMask(value, prefix, width) = Error
    BY <2>2, LPMMaskExact DEF Fits, CanonicalOf, Canonical, RoundDown
  <2>4. IF width > 0 /\ prefix \in 0..width
        THEN CanonicalOf(TernaryMask(prefix, width), Pow2[width] - unit)
        ELSE TernaryMask(prefix, width) = Error
    BY <2>2, TernaryMaskExact DEF CanonicalOf, Canonical
  <2>. QED BY <2>3, <2>4 DEF PrefixExact
<1>. QED BY <1>1, MatchTyped, PTL

-----------------------------------------------------------------------------
(* Packets *)

\* A set of positions that is not empty has a last one.
LEMMA LastPosition ==
  ASSUME NEW n \in Nat, NEW S, S \subseteq 1..n, S # {}
  PROVE  Max(S) \in S
<1>. DEFINE T == {n - x : x \in S}
<1>1. \A x \in S : x \in Nat /\ x <= n /\ n - x \in Nat OBVIOUS
<1>2. T \subseteq Nat /\ T # {}
  <2>1. PICK x \in S : TRUE OBVIOUS
  <2>2. n - x \in T OBVIOUS
  <2>. QED BY <1>1, <2>2
<1>3. PICK t \in T : \A u \in T : t <= u
  <2>. HIDE DEF T
  <2>. QED BY <1>2, LeastNat
<1>4. PICK x \in S : t = n - x OBVIOUS
<1>5. \A y \in S : x >= y
  <2>. TAKE y \in S
  <2>1. n - y \in T OBVIOUS
  <2>2. n - x <= n - y BY <1>3, <1>4, <2>1
  <2>. QED BY <1>1, <2>2
<1>. QED BY <1>5 DEF Max

\* The metadata a P4Info declares for packets.
HeaderLists == Seq([id : Nat, name : STRING, bits : Int])

\* The metadata of a caller.
IsMetadata(meta) ==
  meta = [n \in DOMAIN meta |-> meta[n]] /\ \A n \in DOMAIN meta : meta[n] \in Bytes

\* The fields of a header have IDs and widths.
LEMMA HeaderFacts ==
  ASSUME NEW header \in HeaderLists
  PROVE  /\ Len(header) \in Nat /\ DOMAIN header = 1..Len(header)
         /\ \A i \in 1..Len(header) : header[i].id \in Nat /\ header[i].bits \in Int
<1>. DEFINE R == [id : Nat, name : STRING, bits : Int]
<1>1. \A x \in R : x.id \in Nat /\ x.bits \in Int OBVIOUS
<1>2. header \in Seq(R) BY DEF HeaderLists
<1>. HIDE DEF R
<1>3. \A i \in 1..Len(header) : header[i] \in R BY <1>2
<1>. QED BY <1>1, <1>2, <1>3

\* Send refuses what does not name the fields or does not fit.
LEMMA SendExact ==
  ASSUME NEW header \in HeaderLists, header # NoHeader, NEW meta, IsMetadata(meta)
  PROVE  /\ Send(header, meta).ok \in BOOLEAN
         /\ Send(header, meta).ok <=>
              /\ DOMAIN meta = NamesOf(header)
              /\ \A i \in DOMAIN header : FitsWidth(meta[header[i].name], header[i].bits)
         /\ Send(header, meta).ok => Send(header, meta).metadata = EncodedFields(header, meta)
<1>. DEFINE named == /\ DOMAIN meta \subseteq NamesOf(header)
                     /\ \A i \in DOMAIN header : header[i].name \in DOMAIN meta
            fits == \A i \in DOMAIN header : FitsWidth(meta[header[i].name], header[i].bits)
            refused == \E i \in DOMAIN header : Canon(header, meta, i) = Error
<1>1. DOMAIN meta = NamesOf(header) <=> named BY DEF NamesOf
<1>2. ASSUME named PROVE refused <=> ~fits
  <2>1. \A i \in DOMAIN header :
          Canon(header, meta, i) = Error <=> ~FitsWidth(meta[header[i].name], header[i].bits)
    <3>. TAKE i \in DOMAIN header
    <3>1. meta[header[i].name] \in Bytes BY <1>2 DEF IsMetadata
    <3>2. header[i].bits \in Int BY HeaderFacts
    <3>. QED BY <3>1, <3>2, EncodeBytesExact DEF Canon
  <2>. QED BY <2>1
<1>3. Send(header, meta) =
        IF ~named THEN NotSent ELSE IF refused THEN NotSent
        ELSE [ok |-> TRUE, metadata |-> EncodedFields(header, meta)]
  BY DEF Send
<1>. HIDE DEF named, fits, refused
<1>4. NotSent.ok = FALSE BY DEF NotSent
<1>5. CASE named /\ ~refused
  <2>1. Send(header, meta) = [ok |-> TRUE, metadata |-> EncodedFields(header, meta)] BY <1>3, <1>5
  <2>. QED BY <1>1, <1>2, <1>5, <2>1 DEF fits
<1>6. CASE ~named \/ refused
  <2>1. Send(header, meta) = NotSent BY <1>3, <1>6
  <2>. QED BY <1>1, <1>2, <1>4, <1>6, <2>1 DEF fits
<1>. QED BY <1>5, <1>6

\* An ID leads to its field.
LEMMA FieldFound ==
  ASSUME NEW header \in HeaderLists, DistinctIDs(header), NEW i \in DOMAIN header
  PROVE  FieldByID(header, header[i].id) = header[i].name
<1>. DEFINE S == {j \in DOMAIN header : header[j].id = header[i].id}
<1>1. S = {i} BY DEF DistinctIDs
<1>2. Len(header) \in Nat /\ S \subseteq 1..Len(header) /\ S # {} BY <1>1, HeaderFacts
<1>3. Max(S) \in S
  <2>. HIDE DEF S
  <2>. QED BY <1>2, LastPosition
<1>4. Max(S) = i BY <1>1, <1>3
<1>. QED BY <1>4 DEF FieldByID

\* The elements of a list with one more before it.
LEMMA AfterFirst ==
  ASSUME NEW T, NEW r \in Seq(T), NEW x, NEW i \in 2..Len(r) + 1
  PROVE  (<<x>> \o r)[i] = r[i - 1]
OBVIOUS

\* What Decode makes of the fields that were sent, when they come back in the
\* opposite order after one that is unknown.
LEMMA RoundTrip ==
  ASSUME NEW header \in HeaderLists, header # NoHeader, DistinctIDs(header),
         NEW meta, IsMetadata(meta), DOMAIN meta = NamesOf(header),
         \A i \in DOMAIN header : FitsWidth(meta[header[i].name], header[i].bits)
  PROVE  LET stray == [id |-> 0, value |-> <<1>>]
             back == Decode(header, <<stray>> \o Reverse(EncodedFields(header, meta)))
         IN  /\ DOMAIN back = DOMAIN meta
             /\ \A n \in DOMAIN back : CanonicalOf(back[n], ValueOf(meta[n]))
<1>. DEFINE stray == [id |-> 0, value |-> <<1>>]
            sent == EncodedFields(header, meta)
            N == Len(header)
            list == <<stray>> \o Reverse(sent)
            known == {i \in DOMAIN list : \E h \in DOMAIN header : header[h].id = list[i].id}
            at(i) == N + 2 - i
            back == Decode(header, list)
<1>0. N \in Nat /\ DOMAIN header = 1..N BY HeaderFacts
<1>1. /\ sent = [i \in 1..N |-> [id |-> header[i].id, value |-> Canon(header, meta, i)]]
      /\ Len(sent) = N
  BY <1>0 DEF EncodedFields
<1>2. Reverse(sent) = [i \in 1..N |-> sent[(N - i) + 1]] BY <1>1 DEF Reverse
<1>3. DOMAIN list = 1..N + 1 /\ list[1] = stray
      /\ \A i \in 2..N + 1 : /\ list[i].id = header[at(i)].id
                            /\ list[i].value = Canon(header, meta, at(i))
  <2>. DEFINE r == Reverse(sent)
  <2>1. \A i \in 1..N : r[i] = [id |-> header[(N - i) + 1].id, value |-> Canon(header, meta, (N - i) + 1)]
    BY <1>0, <1>1, <1>2
  <2>2. r \in Seq({r[i] : i \in 1..N}) /\ Len(r) = N BY <1>0, <1>2
  <2>. HIDE DEF r, stray, sent
  <2>3. Len(list) = N + 1 /\ DOMAIN list = 1..N + 1 BY <1>0, <2>2 DEF r
  <2>4. list[1] = stray BY <1>0, <2>2 DEF r
  <2>5. ASSUME NEW i \in 2..N + 1
        PROVE  list[i].id = header[at(i)].id /\ list[i].value = Canon(header, meta, at(i))
    <3>1. i - 1 \in 1..N /\ (N - (i - 1)) + 1 = at(i) BY <1>0
    <3>2. list[i] = r[i - 1] BY <1>0, <2>2, AfterFirst DEF r
    <3>3. list[i] = [id |-> header[at(i)].id, value |-> Canon(header, meta, at(i))]
      BY <2>1, <3>1, <3>2
    <3>. HIDE DEF list, at
    <3>. QED BY <3>3
  <2>. QED BY <2>3, <2>4, <2>5
<1>4. \A i \in 2..N + 1 : at(i) \in DOMAIN header BY <1>0
<1>5. \A j \in DOMAIN header : at(j) \in 2..N + 1 /\ at(at(j)) = j BY <1>0
<1>. HIDE DEF list, at, sent
<1>6. known = 2..N + 1
  <2>1. 1 \notin known BY <1>3 DEF DistinctIDs
  <2>2. ASSUME NEW i \in 2..N + 1 PROVE i \in known
    <3>1. i \in DOMAIN list BY <1>0, <1>3
    <3>2. at(i) \in DOMAIN header /\ header[at(i)].id = list[i].id BY <1>3, <1>4
    <3>. QED BY <3>1, <3>2
  <2>3. \A i \in known : i \in 1..N + 1 BY <1>3
  <2>4. \A i \in 1..N + 1 : i # 1 => i \in 2..N + 1 BY <1>0
  <2>. HIDE DEF known
  <2>. QED BY <2>1, <2>2, <2>3, <2>4
<1>7. \A i \in 2..N + 1 : FieldByID(header, list[i].id) = header[at(i)].name
  <2>. TAKE i \in 2..N + 1
  <2>1. list[i].id = header[at(i)].id BY <1>3
  <2>. QED BY <1>4, <2>1, FieldFound
<1>8. back = [n \in {FieldByID(header, list[i].id) : i \in known} |->
                list[Max({i \in known : FieldByID(header, list[i].id) = n})].value]
  BY DEF Decode
<1>. HIDE DEF back, known
<1>9. DOMAIN back = DOMAIN meta
  <2>1. DOMAIN back = {FieldByID(header, list[i].id) : i \in 2..N + 1} BY <1>6, <1>8
  <2>2. \A i \in 2..N + 1 : FieldByID(header, list[i].id) \in NamesOf(header)
    BY <1>4, <1>7 DEF NamesOf
  <2>3. \A n \in NamesOf(header) : \E i \in 2..N + 1 : n = FieldByID(header, list[i].id)
    <3>. TAKE n \in NamesOf(header)
    <3>1. PICK j \in DOMAIN header : n = header[j].name BY DEF NamesOf
    <3>2. at(j) \in 2..N + 1 /\ at(at(j)) = j BY <1>5
    <3>3. n = FieldByID(header, list[at(j)].id) BY <1>7, <3>1, <3>2
    <3>. QED BY <3>2, <3>3
  <2>. QED BY <2>1, <2>2, <2>3
<1>10. ASSUME NEW n \in DOMAIN back PROVE CanonicalOf(back[n], ValueOf(meta[n]))
  <2>. DEFINE S == {i \in known : FieldByID(header, list[i].id) = n}
              k == Max(S)
  <2>1. N + 1 \in Nat /\ S \subseteq 1..N + 1 BY <1>0, <1>6
  <2>2. S # {} BY <1>8, <1>10
  <2>3. k \in S
    <3>. HIDE DEF S
    <3>. QED BY <2>1, <2>2, LastPosition
  <2>4. back[n] = list[k].value BY <1>8, <1>10
  <2>. HIDE DEF k
  <2>5. k \in 2..N + 1 /\ FieldByID(header, list[k].id) = n BY <1>6, <2>3
  <2>6. at(k) \in DOMAIN header /\ header[at(k)].name = n BY <1>4, <1>7, <2>5
  <2>7. back[n] = EncodeBytes(meta[n], header[at(k)].bits)
    BY <1>3, <2>4, <2>5, <2>6 DEF Canon
  <2>8. meta[n] \in Bytes /\ header[at(k)].bits \in Int /\ FitsWidth(meta[n], header[at(k)].bits)
    BY <1>9, <2>6, HeaderFacts DEF IsMetadata
  <2>. QED BY <2>7, <2>8, EncodeBytesExact
<1>. QED BY <1>9, <1>10 DEF back, list, sent

\* The inputs of Send.
PacketTyped == (outMeta = NoHeader \/ outMeta \in HeaderLists) /\ IsMetadata(metadata)

\* Every state of PacketSpec holds such inputs.
LEMMA PacketInductive == PacketSpec => []PacketTyped
<1>1. PacketInit => PacketTyped
  <2>1. IsMetadata(<<>>) BY DEF IsMetadata
  <2>2. PacketHeaders \subseteq HeaderLists BY PacketAssumption DEF HeaderLists
  <2>. QED BY <2>1, <2>2 DEF PacketInit, PacketTyped
<1>2. PacketTyped /\ [SetMetadata]_pvars => PacketTyped'
  <2>1. SUFFICES ASSUME PacketTyped, [SetMetadata]_pvars PROVE PacketTyped' OBVIOUS
  <2>2. CASE SetMetadata
    <3>1. PICK n \in MetadataNames, b \in MetadataBytes :
            metadata' = [x \in DOMAIN metadata \cup {n} |-> IF x = n THEN b ELSE metadata[x]]
      BY <2>2 DEF SetMetadata
    <3>2. b \in Bytes BY PacketAssumption DEF Bytes
    <3>3. IsMetadata(metadata') BY <2>1, <3>1, <3>2 DEF PacketTyped, IsMetadata
    <3>. QED BY <2>1, <2>2, <3>3 DEF SetMetadata, PacketTyped, IsMetadata
  <2>3. CASE UNCHANGED pvars BY <2>1, <2>3 DEF pvars, PacketTyped, IsMetadata
  <2>. QED BY <2>1, <2>2, <2>3
<1>. QED BY <1>1, <1>2, PTL DEF PacketSpec

\* A packet is sent exactly when its metadata names the declared fields with
\* values that fit, and reads back as it was given, for every definition and every
\* metadata.
THEOREM PacketCorrect == PacketSpec => []PacketExact
<1>1. PacketTyped => PacketExact
  <2>1. SUFFICES ASSUME PacketTyped PROVE PacketExact OBVIOUS
  <2>2. CASE outMeta = NoHeader
    <3>. DEFINE sent == Send(outMeta, metadata)
                stray == [id |-> 0, value |-> <<1>>]
                header == IF outMeta = NoHeader THEN <<>> ELSE outMeta
                list == <<stray>> \o Reverse(sent.metadata)
                back == Decode(outMeta, list)
    <3>1. sent = [ok |-> DOMAIN metadata = {}, metadata |-> <<>>] BY <2>2 DEF Send
    <3>2. header = <<>> /\ DOMAIN header = {} /\ NamesOf(header) = {} BY <2>2 DEF NamesOf
    <3>3. DOMAIN back = {}
      <4>. HIDE DEF list
      <4>. QED BY <2>2 DEF Decode
    <3>4. sent.ok <=> DOMAIN metadata = {}
      <4>1. CASE DOMAIN metadata = {}
        <5>1. sent = [ok |-> TRUE, metadata |-> <<>>] BY <3>1, <4>1
        <5>. HIDE DEF sent
        <5>. QED BY <4>1, <5>1
      <4>2. CASE DOMAIN metadata # {}
        <5>1. sent = [ok |-> FALSE, metadata |-> <<>>] BY <3>1, <4>2
        <5>. HIDE DEF sent
        <5>. QED BY <4>2, <5>1
      <4>. QED BY <4>1, <4>2
    <3>5. sent.metadata = <<>> BY <3>1
    <3>. HIDE DEF sent, back, header
    <3>6. /\ sent.ok <=> /\ DOMAIN metadata = NamesOf(header)
                         /\ \A i \in DOMAIN header : FitsWidth(metadata[header[i].name], header[i].bits)
          /\ sent.ok =>
               /\ [i \in DOMAIN sent.metadata |-> sent.metadata[i].id]
                    = [i \in DOMAIN header |-> header[i].id]
               /\ DistinctIDs(header) =>
                    /\ DOMAIN back = DOMAIN metadata
                    /\ \A n \in DOMAIN back : CanonicalOf(back[n], ValueOf(metadata[n]))
      BY <3>2, <3>3, <3>4, <3>5
    <3>. QED BY <3>6 DEF PacketExact, sent, back, header
  <2>3. CASE outMeta # NoHeader
    <3>. DEFINE sent == Send(outMeta, metadata)
                header == IF outMeta = NoHeader THEN <<>> ELSE outMeta
                stray == [id |-> 0, value |-> <<1>>]
                back == Decode(outMeta, <<stray>> \o Reverse(sent.metadata))
    <3>1. header = outMeta /\ outMeta \in HeaderLists /\ IsMetadata(metadata)
      BY <2>1, <2>3 DEF PacketTyped
    <3>2. /\ sent.ok <=> /\ DOMAIN metadata = NamesOf(header)
                         /\ \A i \in DOMAIN header : FitsWidth(metadata[header[i].name], header[i].bits)
          /\ sent.ok => sent.metadata = EncodedFields(header, metadata)
      BY <2>3, <3>1, SendExact
    <3>. HIDE DEF header, sent
    <3>3. ASSUME sent.ok PROVE [i \in DOMAIN sent.metadata |-> sent.metadata[i].id]
                                 = [i \in DOMAIN header |-> header[i].id]
      <4>1. sent.metadata = EncodedFields(header, metadata) BY <3>2, <3>3
      <4>2. DOMAIN EncodedFields(header, metadata) = DOMAIN header
            /\ \A i \in DOMAIN header : EncodedFields(header, metadata)[i].id = header[i].id
        BY DEF EncodedFields
      <4>. QED BY <4>1, <4>2
    <3>4. ASSUME sent.ok, DistinctIDs(header)
          PROVE  /\ DOMAIN back = DOMAIN metadata
                 /\ \A n \in DOMAIN back : CanonicalOf(back[n], ValueOf(metadata[n]))
      <4>1. back = Decode(header, <<stray>> \o Reverse(EncodedFields(header, metadata)))
        BY <3>1, <3>2, <3>4
      <4>. HIDE DEF back
      <4>2. header \in HeaderLists /\ header # NoHeader BY <2>3, <3>1
      <4>. QED BY <3>1, <3>2, <3>4, <4>1, <4>2, RoundTrip
    <3>. HIDE DEF back
    <3>5. /\ sent.ok <=> /\ DOMAIN metadata = NamesOf(header)
                         /\ \A i \in DOMAIN header : FitsWidth(metadata[header[i].name], header[i].bits)
          /\ sent.ok =>
               /\ [i \in DOMAIN sent.metadata |-> sent.metadata[i].id]
                    = [i \in DOMAIN header |-> header[i].id]
               /\ DistinctIDs(header) =>
                    /\ DOMAIN back = DOMAIN metadata
                    /\ \A n \in DOMAIN back : CanonicalOf(back[n], ValueOf(metadata[n]))
      BY <3>2, <3>3, <3>4
    <3>. QED BY <3>5 DEF PacketExact, sent, back, header
  <2>. QED BY <2>2, <2>3
<1>. QED BY <1>1, PacketInductive, PTL

-----------------------------------------------------------------------------
(* Signed numbers *)

\* The bytes from this one on have the sign bit.
HalfByte == Pow2[ByteBits - 1]

\* Half of the unit of place n: the numbers of n bytes from it on are negative.
SignUnit(n) == HalfByte * Unit(n - 1)

\* Half of a byte, and half of the unit of a place.
LEMMA HalfFacts ==
  /\ HalfByte \in Nat /\ HalfByte >= 1 /\ Base = 2 * HalfByte
  /\ \A d \in Nat : Negative(d) <=> d >= HalfByte
  /\ \A n \in Nat : n >= 1 => /\ SignUnit(n) \in Nat /\ SignUnit(n) >= 1
                              /\ Unit(n) = 2 * SignUnit(n) /\ Unit(n - 1) <= SignUnit(n)
<1>1. ByteBits - 1 \in Nat /\ (ByteBits - 1) + 1 = ByteBits BY UnitFacts
<1>2. HalfByte \in Nat /\ HalfByte >= 1 BY <1>1, Pow2Type DEF HalfByte
<1>3. Base = 2 * HalfByte BY <1>1, Pow2Equation DEF Base, HalfByte
<1>4. Base \div 2 = HalfByte BY <1>2, <1>3
<1>5. \A d \in Nat : Negative(d) <=> d >= HalfByte BY <1>4 DEF Negative
<1>6. ASSUME NEW n \in Nat, n >= 1
      PROVE  /\ SignUnit(n) \in Nat /\ SignUnit(n) >= 1
             /\ Unit(n) = 2 * SignUnit(n) /\ Unit(n - 1) <= SignUnit(n)
  <2>1. n - 1 \in Nat /\ (n - 1) + 1 = n BY <1>6
  <2>. DEFINE u == Unit(n - 1)
  <2>2. u \in Nat /\ u >= 1 /\ Unit(n) = u * Base BY <2>1, UnitFacts
  <2>. HIDE DEF u
  <2>3. \A x, h \in Nat : x * (2 * h) = 2 * (h * x) /\ h * x \in Nat OBVIOUS
  <2>4. 1 * u <= HalfByte * u BY <1>2, <2>2, TimesMonotonic
  <2>5. 1 * u = u BY <2>2
  <2>6. HalfByte * u \in Nat /\ HalfByte * u >= 1 /\ Unit(n) = 2 * (HalfByte * u) /\ u <= HalfByte * u
    BY <1>2, <1>3, <2>2, <2>3, <2>4, <2>5
  <2>. QED BY <2>6 DEF SignUnit, u
<1>. QED BY <1>2, <1>3, <1>5, <1>6

\* The number of a string of n bytes in two's complement, and its range.
LEMMA SignedIs ==
  ASSUME NEW c \in Bytes, Len(c) >= 1
  PROVE  LET h == SignUnit(Len(c)) IN
         /\ Negative(c[1]) <=> ValueOf(c) >= h
         /\ SignedOf(c) = IF Negative(c[1]) THEN ValueOf(c) - 2 * h ELSE ValueOf(c)
         /\ SignedOf(c) \in Int /\ -h <= SignedOf(c) /\ SignedOf(c) < h
<1>. DEFINE h == SignUnit(Len(c))
            u == Unit(Len(c) - 1)
            low == Places(c)[Len(c) - 1]
<1>0. Len(c) \in Nat /\ Len(c) - 1 \in Nat /\ c[1] \in Nat BY ByteFacts
<1>1. h \in Nat /\ Unit(Len(c)) = 2 * h /\ h = HalfByte * u /\ HalfByte \in Nat
  BY <1>0, HalfFacts DEF SignUnit
<1>2. low \in Nat /\ low < u /\ ValueOf(c) = low + c[1] * u /\ u \in Nat
  BY <1>0, TopByte, UnitFacts
<1>3. ValueOf(c) \in Nat /\ ValueOf(c) < Unit(Len(c)) BY ValueType
<1>. HIDE DEF h, u, low
<1>4. ValueOf(c) < h <=> c[1] < HalfByte BY <1>0, <1>1, <1>2, DigitBound
<1>5. Negative(c[1]) <=> ValueOf(c) >= h
  <2>1. Negative(c[1]) <=> c[1] >= HalfByte BY <1>0, HalfFacts
  <2>. QED BY <1>0, <1>1, <1>3, <1>4, <2>1
<1>6. c # <<>> BY <1>0
<1>7. SignedOf(c) = IF Negative(c[1]) THEN ValueOf(c) - 2 * h ELSE ValueOf(c)
  BY <1>1, <1>6 DEF SignedOf, Unit
<1>. QED BY <1>1, <1>3, <1>5, <1>7 DEF h

\* Without its first byte a string stands for the same signed number if the byte
\* repeats the sign, and otherwise for a number the shorter string cannot hold.
LEMMA DropByte ==
  ASSUME NEW c \in Bytes, NEW d \in Bytes, Len(d) >= 1, Len(c) = Len(d) + 1,
         \A i \in 1..Len(d) : d[i] = c[i + 1]
  PROVE  LET h == SignUnit(Len(d)) IN
         /\ Redundant(c, 1) => SignedOf(c) = SignedOf(d)
         /\ ~Redundant(c, 1) => SignedOf(c) < -h \/ SignedOf(c) >= h
<1>. DEFINE h == SignUnit(Len(d))
            u == Unit(Len(d))
            x == c[1]
            v == ValueOf(d)
<1>0. Len(d) \in Nat /\ Len(c) \in Nat /\ Len(c) >= 1 /\ Len(c) - 1 = Len(d)
      /\ 1 \in 1..Len(d) /\ 1 + 1 = 2 /\ 1 \in 1..Len(c)
  BY ByteFacts
<1>1. x \in Nat /\ x < Base /\ d[1] \in Nat /\ c[1 + 1] = d[1] BY <1>0, ByteFacts
<1>2. h \in Nat /\ h >= 1 /\ u = 2 * h /\ u \in Nat BY <1>0, HalfFacts, UnitFacts
<1>3. v \in Nat /\ v < u BY ValueType
<1>4. ValueOf(c) = v + x * u
  <2>1. ValueOf(c) = Places(c)[Len(d)] + x * u BY <1>0, TopByte
  <2>2. \A i \in 0..Len(d) - 1 : c[Len(c) - i] = d[Len(d) - i]
    <3>. TAKE i \in 0..Len(d) - 1
    <3>1. Len(d) - i \in 1..Len(d) /\ (Len(d) - i) + 1 = Len(c) - i BY <1>0
    <3>. QED BY <3>1
  <2>3. Places(c)[Len(d)] = Places(d)[Len(d)] BY <1>0, <2>2, PlacesSame
  <2>. QED BY <2>1, <2>3 DEF ValueOf
<1>5. /\ Negative(d[1]) <=> v >= h
      /\ SignedOf(d) = IF Negative(d[1]) THEN v - 2 * h ELSE v
  BY SignedIs
<1>6. Base \in Nat /\ HalfByte \in Nat /\ HalfByte >= 1 /\ Base = 2 * HalfByte
      /\ (Negative(x) <=> x >= HalfByte)
  <2>1. Negative(x) <=> x >= HalfByte BY <1>1, HalfFacts
  <2>. QED BY <2>1, HalfFacts, UnitFacts
<1>7. SignedOf(c) = IF Negative(x) THEN (v + x * u) - Base * u ELSE v + x * u
  <2>1. SignedOf(c) = IF Negative(x) THEN ValueOf(c) - 2 * SignUnit(Len(c)) ELSE ValueOf(c)
    BY <1>0, SignedIs
  <2>2. 2 * SignUnit(Len(c)) = Unit(Len(c)) BY <1>0, HalfFacts
  <2>3. Unit(Len(d) + 1) = u * Base BY <1>0, UnitFacts
  <2>4. u * Base = Base * u BY <1>2, <1>6
  <2>. QED BY <1>0, <1>4, <2>1, <2>2, <2>3, <2>4
<1>8. Redundant(c, 1) <=> (x = 0 /\ ~Negative(d[1])) \/ (x = Base - 1 /\ Negative(d[1]))
  BY <1>1 DEF Redundant
<1>. HIDE DEF h, u, x, v
<1>9. x * u \in Nat /\ (x = 0 => x * u = 0) BY <1>1, <1>2
<1>10. Base * u = x * u + (Base - x) * u /\ (Base - x) \in Nat /\ Base - x >= 1
       /\ (Base - x) * u \in Nat
  <2>1. Base - x \in Nat /\ Base - x >= 1 BY <1>1, <1>6
  <2>2. \A a, b \in Nat, z \in Nat : b <= a => a * z = b * z + (a - b) * z /\ (a - b) * z \in Nat OBVIOUS
  <2>. QED BY <1>1, <1>2, <1>6, <2>1, <2>2
<1>11. CASE Negative(x)
  <2>1. SignedOf(c) = v - (Base - x) * u BY <1>2, <1>3, <1>7, <1>9, <1>10, <1>11
  <2>2. x # 0 BY <1>6, <1>11
  <2>3. CASE x = Base - 1
    <3>1. (Base - x) * u = u
      <4>1. Base - x = 1 /\ 1 * u = u BY <1>2, <1>6, <2>3
      <4>. QED BY <4>1
    <3>. QED BY <1>2, <1>3, <1>5, <1>8, <2>1, <2>2, <2>3, <3>1 DEF h
  <2>4. CASE x # Base - 1
    <3>1. 2 <= Base - x BY <1>6, <1>10, <2>4, <1>1
    <3>2. 2 * u <= (Base - x) * u BY <1>2, <1>10, <3>1, TimesMonotonic
    <3>3. SignedOf(c) < -h BY <1>2, <1>3, <1>10, <2>1, <3>2
    <3>. QED BY <1>8, <2>2, <2>4, <3>3 DEF h
  <2>. QED BY <2>3, <2>4
<1>12. CASE ~Negative(x)
  <2>1. SignedOf(c) = v + x * u BY <1>7, <1>12
  <2>2. x # Base - 1 BY <1>6, <1>12
  <2>3. CASE x = 0
    <3>1. SignedOf(c) = v BY <1>3, <1>9, <2>1, <2>3
    <3>. QED BY <1>2, <1>3, <1>5, <1>8, <2>2, <2>3, <3>1 DEF h
  <2>4. CASE x # 0
    <3>1. 1 <= x /\ 1 * u = u BY <1>1, <1>2, <2>4
    <3>2. 1 * u <= x * u BY <1>1, <1>2, <3>1, TimesMonotonic
    <3>3. SignedOf(c) >= h BY <1>2, <1>3, <1>9, <2>1, <3>1, <3>2
    <3>. QED BY <1>8, <2>2, <2>4, <3>3 DEF h
  <2>. QED BY <2>3, <2>4
<1>. QED BY <1>11, <1>12

\* The end of a byte string from position m on.
TailFrom(b, m) == SubSeq(b, m, Len(b))

\* DropByte, for two ends of a byte string.
LEMMA DropStep ==
  ASSUME NEW b \in Bytes, NEW m \in 1..Len(b), m < Len(b)
  PROVE  LET h == SignUnit(Len(b) - m) IN
         /\ Redundant(b, m) => SignedOf(TailFrom(b, m)) = SignedOf(TailFrom(b, m + 1))
         /\ ~Redundant(b, m) => SignedOf(TailFrom(b, m)) < -h \/ SignedOf(TailFrom(b, m)) >= h
<1>. DEFINE c == TailFrom(b, m)
            d == TailFrom(b, m + 1)
<1>0. Len(b) \in Nat /\ m + 1 \in 1..Len(b) BY ByteFacts
<1>1. /\ c \in Bytes /\ Len(c) = Len(b) - m + 1
      /\ \A i \in 1..Len(c) : c[i] = b[m + i - 1]
  BY Suffix DEF TailFrom
<1>2. /\ d \in Bytes /\ Len(d) = Len(b) - (m + 1) + 1
      /\ \A i \in 1..Len(d) : d[i] = b[(m + 1) + i - 1]
  BY <1>0, Suffix DEF TailFrom
<1>. HIDE DEF c, d
<1>3. Len(d) = Len(b) - m /\ Len(d) >= 1 /\ Len(c) = Len(d) + 1 BY <1>0, <1>1, <1>2
<1>4. \A i \in 1..Len(d) : d[i] = c[i + 1]
  <2>. TAKE i \in 1..Len(d)
  <2>1. i + 1 \in 1..Len(c) /\ m + (i + 1) - 1 = (m + 1) + i - 1 BY <1>0, <1>3
  <2>. QED BY <1>1, <1>2, <2>1
<1>5. Redundant(b, m) <=> Redundant(c, 1)
  <2>1. 1 \in 1..Len(c) /\ 1 + 1 \in 1..Len(c) /\ m + 1 - 1 = m /\ m + (1 + 1) - 1 = m + 1
    BY <1>0, <1>3
  <2>2. c[1] = b[m] /\ c[1 + 1] = b[m + 1] BY <1>1, <2>1
  <2>. QED BY <2>2 DEF Redundant
<1>6. LET h == SignUnit(Len(d)) IN
      /\ Redundant(c, 1) => SignedOf(c) = SignedOf(d)
      /\ ~Redundant(c, 1) => SignedOf(c) < -h \/ SignedOf(c) >= h
  BY <1>1, <1>2, <1>3, <1>4, DropByte
<1>. QED BY <1>3, <1>5, <1>6 DEF c, d

\* stripSign keeps the number and leaves no byte that could be dropped.
LEMMA StripSignFacts ==
  ASSUME NEW b \in Bytes, Len(b) >= 1
  PROVE  LET s == StripSign(b)
             h == SignUnit(Len(s) - 1)
         IN  /\ s \in Bytes /\ Len(s) >= 1 /\ SignedOf(s) = SignedOf(b)
             /\ Len(s) = 1 \/ SignedOf(s) < -h \/ SignedOf(s) >= h
<1>. DEFINE L == Len(b)
            kept == {i \in 1..L : i = L \/ ~Redundant(b, i)}
            m == Min(kept)
            S == {j \in Nat : j + 1 <= m => SignedOf(TailFrom(b, j + 1)) = SignedOf(b)}
            s == TailFrom(b, m)
<1>0. L \in Nat /\ L >= 1 /\ DOMAIN b = 1..L BY ByteFacts
<1>1. m \in kept /\ \A y \in kept : m <= y
  <2>1. kept \subseteq 1..L /\ L \in kept BY <1>0
  <2>2. kept # {} BY <2>1
  <2>. HIDE DEF kept
  <2>. QED BY <1>0, <2>1, <2>2, FirstPosition
<1>2. m \in 1..L /\ (m = L \/ ~Redundant(b, m)) /\ \A i \in 1..L : i < m => i # L /\ Redundant(b, i)
  <2>0. m \in 1..L BY <1>1
  <2>1. m \in 1..L /\ (m = L \/ ~Redundant(b, m)) BY <1>1
  <2>2. \A i \in 1..L : i \in kept => m <= i BY <1>1
  <2>3. \A i \in 1..L : i < m => i \notin kept
    <3>. HIDE DEF m, kept, L
    <3>1. m \in Nat BY <1>0, <2>0
    <3>. QED BY <1>0, <2>2, <3>1
  <2>. QED BY <2>1, <2>3
<1>3. StripSign(b) = s BY DEF StripSign, TailFrom
<1>. HIDE DEF m
<1>3a. m \in 1..L BY <1>2
<1>3b. m \in Nat /\ 1 <= m /\ m <= L BY <1>0, <1>3a
<1>4. 0 \in S
  <2>1. TailFrom(b, 1) = b
    <3>1. /\ Len(TailFrom(b, 1)) = L - 1 + 1 /\ TailFrom(b, 1) \in Bytes
          /\ \A i \in 1..Len(TailFrom(b, 1)) : TailFrom(b, 1)[i] = b[1 + i - 1]
      BY <1>0, Suffix DEF TailFrom
    <3>2. Len(TailFrom(b, 1)) = L BY <1>0, <3>1
    <3>3. \A i \in 1..L : TailFrom(b, 1)[i] = b[i]
      <4>. TAKE i \in 1..L
      <4>1. 1 + i - 1 = i BY <1>0
      <4>. QED BY <3>1, <3>2, <4>1
    <3>. HIDE DEF L
    <3>. QED BY <3>1, <3>2, <3>3, <1>0 DEF Bytes, L
  <2>. QED BY <2>1
<1>5. ASSUME NEW n \in Nat, n \in S PROVE n + 1 \in S
  <2>1. SUFFICES ASSUME (n + 1) + 1 <= m PROVE SignedOf(TailFrom(b, (n + 1) + 1)) = SignedOf(b)
    OBVIOUS
  <2>2. n + 1 \in 1..L /\ n + 1 < m /\ n + 1 < L /\ n + 1 <= m BY <1>0, <1>3b, <2>1
  <2>2a. Redundant(b, n + 1) BY <1>2, <2>2
  <2>3. SignedOf(TailFrom(b, n + 1)) = SignedOf(b) BY <1>5, <2>2
  <2>. QED BY <2>2, <2>2a, <2>3, DropStep
<1>6. SignedOf(s) = SignedOf(b)
  <2>1. \A n \in Nat : n \in S
    <3>. HIDE DEF S
    <3>. QED BY <1>4, <1>5, SetInduction
  <2>2. m - 1 \in Nat /\ (m - 1) + 1 = m BY <1>3b
  <2>. QED BY <2>1, <2>2
<1>7. s \in Bytes /\ Len(s) = L - m + 1 BY <1>2, Suffix DEF TailFrom
<1>8. Len(s) >= 1 /\ Len(s) - 1 = L - m /\ (m = L => Len(s) = 1)
  <2>. HIDE DEF L, s
  <2>. QED BY <1>0, <1>3b, <1>7
<1>9. LET h == SignUnit(L - m) IN Len(s) = 1 \/ SignedOf(s) < -h \/ SignedOf(s) >= h
  <2>1. CASE m = L BY <1>8, <2>1
  <2>2. CASE m # L
    <3>1. m < L
      <4>. HIDE DEF L
      <4>. QED BY <1>0, <1>3b, <2>2
    <3>2. ~Redundant(b, m) BY <1>2, <2>2
    <3>. QED BY <1>3a, <3>1, <3>2, DropStep
  <2>. QED BY <2>1, <2>2
<1>. HIDE DEF s
<1>. QED BY <1>3, <1>6, <1>7, <1>8, <1>9

\* The bits of a byte and its sign fit e bits when the byte is below half of 2^e.
LEMMA BitLenFacts ==
  ASSUME NEW y \in Nat, y < Base, NEW e \in Int
  PROVE  1 + BitLen(y) <= e <=> e >= 1 /\ y < Pow2[e - 1]
<1>. DEFINE D == {n \in 0..ByteBits : y < Pow2[n]}
            m == BitLen(y)
<1>0. ByteBits \in Nat BY UnitFacts
<1>1. ByteBits \in D BY <1>0 DEF Base
<1>2. m \in D /\ \A n \in D : m <= n
  <2>1. D \subseteq Nat /\ D # {} BY <1>0, <1>1
  <2>2. m = Min(D) BY DEF BitLen
  <2>. HIDE DEF D, m
  <2>3. \E n \in D : \A z \in D : n <= z BY <2>1, LeastNat
  <2>. QED BY <2>2, <2>3 DEF Min
<1>3. m \in Nat /\ y < Pow2[m] /\ m <= ByteBits BY <1>0, <1>1, <1>2
<1>. HIDE DEF m
<1>4. ASSUME 1 + m <= e PROVE e >= 1 /\ y < Pow2[e - 1]
  <2>1. e - 1 \in Nat /\ m <= e - 1 /\ e >= 1 BY <1>3, <1>4
  <2>2. Pow2[m] <= Pow2[e - 1] /\ Pow2[m] \in Nat /\ Pow2[e - 1] \in Nat
    BY <1>3, <2>1, Pow2Monotonic, Pow2Type
  <2>. QED BY <1>3, <2>1, <2>2
<1>5. ASSUME e >= 1, y < Pow2[e - 1] PROVE 1 + m <= e
  <2>1. e - 1 \in Nat BY <1>5
  <2>2. CASE e - 1 <= ByteBits
    <3>1. e - 1 \in D BY <1>0, <1>5, <2>1, <2>2
    <3>2. m <= e - 1 BY <1>2, <3>1
    <3>. QED BY <1>3, <2>1, <3>2
  <2>3. CASE e - 1 > ByteBits BY <1>0, <1>3, <2>1, <2>3
  <2>. QED BY <1>0, <2>1, <2>2, <2>3
<1>. QED BY <1>4, <1>5 DEF m

\* The first byte with the sign taken out.
Magnitude(x) == IF Negative(x) THEN Base - 1 - x ELSE x

\* What fitsSigned looks at: the bits that the other bytes leave for the first.
LEMMA FitsSignedBits ==
  ASSUME NEW v \in Bytes, Len(v) >= 1, NEW w \in Nat, w > 0
  PROVE  LET e == w - ByteBits * (Len(v) - 1) IN
         FitsSigned(v, w) <=> e >= 1 /\ Magnitude(v[1]) < Pow2[e - 1]
<1>. DEFINE k == Len(v) - 1
            q == (w - 1) \div ByteBits
            r == (w - 1) % ByteBits
            e == w - ByteBits * k
            y == Magnitude(v[1])
<1>0. k \in Nat /\ 1 \in 1..Len(v) BY ByteFacts
<1>1. ByteBits \in Nat /\ ByteBits > 0 /\ w - 1 \in Nat BY UnitFacts
<1>2. q \in Nat /\ r \in Nat /\ r < ByteBits /\ w - 1 = ByteBits * q + r
  BY <1>1, DivMod
<1>3. y \in Nat /\ y < Base
  <2>1. v[1] \in Nat /\ v[1] < Base /\ Base \in Nat BY <1>0, ByteFacts, UnitFacts
  <2>. QED BY <2>1 DEF Magnitude
<1>4. FitsSigned(v, w) <=> k <= q /\ 1 + BitLen(y) <= w - k * ByteBits
  BY DEF FitsSigned, SignedBits, Magnitude
<1>. HIDE DEF k, q, r, y
<1>5. k * ByteBits = ByteBits * k /\ ByteBits * k \in Nat BY <1>0, <1>1
<1>6. e \in Int BY <1>5
<1>7. k <= q <=> e >= 1
  <2>1. ASSUME k <= q PROVE e >= 1
    <3>1. ByteBits * k <= ByteBits * q BY <1>0, <1>1, <1>2, <2>1, TimesMonotonic
    <3>. QED BY <1>1, <1>2, <1>5, <3>1
  <2>2. ASSUME ~(k <= q) PROVE ~(e >= 1)
    <3>1. q + 1 <= k /\ q + 1 \in Nat BY <1>0, <1>2, <2>2
    <3>2. ByteBits * (q + 1) <= ByteBits * k BY <1>0, <1>1, <3>1, TimesMonotonic
    <3>3. ByteBits * (q + 1) = ByteBits * q + ByteBits BY <1>1, <1>2
    <3>. QED BY <1>1, <1>2, <1>5, <3>2, <3>3
  <2>. QED BY <2>1, <2>2
<1>8. 1 + BitLen(y) <= e <=> e >= 1 /\ y < Pow2[e - 1] BY <1>3, <1>6, BitLenFacts
<1>9. FitsSigned(v, w) <=> e >= 1 /\ y < Pow2[e - 1]
  <2>. HIDE DEF e
  <2>1. e = w - k * ByteBits BY <1>5 DEF e
  <2>. QED BY <1>4, <1>7, <1>8, <2>1
<1>. QED BY <1>9 DEF y, k

\* fitsSigned decides, for a string no byte of which can be dropped, whether its
\* number is one of int<W>.
LEMMA FitsSignedExact ==
  ASSUME NEW v \in Bytes, Len(v) >= 1, NEW w \in Nat, w > 0,
         Len(v) = 1 \/ SignedOf(v) < -SignUnit(Len(v) - 1) \/ SignedOf(v) >= SignUnit(Len(v) - 1)
  PROVE  FitsSigned(v, w) <=> -Pow2[w - 1] <= SignedOf(v) /\ SignedOf(v) < Pow2[w - 1]
<1>. DEFINE k == Len(v) - 1
            e == w - ByteBits * k
            x == v[1]
            u == Unit(k)
            low == Places(v)[k]
            n == SignedOf(v)
            top == Pow2[w - 1]
<1>0. k \in Nat /\ 1 \in 1..Len(v) /\ Len(v) = k + 1 BY ByteFacts
<1>1. ByteBits \in Nat /\ ByteBits > 0 /\ Base \in Nat /\ u \in Nat /\ u >= 1 BY <1>0, UnitFacts
<1>2. x \in Nat /\ x < Base BY <1>0, ByteFacts
<1>3. low \in Nat /\ low < u /\ ValueOf(v) = low + x * u BY TopByte
<1>4. w - 1 \in Nat /\ top \in Nat /\ top >= 1 BY Pow2Type
<1>5. FitsSigned(v, w) <=> e >= 1 /\ Magnitude(x) < Pow2[e - 1] BY FitsSignedBits
<1>6. n = IF Negative(x) THEN (low + x * u) - Base * u ELSE low + x * u
  <2>1. n = IF Negative(x) THEN ValueOf(v) - 2 * SignUnit(Len(v)) ELSE ValueOf(v) BY SignedIs
  <2>2. 2 * SignUnit(Len(v)) = Unit(k + 1) BY <1>0, HalfFacts
  <2>3. Unit(k + 1) = u * Base BY <1>0, UnitFacts
  <2>4. u * Base = Base * u BY <1>1
  <2>. QED BY <1>3, <2>1, <2>2, <2>3, <2>4
<1>7. n \in Int BY SignedIs
<1>8. ByteBits * k \in Nat BY <1>0, <1>1
<1>. SUFFICES FitsSigned(v, w) <=> -top <= n /\ n < top OBVIOUS
<1>. HIDE DEF u, low, n, top, x
<1>9. CASE e >= 1
  <2>. DEFINE P == Pow2[e - 1]
  <2>1. e - 1 \in Nat /\ P \in Nat BY <1>8, <1>9, Pow2Type
  <2>2. top = P * u
    <3>1. w - 1 = ByteBits * k + (e - 1) BY <1>8
    <3>2. Pow2[ByteBits * k + (e - 1)] = u * P BY <1>8, <2>1, Pow2Plus DEF u, Unit
    <3>. HIDE DEF P, e
    <3>3. u * P = P * u BY <1>1, <2>1
    <3>. QED BY <3>1, <3>2, <3>3 DEF top
  <2>. HIDE DEF P
  <2>3. P * u \in Nat /\ x * u \in Nat /\ Base * u \in Nat BY <1>1, <1>2, <2>1
  <2>4. CASE ~Negative(x)
    <3>1. low + x * u < P * u <=> x < P BY <1>1, <1>2, <1>3, <2>1, DigitBound
    <3>2. Magnitude(x) = x /\ n = low + x * u BY <1>6, <2>4 DEF Magnitude
    <3>3. n \in Nat BY <1>3, <2>3, <3>2
    <3>4. -top <= n BY <1>4, <3>3
    <3>. HIDE DEF e
    <3>. QED BY <1>5, <1>9, <2>2, <3>1, <3>2, <3>4 DEF P
  <2>5. CASE Negative(x)
    <3>. DEFINE y == Base - 1 - x
                rest == u - 1 - low
    <3>1. y \in Nat /\ rest \in Nat /\ rest < u BY <1>1, <1>2, <1>3
    <3>2. rest + y * u < P * u <=> y < P
      <4>. HIDE DEF y, rest
      <4>. QED BY <1>1, <2>1, <3>1, DigitBound
    <3>3. y * u = (Base * u - u) - x * u
      <4>1. \A a, b, z \in Nat : (a - 1 - b) * z = (a * z - z) - b * z OBVIOUS
      <4>. QED BY <1>1, <1>2, <4>1
    <3>4. n = (low + x * u) - Base * u BY <1>6, <2>5
    <3>. HIDE DEF y
    <3>5. y * u \in Nat BY <1>1, <3>1
    <3>6. n = -(rest + y * u) - 1 BY <1>1, <1>3, <2>3, <3>3, <3>4, <3>5
    <3>7. Magnitude(x) = y BY <2>5 DEF Magnitude, y
    <3>. HIDE DEF rest, e
    <3>8. n < top /\ (-top <= n <=> rest + y * u < P * u)
      BY <1>4, <2>2, <2>3, <3>1, <3>5, <3>6
    <3>. QED BY <1>5, <1>9, <3>2, <3>7, <3>8 DEF P
  <2>. QED BY <2>4, <2>5
<1>10. CASE ~(e >= 1)
  <2>1. k >= 1
    <3>1. k # 0 BY <1>0, <1>1, <1>10
    <3>. QED BY <1>0, <3>1
  <2>2. ByteBits - 1 \in Nat /\ k - 1 \in Nat /\ ByteBits * (k - 1) \in Nat
        /\ ByteBits * k = ByteBits * (k - 1) + ByteBits
    <3>1. \A a \in Nat, c \in Nat : a >= 1 => c * a = c * (a - 1) + c /\ c * (a - 1) \in Nat OBVIOUS
    <3>. HIDE DEF k
    <3>. QED BY <1>0, <1>1, <2>1, <3>1
  <2>3. Pow2[(ByteBits - 1) + ByteBits * (k - 1)] = SignUnit(k)
    BY <2>2, Pow2Plus DEF SignUnit, HalfByte, Unit
  <2>4. (ByteBits - 1) + ByteBits * (k - 1) \in Nat /\ w - 1 <= (ByteBits - 1) + ByteBits * (k - 1)
    <3>. DEFINE z == ByteBits * (k - 1)
    <3>1. w - ByteBits * k < 1 BY <1>8, <1>10
    <3>2. z \in Nat /\ ByteBits * k = z + ByteBits BY <2>2
    <3>. HIDE DEF z
    <3>3. (ByteBits - 1) + z \in Nat /\ w - 1 <= (ByteBits - 1) + z BY <1>1, <2>2, <3>1, <3>2
    <3>. QED BY <3>3 DEF z
  <2>5. top <= SignUnit(k) BY <1>4, <2>3, <2>4, Pow2Monotonic DEF top
  <2>6. SignUnit(k) \in Nat BY <1>0, <2>1, HalfFacts
  <2>7. n < -SignUnit(k) \/ n >= SignUnit(k)
    <3>1. Len(v) # 1 BY <1>0, <2>1
    <3>. QED BY <3>1 DEF n
  <2>8. ~FitsSigned(v, w) BY <1>5, <1>10
  <2>9. ~(-top <= n /\ n < top)
    <3>. HIDE DEF k
    <3>. QED BY <1>4, <1>7, <2>5, <2>6, <2>7
  <2>. QED BY <2>8, <2>9
<1>. QED BY <1>9, <1>10

\* A longer string can hold every number a shorter one can.
LEMMA SignUnitMonotonic ==
  \A m, n \in Nat : 1 <= m /\ m <= n => SignUnit(m) <= SignUnit(n)
<1>. TAKE m, n \in Nat
<1>. HAVE 1 <= m /\ m <= n
<1>1. m - 1 \in Nat /\ n - 1 \in Nat /\ m - 1 <= n - 1 OBVIOUS
<1>2. Unit(m - 1) <= Unit(n - 1) /\ Unit(m - 1) \in Nat /\ Unit(n - 1) \in Nat BY <1>1, UnitFacts
<1>3. HalfByte \in Nat BY HalfFacts
<1>4. HalfByte * Unit(m - 1) <= HalfByte * Unit(n - 1) BY <1>2, <1>3, TimesMonotonic
<1>. QED BY <1>4 DEF SignUnit

\* No end of a string that stripSign left stands for the same number.
LEMMA ShortestSigned ==
  ASSUME NEW s \in Bytes, Len(s) >= 1,
         Len(s) = 1 \/ SignedOf(s) < -SignUnit(Len(s) - 1) \/ SignedOf(s) >= SignUnit(Len(s) - 1),
         NEW i \in 2..Len(s)
  PROVE  SignedOf(SubSeq(s, i, Len(s))) # SignedOf(s)
<1>. DEFINE c == SubSeq(s, i, Len(s))
            h == SignUnit(Len(s) - 1)
            g == SignUnit(Len(c))
            m == SignedOf(c)
            n == SignedOf(s)
<1>0. Len(s) \in Nat /\ i \in 1..Len(s) /\ Len(s) # 1 /\ Len(s) - 1 \in Nat BY ByteFacts
<1>1. c \in Bytes /\ Len(c) = Len(s) - i + 1 BY <1>0, Suffix
<1>2. Len(c) \in Nat /\ Len(c) >= 1 /\ Len(c) <= Len(s) - 1 BY <1>0, <1>1
<1>3. g <= h /\ g \in Nat /\ h \in Nat
  <2>1. Len(s) - 1 >= 1 BY <1>0, <1>2
  <2>. QED BY <1>0, <1>2, <2>1, SignUnitMonotonic, HalfFacts
<1>4. m \in Int /\ -g <= m /\ m < g
  <2>. HIDE DEF c
  <2>. QED BY <1>1, <1>2, SignedIs
<1>5. n \in Int BY SignedIs
<1>6. n < -h \/ n >= h BY <1>0
<1>. HIDE DEF g, h, m, n
<1>7. m # n BY <1>3, <1>4, <1>5, <1>6
<1>. QED BY <1>7 DEF m, n

\* signedBytes on the numbers of int<W>.
LEMMA SignedBytesExact ==
  ASSUME NEW b \in Bytes, NEW w \in Int
  PROVE  LET n == SignedOf(b)
             s == SignedBytes(b, w)
         IN  /\ s # Error <=> w > 0 /\ -Pow2[w - 1] <= n /\ n < Pow2[w - 1]
             /\ s # Error => /\ SignedOf(s) = n
                             /\ \A i \in 2..Len(s) : SignedOf(SubSeq(s, i, Len(s))) # n
<1>. DEFINE n == SignedOf(b)
            s == SignedBytes(b, w)
<1>. SUFFICES /\ s # Error <=> w > 0 /\ -Pow2[w - 1] <= n /\ n < Pow2[w - 1]
              /\ s # Error => /\ SignedOf(s) = n
                              /\ \A i \in 2..Len(s) : SignedOf(SubSeq(s, i, Len(s))) # n
  OBVIOUS
<1>1. CASE w <= 0
  <2>1. s = Error /\ ~(w > 0) BY <1>1 DEF SignedBytes
  <2>. HIDE DEF s
  <2>. QED BY <2>1
<1>2. CASE w > 0 /\ b = <<>>
  <2>1. s = <<0>> BY <1>2 DEF SignedBytes
  <2>2. n = 0
    <3>1. Len(b) = 0 BY <1>2
    <3>2. ValueOf(b) = 0 BY <3>1, PlacesEquation DEF ValueOf
    <3>. QED BY <1>2, <3>2 DEF SignedOf
  <2>3. <<0>> \in Bytes /\ Len(<<0>>) = 1 /\ <<0>>[1] = 0
    BY UnitFacts DEF Bytes, Byte
  <2>4. SignedOf(<<0>>) = 0
    <3>. DEFINE z == <<0>>
    <3>1. z \in Bytes /\ Len(z) = 1 /\ z[1] = 0 BY <2>3
    <3>. HIDE DEF z
    <3>2. \A i \in 1..Len(z) : z[i] = 0 BY <3>1
    <3>3. ValueOf(z) = 0 BY <3>1, <3>2, ZerosValue
    <3>4. ~Negative(z[1])
      <4>1. Negative(z[1]) <=> 0 >= HalfByte BY <3>1, HalfFacts
      <4>. QED BY <4>1, HalfFacts
    <3>5. SignedOf(z) = 0 BY <3>3, <3>4 DEF SignedOf
    <3>. QED BY <3>5 DEF z
  <2>5. w - 1 \in Nat /\ Pow2[w - 1] \in Nat /\ Pow2[w - 1] >= 1 BY <1>2, Pow2Type
  <2>6. -Pow2[w - 1] <= 0 /\ 0 < Pow2[w - 1] BY <2>5
  <2>7. s # Error BY <2>1 DEF Error
  <2>8. 2..Len(s) = {} BY <2>1, <2>3
  <2>9. SignedOf(s) = n BY <2>1, <2>2, <2>4
  <2>. HIDE DEF s, n
  <2>. QED BY <1>2, <2>2, <2>6, <2>7, <2>8, <2>9
<1>3. CASE w > 0 /\ b # <<>>
  <2>. DEFINE v == StripSign(b)
  <2>0. Len(b) >= 1 /\ w \in Nat BY <1>3, ByteFacts DEF Bytes
  <2>1. /\ v \in Bytes /\ Len(v) >= 1 /\ SignedOf(v) = n
        /\ Len(v) = 1 \/ SignedOf(v) < -SignUnit(Len(v) - 1) \/ SignedOf(v) >= SignUnit(Len(v) - 1)
    BY <2>0, StripSignFacts
  <2>2. s = IF FitsSigned(v, w) THEN v ELSE Error BY <1>3 DEF SignedBytes, SignedOrError
  <2>. HIDE DEF v, n, s
  <2>3. FitsSigned(v, w) <=> -Pow2[w - 1] <= SignedOf(v) /\ SignedOf(v) < Pow2[w - 1]
    BY <1>3, <2>0, <2>1, FitsSignedExact
  <2>4. v # Error BY <2>1 DEF Error
  <2>5. \A i \in 2..Len(v) : SignedOf(SubSeq(v, i, Len(v))) # SignedOf(v) BY <2>1, ShortestSigned
  <2>6. s # Error <=> FitsSigned(v, w) BY <2>2, <2>4
  <2>7. s # Error => s = v BY <2>2
  <2>. QED BY <1>3, <2>1, <2>3, <2>5, <2>6, <2>7
<1>. QED BY <1>1, <1>2, <1>3

\* A byte string whose number is 0 has no other bytes.
LEMMA ZeroBytes ==
  ASSUME NEW b \in Bytes
  PROVE  ValueOf(b) = 0 <=> \A i \in 1..Len(b) : b[i] = 0
<1>1. ASSUME ValueOf(b) = 0, NEW i \in 1..Len(b) PROVE b[i] = 0
  <2>. DEFINE k == Len(b) - i
  <2>1. k \in Nat /\ k < Len(b) /\ Len(b) - k = i BY ByteFacts
  <2>2. (ValueOf(b) \div Unit(k)) % Base = b[Len(b) - k] BY <2>1, DigitOf
  <2>3. Unit(k) \in Nat /\ Unit(k) >= 1 /\ Base \in Nat /\ Base >= 2 BY <2>1, UnitFacts
  <2>4. \A u, c \in Nat : u >= 1 /\ c >= 2 => (0 \div u) % c = 0 OBVIOUS
  <2>5. (0 \div Unit(k)) % Base = 0 BY <2>3, <2>4
  <2>. QED BY <1>1, <2>1, <2>2, <2>5
<1>. QED BY <1>1, ZerosValue

\* unsignedBytes on the numbers of bit<W>.
LEMMA UnsignedBytesExact ==
  ASSUME NEW b \in Bytes, NEW w \in Int
  PROVE  LET u == UnsignedBytes(b, w)
         IN  /\ u # Error <=> w >= 0 /\ ValueOf(b) < Pow2[w]
             /\ u # Error => CanonicalOf(u, ValueOf(b))
<1>. DEFINE u == UnsignedBytes(b, w)
<1>. SUFFICES /\ u # Error <=> w >= 0 /\ ValueOf(b) < Pow2[w]
              /\ u # Error => CanonicalOf(u, ValueOf(b))
  OBVIOUS
<1>1. CASE w < 0
  <2>1. u = Error BY <1>1 DEF UnsignedBytes
  <2>. HIDE DEF u
  <2>. QED BY <1>1, <2>1
<1>2. CASE w = 0
  <2>1. ValueOf(b) \in Nat /\ Pow2[0] = 1 /\ DOMAIN b = 1..Len(b)
    BY ValueType, Pow2Equation, ByteFacts
  <2>2. ValueOf(b) < Pow2[w] <=> ValueOf(b) = 0 BY <1>2, <2>1
  <2>3. u = IF \E i \in DOMAIN b : b[i] # 0 THEN Error ELSE <<0>> BY <1>2 DEF UnsignedBytes
  <2>. HIDE DEF u
  <2>4. u = IF ValueOf(b) = 0 THEN <<0>> ELSE Error BY <2>1, <2>3, ZeroBytes
  <2>5. <<0>> # Error /\ Len(<<0>>) = 1 BY DEF Error
  <2>6. ValueOf(<<0>>) = 0
    <3>. DEFINE z == <<0>>
    <3>1. z \in Bytes /\ Len(z) = 1 /\ z[1] = 0 BY UnitFacts DEF Bytes, Byte
    <3>. HIDE DEF z
    <3>2. \A i \in 1..Len(z) : z[i] = 0 BY <3>1
    <3>3. ValueOf(z) = 0 BY <3>1, <3>2, ZerosValue
    <3>. QED BY <3>3 DEF z
  <2>7. CanonicalOf(<<0>>, 0) BY <2>5, <2>6 DEF CanonicalOf
  <2>8. u # Error <=> ValueOf(b) = 0 BY <2>4, <2>5
  <2>. QED BY <1>2, <2>2, <2>4, <2>7, <2>8
<1>3. CASE w > 0
  <2>1. u = EncodeBytes(b, w) BY <1>3 DEF UnsignedBytes
  <2>. HIDE DEF u
  <2>2. IF FitsWidth(b, w) THEN CanonicalOf(u, ValueOf(b)) /\ u # Error ELSE u = Error
    BY <2>1, EncodeBytesExact
  <2>3. FitsWidth(b, w) <=> ValueOf(b) < Pow2[w] BY <1>3 DEF FitsWidth
  <2>. QED BY <1>3, <2>2, <2>3
<1>. QED BY <1>1, <1>2, <1>3

\* SignedExact: register/numeric.go encodes the numbers of int<W> and bit<W>, and
\* no others, each in its shortest form, for every width and every byte string.
THEOREM SignedCorrect == MatchSpec => []SignedExact
<1>1. CodecTyped => SignedExact
  <2>. SUFFICES ASSUME CodecTyped PROVE SignedExact OBVIOUS
  <2>1. value \in Bytes /\ width \in Int BY DEF CodecTyped
  <2>2. LET n == SignedOf(value)
            s == SignedBytes(value, width)
        IN  /\ s # Error <=> width > 0 /\ -Pow2[width - 1] <= n /\ n < Pow2[width - 1]
            /\ s # Error => /\ SignedOf(s) = n
                            /\ \A i \in 2..Len(s) : SignedOf(SubSeq(s, i, Len(s))) # n
    BY <2>1, SignedBytesExact
  <2>3. LET u == UnsignedBytes(value, width)
        IN  /\ u # Error <=> width >= 0 /\ ValueOf(value) < Pow2[width]
            /\ u # Error => CanonicalOf(u, ValueOf(value))
    BY <2>1, UnsignedBytesExact
  <2>. QED BY <2>2, <2>3 DEF SignedExact
<1>. QED BY <1>1, MatchTyped, PTL

-----------------------------------------------------------------------------
(* Bits *)

\* A bit is 0 or 1; what is below 2^i has no bit i.
LEMMA BitType ==
  ASSUME NEW n \in Nat, NEW i \in Nat
  PROVE  /\ BitOf(n, i) \in {0, 1}
         /\ n < Pow2[i] => BitOf(n, i) = 0
         /\ Pow2[i] <= n /\ n < Pow2[i + 1] => BitOf(n, i) = 1
<1>. DEFINE u == Pow2[i]
            q == n \div u
<1>1. u \in Nat /\ u >= 1 /\ Pow2[i + 1] = 2 * u BY Pow2Type, Pow2Equation
<1>2. q \in Nat /\ (n % u) \in Nat /\ (n % u) < u /\ n = u * q + (n % u)
  <2>. HIDE DEF u
  <2>1. u > 0 BY <1>1
  <2>. QED BY <1>1, <2>1, DivMod
<1>3. BitOf(n, i) = q % 2 BY DEF BitOf
<1>. HIDE DEF q, u
<1>4. q % 2 \in {0, 1} BY <1>2
<1>5. ASSUME n < u PROVE q % 2 = 0
  <2>1. u * q < u BY <1>1, <1>2, <1>5
  <2>2. q = 0
    <3>1. \A a, b \in Nat : b >= 1 => a * b >= a OBVIOUS
    <3>. QED BY <1>1, <1>2, <2>1, <3>1
  <2>. QED BY <2>2
<1>6. ASSUME u <= n, n < 2 * u PROVE q % 2 = 1
  <2>1. q # 0 BY <1>1, <1>2, <1>6
  <2>2. ~(q >= 2)
    <3>1. \A a, b \in Nat : b >= 2 => a * b >= 2 * a
      <4>. TAKE a, b \in Nat
      <4>. HAVE b >= 2
      <4>1. a * 2 <= a * b BY TimesMonotonic
      <4>. QED BY <4>1
    <3>2. ASSUME q >= 2 PROVE FALSE
      <4>1. u * q >= 2 * u BY <1>1, <1>2, <3>1, <3>2
      <4>2. u * q \in Nat BY <1>1, <1>2
      <4>. QED BY <1>1, <1>2, <1>6, <4>1, <4>2
    <3>. QED BY <3>2
  <2>3. q = 1 BY <1>2, <2>1, <2>2
  <2>. QED BY <2>3
<1>. QED BY <1>1, <1>3, <1>4, <1>5, <1>6 DEF u

\* A number that is not 0 has a highest bit.
LEMMA TopBit ==
  ASSUME NEW n \in Nat, n > 0
  PROVE  \E i \in Nat : Pow2[i] <= n /\ n < Pow2[i + 1] /\ BitOf(n, i) = 1
<1>. DEFINE S == {m \in Nat : m < Pow2[m]}
            T == {m \in Nat : n < Pow2[m]}
<1>1. \A m \in Nat : m \in S
  <2>1. 0 \in S BY Pow2Equation
  <2>2. ASSUME NEW m \in Nat, m \in S PROVE m + 1 \in S
    <3>1. Pow2[m + 1] = 2 * Pow2[m] /\ Pow2[m] \in Nat BY Pow2Equation, Pow2Type
    <3>. QED BY <2>2, <3>1
  <2>. HIDE DEF S
  <2>. QED BY <2>1, <2>2, SetInduction
<1>2. n \in T BY <1>1
<1>3. PICK k \in T : \A m \in T : k <= m
  <2>1. T \subseteq Nat /\ T # {} BY <1>2
  <2>. HIDE DEF T
  <2>. QED BY <2>1, LeastNat
<1>4. k \in Nat /\ n < Pow2[k] BY <1>3
<1>5. k # 0 BY <1>4, Pow2Equation
<1>. DEFINE i == k - 1
<1>6. i \in Nat /\ i + 1 = k /\ ~(k <= i) BY <1>4, <1>5
<1>7. ~(n < Pow2[i]) BY <1>3, <1>6
<1>8. Pow2[i] \in Nat BY <1>6, Pow2Type
<1>9. Pow2[i] <= n BY <1>7, <1>8
<1>. HIDE DEF i
<1>10. n < Pow2[i + 1] BY <1>4, <1>6
<1>. QED BY <1>6, <1>9, <1>10, BitType

\* What is added above a bit does not change it.
LEMMA BitBelow ==
  ASSUME NEW n \in Nat, NEW q \in Nat, NEW e \in Nat, NEW i \in Nat, i < e
  PROVE  BitOf(n + q * Pow2[e], i) = BitOf(n, i)
<1>. DEFINE u == Pow2[i]
            h == Pow2[e - i - 1]
            d == n \div u
            r == n % u
<1>0. e - i - 1 \in Nat /\ i + 1 \in Nat /\ (i + 1) + (e - i - 1) = e OBVIOUS
<1>1. u \in Nat /\ u >= 1 /\ h \in Nat BY <1>0, Pow2Type
<1>2. Pow2[e] = (2 * u) * h
  <2>1. Pow2[(i + 1) + (e - i - 1)] = Pow2[i + 1] * h BY <1>0, Pow2Plus
  <2>2. Pow2[i + 1] = 2 * u BY Pow2Equation
  <2>. QED BY <1>0, <2>1, <2>2
<1>3. d \in Nat /\ r \in Nat /\ r < u /\ n = u * d + r
  <2>. HIDE DEF u
  <2>1. u > 0 BY <1>1
  <2>. QED BY <1>1, <2>1, DivMod
<1>. DEFINE qh == q * h
<1>4. qh \in Nat BY <1>1
<1>5. n + q * Pow2[e] = u * (d + 2 * qh) + r
  <2>1. \A a, b, c, x, y \in Nat : (a * x + y) + b * ((2 * a) * c) = a * (x + 2 * (b * c)) + y OBVIOUS
  <2>2. (u * d + r) + q * ((2 * u) * h) = u * (d + 2 * (q * h)) + r
    <3>. HIDE DEF u, h, d, r
    <3>. QED BY ONLY q \in Nat, <1>1, <1>3, <2>1
  <2>. QED BY <1>2, <1>3, <2>2
<1>. HIDE DEF u, h, d, r, qh
<1>6. d + 2 * qh \in Nat BY <1>3, <1>4
<1>7. (u * (d + 2 * qh) + r) \div u = d + 2 * qh BY <1>1, <1>3, <1>6, DivUnique
<1>8. (d + 2 * qh) % 2 = d % 2 BY <1>3, <1>4
<1>9. BitOf(n + q * Pow2[e], i) = (d + 2 * qh) % 2 BY <1>5, <1>7 DEF BitOf, u
<1>. QED BY <1>8, <1>9 DEF BitOf, d, u

\* Bit k + j of a number is bit j of the number without its k low bits.
LEMMA BitShift ==
  ASSUME NEW n \in Nat, NEW k \in Nat, NEW j \in Nat
  PROVE  BitOf(n, k + j) = BitOf(n \div Pow2[k], j)
<1>. DEFINE u == Pow2[k]
            v == Pow2[j]
            q == n \div u
            r == n % u
            p == q \div v
            s == q % v
<1>1. u \in Nat /\ u >= 1 /\ v \in Nat /\ v >= 1 /\ Pow2[k + j] = u * v BY Pow2Type, Pow2Plus
<1>2. q \in Nat /\ r \in Nat /\ r < u /\ n = u * q + r
  <2>. HIDE DEF u
  <2>1. u > 0 BY <1>1
  <2>. QED BY <1>1, <2>1, DivMod
<1>. HIDE DEF u, v, q, r
<1>3. p \in Nat /\ s \in Nat /\ s < v /\ q = v * p + s BY <1>1, <1>2, DivMod
<1>. HIDE DEF p, s
<1>. DEFINE m == u * s + r
<1>4. n = (u * v) * p + m
  <2>1. \A a, b, c, x, y \in Nat : a * (b * c + x) + y = (a * b) * c + (a * x + y) OBVIOUS
  <2>. QED BY <1>1, <1>2, <1>3, <2>1
<1>5. m \in Nat /\ m < u * v
  <2>1. r + s * u < v * u <=> s < v BY <1>1, <1>2, <1>3, DigitBound
  <2>2. r + s * u = m /\ v * u = u * v BY <1>1, <1>2, <1>3
  <2>3. m \in Nat BY <1>1, <1>2, <1>3
  <2>. HIDE DEF m
  <2>. QED BY <1>3, <2>1, <2>2, <2>3
<1>. HIDE DEF m
<1>6. u * v \in Nat BY <1>1
<1>7. n \div (u * v) = p
  <2>. DEFINE d == u * v
  <2>1. d \in Nat /\ m < d BY <1>5, <1>6
  <2>. HIDE DEF d
  <2>2. (d * p + m) \div d = p BY <1>3, <1>5, <2>1, DivUnique
  <2>. QED BY <1>4, <2>2 DEF d
<1>. QED BY <1>1, <1>7 DEF BitOf, p, q, u, v

\* AndBits satisfies the equation it is defined by.
LEMMA AndEquation ==
  ASSUME NEW x \in Nat, NEW y \in Nat
  PROVE  /\ AndBits(x, y)[0] = 0
         /\ \A k \in 1..ByteBits :
              AndBits(x, y)[k] = AndBits(x, y)[k - 1] + BitOf(x, k - 1) * BitOf(y, k - 1) * Pow2[k - 1]
<1>. DEFINE t(k) == BitOf(x, k) * BitOf(y, k) * Pow2[k]
            g == [k \in 0..ByteBits - 1 |-> [z \in Nat |-> z + t(k)]]
<1>0. ByteBits \in Nat BY UnitFacts
<1>1. g \in [0..ByteBits - 1 -> [Nat -> Nat]]
  <2>1. \A k \in 0..ByteBits - 1 : t(k) \in Nat
    <3>. TAKE k \in 0..ByteBits - 1
    <3>1. k \in Nat BY <1>0
    <3>2. BitOf(x, k) \in {0, 1} /\ BitOf(y, k) \in {0, 1} /\ Pow2[k] \in Nat
      BY <3>1, BitType, Pow2Type
    <3>. QED BY <3>2
  <2>2. \A k \in 0..ByteBits - 1, z \in Nat : z + t(k) \in Nat
    <3>. HIDE DEF t
    <3>. QED BY <2>1
  <2>. HIDE DEF t
  <2>. QED BY <2>2
<1>2. \A k \in 0..ByteBits - 1, z \in Nat : g[k][z] = z + t(k) OBVIOUS
<1>. HIDE DEF g
<1>3. PICK f \in [0..ByteBits -> Nat] : FollowsUpTo(f, 0, g, ByteBits) BY <1>0, <1>1, RecursionUpTo
<1>4. \A k \in 1..ByteBits : f[k] = f[k - 1] + t(k - 1)
  <2>. HIDE DEF t
  <2>. TAKE k \in 1..ByteBits
  <2>1. k - 1 \in 0..ByteBits - 1 /\ k - 1 \in 0..ByteBits BY <1>0
  <2>2. f[k - 1] \in Nat BY <2>1
  <2>. QED BY <1>2, <1>3, <2>1, <2>2 DEF FollowsUpTo
<1>5. f = [k \in 0..ByteBits |-> IF k = 0 THEN 0
                                 ELSE f[k - 1] + BitOf(x, k - 1) * BitOf(y, k - 1) * Pow2[k - 1]]
  <2>1. \A k \in 0..ByteBits : k # 0 => k \in 1..ByteBits BY <1>0
  <2>2. \A k \in 1..ByteBits : f[k] = f[k - 1] + BitOf(x, k - 1) * BitOf(y, k - 1) * Pow2[k - 1]
    BY <1>4
  <2>3. f[0] = 0 BY <1>3 DEF FollowsUpTo
  <2>. HIDE DEF t
  <2>. QED BY <1>3, <2>1, <2>2, <2>3
<1>. DEFINE v == AndBits(x, y)
<1>6. v = [k \in 0..ByteBits |-> IF k = 0 THEN 0
                                 ELSE v[k - 1] + BitOf(x, k - 1) * BitOf(y, k - 1) * Pow2[k - 1]]
  BY <1>5, Zenon DEF AndBits
<1>. HIDE DEF v
<1>7. v[0] = 0 BY <1>0, <1>6
<1>8. \A k \in 1..ByteBits : v[k] = v[k - 1] + BitOf(x, k - 1) * BitOf(y, k - 1) * Pow2[k - 1]
  <2>. TAKE k \in 1..ByteBits
  <2>1. k \in 0..ByteBits /\ k # 0 BY <1>0
  <2>. QED BY <1>6, <2>1
<1>. QED BY <1>7, <1>8 DEF v

\* The low k bits of And, of which each is set when both bytes have it.
AndUpTo(x, y, k) ==
  LET s == AndBits(x, y)[k]
  IN  s \in Nat /\ s < Pow2[k] /\ \A i \in 0..k - 1 : BitOf(s, i) = BitOf(x, i) * BitOf(y, i)

\* One more bit of And.
LEMMA AndStep ==
  ASSUME NEW x \in Nat, NEW y \in Nat, NEW k \in Nat, k < ByteBits, AndUpTo(x, y, k)
  PROVE  AndUpTo(x, y, k + 1)
<1>. DEFINE s == AndBits(x, y)[k]
            t == BitOf(x, k) * BitOf(y, k)
            u == Pow2[k]
            n == s + t * u
<1>0. ByteBits \in Nat /\ k + 1 \in 1..ByteBits /\ (k + 1) - 1 = k BY UnitFacts
<1>1. AndBits(x, y)[k + 1] = n BY <1>0, AndEquation
<1>2. u \in Nat /\ u >= 1 /\ Pow2[k + 1] = 2 * u BY Pow2Type, Pow2Equation
<1>3. t \in {0, 1}
  <2>1. BitOf(x, k) \in {0, 1} /\ BitOf(y, k) \in {0, 1} BY BitType
  <2>. QED BY <2>1
<1>4. s \in Nat /\ s < u /\ \A i \in 0..k - 1 : BitOf(s, i) = BitOf(x, i) * BitOf(y, i)
  BY DEF AndUpTo
<1>5. n \in Nat /\ n < Pow2[k + 1] /\ (t = 0 => n = s) /\ (t = 1 => n = s + u)
  <2>. HIDE DEF s, t, u
  <2>1. CASE t = 0
    <3>1. t * u = 0 BY <1>2, <2>1
    <3>. QED BY <1>2, <1>4, <2>1, <3>1
  <2>2. CASE t = 1
    <3>1. t * u = u BY <1>2, <2>2
    <3>. QED BY <1>2, <1>4, <2>2, <3>1
  <2>. QED BY <1>3, <2>1, <2>2
<1>6. BitOf(n, k) = t
  <2>. HIDE DEF t, n
  <2>1. CASE t = 0
    <3>1. n < u BY <1>4, <1>5, <2>1
    <3>. QED BY <1>5, <2>1, <3>1, BitType
  <2>2. CASE t = 1
    <3>1. u <= n BY <1>2, <1>4, <1>5, <2>2
    <3>. QED BY <1>5, <2>2, <3>1, BitType
  <2>. QED BY <1>3, <2>1, <2>2
<1>7. ASSUME NEW i \in 0..(k + 1) - 1 PROVE BitOf(n, i) = BitOf(x, i) * BitOf(y, i)
  <2>1. CASE i = k BY <1>6, <2>1
  <2>2. CASE i # k
    <3>1. i \in 0..k - 1 /\ i \in Nat /\ i < k BY <2>2
    <3>2. t \in Nat BY <1>3
    <3>. HIDE DEF t, s
    <3>3. BitOf(s + t * Pow2[k], i) = BitOf(s, i) BY <1>4, <3>1, <3>2, BitBelow
    <3>. QED BY <1>4, <3>1, <3>3
  <2>. QED BY <2>1, <2>2
<1>. HIDE DEF n
<1>. QED BY <1>1, <1>5, <1>7 DEF AndUpTo

\* And computes the bits two bytes have in common.
LEMMA AndFacts ==
  ASSUME NEW x \in Nat, NEW y \in Nat
  PROVE  /\ And(x, y) \in Nat /\ And(x, y) < Base
         /\ \A i \in 0..ByteBits - 1 : BitOf(And(x, y), i) = BitOf(x, i) * BitOf(y, i)
<1>. DEFINE S == {k \in Nat : k <= ByteBits => AndUpTo(x, y, k)}
<1>0. ByteBits \in Nat BY UnitFacts
<1>1. 0 \in S
  <2>1. AndBits(x, y)[0] = 0 /\ Pow2[0] = 1 /\ 0..0 - 1 = {} BY AndEquation, Pow2Equation
  <2>2. AndUpTo(x, y, 0) BY <2>1 DEF AndUpTo
  <2>. QED BY <2>2
<1>2. ASSUME NEW k \in Nat, k \in S PROVE k + 1 \in S
  <2>1. SUFFICES ASSUME k + 1 <= ByteBits PROVE AndUpTo(x, y, k + 1) OBVIOUS
  <2>2. k < ByteBits /\ k <= ByteBits BY <1>0, <2>1
  <2>. QED BY <1>2, <2>2, AndStep
<1>3. \A k \in Nat : k \in S
  <2>. HIDE DEF S
  <2>. QED BY <1>1, <1>2, SetInduction
<1>4. AndUpTo(x, y, ByteBits) BY <1>0, <1>3
<1>. QED BY <1>4 DEF AndUpTo, And, Base

\* The byte of a string at a place, counted from the end.
ByteAt(b, k) == IF k < Len(b) THEN b[Len(b) - k] ELSE 0

\* The bits of the number of a string are those of its bytes.
LEMMA BitOfValue ==
  ASSUME NEW b \in Bytes, NEW k \in Nat, NEW j \in 0..ByteBits - 1
  PROVE  /\ ByteAt(b, k) \in Nat
         /\ BitOf(ValueOf(b), ByteBits * k + j) = BitOf(ByteAt(b, k), j)
<1>. DEFINE V == ValueOf(b)
            Q == V \div Unit(k)
<1>0. Len(b) \in Nat /\ V \in Nat /\ V < Unit(Len(b)) BY ByteFacts, ValueType
<1>1. ByteBits \in Nat /\ ByteBits * k \in Nat /\ Base \in Nat /\ Base >= 2 /\ Unit(k) \in Nat /\ Unit(k) >= 1
  <2>1. ByteBits \in Nat /\ Base \in Nat /\ Base >= 2 BY UnitFacts
  <2>2. Unit(k) \in Nat /\ Unit(k) >= 1 BY UnitFacts
  <2>3. ByteBits * k \in Nat BY <2>1
  <2>. QED BY <2>1, <2>2, <2>3
<1>2. j \in Nat /\ j < ByteBits BY <1>1
<1>3. BitOf(V, ByteBits * k + j) = BitOf(Q, j)
  <2>. DEFINE e == ByteBits * k
  <2>1. Unit(k) = Pow2[e] /\ e \in Nat BY <1>1 DEF Unit
  <2>. HIDE DEF V, e
  <2>2. BitOf(V, e + j) = BitOf(V \div Pow2[e], j) BY <1>0, <1>2, <2>1, BitShift
  <2>. QED BY <2>1, <2>2 DEF e
<1>4. CASE k < Len(b)
  <2>. DEFINE d == b[Len(b) - k]
              q == Q \div Base
  <2>1. Q % Base = d BY <1>4, DigitOf
  <2>2. Q \in Nat
    <3>1. Unit(k) > 0 BY <1>1
    <3>. HIDE DEF V
    <3>. QED BY <1>0, <1>1, <3>1, DivMod
  <2>3. Len(b) - k \in 1..Len(b) BY <1>0, <1>4
  <2>4. d \in Nat BY <2>3, ByteFacts
  <2>. HIDE DEF Q, d
  <2>5. q \in Nat /\ Q = Base * q + d
    <3>1. Base > 0 BY <1>1
    <3>2. Q \div Base \in Nat /\ Q = Base * (Q \div Base) + (Q % Base) BY <1>1, <2>2, <3>1, DivMod
    <3>. QED BY <2>1, <3>2
  <2>. HIDE DEF q
  <2>6. Q = d + q * Pow2[ByteBits]
    <3>1. \A x, y, z \in Nat : x * y + z = z + y * x OBVIOUS
    <3>. QED BY <1>1, <2>4, <2>5, <3>1 DEF Base
  <2>7. BitOf(Q, j) = BitOf(d, j) BY <1>1, <1>2, <2>4, <2>5, <2>6, BitBelow
  <2>8. ByteAt(b, k) = d BY <1>4 DEF ByteAt, d
  <2>. QED BY <1>3, <2>4, <2>7, <2>8
<1>5. CASE ~(k < Len(b))
  <2>1. V < Unit(k)
    <3>1. Unit(Len(b)) <= Unit(k) /\ Unit(Len(b)) \in Nat BY <1>0, <1>5, UnitFacts
    <3>. HIDE DEF V
    <3>. QED BY <1>0, <1>1, <3>1
  <2>2. Q = 0
    <3>. HIDE DEF V
    <3>1. Unit(k) * 0 + V = V BY <1>0, <1>1
    <3>2. (Unit(k) * 0 + V) \div Unit(k) = 0 BY <1>0, <1>1, <2>1, DivUnique
    <3>. QED BY <3>1, <3>2
  <2>3. ByteAt(b, k) = 0 BY <1>5 DEF ByteAt
  <2>. QED BY <1>3, <2>2, <2>3
<1>. QED BY <1>4, <1>5

\* What TernaryApply keeps of value and mask, both canonical, before it strips
\* the zeros.
Common(v, k) ==
  [i \in DOMAIN v |-> LET j == i + Len(k) - Len(v) IN IF j < 1 THEN 0 ELSE And(v[i], k[j])]

\* The bits of the common bytes: the masked bits of the value.
LEMMA CommonBits ==
  ASSUME NEW v \in Bytes, NEW k \in Bytes
  PROVE  /\ Common(v, k) \in Bytes
         /\ \A i \in Nat : BitOf(ValueOf(Common(v, k)), i) = BitOf(ValueOf(v), i) * BitOf(ValueOf(k), i)
<1>. DEFINE c == Common(v, k)
            L == Len(v)
            K == Len(k)
<1>0. L \in Nat /\ K \in Nat /\ DOMAIN v = 1..L BY ByteFacts
<1>0a. ByteBits \in Nat /\ ByteBits > 0 /\ Base \in Nat /\ Base >= 2 BY UnitFacts
<1>1. ASSUME NEW i \in 1..L
      PROVE  /\ c[i] = IF i + K - L < 1 THEN 0 ELSE And(v[i], k[i + K - L])
             /\ c[i] \in Byte
  <2>1. c[i] = IF i + K - L < 1 THEN 0 ELSE And(v[i], k[i + K - L]) BY <1>0 DEF Common
  <2>. HIDE DEF c
  <2>2. CASE i + K - L < 1
    <3>1. c[i] = 0 BY <2>1, <2>2
    <3>. QED BY <2>1, <3>1, <1>0a DEF Byte
  <2>3. CASE ~(i + K - L < 1)
    <3>1. i + K - L \in 1..K BY <1>0, <2>3
    <3>2. v[i] \in Nat /\ k[i + K - L] \in Nat BY <3>1, ByteFacts
    <3>3. And(v[i], k[i + K - L]) \in Nat /\ And(v[i], k[i + K - L]) < Base BY <3>2, AndFacts
    <3>4. c[i] = And(v[i], k[i + K - L]) BY <2>1, <2>3
    <3>5. c[i] \in Byte BY <1>0a, <3>3, <3>4 DEF Byte
    <3>. QED BY <2>1, <3>5
  <2>. QED BY <2>2, <2>3
<1>2. c \in Bytes /\ Len(c) = L
  <2>1. c = [i \in 1..L |-> c[i]] BY <1>0 DEF Common
  <2>. HIDE DEF c
  <2>2. c \in [1..L -> Byte] BY <1>1, <2>1
  <2>3. c \in Seq(Byte) /\ Len(c) = L BY <1>0, <2>2
  <2>. QED BY <2>3 DEF Bytes
<1>. HIDE DEF c
<1>3. ASSUME NEW t \in Nat, NEW j \in 0..ByteBits - 1
      PROVE  BitOf(ByteAt(c, t), j) = BitOf(ByteAt(v, t), j) * BitOf(ByteAt(k, t), j)
  <2>0. j \in Nat BY <1>0a
  <2>1. ByteAt(v, t) \in Nat /\ ByteAt(k, t) \in Nat BY BitOfValue
  <2>2. BitOf(ByteAt(v, t), j) \in {0, 1} /\ BitOf(ByteAt(k, t), j) \in {0, 1} /\ BitOf(0, j) = 0
    <3>1. Pow2[j] \in Nat /\ Pow2[j] >= 1 BY <2>0, Pow2Type
    <3>2. 0 < Pow2[j] BY <3>1
    <3>3. BitOf(0, j) = 0 BY <2>0, <3>2, BitType
    <3>4. BitOf(ByteAt(v, t), j) \in {0, 1} BY <2>0, <2>1, BitType
    <3>5. BitOf(ByteAt(k, t), j) \in {0, 1} BY <2>0, <2>1, BitType
    <3>. QED BY <3>3, <3>4, <3>5
  <2>3. CASE ~(t < L)
    <3>1. ByteAt(c, t) = 0 /\ ByteAt(v, t) = 0 BY <1>2, <2>3 DEF ByteAt
    <3>. QED BY <2>2, <3>1
  <2>4. CASE t < L /\ ~(t < K)
    <3>1. L - t \in 1..L /\ (L - t) + K - L < 1 BY <1>0, <2>4
    <3>2. c[L - t] = 0 BY <1>1, <3>1
    <3>3. ByteAt(c, t) = 0 /\ ByteAt(k, t) = 0 BY <1>2, <2>4, <3>2 DEF ByteAt
    <3>. QED BY <2>2, <3>3
  <2>5. CASE t < L /\ t < K
    <3>1. L - t \in 1..L /\ ~((L - t) + K - L < 1) /\ (L - t) + K - L = K - t BY <1>0, <2>5
    <3>2. c[L - t] = And(v[L - t], k[(L - t) + K - L]) BY <1>1, <3>1
    <3>3. ByteAt(c, t) = c[L - t] /\ ByteAt(v, t) = v[L - t] /\ ByteAt(k, t) = k[K - t]
      BY <1>2, <2>5 DEF ByteAt
    <3>4. ByteAt(c, t) = And(ByteAt(v, t), ByteAt(k, t)) BY <3>1, <3>2, <3>3
    <3>. QED BY <2>1, <3>4, AndFacts
  <2>. QED BY <2>3, <2>4, <2>5
<1>4. ASSUME NEW i \in Nat
      PROVE  BitOf(ValueOf(c), i) = BitOf(ValueOf(v), i) * BitOf(ValueOf(k), i)
  <2>. DEFINE t == i \div ByteBits
              j == i % ByteBits
  <2>1. t \in Nat /\ j \in Nat /\ j < ByteBits /\ i = ByteBits * t + j BY <1>0a, DivMod
  <2>. HIDE DEF t, j
  <2>2. j \in 0..ByteBits - 1 BY <1>0a, <2>1
  <2>3. BitOf(ValueOf(c), i) = BitOf(ByteAt(c, t), j) BY <1>2, <2>1, <2>2, BitOfValue
  <2>4. BitOf(ValueOf(v), i) = BitOf(ByteAt(v, t), j) BY <2>1, <2>2, BitOfValue
  <2>5. BitOf(ValueOf(k), i) = BitOf(ByteAt(k, t), j) BY <2>1, <2>2, BitOfValue
  <2>. QED BY <1>3, <2>1, <2>2, <2>3, <2>4, <2>5
<1>. QED BY <1>2, <1>4 DEF c

\* TernaryApply refuses what does not fit, and otherwise returns the canonical
\* string of the masked bits of the value.
LEMMA TernaryApplyExact ==
  ASSUME NEW b \in Bytes, NEW m \in Bytes, NEW w \in Int
  PROVE  LET a == TernaryApply(b, m, w) IN
         IF FitsWidth(b, w) /\ FitsWidth(m, w)
         THEN /\ a # Error /\ Canonical(a)
              /\ \A i \in Nat : BitOf(ValueOf(a), i) = BitOf(ValueOf(b), i) * BitOf(ValueOf(m), i)
         ELSE a = Error
<1>. DEFINE v == EncodeBytes(b, w)
            k == EncodeBytes(m, w)
            a == TernaryApply(b, m, w)
<1>1. IF FitsWidth(b, w) THEN Canonical(v) /\ ValueOf(v) = ValueOf(b) /\ v # Error ELSE v = Error
  BY EncodeBytesExact
<1>2. IF FitsWidth(m, w) THEN Canonical(k) /\ ValueOf(k) = ValueOf(m) /\ k # Error ELSE k = Error
  BY EncodeBytesExact
<1>3. a = IF v = Error \/ k = Error THEN Error ELSE StripLeadingZeros(Common(v, k))
  BY DEF TernaryApply, Common
<1>. HIDE DEF v, k, a
<1>4. CASE FitsWidth(b, w) /\ FitsWidth(m, w)
  <2>1. v \in Bytes /\ k \in Bytes /\ a = StripLeadingZeros(Common(v, k))
    BY <1>1, <1>2, <1>3, <1>4 DEF Canonical
  <2>2. /\ Common(v, k) \in Bytes
        /\ \A i \in Nat : BitOf(ValueOf(Common(v, k)), i) = BitOf(ValueOf(v), i) * BitOf(ValueOf(k), i)
    BY <2>1, CommonBits
  <2>3. Canonical(a) /\ ValueOf(a) = ValueOf(Common(v, k)) BY <2>1, <2>2, StripFacts
  <2>4. a # Error BY <2>3 DEF Canonical, Error
  <2>5. ValueOf(v) = ValueOf(b) /\ ValueOf(k) = ValueOf(m) BY <1>1, <1>2, <1>4
  <2>. QED BY <1>4, <2>2, <2>3, <2>4, <2>5 DEF a
<1>5. CASE ~(FitsWidth(b, w) /\ FitsWidth(m, w))
  <2>1. a = Error BY <1>1, <1>2, <1>3, <1>5
  <2>. QED BY <1>5, <2>1 DEF a
<1>. QED BY <1>4, <1>5

-----------------------------------------------------------------------------
(* Order *)

\* Strings of one length that start alike differ by what their ends differ.
LEMMA SameStart ==
  ASSUME NEW a \in Bytes, NEW b \in Bytes, Len(a) = Len(b), NEW j \in 0..Len(a),
         \A i \in 1..j : a[i] = b[i]
  PROVE  ValueOf(a) + Places(b)[Len(a) - j] = ValueOf(b) + Places(a)[Len(a) - j]
<1>. DEFINE L == Len(a)
            p == Places(a)
            q == Places(b)
            S == {n \in Nat : n <= j => ValueOf(a) + q[L - n] = ValueOf(b) + p[L - n]}
<1>0. L \in Nat /\ j \in Nat /\ j <= L BY ByteFacts
<1>1. p \in [0..L -> Nat] /\ \A k \in 1..L : p[k] = p[k - 1] + a[L - k + 1] * Unit(k - 1)
  BY PlacesEquation
<1>2. q \in [0..L -> Nat] /\ \A k \in 1..L : q[k] = q[k - 1] + b[L - k + 1] * Unit(k - 1)
  BY PlacesEquation
<1>3. ValueOf(a) = p[L] /\ ValueOf(b) = q[L] /\ ValueOf(a) \in Nat /\ ValueOf(b) \in Nat
  BY ValueType DEF ValueOf
<1>. HIDE DEF p, q, L
<1>4. 0 \in S
  <2>1. L - 0 = L /\ L \in 0..L BY <1>0
  <2>2. p[L] \in Nat /\ q[L] \in Nat BY <1>1, <1>2, <2>1
  <2>. QED BY <1>3, <2>1, <2>2
<1>5. ASSUME NEW n \in Nat, n \in S PROVE n + 1 \in S
  <2>1. SUFFICES ASSUME n + 1 <= j
                 PROVE  ValueOf(a) + q[L - (n + 1)] = ValueOf(b) + p[L - (n + 1)]
    OBVIOUS
  <2>. DEFINE k == L - n
              z == a[n + 1] * Unit(k - 1)
  <2>2. k \in 1..L /\ k \in 0..L /\ k - 1 \in 0..L /\ k - 1 \in Nat /\ L - k + 1 = n + 1
        /\ L - (n + 1) = k - 1 /\ n + 1 \in 1..j /\ n + 1 \in 1..L
    BY <1>0, <2>1
  <2>3. a[n + 1] = b[n + 1] /\ a[n + 1] \in Nat BY <2>2, ByteFacts DEF L
  <2>4. ValueOf(a) + q[k] = ValueOf(b) + p[k] BY <1>0, <1>5, <2>1
  <2>. HIDE DEF k
  <2>5. p[k] = p[k - 1] + z /\ q[k] = q[k - 1] + z BY <1>1, <1>2, <2>2, <2>3
  <2>6. z \in Nat
    <3>1. Unit(k - 1) \in Nat BY <2>2, UnitFacts
    <3>. QED BY <2>3, <3>1
  <2>7. p[k - 1] \in Nat /\ q[k - 1] \in Nat BY <1>1, <1>2, <2>2
  <2>. HIDE DEF z
  <2>8. ValueOf(a) + q[k - 1] = ValueOf(b) + p[k - 1] 
    <3>1. \A v, c, x, y, d \in Nat : v + (y + d) = c + (x + d) => v + y = c + x OBVIOUS
    <3>. DEFINE v == ValueOf(a)
                c == ValueOf(b)
                x == p[k - 1]
                y == q[k - 1]
    <3>2. v \in Nat /\ c \in Nat /\ x \in Nat /\ y \in Nat BY <1>3, <2>7
    <3>3. v + (y + z) = c + (x + z) BY <2>4, <2>5
    <3>. HIDE DEF v, c, x, y
    <3>4. v + y = c + x BY <2>6, <3>1, <3>2, <3>3
    <3>. QED BY <3>4 DEF v, c, x, y
  <2>. QED BY <2>2, <2>8
<1>6. \A n \in Nat : n \in S
  <2>. HIDE DEF S
  <2>. QED BY <1>4, <1>5, SetInduction
<1>7. ValueOf(a) + q[L - j] = ValueOf(b) + p[L - j] BY <1>0, <1>6
<1>. QED BY <1>7 DEF p, q, L

\* The first byte in which strings of one length differ decides their order.
LEMMA FirstDifference ==
  ASSUME NEW a \in Bytes, NEW b \in Bytes, Len(a) = Len(b), NEW i \in 1..Len(a),
         a[i] > b[i], \A j \in 1..i - 1 : a[j] = b[j]
  PROVE  ValueOf(a) > ValueOf(b)
<1>. DEFINE L == Len(a)
            k == L - i
            u == Unit(k)
            x == Places(a)[k]
            y == Places(b)[k]
            s == a[i]
            t == b[i]
<1>0. L \in Nat /\ k \in Nat /\ k \in 0..L /\ k + 1 \in 1..L /\ i - 1 \in 0..L /\ L - (i - 1) = k + 1
      /\ (k + 1) - 1 = k /\ L - (k + 1) + 1 = i
  BY ByteFacts
<1>1. ValueOf(a) + Places(b)[k + 1] = ValueOf(b) + Places(a)[k + 1]
  <2>1. ValueOf(a) + Places(b)[L - (i - 1)] = ValueOf(b) + Places(a)[L - (i - 1)]
    BY <1>0, SameStart
  <2>. QED BY <1>0, <2>1
<1>2. Places(a)[k + 1] = x + s * u BY <1>0, PlacesEquation
<1>3. Places(b)[k + 1] = y + t * u
  <2>1. k + 1 \in 1..Len(b) /\ Len(b) - (k + 1) + 1 = i BY <1>0
  <2>. QED BY <1>0, <2>1, PlacesEquation
<1>4. x \in Nat /\ y \in Nat /\ y < u BY <1>0, PlacesBound
<1>5. s \in Nat /\ t \in Nat BY ByteFacts
<1>6. u \in Nat BY <1>0, UnitFacts
<1>7. ValueOf(a) \in Nat /\ ValueOf(b) \in Nat BY ValueType
<1>8. s > t OBVIOUS
<1>. HIDE DEF u, x, y, s, t
<1>9. t + 1 <= s /\ t + 1 \in Nat BY <1>5, <1>8
<1>10. (t + 1) * u <= s * u BY <1>5, <1>6, <1>9, TimesMonotonic
<1>11. (t + 1) * u = t * u + u /\ t * u \in Nat /\ s * u \in Nat BY <1>5, <1>6
<1>. QED BY <1>1, <1>2, <1>3, <1>4, <1>6, <1>7, <1>10, <1>11

\* bytes.Compare orders strings of one length as the numbers they stand for.
LEMMA GreaterExact ==
  ASSUME NEW a \in Bytes, NEW b \in Bytes, Len(a) = Len(b)
  PROVE  Greater(a, b) <=> ValueOf(a) > ValueOf(b)
<1>0. Len(a) \in Nat /\ DOMAIN a = 1..Len(a) BY ByteFacts
<1>1. ASSUME Greater(a, b) PROVE ValueOf(a) > ValueOf(b)
  <2>1. PICK i \in 1..Len(a) : a[i] > b[i] /\ \A j \in 1..i - 1 : a[j] = b[j]
    BY <1>0, <1>1 DEF Greater
  <2>. QED BY <2>1, FirstDifference
<1>2. ASSUME ValueOf(a) > ValueOf(b) PROVE Greater(a, b)
  <2>. DEFINE D == {i \in 1..Len(a) : a[i] # b[i]}
              i == Min(D)
  <2>1. ValueOf(a) \in Nat /\ ValueOf(b) \in Nat BY ValueType
  <2>2. D # {}
    <3>1. ASSUME D = {} PROVE FALSE
      <4>1. \A j \in 1..Len(a) : a[j] = b[j] BY <3>1
      <4>2. a = b BY <4>1 DEF Bytes
      <4>3. ValueOf(a) = ValueOf(b) BY <4>2
      <4>. QED BY <1>2, <2>1, <4>3
    <3>. QED BY <3>1
  <2>3. i \in D /\ \A j \in D : i <= j
    <3>1. D \subseteq 1..Len(a) OBVIOUS
    <3>. HIDE DEF D
    <3>. QED BY <1>0, <2>2, <3>1, FirstPosition
  <2>4. i \in 1..Len(a) BY <2>3
  <2>5. a[i] # b[i] BY <2>3
  <2>. HIDE DEF i
  <2>6. \A j \in 1..i - 1 : a[j] = b[j]
    <3>. TAKE j \in 1..i - 1
    <3>1. j \in 1..Len(a) /\ ~(i <= j) BY <1>0, <2>4
    <3>. QED BY <2>3, <3>1
  <2>7. a[i] \in Nat /\ b[i] \in Nat BY <2>4, ByteFacts
  <2>8. CASE a[i] > b[i] BY <1>0, <2>4, <2>6, <2>8 DEF Greater
  <2>9. CASE b[i] > a[i]
    <3>1. i \in 1..Len(b) BY <2>4
    <3>2. \A j \in 1..i - 1 : b[j] = a[j] BY <2>6
    <3>3. ValueOf(b) > ValueOf(a) BY <2>9, <3>1, <3>2, FirstDifference
    <3>. QED BY <1>2, <2>1, <3>3
  <2>. QED BY <2>5, <2>7, <2>8, <2>9
<1>. QED BY <1>1, <1>2

\* A canonical string that is longer stands for a larger number.
LEMMA LongerLarger ==
  ASSUME NEW c \in Bytes, NEW d \in Bytes, Canonical(c), Canonical(d), Len(c) < Len(d)
  PROVE  ValueOf(c) < ValueOf(d)
<1>1. Len(c) \in Nat /\ Len(d) \in Nat /\ Len(c) >= 1 /\ Len(d) >= 1
  BY ByteFacts DEF Canonical
<1>2. d[1] # 0
  <2>1. Len(d) # 1 BY <1>1
  <2>. QED BY <2>1 DEF Canonical
<1>3. ValueOf(d) >= Unit(Len(d) - 1) /\ ValueOf(d) \in Nat BY <1>1, <1>2, TopByte, ValueType
<1>4. ValueOf(c) \in Nat /\ ValueOf(c) < Unit(Len(c)) BY <1>1, ValueType
<1>5. Unit(Len(c)) <= Unit(Len(d) - 1) /\ Unit(Len(c)) \in Nat /\ Unit(Len(d) - 1) \in Nat
  <2>1. Len(d) - 1 \in Nat /\ Len(c) <= Len(d) - 1 BY <1>1
  <2>. QED BY <1>1, <2>1, UnitFacts
<1>. QED BY <1>3, <1>4, <1>5

\* ValidateRange accepts the ends of a range that fit, in order.
LEMMA ValidateRangeExact ==
  ASSUME NEW l \in Bytes, NEW h \in Bytes, NEW w \in Int
  PROVE  ValidateRange(l, h, w) <=>
           FitsWidth(l, w) /\ FitsWidth(h, w) /\ ValueOf(l) <= ValueOf(h)
<1>. DEFINE low == EncodeBytes(l, w)
            high == EncodeBytes(h, w)
            inOrder == Len(low) < Len(high) \/ (Len(low) = Len(high) /\ ~Greater(low, high))
<1>1. IF FitsWidth(l, w) THEN Canonical(low) /\ ValueOf(low) = ValueOf(l) /\ low # Error ELSE low = Error
  BY EncodeBytesExact
<1>2. IF FitsWidth(h, w) THEN Canonical(high) /\ ValueOf(high) = ValueOf(h) /\ high # Error ELSE high = Error
  BY EncodeBytesExact
<1>3. ValidateRange(l, h, w) <=> low # Error /\ high # Error /\ inOrder BY DEF ValidateRange
<1>. HIDE DEF low, high
<1>4. CASE FitsWidth(l, w) /\ FitsWidth(h, w)
  <2>1. Canonical(low) /\ Canonical(high) /\ ValueOf(low) = ValueOf(l) /\ ValueOf(high) = ValueOf(h)
        /\ low # Error /\ high # Error
    BY <1>1, <1>2, <1>4
  <2>2. low \in Bytes /\ high \in Bytes /\ Len(low) \in Nat /\ Len(high) \in Nat
    BY <2>1, ByteFacts DEF Canonical
  <2>3. ValueOf(low) \in Nat /\ ValueOf(high) \in Nat BY <2>2, ValueType
  <2>4. inOrder <=> ValueOf(low) <= ValueOf(high)
    <3>1. CASE Len(low) < Len(high)
      <4>1. ValueOf(low) < ValueOf(high) BY <2>1, <2>2, <3>1, LongerLarger
      <4>. QED BY <2>3, <3>1, <4>1
    <3>2. CASE Len(high) < Len(low)
      <4>1. ValueOf(high) < ValueOf(low) BY <2>1, <2>2, <3>2, LongerLarger
      <4>2. ~inOrder BY <2>2, <3>2
      <4>. QED BY <2>3, <4>1, <4>2
    <3>3. CASE Len(high) = Len(low)
      <4>1. Greater(low, high) <=> ValueOf(low) > ValueOf(high) BY <2>2, <3>3, GreaterExact
      <4>2. inOrder <=> ~Greater(low, high) BY <2>2, <3>3
      <4>. QED BY <2>3, <4>1, <4>2
    <3>. QED BY <2>2, <3>1, <3>2, <3>3
  <2>. HIDE DEF inOrder
  <2>. QED BY <1>3, <1>4, <2>1, <2>4
<1>5. CASE ~(FitsWidth(l, w) /\ FitsWidth(h, w)) BY <1>1, <1>2, <1>3, <1>5
<1>. QED BY <1>4, <1>5

-----------------------------------------------------------------------------
(* Fields of a table entry *)

\* A canonical string has no zeros to strip.
LEMMA CanonicalStripped ==
  ASSUME NEW c \in Bytes, Canonical(c) PROVE c = StripLeadingZeros(c)
<1>1. Canonical(StripLeadingZeros(c)) /\ ValueOf(StripLeadingZeros(c)) = ValueOf(c) BY StripFacts
<1>. QED BY <1>1, CanonicalUnique

\* The three outcomes of encodeField.
LEMMA OutFacts ==
  /\ Refused.out = "error" /\ Omitted.out = "omit"
  /\ \A a, b, len : LET m == Match(a, b, len) IN
       m.out = "match" /\ m.a = a /\ m.b = b /\ m.len = len
BY DEF Refused, Omitted, Match

\* An encoded match is canonical and fits the field.
WellFormed(m, w) == m.a = StripLeadingZeros(m.a) /\ FitsWidth(m.a, w)

\* The values of a field of w bits.
ValuesOf(w) == 0..Pow2[w] - 1

\* An exact match.
LEMMA ExactField ==
  ASSUME NEW b \in Bytes, NEW w \in Int
  PROVE  LET m == EncodeExact(b, w) IN
         /\ m.out # "error" <=> FitsWidth(b, w)
         /\ m.out # "omit"
         /\ m.out = "match" => WellFormed(m, w) /\ ValueOf(m.a) = ValueOf(b)
<1>. DEFINE v == EncodeBytes(b, w)
            m == EncodeExact(b, w)
<1>. SUFFICES /\ m.out # "error" <=> FitsWidth(b, w)
              /\ m.out # "omit"
              /\ m.out = "match" => WellFormed(m, w) /\ ValueOf(m.a) = ValueOf(b)
  OBVIOUS
<1>1. m = IF v = Error THEN Refused ELSE Match(v, <<>>, 0) BY DEF EncodeExact
<1>2. IF FitsWidth(b, w) THEN Canonical(v) /\ ValueOf(v) = ValueOf(b) /\ v # Error ELSE v = Error
  BY EncodeBytesExact
<1>. HIDE DEF v, m
<1>3. CASE FitsWidth(b, w)
  <2>1. Canonical(v) /\ ValueOf(v) = ValueOf(b) /\ m = Match(v, <<>>, 0) BY <1>1, <1>2, <1>3
  <2>2. m.out = "match" /\ m.a = v BY <2>1, OutFacts
  <2>3. v \in Bytes BY <2>1 DEF Canonical
  <2>4. v = StripLeadingZeros(v) BY <2>1, <2>3, CanonicalStripped
  <2>5. WellFormed(m, w) BY <1>3, <2>1, <2>2, <2>4 DEF WellFormed, FitsWidth
  <2>. QED BY <1>3, <2>1, <2>2, <2>5
<1>4. CASE ~FitsWidth(b, w)
  <2>1. m.out = "error" BY <1>1, <1>2, <1>4, OutFacts
  <2>. QED BY <1>4, <2>1
<1>. QED BY <1>3, <1>4

\* Rounding down keeps the quotient.
LEMMA RoundDownQuotient ==
  ASSUME NEW n \in Nat, NEW u \in Nat, u > 0
  PROVE  /\ RoundDown(n, u) \in Nat /\ RoundDown(n, u) <= n
         /\ RoundDown(n, u) \div u = n \div u
<1>. DEFINE q == n \div u
            r == n % u
<1>1. q \in Nat /\ r \in Nat /\ r < u /\ n = u * q + r BY DivMod
<1>. HIDE DEF q, r
<1>2. RoundDown(n, u) = u * q BY <1>1, RoundDownIs
<1>3. u * q \in Nat /\ u * q + 0 = u * q BY <1>1
<1>4. (u * q + 0) \div u = q BY <1>1, DivUnique
<1>. QED BY <1>1, <1>2, <1>3, <1>4 DEF q

\* A prefix match.
LEMMA LPMField ==
  ASSUME NEW b \in Bytes, NEW w \in Nat, NEW p \in Int
  PROVE  LET m == EncodeLPM(b, p, w)
             U == Pow2[w - p]
         IN  /\ m.out # "error" <=> p = 0 \/ (FitsWidth(b, w) /\ p \in 1..w)
             /\ m.out = "match" =>
                  /\ WellFormed(m, w) /\ m.len = p /\ ValueOf(m.a) \div U = ValueOf(b) \div U
                  /\ \E x \in ValuesOf(w) : x \div U # ValueOf(m.a) \div U
             /\ m.out = "omit" /\ FitsWidth(b, w) =>
                  \A x \in ValuesOf(w) : x \div U = ValueOf(b) \div U
<1>. DEFINE m == EncodeLPM(b, p, w)
            v == LPMMask(b, p, w)
            U == Pow2[w - p]
            N == ValueOf(b)
<1>. SUFFICES /\ m.out # "error" <=> p = 0 \/ (FitsWidth(b, w) /\ p \in 1..w)
              /\ m.out = "match" =>
                   /\ WellFormed(m, w) /\ m.len = p /\ ValueOf(m.a) \div U = N \div U
                   /\ \E x \in ValuesOf(w) : x \div U # ValueOf(m.a) \div U
              /\ m.out = "omit" /\ FitsWidth(b, w) => \A x \in ValuesOf(w) : x \div U = N \div U
  OBVIOUS
<1>1. m = IF p = 0 THEN Omitted ELSE IF v = Error THEN Refused ELSE Match(v, <<>>, p)
  BY DEF EncodeLPM
<1>2. IF FitsWidth(b, w) /\ p \in 0..w
      THEN Canonical(v) /\ v # Error /\ ValueOf(v) = RoundDown(N, U) ELSE v = Error
  BY LPMMaskExact
<1>3. N \in Nat /\ Pow2[w] \in Nat /\ Pow2[w] >= 1 BY ValueType, Pow2Type
<1>. HIDE DEF m, v, N
<1>4. CASE p = 0
  <2>1. m.out = "omit" BY <1>1, <1>4, OutFacts
  <2>2. w - p = w BY <1>4
  <2>3. ASSUME FitsWidth(b, w), NEW x \in ValuesOf(w) PROVE x \div U = N \div U
    <3>1. U = Pow2[w] /\ N < U BY <2>2, <2>3 DEF FitsWidth, N
    <3>. HIDE DEF U
    <3>2. x \in Nat /\ x < U BY <1>3, <3>1 DEF ValuesOf
    <3>3. U \in Nat BY <1>3, <3>1
    <3>4. (U * 0 + x) \div U = 0 /\ (U * 0 + N) \div U = 0 BY <1>3, <3>1, <3>2, <3>3, DivUnique
    <3>5. U * 0 + x = x /\ U * 0 + N = N BY <1>3, <3>2, <3>3
    <3>. QED BY <3>4, <3>5
  <2>. QED BY <1>4, <2>1, <2>3
<1>5. CASE p # 0 /\ FitsWidth(b, w) /\ p \in 1..w
  <2>1. p \in 0..w /\ w - p \in Nat /\ p \in Nat /\ p >= 1 /\ (w - p) + p = w /\ p - 1 \in Nat /\ (p - 1) + 1 = p
    BY <1>5
  <2>2. Canonical(v) /\ ValueOf(v) = RoundDown(N, U) /\ m = Match(v, <<>>, p)
    BY <1>1, <1>2, <1>5, <2>1
  <2>3. m.out = "match" /\ m.a = v /\ m.len = p BY <2>2, OutFacts
  <2>4. v \in Bytes BY <2>2 DEF Canonical
  <2>5. v = StripLeadingZeros(v) BY <2>2, <2>4, CanonicalStripped
  <2>6. U \in Nat /\ U > 0
    <3>1. U \in Nat /\ U >= 1 BY <2>1, Pow2Type
    <3>. HIDE DEF U
    <3>. QED BY <3>1
  <2>7. Pow2[w] = U * Pow2[p] /\ Pow2[p] = 2 * Pow2[p - 1] /\ Pow2[p - 1] \in Nat /\ Pow2[p - 1] >= 1
        /\ Pow2[p] \in Nat
    <3>1. Pow2[(w - p) + p] = U * Pow2[p] BY <2>1, Pow2Plus
    <3>2. Pow2[(p - 1) + 1] = 2 * Pow2[p - 1] BY <2>1, Pow2Equation
    <3>3. Pow2[p - 1] \in Nat /\ Pow2[p - 1] >= 1 /\ Pow2[p] \in Nat BY <2>1, Pow2Type
    <3>. QED BY <2>1, <3>1, <3>2, <3>3
  <2>. HIDE DEF U
  <2>8. ValueOf(v) \in Nat /\ ValueOf(v) <= N /\ ValueOf(v) \div U = N \div U
    BY <1>3, <2>2, <2>6, RoundDownQuotient
  <2>9. N < Pow2[w] /\ w > 0 BY <1>5 DEF FitsWidth, N
  <2>10. ValueOf(v) < Pow2[w] BY <1>3, <2>8, <2>9
  <2>11. WellFormed(m, w) BY <2>3, <2>5, <2>9, <2>10 DEF WellFormed, FitsWidth
  <2>12. \E x \in ValuesOf(w) : x \div U # ValueOf(m.a) \div U
    <3>1. U < Pow2[w]
      <4>1. 2 <= Pow2[p] BY <2>7
      <4>2. U * 2 <= U * Pow2[p] BY <2>6, <2>7, <4>1, TimesMonotonic
      <4>. QED BY <1>3, <2>6, <2>7, <4>2
    <3>2. 0 \in ValuesOf(w) /\ U \in ValuesOf(w) BY <1>3, <2>6, <3>1 DEF ValuesOf
    <3>3. 0 \div U = 0 /\ U \div U = 1
      <4>1. (U * 0 + 0) \div U = 0 /\ (U * 1 + 0) \div U = 1 BY <2>6, DivUnique
      <4>2. U * 0 + 0 = 0 /\ U * 1 + 0 = U BY <2>6
      <4>. QED BY <4>1, <4>2
    <3>4. 0 # 1 OBVIOUS
    <3>5. 0 \div U # U \div U BY <3>3, <3>4
    <3>. QED BY <3>2, <3>5
  <2>. QED BY <1>5, <2>3, <2>8, <2>11, <2>12
<1>6. CASE p # 0 /\ ~(FitsWidth(b, w) /\ p \in 1..w)
  <2>1. ~(FitsWidth(b, w) /\ p \in 0..w) BY <1>6
  <2>2. m.out = "error" BY <1>1, <1>2, <1>6, <2>1, OutFacts
  <2>. QED BY <1>6, <2>2
<1>. QED BY <1>4, <1>5, <1>6

\* The ends of a range are everything the field can hold.
LEMMA FullRangeExact ==
  ASSUME NEW low \in Bytes, NEW high \in Bytes, Canonical(high), NEW w \in Nat, w > 0
  PROVE  IsFullRange(low, high, w) <=> ValueOf(low) = 0 /\ ValueOf(high) = Pow2[w] - 1
<1>. DEFINE ones == Ones(w)
            N == ByteLen(w)
            lead == w % ByteBits
            top == IF w % ByteBits # 0 THEN Pow2[w % ByteBits] - 1 ELSE Base - 1
<1>0. ByteBits \in Nat /\ ByteBits > 0 /\ Base \in Nat /\ Base >= 2 BY UnitFacts
<1>1. N \in Nat /\ N >= 1 /\ lead \in Nat BY ByteLenFacts
<1>2. ((w - 1) \div ByteBits) + 1 = N
  <2>. DEFINE q == (w - 1) \div ByteBits
              r == (w - 1) % ByteBits
  <2>1. w - 1 \in Nat OBVIOUS
  <2>2. q \in Nat /\ r \in Nat /\ r < ByteBits /\ w - 1 = ByteBits * q + r BY <1>0, <2>1, DivMod
  <2>. HIDE DEF q, r
  <2>3. w + ByteBits - 1 = ByteBits * (q + 1) + r
    <3>1. ByteBits * (q + 1) = ByteBits * q + ByteBits /\ ByteBits * q \in Nat BY <1>0, <2>2
    <3>. QED BY <1>0, <2>2, <3>1
  <2>4. q + 1 \in Nat BY <2>2
  <2>5. (ByteBits * (q + 1) + r) \div ByteBits = q + 1 BY <1>0, <2>2, <2>4, DivUnique
  <2>. QED BY <2>3, <2>5 DEF ByteLen, q
<1>3. ones \in Bytes /\ Len(ones) = N /\ ValueOf(ones) = Pow2[w] - 1 BY OnesValue
<1>4. ones[1] = top /\ \A i \in 2..N : ones[i] = Base - 1
  <2>1. \A i \in 1..N : ones[i] = IF i = 1 /\ w % ByteBits # 0 THEN Pow2[w % ByteBits] - 1 ELSE Base - 1
    BY DEF Ones
  <2>2. 1 \in 1..N /\ \A i \in 2..N : i \in 1..N /\ i # 1 BY <1>1
  <2>. HIDE DEF ones
  <2>. QED BY <2>1, <2>2
<1>5. top # 0
  <2>1. CASE lead # 0
    <3>1. lead - 1 \in Nat /\ (lead - 1) + 1 = lead BY <1>1, <2>1
    <3>2. Pow2[lead] = 2 * Pow2[lead - 1] /\ Pow2[lead - 1] \in Nat /\ Pow2[lead - 1] >= 1
      BY <3>1, Pow2Equation, Pow2Type
    <3>3. top = Pow2[lead] - 1 BY <2>1
    <3>. HIDE DEF lead, top
    <3>. QED BY <3>2, <3>3
  <2>2. CASE lead = 0
    <3>1. top = Base - 1 BY <2>2
    <3>. QED BY <1>0, <3>1
  <2>. QED BY <2>1, <2>2
<1>. HIDE DEF ones, N, lead, top
<1>6. Canonical(ones) BY <1>1, <1>3, <1>4, <1>5 DEF Canonical
<1>7. IsFullRange(low, high, w) <=>
        AllZero(low) /\ Len(high) = N /\ high[1] = top /\ \A i \in 2..Len(high) : high[i] = Base - 1
  BY <1>2 DEF IsFullRange, top
<1>8. AllZero(low) <=> ValueOf(low) = 0
  <2>1. DOMAIN low = 1..Len(low) BY ByteFacts
  <2>. QED BY <2>1, ZeroBytes DEF AllZero
<1>9. ValueOf(high) = Pow2[w] - 1 <=> high = ones BY <1>3, <1>6, CanonicalUnique
<1>10. high = ones <=> Len(high) = N /\ high[1] = top /\ \A i \in 2..Len(high) : high[i] = Base - 1
  <2>1. ASSUME Len(high) = N, high[1] = top, \A i \in 2..Len(high) : high[i] = Base - 1
        PROVE  high = ones
    <3>1. \A i \in 1..N : high[i] = ones[i]
      <4>. TAKE i \in 1..N
      <4>1. i = 1 \/ i \in 2..N BY <1>1
      <4>. QED BY <1>4, <2>1, <4>1
    <3>. QED BY <1>3, <2>1, <3>1 DEF Bytes
  <2>2. ASSUME high = ones
        PROVE  Len(high) = N /\ high[1] = top /\ \A i \in 2..Len(high) : high[i] = Base - 1
    BY <1>3, <1>4, <2>2
  <2>. QED BY <2>1, <2>2
<1>. QED BY <1>7, <1>8, <1>9, <1>10

\* A range.
LEMMA RangeField ==
  ASSUME NEW l \in Bytes, NEW h \in Bytes, NEW w \in Nat
  PROVE  LET m == EncodeRange(l, h, w)
             L == ValueOf(l)
             H == ValueOf(h)
         IN  /\ m.out # "error" <=> FitsWidth(l, w) /\ FitsWidth(h, w) /\ L <= H
             /\ m.out = "match" =>
                  /\ WellFormed(m, w) /\ ValueOf(m.a) = L /\ ValueOf(m.b) = H
                  /\ \E x \in ValuesOf(w) : ~(L <= x /\ x <= H)
             /\ m.out = "omit" => \A x \in ValuesOf(w) : L <= x /\ x <= H
<1>. DEFINE m == EncodeRange(l, h, w)
            low == EncodeBytes(l, w)
            high == EncodeBytes(h, w)
            L == ValueOf(l)
            H == ValueOf(h)
<1>. SUFFICES /\ m.out # "error" <=> FitsWidth(l, w) /\ FitsWidth(h, w) /\ L <= H
              /\ m.out = "match" =>
                   /\ WellFormed(m, w) /\ ValueOf(m.a) = L /\ ValueOf(m.b) = H
                   /\ \E x \in ValuesOf(w) : ~(L <= x /\ x <= H)
              /\ m.out = "omit" => \A x \in ValuesOf(w) : L <= x /\ x <= H
  OBVIOUS
<1>1. m = IF ~ValidateRange(l, h, w) THEN Refused
          ELSE IF IsFullRange(low, high, w) THEN Omitted ELSE Match(low, high, 0)
  BY DEF EncodeRange
<1>2. ValidateRange(l, h, w) <=> FitsWidth(l, w) /\ FitsWidth(h, w) /\ L <= H
  BY ValidateRangeExact
<1>3. FitsWidth(l, w) => Canonical(low) /\ ValueOf(low) = L BY EncodeBytesExact
<1>4. FitsWidth(h, w) => Canonical(high) /\ ValueOf(high) = H BY EncodeBytesExact
<1>5. L \in Nat /\ H \in Nat /\ Pow2[w] \in Nat /\ Pow2[w] >= 1 BY ValueType, Pow2Type
<1>. HIDE DEF m, low, high
<1>6. CASE ~ValidateRange(l, h, w)
  <2>1. m.out = "error" BY <1>1, <1>6, OutFacts
  <2>. QED BY <1>2, <1>6, <2>1
<1>7. CASE ValidateRange(l, h, w)
  <2>1. FitsWidth(l, w) /\ FitsWidth(h, w) /\ L <= H BY <1>2, <1>7
  <2>2. Canonical(low) /\ ValueOf(low) = L /\ Canonical(high) /\ ValueOf(high) = H BY <1>3, <1>4, <2>1
  <2>3. low \in Bytes /\ high \in Bytes BY <2>2 DEF Canonical
  <2>4. w > 0 /\ L < Pow2[w] /\ H < Pow2[w] BY <2>1 DEF FitsWidth
  <2>5. IsFullRange(low, high, w) <=> L = 0 /\ H = Pow2[w] - 1
    BY <2>2, <2>3, <2>4, FullRangeExact
  <2>. HIDE DEF L, H
  <2>6. CASE L = 0 /\ H = Pow2[w] - 1
    <3>1. m.out = "omit" BY <1>1, <1>7, <2>5, <2>6, OutFacts
    <3>2. \A x \in ValuesOf(w) : L <= x /\ x <= H BY <1>5, <2>6 DEF ValuesOf
    <3>. QED BY <2>1, <3>1, <3>2
  <2>7. CASE ~(L = 0 /\ H = Pow2[w] - 1)
    <3>1. m = Match(low, high, 0) BY <1>1, <1>7, <2>5, <2>7
    <3>2. m.out = "match" /\ m.a = low /\ m.b = high BY <3>1, OutFacts
    <3>3. low = StripLeadingZeros(low) BY <2>2, <2>3, CanonicalStripped
    <3>4. WellFormed(m, w) BY <2>2, <2>4, <3>2, <3>3 DEF WellFormed, FitsWidth
    <3>5. \E x \in ValuesOf(w) : ~(L <= x /\ x <= H)
      <4>1. 0 \in ValuesOf(w) /\ Pow2[w] - 1 \in ValuesOf(w) BY <1>5 DEF ValuesOf
      <4>2. CASE L # 0
        <5>1. ~(L <= 0) BY <1>5, <4>2
        <5>. QED BY <4>1, <5>1
      <4>3. CASE L = 0
        <5>1. ~(Pow2[w] - 1 <= H) BY <1>5, <2>4, <2>7, <4>3
        <5>. QED BY <4>1, <5>1
      <4>. QED BY <4>2, <4>3
    <3>. QED BY <2>1, <2>2, <3>2, <3>4, <3>5
  <2>. QED BY <2>6, <2>7
<1>. QED BY <1>6, <1>7

\* A masked number fits where the number does.
LEMMA MaskedBound ==
  ASSUME NEW a \in Nat, NEW n \in Nat, NEW k \in Nat, NEW w \in Nat, n < Pow2[w],
         \A i \in Nat : BitOf(a, i) = BitOf(n, i) * BitOf(k, i)
  PROVE  a < Pow2[w]
<1>. SUFFICES ASSUME ~(a < Pow2[w]) PROVE FALSE OBVIOUS
<1>1. Pow2[w] \in Nat /\ Pow2[w] >= 1 BY Pow2Type
<1>2. a > 0 /\ Pow2[w] <= a BY <1>1
<1>3. PICK i \in Nat : Pow2[i] <= a /\ a < Pow2[i + 1] /\ BitOf(a, i) = 1 BY <1>2, TopBit
<1>4. w <= i
  <2>1. ASSUME ~(w <= i) PROVE FALSE
    <3>1. i + 1 \in Nat /\ i + 1 <= w BY <2>1
    <3>2. Pow2[i + 1] <= Pow2[w] /\ Pow2[i + 1] \in Nat BY <3>1, Pow2Monotonic, Pow2Type
    <3>. QED BY <1>1, <1>2, <1>3, <3>2
  <2>. QED BY <2>1
<1>5. Pow2[w] <= Pow2[i] /\ Pow2[i] \in Nat BY <1>4, Pow2Monotonic, Pow2Type
<1>6. n < Pow2[i] BY <1>1, <1>5
<1>7. BitOf(n, i) = 0 BY <1>6, BitType
<1>8. BitOf(k, i) \in {0, 1} BY BitType
<1>9. BitOf(a, i) = 0 BY <1>7, <1>8
<1>. QED BY <1>3, <1>9

\* A ternary match.
LEMMA TernaryField ==
  ASSUME NEW b \in Bytes, NEW c \in Bytes, NEW w \in Nat
  PROVE  LET m == EncodeTernary(b, c, w) IN
         /\ m.out # "error" <=> AllZero(c) \/ (FitsWidth(b, w) /\ FitsWidth(c, w))
         /\ m.out = "match" =>
              /\ WellFormed(m, w) /\ ValueOf(m.b) = ValueOf(c) /\ ValueOf(m.a) \in Nat
              /\ \A i \in Nat : BitOf(ValueOf(m.a), i) = BitOf(ValueOf(b), i) * BitOf(ValueOf(c), i)
              /\ \E i \in 0..w - 1 : BitOf(ValueOf(c), i) = 1
         /\ m.out = "omit" => \A i \in Nat : BitOf(ValueOf(c), i) = 0
<1>. DEFINE m == EncodeTernary(b, c, w)
            a == TernaryApply(b, c, w)
            k == EncodeBytes(c, w)
            N == ValueOf(b)
            K == ValueOf(c)
<1>. SUFFICES /\ m.out # "error" <=> AllZero(c) \/ (FitsWidth(b, w) /\ FitsWidth(c, w))
              /\ m.out = "match" =>
                   /\ WellFormed(m, w) /\ ValueOf(m.b) = K /\ ValueOf(m.a) \in Nat
                   /\ \A i \in Nat : BitOf(ValueOf(m.a), i) = BitOf(N, i) * BitOf(K, i)
                   /\ \E i \in 0..w - 1 : BitOf(K, i) = 1
              /\ m.out = "omit" => \A i \in Nat : BitOf(K, i) = 0
  OBVIOUS
<1>1. m = IF AllZero(c) THEN Omitted ELSE IF a = Error THEN Refused ELSE Match(a, k, 0)
  BY DEF EncodeTernary
<1>2. AllZero(c) <=> K = 0
  <2>1. DOMAIN c = 1..Len(c) BY ByteFacts
  <2>. QED BY <2>1, ZeroBytes DEF AllZero
<1>3. N \in Nat /\ K \in Nat BY ValueType
<1>4. IF FitsWidth(b, w) /\ FitsWidth(c, w)
      THEN a # Error /\ Canonical(a) /\ \A i \in Nat : BitOf(ValueOf(a), i) = BitOf(N, i) * BitOf(K, i)
      ELSE a = Error
  BY TernaryApplyExact
<1>5. FitsWidth(c, w) => ValueOf(k) = K BY EncodeBytesExact
<1>. HIDE DEF m, a, k
<1>6. CASE AllZero(c)
  <2>1. m.out = "omit" BY <1>1, <1>6, OutFacts
  <2>2. \A i \in Nat : BitOf(K, i) = 0
    <3>. TAKE i \in Nat
    <3>1. Pow2[i] \in Nat /\ Pow2[i] >= 1 BY Pow2Type
    <3>2. K < Pow2[i] BY <1>2, <1>6, <3>1
    <3>. HIDE DEF K
    <3>. QED BY <1>3, <3>2, BitType
  <2>. QED BY <1>6, <2>1, <2>2
<1>7. CASE ~AllZero(c) /\ FitsWidth(b, w) /\ FitsWidth(c, w)
  <2>1. a # Error /\ Canonical(a) /\ \A i \in Nat : BitOf(ValueOf(a), i) = BitOf(N, i) * BitOf(K, i)
    BY <1>4, <1>7
  <2>2. m = Match(a, k, 0) BY <1>1, <1>7, <2>1
  <2>3. m.out = "match" /\ m.a = a /\ m.b = k BY <2>2, OutFacts
  <2>4. a \in Bytes BY <2>1 DEF Canonical
  <2>5. a = StripLeadingZeros(a) BY <2>1, <2>4, CanonicalStripped
  <2>6. w > 0 /\ N < Pow2[w] /\ K < Pow2[w] BY <1>7 DEF FitsWidth
  <2>7. ValueOf(a) \in Nat BY <2>4, ValueType
  <2>. HIDE DEF N, K
  <2>8. ValueOf(a) < Pow2[w] BY <1>3, <2>1, <2>6, <2>7, MaskedBound
  <2>9. WellFormed(m, w) BY <2>3, <2>5, <2>6, <2>8 DEF WellFormed, FitsWidth
  <2>10. \E i \in 0..w - 1 : BitOf(K, i) = 1
    <3>1. K > 0 BY <1>2, <1>3, <1>7
    <3>2. PICK i \in Nat : Pow2[i] <= K /\ BitOf(K, i) = 1 BY <1>3, <3>1, TopBit
    <3>3. i < w
      <4>1. ASSUME ~(i < w) PROVE FALSE
        <5>1. Pow2[w] <= Pow2[i] /\ Pow2[w] \in Nat /\ Pow2[i] \in Nat
          BY <4>1, Pow2Monotonic, Pow2Type
        <5>. QED BY <1>3, <2>6, <3>2, <5>1
      <4>. QED BY <4>1
    <3>4. i \in 0..w - 1 BY <3>3
    <3>. QED BY <3>2, <3>4
  <2>11. ValueOf(m.b) = K BY <1>5, <1>7, <2>3
  <2>. QED BY <1>7, <2>1, <2>3, <2>7, <2>9, <2>10, <2>11
<1>8. CASE ~AllZero(c) /\ ~(FitsWidth(b, w) /\ FitsWidth(c, w))
  <2>1. m.out = "error" BY <1>1, <1>4, <1>8, OutFacts
  <2>. QED BY <1>8, <2>1
<1>. QED BY <1>6, <1>7, <1>8

\* a has the bits of n under the mask k, which has a bit in a field of w bits.
IsMasked(a, n, k) == \A i \in Nat : BitOf(a, i) = BitOf(n, i) * BitOf(k, i)
SomeBit(k, w) == \E i \in 0..w - 1 : BitOf(k, i) = 1

\* x has the bits of a under the mask k, and agrees with n where k is set.
AgreesMasked(x, a, k, w) == \A i \in 0..w - 1 : BitOf(x, i) * BitOf(k, i) = BitOf(a, i)
AgreesUnder(x, n, k, w) == \A i \in 0..w - 1 : BitOf(k, i) = 1 => BitOf(x, i) = BitOf(n, i)

\* The masked bits agree exactly when the number agrees where the mask is set,
\* and they do not agree for every number.
LEMMA TernaryMatches ==
  ASSUME NEW a \in Nat, NEW n \in Nat, NEW k \in Nat, NEW w \in Nat,
         IsMasked(a, n, k), SomeBit(k, w)
  PROVE  /\ \A x \in ValuesOf(w) : AgreesMasked(x, a, k, w) <=> AgreesUnder(x, n, k, w)
         /\ \E x \in ValuesOf(w) : ~AgreesMasked(x, a, k, w)
<1>. USE DEF IsMasked, SomeBit
<1>0. Pow2[w] \in Nat /\ Pow2[w] >= 1 BY Pow2Type
<1>1. ASSUME NEW x \in ValuesOf(w), NEW i \in 0..w - 1
      PROVE  BitOf(x, i) * BitOf(k, i) = BitOf(a, i) <=> (BitOf(k, i) = 1 => BitOf(x, i) = BitOf(n, i))
  <2>. DEFINE f == BitOf(x, i)
              g == BitOf(n, i)
              h == BitOf(k, i)
  <2>1. i \in Nat /\ x \in Nat BY <1>0 DEF ValuesOf
  <2>2. f \in {0, 1} BY <2>1, BitType
  <2>3. g \in {0, 1} BY <2>1, BitType
  <2>4. h \in {0, 1} BY <2>1, BitType
  <2>5. BitOf(a, i) = g * h BY <2>1
  <2>. HIDE DEF f, g, h
  <2>6. f * h = g * h <=> (h = 1 => f = g) BY <2>2, <2>3, <2>4
  <2>. QED BY <2>5, <2>6 DEF f, g, h
<1>2. PICK i \in 0..w - 1 : BitOf(k, i) = 1 OBVIOUS
<1>3. i \in Nat /\ i < w /\ i + 1 \in Nat /\ i + 1 <= w BY <1>2
<1>4. Pow2[i] \in Nat /\ Pow2[i] >= 1 /\ Pow2[i + 1] = 2 * Pow2[i] /\ Pow2[i + 1] <= Pow2[w]
  <2>1. Pow2[i] \in Nat /\ Pow2[i] >= 1 BY <1>3, Pow2Type
  <2>2. Pow2[i + 1] = 2 * Pow2[i] BY <1>3, Pow2Equation
  <2>3. Pow2[i + 1] <= Pow2[w] BY <1>3, Pow2Monotonic
  <2>. QED BY <2>1, <2>2, <2>3
<1>5. 0 \in ValuesOf(w) /\ Pow2[i] \in ValuesOf(w) BY <1>0, <1>4 DEF ValuesOf
<1>6. BitOf(0, i) = 0
  <2>1. 0 < Pow2[i] BY <1>4
  <2>. QED BY <1>3, <2>1, BitType
<1>7. BitOf(Pow2[i], i) = 1
  <2>1. Pow2[i] <= Pow2[i] /\ Pow2[i] < Pow2[i + 1] BY <1>4
  <2>. QED BY <1>3, <1>4, <2>1, BitType
<1>8. \E x \in ValuesOf(w) : BitOf(x, i) * BitOf(k, i) # BitOf(a, i)
  <2>1. 0 * 1 = 0 /\ 1 * 1 = 1 /\ 0 # 1 OBVIOUS
  <2>2. BitOf(0, i) * BitOf(k, i) # BitOf(Pow2[i], i) * BitOf(k, i) BY <1>2, <1>6, <1>7, <2>1
  <2>. QED BY <1>5, <2>2
<1>. QED BY <1>1, <1>2, <1>8 DEF AgreesMasked, AgreesUnder

\* The inputs encodeField is called with.
FieldTyped ==
  /\ CodecTyped
  /\ given \in MatchTypes \cup {NilOptional} /\ matchType \in MatchTypes

\* Every state of MatchSpec holds such inputs.
LEMMA FieldInductive == MatchSpec => []FieldTyped
<1>. DEFINE Kinds == given \in MatchTypes \cup {NilOptional} /\ matchType \in MatchTypes
<1>1. MatchInit => Kinds BY DEF MatchInit
<1>2. Kinds /\ [MatchNext]_mvars => Kinds' BY DEF MatchNext, mvars
<1>3. CodecTyped /\ Kinds => FieldTyped BY DEF FieldTyped
<1>. HIDE DEF Kinds
<1>. QED BY <1>1, <1>2, <1>3, MatchTyped, PTL DEF MatchSpec

\* What FieldExact says of a match m.
FieldHolds(m) ==
  /\ m.out # "error" <=> (given = matchType \/ (given = NilOptional /\ matchType = "OPTIONAL"))
                           /\ Sensible
  /\ m.out = "match" => /\ \A x \in FieldValues : Encoded(m, x) <=> Wanted(x)
                        /\ m.a = StripLeadingZeros(m.a) /\ Fits(m.a)
  /\ m.out = "omit" /\ Fits(value) => \A x \in FieldValues : Wanted(x)
  /\ m.out = "match" /\ given \notin {"EXACT", "OPTIONAL"} =>
       \E x \in FieldValues : ~Encoded(m, x)

\* FieldExact: encodeField refuses exactly the matches that make no sense, leaves
\* out only those that match everything, and encodes the others in the form
\* P4Runtime asks for without changing what they match, for every field width.
THEOREM FieldCorrect == MatchSpec => []FieldExact
<1>1. FieldTyped => FieldExact
  <2>. SUFFICES ASSUME FieldTyped PROVE FieldHolds(EncodeField)
    BY DEF FieldExact, FieldHolds
  <2>0. /\ value \in Bytes /\ second \in Bytes /\ width \in Nat /\ prefix \in Int
        /\ given \in MatchTypes \cup {NilOptional} /\ matchType \in MatchTypes
    BY DEF FieldTyped, CodecTyped
  <2>1. CASE given = matchType /\ given \in {"EXACT", "OPTIONAL"}
    <3>. DEFINE m == EncodeExact(value, width)
    <3>0. given = matchType BY <2>1
    <3>1. EncodeField = m
      <4>1. CASE given = "EXACT" BY <3>0, <4>1 DEF EncodeField, NilOptional
      <4>2. CASE given = "OPTIONAL" BY <3>0, <4>2 DEF EncodeField, NilOptional
      <4>. QED BY <2>1, <4>1, <4>2
    <3>2. /\ m.out # "error" <=> FitsWidth(value, width)
          /\ m.out # "omit"
          /\ m.out = "match" => WellFormed(m, width) /\ ValueOf(m.a) = ValueOf(value)
      BY <2>0, ExactField
    <3>. HIDE DEF m
    <3>3. Sensible <=> FitsWidth(value, width) BY <2>1 DEF Sensible, Fits
    <3>4. \A x : Wanted(x) <=> x = ValueOf(value) BY <2>1 DEF Wanted
    <3>5. ASSUME m.out = "match", NEW x PROVE Encoded(m, x) <=> x = ValueOf(m.a)
      <4>1. m.out # "omit" BY <3>5
      <4>. QED BY <2>1, <4>1 DEF Encoded
    <3>6. FieldHolds(m)
      BY <2>1, <3>0, <3>2, <3>3, <3>4, <3>5 DEF FieldHolds, WellFormed, Fits
    <3>. QED BY <3>1, <3>6
  <2>2. CASE given = matchType /\ given = "LPM"
    <3>. DEFINE m == EncodeLPM(value, prefix, width)
                U == Pow2[width - prefix]
    <3>0. given = matchType BY <2>2
    <3>1. EncodeField = m BY <2>2, <3>0 DEF EncodeField, NilOptional
    <3>2. /\ m.out # "error" <=> prefix = 0 \/ (FitsWidth(value, width) /\ prefix \in 1..width)
          /\ m.out = "match" =>
               /\ WellFormed(m, width) /\ m.len = prefix
               /\ ValueOf(m.a) \div U = ValueOf(value) \div U
               /\ \E x \in ValuesOf(width) : x \div U # ValueOf(m.a) \div U
          /\ m.out = "omit" /\ FitsWidth(value, width) =>
               \A x \in ValuesOf(width) : x \div U = ValueOf(value) \div U
      BY <2>0, LPMField
    <3>. HIDE DEF m
    <3>3. Sensible <=> prefix = 0 \/ (FitsWidth(value, width) /\ prefix \in 1..width)
      BY <2>2 DEF Sensible, Fits
    <3>4. \A x : Wanted(x) <=> x \div U = ValueOf(value) \div U BY <2>2 DEF Wanted
    <3>5. ASSUME m.out = "match", NEW x PROVE Encoded(m, x) <=> x \div U = ValueOf(m.a) \div U
      <4>1. m.out # "omit" /\ m.len = prefix BY <3>2, <3>5
      <4>. QED BY <2>2, <4>1 DEF Encoded
    <3>. HIDE DEF U
    <3>6. FieldHolds(m)
      <4>1. m.out # "error" <=> given = matchType /\ Sensible BY <3>0, <3>2, <3>3
      <4>2. m.out = "match" => /\ \A x \in ValuesOf(width) : Encoded(m, x) <=> Wanted(x)
                               /\ WellFormed(m, width)
        BY <3>2, <3>4, <3>5
      <4>3. m.out = "omit" /\ FitsWidth(value, width) => \A x \in ValuesOf(width) : Wanted(x)
        BY <3>2, <3>4
      <4>4. m.out = "match" => \E x \in ValuesOf(width) : ~Encoded(m, x) BY <3>2, <3>5
      <4>. QED BY <3>0, <4>1, <4>2, <4>3, <4>4 DEF FieldHolds, WellFormed, Fits, FieldValues, ValuesOf
    <3>. QED BY <3>1, <3>6
  <2>3. CASE given = matchType /\ given = "RANGE"
    <3>. DEFINE m == EncodeRange(value, second, width)
                L == ValueOf(value)
                H == ValueOf(second)
    <3>0. given = matchType BY <2>3
    <3>1. EncodeField = m BY <2>3, <3>0 DEF EncodeField, NilOptional
    <3>2. /\ m.out # "error" <=> FitsWidth(value, width) /\ FitsWidth(second, width) /\ L <= H
          /\ m.out = "match" =>
               /\ WellFormed(m, width) /\ ValueOf(m.a) = L /\ ValueOf(m.b) = H
               /\ \E x \in ValuesOf(width) : ~(L <= x /\ x <= H)
          /\ m.out = "omit" => \A x \in ValuesOf(width) : L <= x /\ x <= H
      BY <2>0, RangeField
    <3>. HIDE DEF m
    <3>3. Sensible <=> FitsWidth(value, width) /\ FitsWidth(second, width) /\ L <= H
      BY <2>3 DEF Sensible, Fits
    <3>4. \A x : Wanted(x) <=> L <= x /\ x <= H BY <2>3 DEF Wanted
    <3>5. ASSUME m.out = "match", NEW x PROVE Encoded(m, x) <=> L <= x /\ x <= H
      <4>1. m.out # "omit" /\ ValueOf(m.a) = L /\ ValueOf(m.b) = H BY <3>2, <3>5
      <4>2. Encoded(m, x) <=> ValueOf(m.a) <= x /\ x <= ValueOf(m.b) BY <2>3, <4>1 DEF Encoded
      <4>. QED BY <4>1, <4>2
    <3>. HIDE DEF L, H
    <3>6. FieldHolds(m)
      <4>1. m.out # "error" <=> given = matchType /\ Sensible BY <3>0, <3>2, <3>3
      <4>2. m.out = "match" => /\ \A x \in ValuesOf(width) : Encoded(m, x) <=> Wanted(x)
                               /\ WellFormed(m, width)
        BY <3>2, <3>4, <3>5
      <4>3. m.out = "omit" /\ FitsWidth(value, width) => \A x \in ValuesOf(width) : Wanted(x)
        BY <3>2, <3>4
      <4>4. m.out = "match" => \E x \in ValuesOf(width) : ~Encoded(m, x) BY <3>2, <3>5
      <4>. QED BY <3>0, <4>1, <4>2, <4>3, <4>4 DEF FieldHolds, WellFormed, Fits, FieldValues, ValuesOf
    <3>. QED BY <3>1, <3>6
  <2>4. CASE given = matchType /\ given = "TERNARY"
    <3>. DEFINE m == EncodeTernary(value, second, width)
                N == ValueOf(value)
                K == ValueOf(second)
    <3>0. given = matchType BY <2>4
    <3>1. EncodeField = m BY <2>4, <3>0 DEF EncodeField, NilOptional
    <3>2. /\ m.out # "error" <=> AllZero(second) \/ (FitsWidth(value, width) /\ FitsWidth(second, width))
          /\ m.out = "match" =>
               /\ WellFormed(m, width) /\ ValueOf(m.b) = K /\ ValueOf(m.a) \in Nat
               /\ \A i \in Nat : BitOf(ValueOf(m.a), i) = BitOf(N, i) * BitOf(K, i)
               /\ \E i \in 0..width - 1 : BitOf(K, i) = 1
          /\ m.out = "omit" => \A i \in Nat : BitOf(K, i) = 0
      BY <2>0, TernaryField
    <3>2a. N \in Nat /\ K \in Nat BY <2>0, ValueType
    <3>. HIDE DEF m
    <3>3. Sensible <=> AllZero(second) \/ (FitsWidth(value, width) /\ FitsWidth(second, width))
      BY <2>4 DEF Sensible, Fits
    <3>4. \A x : Wanted(x) <=> \A i \in 0..width - 1 : BitOf(K, i) = 1 => BitOf(x, i) = BitOf(N, i)
      BY <2>4 DEF Wanted
    <3>5. ASSUME m.out = "match", NEW x
          PROVE  Encoded(m, x) <=>
                   \A i \in 0..width - 1 : BitOf(x, i) * BitOf(K, i) = BitOf(ValueOf(m.a), i)
      <4>1. m.out # "omit" /\ ValueOf(m.b) = K BY <3>2, <3>5
      <4>2. Encoded(m, x) <=>
              \A i \in 0..width - 1 : BitOf(x, i) * BitOf(ValueOf(m.b), i) = BitOf(ValueOf(m.a), i)
        BY <2>4, <4>1 DEF Encoded
      <4>. QED BY <4>1, <4>2
    <3>. HIDE DEF N, K
    <3>6. ASSUME m.out = "match"
          PROVE  /\ \A x \in ValuesOf(width) : Encoded(m, x) <=> Wanted(x)
                 /\ \E x \in ValuesOf(width) : ~Encoded(m, x)
      <4>. DEFINE a == ValueOf(m.a)
      <4>1. a \in Nat /\ IsMasked(a, N, K) /\ SomeBit(K, width)
        BY <3>2, <3>6 DEF IsMasked, SomeBit
      <4>2. \A x : Encoded(m, x) <=> AgreesMasked(x, a, K, width)
        BY <3>5, <3>6 DEF AgreesMasked
      <4>2a. \A x : Wanted(x) <=> AgreesUnder(x, N, K, width) BY <3>4 DEF AgreesUnder
      <4>. HIDE DEF a
      <4>3. /\ \A x \in ValuesOf(width) : AgreesMasked(x, a, K, width) <=> AgreesUnder(x, N, K, width)
            /\ \E x \in ValuesOf(width) : ~AgreesMasked(x, a, K, width)
        BY <2>0, <3>2a, <4>1, TernaryMatches
      <4>. QED BY <4>2, <4>2a, <4>3
    <3>7. ASSUME m.out = "omit", NEW x PROVE Wanted(x)
      <4>1. \A i \in 0..width - 1 : BitOf(K, i) # 1
        <5>. TAKE i \in 0..width - 1
        <5>1. i \in Nat BY <2>0
        <5>2. BitOf(K, i) = 0 BY <3>2, <3>7, <5>1
        <5>. QED BY <5>2
      <4>. QED BY <3>4, <4>1
    <3>8. FieldHolds(m)
      <4>1. m.out # "error" <=> given = matchType /\ Sensible BY <3>0, <3>2, <3>3
      <4>2. m.out = "match" => WellFormed(m, width) BY <3>2
      <4>. QED BY <3>0, <3>6, <3>7, <4>1, <4>2 DEF FieldHolds, WellFormed, Fits, FieldValues, ValuesOf
    <3>. QED BY <3>1, <3>8
  <2>5. CASE given = NilOptional /\ matchType = "OPTIONAL"
    <3>1. EncodeField = Omitted BY <2>5 DEF EncodeField, NilOptional
    <3>2. Sensible /\ \A x : Wanted(x) BY <2>5 DEF Sensible, Wanted, NilOptional
    <3>3. Omitted.out = "omit" BY OutFacts
    <3>. QED BY <2>5, <3>1, <3>2, <3>3 DEF FieldHolds
  <2>6. CASE given # matchType /\ ~(given = NilOptional /\ matchType = "OPTIONAL")
    <3>1. EncodeField = Refused BY <2>6 DEF EncodeField
    <3>2. Refused.out = "error" BY OutFacts
    <3>. QED BY <2>6, <3>1, <3>2 DEF FieldHolds
  <2>7. given = NilOptional => given # matchType BY <2>0 DEF MatchTypes, NilOptional
  <2>. QED BY <2>0, <2>1, <2>2, <2>3, <2>4, <2>5, <2>6, <2>7 DEF MatchTypes
<1>. QED BY <1>1, FieldInductive, PTL

-----------------------------------------------------------------------------
(* Values of registers *)

\* One more level of nesting.
Deeper(S) == S \cup [kind : {"struct", "tuple"}, members : Seq(S)]

\* Trees satisfies the equation it is defined by.
LEMMA TreesEquation ==
  Trees[0] = LeafSet /\ \A n \in Nat : Trees[n + 1] = Deeper(Trees[n])
<1>. DEFINE Upto(f, n) == f[0] = LeafSet /\ \A i \in Nat : i < n => f[i + 1] = Deeper(f[i])
            S == {n \in Nat : \E f : Upto(f, n)}
<1>1. \A n \in Nat : n \in S
  <2>1. 0 \in S
    <3>1. Upto([i \in Nat |-> LeafSet], 0) OBVIOUS
    <3>. QED BY <3>1
  <2>2. ASSUME NEW n \in Nat, n \in S PROVE n + 1 \in S
    <3>1. PICK f : Upto(f, n) BY <2>2
    <3>. DEFINE h == [i \in Nat |-> IF i = n + 1 THEN Deeper(f[n]) ELSE f[i]]
    <3>2. Upto(h, n + 1)
      <4>1. h[0] = LeafSet BY <3>1
      <4>2. ASSUME NEW i \in Nat, i < n + 1 PROVE h[i + 1] = Deeper(h[i])
        <5>1. h[i] = f[i] BY <4>2
        <5>2. CASE i = n BY <5>1, <5>2
        <5>3. CASE i < n
          <6>1. h[i + 1] = f[i + 1] BY <5>3
          <6>. QED BY <3>1, <5>1, <5>3, <6>1
        <5>. QED BY <4>2, <5>2, <5>3
      <4>. QED BY <4>1, <4>2
    <3>. HIDE DEF h, Upto
    <3>. QED BY <3>2
  <2>. HIDE DEF S
  <2>. QED BY <2>1, <2>2, SetInduction
<1>2. ASSUME NEW f, NEW h, NEW n \in Nat, NEW m \in Nat, Upto(f, n), Upto(h, m)
      PROVE  \A k \in Nat : k <= n /\ k <= m => f[k] = h[k]
  <2>. DEFINE R == {k \in Nat : k <= n /\ k <= m => f[k] = h[k]}
  <2>1. 0 \in R BY <1>2
  <2>2. ASSUME NEW k \in Nat, k \in R PROVE k + 1 \in R
    <3>1. SUFFICES ASSUME k + 1 <= n, k + 1 <= m PROVE f[k + 1] = h[k + 1] OBVIOUS
    <3>2. f[k] = h[k] BY <2>2, <3>1
    <3>. QED BY <1>2, <3>1, <3>2
  <2>3. \A k \in Nat : k \in R
    <3>. HIDE DEF R
    <3>. QED BY <2>1, <2>2, SetInduction
  <2>. QED BY <2>3
<1>. DEFINE c(n) == CHOOSE f : Upto(f, n)
            F == [n \in Nat |-> c(n)[n]]
<1>3. \A n \in Nat : Upto(c(n), n)
  <2>. TAKE n \in Nat
  <2>1. \E f : Upto(f, n) BY <1>1
  <2>. HIDE DEF Upto
  <2>. QED BY <2>1
<1>4. F[0] = LeafSet
  <2>1. c(0)[0] = LeafSet BY <1>3
  <2>. HIDE DEF c
  <2>. QED BY <2>1
<1>5. ASSUME NEW n \in Nat PROVE F[n + 1] = Deeper(F[n])
  <2>. HIDE DEF c
  <2>1. Upto(c(n), n) /\ Upto(c(n + 1), n + 1)
    <3>. HIDE DEF Upto
    <3>1. n + 1 \in Nat OBVIOUS
    <3>. QED BY <1>3, <3>1
  <2>2. c(n)[n] = c(n + 1)[n]
    <3>. HIDE DEF Upto
    <3>. QED BY <2>1, <1>2
  <2>3. c(n + 1)[n + 1] = Deeper(c(n + 1)[n]) BY <2>1
  <2>. QED BY <2>2, <2>3
<1>6. F = [n \in Nat |-> F[n]] OBVIOUS
<1>. HIDE DEF F
<1>7. F = [n \in Nat |-> IF n = 0 THEN LeafSet
                         ELSE F[n - 1] \cup [kind : {"struct", "tuple"}, members : Seq(F[n - 1])]]
  <2>1. ASSUME NEW n \in Nat
        PROVE  F[n] = IF n = 0 THEN LeafSet
                      ELSE F[n - 1] \cup [kind : {"struct", "tuple"}, members : Seq(F[n - 1])]
    <3>1. CASE n = 0 BY <1>4, <3>1
    <3>2. CASE n # 0
      <4>1. n - 1 \in Nat /\ (n - 1) + 1 = n BY <3>2
      <4>2. F[n] = Deeper(F[n - 1]) BY <1>5, <4>1
      <4>. QED BY <3>2, <4>2 DEF Deeper
    <3>. QED BY <3>1, <3>2
  <2>. QED BY <1>6, <2>1
<1>8. Trees = [n \in Nat |-> IF n = 0 THEN LeafSet
                 ELSE Trees[n - 1] \cup [kind : {"struct", "tuple"}, members : Seq(Trees[n - 1])]]
  BY <1>7, Zenon DEF Trees
<1>9. Trees[0] = LeafSet BY <1>8
<1>10. ASSUME NEW n \in Nat PROVE Trees[n + 1] = Deeper(Trees[n])
  <2>1. n + 1 \in Nat /\ n + 1 # 0 /\ (n + 1) - 1 = n OBVIOUS
  <2>. DEFINE m == n + 1
  <2>2. Trees[m] = IF m = 0 THEN LeafSet
           ELSE Trees[m - 1] \cup [kind : {"struct", "tuple"}, members : Seq(Trees[m - 1])]
    <3>. HIDE DEF m
    <3>1. m \in Nat BY <2>1 DEF m
    <3>. QED BY <1>8, <3>1
  <2>. QED BY <2>1, <2>2 DEF Deeper
<1>. QED BY <1>9, <1>10

\* A struct or a tuple.
HasPart(v) == v.kind \in {"struct", "tuple"}

\* A value without members has no kind that has them.
LEMMA LeafKinds == \A v \in LeafSet : ~HasPart(v)
BY DEF LeafSet, MissingSet, HeaderSet, UnionSet, HasPart

\* Deeper nesting allows all that shallower nesting does.
LEMMA TreesGrow == \A m, n \in Nat : m <= n => Trees[m] \subseteq Trees[n]
<1>. DEFINE S == {d \in Nat : \A m \in Nat : Trees[m] \subseteq Trees[m + d]}
<1>1. 0 \in S
  <2>1. \A m \in Nat : m + 0 = m OBVIOUS
  <2>. QED BY <2>1
<1>2. ASSUME NEW d \in Nat, d \in S PROVE d + 1 \in S
  <2>. SUFFICES ASSUME NEW m \in Nat PROVE Trees[m] \subseteq Trees[m + (d + 1)] OBVIOUS
  <2>1. m + d \in Nat /\ m + (d + 1) = (m + d) + 1 OBVIOUS
  <2>2. Trees[m + (d + 1)] = Deeper(Trees[m + d]) BY <2>1, TreesEquation
  <2>. QED BY <1>2, <2>2 DEF Deeper
<1>3. \A d \in Nat : d \in S
  <2>. HIDE DEF S
  <2>. QED BY <1>1, <1>2, SetInduction
<1>. TAKE m, n \in Nat
<1>. HAVE m <= n
<1>4. n - m \in Nat /\ m + (n - m) = n OBVIOUS
<1>. QED BY <1>3, <1>4

\* The members of a value, and values with the members replaced.
Parted(v, n) ==
  \E k \in Nat : k + 1 <= n /\ v \in [kind : {"struct", "tuple"}, members : Seq(Trees[k])]

\* A value is a leaf, or its members are nested a level less.
LEMMA TreeCases ==
  \A n \in Nat : \A v \in Trees[n] :
    IF HasPart(v) THEN Parted(v, n) ELSE v \in LeafSet
<1>. DEFINE S == {n \in Nat : \A v \in Trees[n] : IF HasPart(v) THEN Parted(v, n) ELSE v \in LeafSet}
<1>1. 0 \in S BY TreesEquation, LeafKinds
<1>2. ASSUME NEW n \in Nat, n \in S PROVE n + 1 \in S
  <2>. SUFFICES ASSUME NEW v \in Trees[n + 1]
                PROVE  IF HasPart(v) THEN Parted(v, n + 1) ELSE v \in LeafSet
    OBVIOUS
  <2>1. v \in Trees[n] \/ v \in [kind : {"struct", "tuple"}, members : Seq(Trees[n])]
    BY TreesEquation DEF Deeper
  <2>2. CASE v \in Trees[n]
    <3>1. IF HasPart(v) THEN Parted(v, n) ELSE v \in LeafSet BY <1>2, <2>2
    <3>2. \A k \in Nat : k + 1 <= n => k + 1 <= n + 1 OBVIOUS
    <3>. QED BY <3>1, <3>2 DEF Parted
  <2>3. CASE v \in [kind : {"struct", "tuple"}, members : Seq(Trees[n])]
    <3>1. HasPart(v) BY <2>3 DEF HasPart
    <3>. QED BY <2>3, <3>1 DEF Parted
  <2>. QED BY <2>1, <2>2, <2>3
<1>3. \A n \in Nat : n \in S
  <2>. HIDE DEF S
  <2>. QED BY <1>1, <1>2, SetInduction
<1>. QED BY <1>3

-----------------------------------------------------------------------------
(* What the rules show *)

\* The pairs that the rules are about.
FormSpace == Args \X (Trees[MaxDepth] \cup {AnyForm})
RuledBy(T) == {x \in FormSpace : Rule(x[1], x[2], T)}

\* Forms satisfies the equation it is defined by.
LEMMA FormsEquation ==
  Forms[0] = {} /\ \A n \in Nat : Forms[n + 1] = RuledBy(Forms[n])
<1>. DEFINE T == SUBSET FormSpace
            g == [n \in Nat |-> [s \in T |-> RuledBy(s)]]
<1>1. {} \in T /\ g \in [Nat -> [T -> T]]
  <2>1. ASSUME NEW s \in T PROVE RuledBy(s) \in T BY DEF RuledBy
  <2>. QED BY <2>1
<1>2. PICK f \in [Nat -> T] : Follows(f, {}, g)
  <2>. HIDE DEF T, g
  <2>. QED BY <1>1, Recursion
<1>3. f[0] = {} /\ \A n \in Nat : f[n + 1] = RuledBy(f[n])
  <2>1. ASSUME NEW n \in Nat PROVE f[n + 1] = RuledBy(f[n])
    <3>1. f[n] \in T OBVIOUS
    <3>2. g[n][f[n]] = RuledBy(f[n])
      <4>. HIDE DEF T
      <4>. QED BY <3>1
    <3>. HIDE DEF g, T
    <3>. QED BY <1>2, <3>2 DEF Follows
  <2>. HIDE DEF g, T
  <2>. QED BY <1>2, <2>1 DEF Follows
<1>4. f = [n \in Nat |-> f[n]] OBVIOUS
<1>5. f = [n \in Nat |-> IF n = 0 THEN {}
             ELSE {x \in Args \X (Trees[MaxDepth] \cup {AnyForm}) : Rule(x[1], x[2], f[n - 1])}]
  <2>1. ASSUME NEW n \in Nat
        PROVE  f[n] = IF n = 0 THEN {}
                 ELSE {x \in Args \X (Trees[MaxDepth] \cup {AnyForm}) : Rule(x[1], x[2], f[n - 1])}
    <3>1. CASE n = 0 BY <1>3, <3>1
    <3>2. CASE n # 0
      <4>1. n - 1 \in Nat /\ (n - 1) + 1 = n BY <3>2
      <4>2. f[n] = RuledBy(f[n - 1]) BY <1>3, <4>1
      <4>. QED BY <3>2, <4>2, Zenon DEF RuledBy, FormSpace
    <3>. QED BY <3>1, <3>2
  <2>. HIDE DEF T
  <2>. QED BY <1>4, <2>1, Zenon
<1>6. Forms = [n \in Nat |-> IF n = 0 THEN {}
             ELSE {x \in Args \X (Trees[MaxDepth] \cup {AnyForm}) : Rule(x[1], x[2], Forms[n - 1])}]
  BY <1>5, Zenon DEF Forms
<1>7. Forms[0] = {}
  <2>1. 0 \in Nat OBVIOUS
  <2>. QED BY <1>6, <2>1, Zenon
<1>8. ASSUME NEW n \in Nat PROVE Forms[n + 1] = RuledBy(Forms[n])
  <2>1. n + 1 \in Nat /\ n + 1 # 0 /\ (n + 1) - 1 = n OBVIOUS
  <2>2. ASSUME NEW m \in Nat
        PROVE  Forms[m] = IF m = 0 THEN {}
                 ELSE {x \in Args \X (Trees[MaxDepth] \cup {AnyForm}) : Rule(x[1], x[2], Forms[m - 1])}
    BY <1>6, Zenon
  <2>3. Forms[n + 1] = {x \in Args \X (Trees[MaxDepth] \cup {AnyForm}) : Rule(x[1], x[2], Forms[(n + 1) - 1])}
    BY <2>1, <2>2, Zenon
  <2>. QED BY <2>1, <2>3, Zenon DEF RuledBy, FormSpace
<1>. QED BY <1>7, <1>8

-----------------------------------------------------------------------------
(* Values without members *)

\* The numbers that unsignedBytes and signedBytes return are byte strings.
LEMMA NumbersTyped ==
  ASSUME NEW b \in Bytes, NEW w \in Int
  PROVE  UnsignedBytes(b, w) \in Bytes /\ SignedBytes(b, w) \in Bytes
<1>1. <<0>> \in Bytes /\ Error \in Bytes
  <2>1. 0 \in Byte BY UnitFacts DEF Byte
  <2>. QED BY <2>1 DEF Bytes, Error
<1>2. EncodeBytes(b, w) \in Bytes BY <1>1, EncodeBytesExact DEF Canonical
<1>3. ASSUME b # <<>> PROVE StripSign(b) \in Bytes
  <2>1. Len(b) >= 1 BY <1>3 DEF Bytes
  <2>. QED BY <2>1, StripSignFacts
<1>. QED BY <1>1, <1>2, <1>3 DEF UnsignedBytes, SignedBytes, SignedOrError

\* What normalizing the bytes of an integer type leads to.
BitsOf(t, b) == IF t.type = "int" THEN SignedBytes(b, t.width) ELSE UnsignedBytes(b, t.width)

\* c is the normal form of b, and its own.
BitsDone(t, b, c) ==
  /\ c \in Strings /\ c # Error
  /\ IsBits(t, b) /\ BitsForm(t, b, c) /\ IsBits(t, c) /\ BitsForm(t, c, c)

\* An unsigned number is accepted exactly when it fits.
LEMMA UnsignedDone ==
  ASSUME NEW b \in Strings, NEW w \in Int, NEW c, c = UnsignedBytes(b, w)
  PROVE  /\ c # Error <=> IsUnsigned(b, w)
         /\ c # Error => /\ c \in Strings /\ CanonicalOf(c, ValueOf(b))
                         /\ IsUnsigned(c, w) /\ CanonicalOf(c, ValueOf(c))
<1>1. b \in Bytes BY DEF Strings, Bytes
<1>2. /\ c # Error <=> w >= 0 /\ ValueOf(b) < Pow2[w]
      /\ c # Error => CanonicalOf(c, ValueOf(b))
  BY <1>1, UnsignedBytesExact
<1>3. c \in Strings BY <1>1, NumbersTyped DEF Strings, Bytes
<1>. QED BY <1>2, <1>3 DEF IsUnsigned, CanonicalOf

\* The bytes of an integer type are accepted exactly when they are of it.
LEMMA BitsExact ==
  ASSUME NEW t \in BitTypes, t.type \in {"bit", "int"}, NEW b \in Strings
  PROVE  /\ BitsOf(t, b) # Error <=> IsBits(t, b)
         /\ BitsOf(t, b) # Error => BitsDone(t, b, BitsOf(t, b))
<1>0. b \in Bytes /\ t.width \in Int BY DEF Strings, Bytes, BitTypes
<1>1. CASE t.type = "int"
  <2>. DEFINE c == SignedBytes(b, t.width)
  <2>1. /\ c # Error <=> t.width > 0 /\ -Pow2[t.width - 1] <= SignedOf(b) /\ SignedOf(b) < Pow2[t.width - 1]
        /\ c # Error => /\ SignedOf(c) = SignedOf(b)
                        /\ \A i \in 2..Len(c) : SignedOf(SubSeq(c, i, Len(c))) # SignedOf(b)
    BY <1>0, SignedBytesExact
  <2>2. c \in Strings BY <1>0, NumbersTyped DEF Strings, Bytes
  <2>3. BitsOf(t, b) = c /\ Error = <<>> BY <1>1 DEF BitsOf, Error
  <2>4. c # Error <=> IsBits(t, b) BY <1>1, <2>1 DEF IsBits, IsSigned
  <2>5. ASSUME c # Error PROVE BitsDone(t, b, c)
    <3>. HIDE DEF c
    <3>. QED BY <1>1, <2>1, <2>2, <2>3, <2>5 DEF BitsDone, IsBits, IsSigned, BitsForm
  <2>. QED BY <2>3, <2>4, <2>5
<1>2. CASE t.type = "bit"
  <2>. DEFINE c == UnsignedBytes(b, t.width)
  <2>1. /\ c # Error <=> IsUnsigned(b, t.width)
        /\ c # Error => /\ c \in Strings /\ CanonicalOf(c, ValueOf(b))
                        /\ IsUnsigned(c, t.width) /\ CanonicalOf(c, ValueOf(c))
    BY <1>0, UnsignedDone
  <2>2. BitsOf(t, b) = c BY <1>2 DEF BitsOf
  <2>. HIDE DEF c
  <2>3. c # Error <=> IsBits(t, b) BY <1>2, <2>1 DEF IsBits
  <2>4. ASSUME c # Error PROVE BitsDone(t, b, c)
    BY <1>2, <2>1, <2>4 DEF BitsDone, IsBits, BitsForm
  <2>. QED BY <2>2, <2>3, <2>4
<1>. QED BY <1>1, <1>2

\* The kind of a value says which fields it has.
Shaped(v) ==
  /\ v.kind \in {"bitstring", "enumValue"} => v \in [kind : {"bitstring", "enumValue"}, bytes : Strings]
  /\ v.kind = "varbit" => v \in [kind : {"varbit"}, width : Int, bytes : Strings]
  /\ v.kind = "header" => v \in HeaderSet
  /\ v.kind = "headerUnion" => v \in UnionSet
  /\ v.kind = "headerStack" =>
       v \in [kind : {"headerStack"}, entries : Seq(HeaderSet \cup MissingSet)]
  /\ v.kind = "headerUnionStack" =>
       v \in [kind : {"headerUnionStack"}, entries : Seq(UnionSet \cup MissingSet)]
  /\ v.kind \notin {"any", "no result yet", "error result"}

\* The records that are no values.
LEMMA NoValues ==
  Bad.kind = "error result" /\ Pending.kind = "no result yet" /\ AnyForm.kind = "any"
BY DEF Bad, Pending, AnyForm

\* The values without members are so.
LEMMA LeafShape == \A v \in LeafSet : Shaped(v)
<1>. TAKE v \in LeafSet
<1>1. CASE v \in MissingSet BY <1>1 DEF Shaped, MissingSet
<1>2. CASE v \in HeaderSet BY <1>2 DEF Shaped, HeaderSet
<1>3. CASE v \in UnionSet BY <1>3 DEF Shaped, UnionSet
<1>4. CASE v \in [kind : {"bool"}] BY <1>4 DEF Shaped
<1>5. CASE v \in [kind : {"bitstring", "enumValue"}, bytes : Strings] BY <1>5 DEF Shaped
<1>6. CASE v \in [kind : {"varbit"}, width : Int, bytes : Strings] BY <1>6 DEF Shaped
<1>7. CASE v \in [kind : {"enum", "error"}, member : STRING] BY <1>7 DEF Shaped
<1>8. CASE v \in [kind : {"headerStack"}, entries : Seq(HeaderSet \cup MissingSet)] BY <1>8 DEF Shaped
<1>9. CASE v \in [kind : {"headerUnionStack"}, entries : Seq(UnionSet \cup MissingSet)] BY <1>9 DEF Shaped
<1>. QED BY <1>1, <1>2, <1>3, <1>4, <1>5, <1>6, <1>7, <1>8, <1>9 DEF LeafSet

\* All values are so.
LEMMA TreeShape == \A n \in Nat : \A v \in Trees[n] : Shaped(v)
<1>. TAKE n \in Nat
<1>. TAKE v \in Trees[n]
<1>1. CASE HasPart(v) BY <1>1 DEF HasPart, Shaped
<1>2. CASE ~HasPart(v) BY <1>2, TreeCases, LeafShape
<1>. QED BY <1>1, <1>2

\* A field of a header, or a value of an integer type.
LEMMA BitstringExact ==
  ASSUME NEW t \in BitTypes, t.type # "varbit", NEW b \in Strings, NEW intOnly,
         NEW r, r = Bitstring(t, Bits(b), intOnly)
  PROVE  /\ r # Bad <=> IsBits(t, b)
         /\ r # Bad => r = Bits(r.bytes) /\ BitsDone(t, b, r.bytes)
<1>0. Bits(b).kind = "bitstring" /\ Bits(b).bytes = b BY DEF Bits
<1>1. CASE t.type \in {"bit", "int"}
  <2>1. r = WithBytes(Bits(b), BitsOf(t, b)) BY <1>0, <1>1, Zenon DEF Bitstring, BitsOf
  <2>. DEFINE c == BitsOf(t, b)
  <2>2. /\ c # Error <=> IsBits(t, b)
        /\ c # Error => BitsDone(t, b, c)
    BY <1>1, BitsExact
  <2>. HIDE DEF c
  <2>3. WithBytes(Bits(b), c) = IF c # Error THEN Bits(c) ELSE Bad BY DEF WithBytes, Bits, Checked
  <2>4. Bits(c) # Bad /\ Bits(c).bytes = c BY DEF Bits, Bad
  <2>. QED BY <2>1, <2>2, <2>3, <2>4 DEF c
<1>2. CASE t.type \notin {"bit", "int"}
  <2>1. r = Bad BY <1>0, <1>2, Zenon DEF Bitstring
  <2>2. ~IsBits(t, b) BY <1>2 DEF IsBits
  <2>. QED BY <2>1, <2>2
<1>. QED BY <1>1, <1>2

\* A varbit field has no width to check it by.
LEMMA VarbitField ==
  ASSUME NEW t, t.type = "varbit", NEW b
  PROVE  Bitstring(t, Bits(b), TRUE) = Bad /\ ~IsBits(t, b)
BY Zenon DEF Bitstring, IsBits

\* r is the normal form of the header v, and its own.
HeaderDone(name, v, r) ==
  /\ r \in HeaderSet /\ r.valid = v.valid
  /\ IsHeader(name, v) /\ HeaderForm(name, v, r) /\ IsHeader(name, r) /\ HeaderForm(name, r, r)

\* A header is accepted exactly when it is one of the type.
LEMMA HeaderExact ==
  ASSUME NEW name, NEW v, Shaped(v), NEW r, r = Header(name, v)
  PROVE  /\ r # Bad <=> IsHeader(name, v)
         /\ r # Bad => HeaderDone(name, v, r)
<1>1. CASE name \notin DOMAIN Headers \/ v.kind # "header" BY <1>1 DEF Header, IsHeader
<1>2. CASE name \in DOMAIN Headers /\ v.kind = "header"
  <2>1. /\ v \in HeaderSet /\ v.fields \in Seq(Strings) /\ v.valid \in BOOLEAN
        /\ v = [kind |-> "header", valid |-> v.valid, fields |-> v.fields]
    BY <1>2 DEF Shaped, HeaderSet
  <2>2. Headers[name] \in Seq(BitTypes) BY <1>2, RegisterAssumption
  <2>3. v # Bad BY <1>2, NoValues
  <2>4. CASE ~v.valid
    <3>1. r = IF v.fields = <<>> THEN v ELSE Bad BY <1>2, <2>4 DEF Header, Checked
    <3>2. IsHeader(name, v) <=> v.fields = <<>> BY <1>2, <2>4 DEF IsHeader
    <3>3. ASSUME v.fields = <<>> PROVE HeaderForm(name, v, v)
      <4>1. Len(v.fields) = 0 BY <3>3
      <4>2. 1..Len(v.fields) = {} BY <4>1
      <4>. QED BY <2>1, <4>2 DEF HeaderForm
    <3>. QED BY <2>1, <2>3, <3>1, <3>2, <3>3 DEF HeaderDone
  <2>5. CASE v.valid /\ Len(v.fields) # Len(Headers[name])
    BY <1>2, <2>5 DEF Header, IsHeader
  <2>6. CASE v.valid /\ Len(v.fields) = Len(Headers[name])
    <3>. DEFINE L == Len(v.fields)
                H == Headers[name]
                out == [i \in 1..L |-> Bitstring(H[i], Bits(v.fields[i]), TRUE)]
                fs == [i \in 1..L |-> out[i].bytes]
                w == [kind |-> "header", valid |-> v.valid, fields |-> fs]
    <3>1. L \in Nat /\ DOMAIN v.fields = 1..L BY <2>1
    <3>2. \A i \in 1..L : H[i] \in BitTypes /\ v.fields[i] \in Strings BY <2>1, <2>2, <2>6
    <3>3. r = WithFields(v, out) BY <1>2, <2>6, <3>1 DEF Header
    <3>4. \A i \in 1..L : /\ out[i] # Bad <=> IsBits(H[i], v.fields[i])
                          /\ out[i] # Bad => BitsDone(H[i], v.fields[i], out[i].bytes)
      <4>. SUFFICES ASSUME NEW i \in 1..L
                    PROVE  /\ out[i] # Bad <=> IsBits(H[i], v.fields[i])
                           /\ out[i] # Bad => BitsDone(H[i], v.fields[i], out[i].bytes)
        OBVIOUS
      <4>. DEFINE t == H[i]
                  b == v.fields[i]
                  o == out[i]
      <4>1. t \in BitTypes /\ b \in Strings BY <3>2
      <4>2. o = Bitstring(t, Bits(b), TRUE) OBVIOUS
      <4>. HIDE DEF t, b, o
      <4>3. CASE t.type = "varbit" BY <4>2, <4>3, VarbitField DEF t, b, o
      <4>4. CASE t.type # "varbit"
        <5>1. (o # Bad <=> IsBits(t, b)) /\ (o # Bad => BitsDone(t, b, o.bytes))
          BY <4>1, <4>2, <4>4, BitstringExact
        <5>. QED BY <5>1 DEF t, b, o
      <4>. QED BY <4>3, <4>4
    <3>5. NoneBad(out) <=> \A i \in 1..L : out[i] # Bad BY DEF NoneBad
    <3>6. r = IF NoneBad(out) THEN w ELSE Bad
      <4>1. [i \in DOMAIN out |-> out[i].bytes] = fs OBVIOUS
      <4>2. [v EXCEPT !.fields = fs] = w
        <5>. HIDE DEF fs
        <5>. QED BY <2>1
      <4>. HIDE DEF out, fs, w
      <4>. QED BY <3>3, <4>1, <4>2 DEF WithFields, Checked
    <3>. HIDE DEF out
    <3>7. IsHeader(name, v) <=> \A i \in 1..L : IsBits(H[i], v.fields[i])
      BY <1>2, <2>6 DEF IsHeader
    <3>8. w # Bad BY DEF Bad
    <3>9. ASSUME NoneBad(out) PROVE HeaderDone(name, v, w)
      <4>1. \A i \in 1..L : BitsDone(H[i], v.fields[i], fs[i]) BY <3>4, <3>5, <3>9
      <4>2. fs \in Seq(Strings) /\ Len(fs) = L
        <5>1. \A i \in 1..L : fs[i] \in Strings BY <4>1 DEF BitsDone
        <5>2. fs = [i \in 1..L |-> fs[i]] OBVIOUS
        <5>. HIDE DEF fs, L
        <5>. QED BY <3>1, <5>1, <5>2
      <4>. HIDE DEF fs
      <4>3. w.fields = fs /\ w.kind = "header" /\ w.valid = v.valid /\ w \in HeaderSet
        BY <2>1, <4>2 DEF HeaderSet
      <4>. HIDE DEF w
      <4>4. IsHeader(name, v) BY <3>4, <3>5, <3>7, <3>9
      <4>5. HeaderForm(name, v, w) BY <4>1, <4>2, <4>3 DEF HeaderForm, BitsDone
      <4>6. IsHeader(name, w) BY <1>2, <2>6, <4>1, <4>2, <4>3 DEF IsHeader, BitsDone
      <4>7. HeaderForm(name, w, w) BY <4>1, <4>2, <4>3 DEF HeaderForm, BitsDone
      <4>. QED BY <4>3, <4>4, <4>5, <4>6, <4>7 DEF HeaderDone
    <3>. HIDE DEF w
    <3>. QED BY <3>4, <3>5, <3>6, <3>7, <3>8, <3>9
  <2>. QED BY <2>4, <2>5, <2>6
<1>. QED BY <1>1, <1>2

\* r is the normal form of the union v, and its own.
UnionDone(name, v, r) ==
  /\ r \in UnionSet
  /\ IsUnion(name, v) /\ UnionForm(name, v, r) /\ IsUnion(name, r) /\ UnionForm(name, r, r)

\* A header union is accepted exactly when it is one of the type, the first
\* member of its name being the one that counts.
LEMMA UnionExact ==
  ASSUME NEW name, NEW v, Shaped(v), NEW r, r = HeaderUnion(name, v)
  PROVE  /\ r # Bad <=> IsUnion(name, v)
         /\ r # Bad => UnionDone(name, v, r)
<1>1. CASE name \notin DOMAIN Unions \/ v.kind # "headerUnion" BY <1>1 DEF HeaderUnion, IsUnion
<1>2. CASE name \in DOMAIN Unions /\ v.kind = "headerUnion"
  <2>1. /\ v \in UnionSet /\ v.header \in HeaderSet \cup MissingSet /\ v.name \in STRING
        /\ v = [kind |-> "headerUnion", name |-> v.name, header |-> v.header]
    BY <1>2 DEF Shaped, UnionSet
  <2>2. Unions[name] \in Seq([name : STRING, header : STRING]) BY <1>2, RegisterAssumption
  <2>3. v # Bad BY <1>2, NoValues
  <2>4. CASE v.name = ""
    <3>1. r = IF v.header.kind = "missing" THEN v ELSE Bad BY <1>2, <2>4 DEF HeaderUnion, Checked
    <3>2. IsUnion(name, v) <=> v.header.kind = "missing" BY <1>2, <2>4 DEF IsUnion
    <3>3. UnionForm(name, v, v) BY <1>2, <2>4 DEF UnionForm
    <3>. QED BY <2>1, <2>3, <3>1, <3>2, <3>3 DEF UnionDone
  <2>5. CASE v.name # ""
    <3>. DEFINE U == Unions[name]
                hits == {i \in DOMAIN U : U[i].name = v.name}
                first == CHOOSE i \in hits : \A j \in hits : i <= j
                h == v.header
    <3>1. Len(U) \in Nat /\ DOMAIN U = 1..Len(U) BY <2>2
    <3>2. r = IF hits = {} \/ h.kind # "header" \/ ~h.valid THEN Bad
              ELSE WithHeader(v, Header(U[first].header, h))
      BY <1>2, <2>5, Zenon DEF HeaderUnion
    <3>3. CASE hits = {}
      <4>1. ~IsUnion(name, v) BY <2>5, <3>1, <3>3 DEF IsUnion, Member
      <4>. QED BY <3>2, <3>3, <4>1
    <3>4. CASE h.kind # "header" \/ ~h.valid
      <4>1. ~IsUnion(name, v) BY <2>5, <3>4 DEF IsUnion
      <4>2. r = Bad
        <5>. HIDE DEF hits, first, h
        <5>. QED BY <3>2, <3>4
      <4>. QED BY <4>1, <4>2
    <3>5. CASE hits # {} /\ h.kind = "header" /\ h.valid
      <4>1. first \in hits /\ \A j \in hits : first <= j
        <5>1. hits \in SUBSET Nat BY <3>1
        <5>2. \E i \in hits : \A j \in hits : i <= j
          <6>. HIDE DEF hits
          <6>. QED BY <3>5, <5>1, LeastNat
        <5>. HIDE DEF hits
        <5>. QED BY <5>2
      <4>. HIDE DEF first
      <4>2. first \in 1..Len(U) /\ U[first].name = v.name BY <3>1, <4>1
      <4>3. \A i \in 1..Len(U) : Member(name, v, i) <=> i = first
        <5>. SUFFICES ASSUME NEW i \in 1..Len(U) PROVE Member(name, v, i) <=> i = first OBVIOUS
        <5>1. ASSUME Member(name, v, i) PROVE i = first
          <6>1. i \in hits /\ first <= i BY <3>1, <4>1, <5>1 DEF Member
          <6>2. ~(first < i) BY <3>1, <4>2, <5>1 DEF Member
          <6>. QED BY <3>1, <4>2, <6>1, <6>2
        <5>2. Member(name, v, first)
          <6>1. ASSUME NEW j \in 1..first - 1 PROVE U[j].name # v.name
            <7>1. j \in 1..Len(U) /\ ~(first <= j) BY <3>1, <4>2
            <7>. QED BY <3>1, <4>1, <7>1
          <6>. QED BY <4>2, <6>1 DEF Member
        <5>. QED BY <5>1, <5>2
      <4>4. h \in HeaderSet /\ Shaped(h)
        <5>1. h \in HeaderSet BY <2>1, <3>5 DEF MissingSet, HeaderSet
        <5>. QED BY <5>1 DEF Shaped, HeaderSet
      <4>. DEFINE n == U[first].header
                  g == Header(n, h)
                  w == [kind |-> "headerUnion", name |-> v.name, header |-> g]
      <4>5. /\ g # Bad <=> IsHeader(n, h)
            /\ g # Bad => HeaderDone(n, h, g)
        BY <4>4, HeaderExact
      <4>6. r = IF g # Bad THEN w ELSE Bad
        <5>1. r = WithHeader(v, g) BY <3>2, <3>5
        <5>. HIDE DEF g
        <5>2. [v EXCEPT !.header = g] = w BY <2>1
        <5>. HIDE DEF w
        <5>. QED BY <5>1, <5>2 DEF WithHeader, Checked
      <4>7. IsUnion(name, v) <=> IsHeader(n, h)
        <5>. HIDE DEF hits
        <5>. QED BY <1>2, <2>5, <3>5, <4>2, <4>3 DEF IsUnion
      <4>8. w # Bad BY DEF Bad
      <4>. HIDE DEF g
      <4>9. ASSUME g # Bad PROVE UnionDone(name, v, w)
        <5>1. HeaderDone(n, h, g) BY <4>5, <4>9
        <5>2. g \in HeaderSet /\ g.valid /\ g.kind = "header" BY <3>5, <5>1 DEF HeaderDone, HeaderSet
        <5>3. w \in UnionSet /\ w.kind = "headerUnion" /\ w.name = v.name /\ w.header = g
          BY <2>1, <5>2 DEF UnionSet
        <5>. HIDE DEF w, hits
        <5>4. \A i \in 1..Len(U) : Member(name, w, i) <=> i = first BY <4>3, <5>3 DEF Member
        <5>5. IsUnion(name, v) BY <4>5, <4>7, <4>9
        <5>6. UnionForm(name, v, w) BY <2>5, <4>3, <5>1, <5>3 DEF UnionForm, HeaderDone
        <5>7. IsUnion(name, w) BY <1>2, <2>5, <4>2, <5>1, <5>2, <5>3, <5>4 DEF IsUnion, HeaderDone
        <5>8. UnionForm(name, w, w) BY <2>5, <5>1, <5>3, <5>4 DEF UnionForm, HeaderDone
        <5>. QED BY <5>3, <5>5, <5>6, <5>7, <5>8 DEF UnionDone
      <4>. HIDE DEF w
      <4>. QED BY <4>5, <4>6, <4>7, <4>8, <4>9
    <3>. HIDE DEF hits
    <3>. QED BY <3>3, <3>4, <3>5
  <2>. QED BY <2>4, <2>5
<1>. QED BY <1>1, <1>2

\* A list is known by its elements.
LEMMA ListTyped ==
  ASSUME NEW S, NEW L \in Nat, NEW f, f = [i \in 1..L |-> f[i]], \A i \in 1..L : f[i] \in S
  PROVE  f \in Seq(S) /\ Len(f) = L /\ DOMAIN f = 1..L
OBVIOUS

\* r is the normal form of a value v without members, and its own.
ScalarDone(t, v, intOnly, r) ==
  /\ r \in LeafSet
  /\ IsScalar(t, v, intOnly) /\ ScalarForm(t, v, r)
  /\ IsScalar(t, r, intOnly) /\ ScalarForm(t, r, r)

\* A stack of headers.
LEMMA HeaderStackExact ==
  ASSUME NEW t, t.type = "headerStack", t.size \in Int, NEW v, Shaped(v), NEW intOnly,
         NEW r, r = HeaderStack(t, v)
  PROVE  /\ r # Bad <=> IsScalar(t, v, intOnly)
         /\ r # Bad => ScalarDone(t, v, intOnly, r)
<1>. DEFINE Is(x) == /\ t.name \in DOMAIN Headers /\ x.kind = "headerStack" /\ Len(x.entries) = t.size
                    /\ \A i \in 1..Len(x.entries) : IsHeader(t.name, x.entries[i])
            Form(x, y) == /\ y.kind = "headerStack" /\ Len(y.entries) = Len(x.entries)
                          /\ \A i \in 1..Len(x.entries) : HeaderForm(t.name, x.entries[i], y.entries[i])
<1>1. ASSUME NEW x PROVE IsScalar(t, x, intOnly) <=> Is(x) BY Zenon DEF IsScalar
<1>2. ASSUME NEW x, NEW y PROVE ScalarForm(t, x, y) <=> Form(x, y) BY Zenon DEF ScalarForm
<1>3. CASE ~StackShape("headerStack", DOMAIN Headers, t, v)
  <2>1. r = Bad BY <1>3 DEF HeaderStack
  <2>2. ~Is(v)
    <3>1. ASSUME Is(v) PROVE v.entries \in Seq(HeaderSet \cup MissingSet) BY <3>1 DEF Shaped
    <3>2. ASSUME Is(v) PROVE t.size >= 0 BY <3>1, <3>2
    <3>. QED BY <1>3, <3>2 DEF StackShape
  <2>. QED BY <1>1, <2>1, <2>2
<1>4. CASE StackShape("headerStack", DOMAIN Headers, t, v)
  <2>. DEFINE L == Len(v.entries)
              out == [i \in 1..L |-> Header(t.name, v.entries[i])]
              w == [kind |-> "headerStack", entries |-> out]
  <2>1. /\ v.kind = "headerStack" /\ L = t.size /\ t.name \in DOMAIN Headers
        /\ v.entries \in Seq(HeaderSet \cup MissingSet) /\ L \in Nat
        /\ v = [kind |-> "headerStack", entries |-> v.entries]
    BY <1>4 DEF StackShape, Shaped
  <2>2. r = WithEntries(v, out)
    <3>1. DOMAIN v.entries = 1..L BY <2>1
    <3>. QED BY <1>4, <3>1 DEF HeaderStack
  <2>3. \A i \in 1..L : /\ out[i] # Bad <=> IsHeader(t.name, v.entries[i])
                        /\ out[i] # Bad => HeaderDone(t.name, v.entries[i], out[i])
    <3>. SUFFICES ASSUME NEW i \in 1..L
                  PROVE  /\ out[i] # Bad <=> IsHeader(t.name, v.entries[i])
                         /\ out[i] # Bad => HeaderDone(t.name, v.entries[i], out[i])
      OBVIOUS
    <3>1. v.entries[i] \in HeaderSet \cup MissingSet BY <2>1
    <3>2. Shaped(v.entries[i])
      <4>1. v.entries[i] \in LeafSet BY <3>1 DEF LeafSet
      <4>. QED BY <4>1, LeafShape
    <3>3. out[i] = Header(t.name, v.entries[i]) OBVIOUS
    <3>. HIDE DEF out
    <3>. QED BY <3>2, <3>3, HeaderExact
  <2>4. NoneBad(out) <=> \A i \in 1..L : out[i] # Bad BY DEF NoneBad
  <2>5. r = IF NoneBad(out) THEN w ELSE Bad
    <3>. HIDE DEF out
    <3>1. [v EXCEPT !.entries = out] = w BY <2>1
    <3>. HIDE DEF w
    <3>. QED BY <2>2, <3>1 DEF WithEntries, Checked
  <2>6. w # Bad BY DEF Bad
  <2>7. Is(v) <=> NoneBad(out)
    <3>. HIDE DEF out
    <3>. QED BY <2>1, <2>3, <2>4
  <2>8. ASSUME NoneBad(out) PROVE ScalarDone(t, v, intOnly, w)
    <3>1. \A i \in 1..L : HeaderDone(t.name, v.entries[i], out[i]) BY <2>3, <2>4, <2>8
    <3>2. out \in Seq(HeaderSet \cup MissingSet) /\ Len(out) = L
      <4>1. \A i \in 1..L : out[i] \in HeaderSet \cup MissingSet BY <3>1 DEF HeaderDone
      <4>2. out = [i \in 1..L |-> out[i]] OBVIOUS
      <4>3. L \in Nat BY <2>1
      <4>. HIDE DEF out, L
      <4>. QED BY <4>1, <4>2, <4>3, ListTyped
    <3>. HIDE DEF out
    <3>3. w.entries = out /\ w.kind = "headerStack"
          /\ w \in [kind : {"headerStack"}, entries : Seq(HeaderSet \cup MissingSet)]
      BY <3>2
    <3>. HIDE DEF w
    <3>4. w \in LeafSet BY <3>3 DEF LeafSet
    <3>5. Form(v, w) BY <3>1, <3>2, <3>3 DEF HeaderDone
    <3>6. Is(w) BY <2>1, <3>1, <3>2, <3>3 DEF HeaderDone
    <3>7. Form(w, w) BY <3>1, <3>2, <3>3 DEF HeaderDone
    <3>. HIDE DEF Is, Form
    <3>. QED BY <1>1, <1>2, <2>7, <2>8, <3>4, <3>5, <3>6, <3>7 DEF ScalarDone
  <2>. HIDE DEF w, Is, out
  <2>. QED BY <1>1, <2>5, <2>6, <2>7, <2>8
<1>. QED BY <1>3, <1>4

\* A stack of header unions.
LEMMA HeaderUnionStackExact ==
  ASSUME NEW t, t.type = "headerUnionStack", t.size \in Int, NEW v, Shaped(v), NEW intOnly,
         NEW r, r = HeaderUnionStack(t, v)
  PROVE  /\ r # Bad <=> IsScalar(t, v, intOnly)
         /\ r # Bad => ScalarDone(t, v, intOnly, r)
<1>. DEFINE Is(x) == /\ t.name \in DOMAIN Unions /\ x.kind = "headerUnionStack" /\ Len(x.entries) = t.size
                    /\ \A i \in 1..Len(x.entries) : IsUnion(t.name, x.entries[i])
            Form(x, y) == /\ y.kind = "headerUnionStack" /\ Len(y.entries) = Len(x.entries)
                          /\ \A i \in 1..Len(x.entries) : UnionForm(t.name, x.entries[i], y.entries[i])
<1>1. ASSUME NEW x PROVE IsScalar(t, x, intOnly) <=> Is(x) BY Zenon DEF IsScalar
<1>2. ASSUME NEW x, NEW y PROVE ScalarForm(t, x, y) <=> Form(x, y) BY Zenon DEF ScalarForm
<1>3. CASE ~StackShape("headerUnionStack", DOMAIN Unions, t, v)
  <2>1. r = Bad BY <1>3 DEF HeaderUnionStack
  <2>2. ~Is(v)
    <3>1. ASSUME Is(v) PROVE v.entries \in Seq(UnionSet \cup MissingSet) BY <3>1 DEF Shaped
    <3>2. ASSUME Is(v) PROVE t.size >= 0 BY <3>1, <3>2
    <3>. QED BY <1>3, <3>2 DEF StackShape
  <2>. QED BY <1>1, <2>1, <2>2
<1>4. CASE StackShape("headerUnionStack", DOMAIN Unions, t, v)
  <2>. DEFINE L == Len(v.entries)
              out == [i \in 1..L |-> HeaderUnion(t.name, v.entries[i])]
              w == [kind |-> "headerUnionStack", entries |-> out]
  <2>1. /\ v.kind = "headerUnionStack" /\ L = t.size /\ t.name \in DOMAIN Unions
        /\ v.entries \in Seq(UnionSet \cup MissingSet) /\ L \in Nat
        /\ v = [kind |-> "headerUnionStack", entries |-> v.entries]
    BY <1>4 DEF StackShape, Shaped
  <2>2. r = WithEntries(v, out)
    <3>1. DOMAIN v.entries = 1..L BY <2>1
    <3>. QED BY <1>4, <3>1 DEF HeaderUnionStack
  <2>3. \A i \in 1..L : /\ out[i] # Bad <=> IsUnion(t.name, v.entries[i])
                        /\ out[i] # Bad => UnionDone(t.name, v.entries[i], out[i])
    <3>. SUFFICES ASSUME NEW i \in 1..L
                  PROVE  /\ out[i] # Bad <=> IsUnion(t.name, v.entries[i])
                         /\ out[i] # Bad => UnionDone(t.name, v.entries[i], out[i])
      OBVIOUS
    <3>1. v.entries[i] \in UnionSet \cup MissingSet BY <2>1
    <3>2. Shaped(v.entries[i])
      <4>1. v.entries[i] \in LeafSet BY <3>1 DEF LeafSet
      <4>. QED BY <4>1, LeafShape
    <3>3. out[i] = HeaderUnion(t.name, v.entries[i]) OBVIOUS
    <3>. HIDE DEF out
    <3>. QED BY <3>2, <3>3, UnionExact
  <2>4. NoneBad(out) <=> \A i \in 1..L : out[i] # Bad BY DEF NoneBad
  <2>5. r = IF NoneBad(out) THEN w ELSE Bad
    <3>. HIDE DEF out
    <3>1. [v EXCEPT !.entries = out] = w BY <2>1
    <3>. HIDE DEF w
    <3>. QED BY <2>2, <3>1 DEF WithEntries, Checked
  <2>6. w # Bad BY DEF Bad
  <2>7. Is(v) <=> NoneBad(out)
    <3>. HIDE DEF out
    <3>. QED BY <2>1, <2>3, <2>4
  <2>8. ASSUME NoneBad(out) PROVE ScalarDone(t, v, intOnly, w)
    <3>1. \A i \in 1..L : UnionDone(t.name, v.entries[i], out[i]) BY <2>3, <2>4, <2>8
    <3>2. out \in Seq(UnionSet \cup MissingSet) /\ Len(out) = L
      <4>1. \A i \in 1..L : out[i] \in UnionSet \cup MissingSet BY <3>1 DEF UnionDone
      <4>2. out = [i \in 1..L |-> out[i]] OBVIOUS
      <4>3. L \in Nat BY <2>1
      <4>. HIDE DEF out, L
      <4>. QED BY <4>1, <4>2, <4>3, ListTyped
    <3>. HIDE DEF out
    <3>3. w.entries = out /\ w.kind = "headerUnionStack"
          /\ w \in [kind : {"headerUnionStack"}, entries : Seq(UnionSet \cup MissingSet)]
      BY <3>2
    <3>. HIDE DEF w
    <3>4. w \in LeafSet BY <3>3 DEF LeafSet
    <3>5. Form(v, w) BY <3>1, <3>2, <3>3 DEF UnionDone
    <3>6. Is(w) BY <2>1, <3>1, <3>2, <3>3 DEF UnionDone
    <3>7. Form(w, w) BY <3>1, <3>2, <3>3 DEF UnionDone
    <3>. HIDE DEF Is, Form
    <3>. QED BY <1>1, <1>2, <2>7, <2>8, <3>4, <3>5, <3>6, <3>7 DEF ScalarDone
  <2>. HIDE DEF w, Is, out
  <2>. QED BY <1>1, <2>5, <2>6, <2>7, <2>8
<1>. QED BY <1>3, <1>4

\* The integer types.
LEMMA IntegerExact ==
  ASSUME NEW t \in BitTypes, t.type \in {"bit", "int"}, NEW v, Shaped(v), NEW intOnly,
         NEW r, r = Bitstring(t, v, intOnly)
  PROVE  /\ r # Bad <=> IsScalar(t, v, intOnly)
         /\ r # Bad => ScalarDone(t, v, intOnly, r)
<1>1. ASSUME NEW x PROVE IsScalar(t, x, intOnly) <=> x.kind = "bitstring" /\ IsBits(t, x.bytes)
  BY Zenon DEF IsScalar
<1>2. ASSUME NEW x, NEW y
      PROVE  ScalarForm(t, x, y) <=> y.kind = "bitstring" /\ BitsForm(t, x.bytes, y.bytes)
  BY Zenon DEF ScalarForm
<1>3. CASE v.kind # "bitstring"
  <2>1. t.type # "varbit" OBVIOUS
  <2>2. r = Bad BY <1>3, <2>1, Zenon DEF Bitstring
  <2>. QED BY <1>1, <1>3, <2>2
<1>4. CASE v.kind = "bitstring"
  <2>1. v.bytes \in Strings /\ v = Bits(v.bytes) BY <1>4 DEF Shaped, Bits
  <2>2. t.type # "varbit" OBVIOUS
  <2>3. /\ r # Bad <=> IsBits(t, v.bytes)
        /\ r # Bad => r = Bits(r.bytes) /\ BitsDone(t, v.bytes, r.bytes)
    <3>1. r = Bitstring(t, Bits(v.bytes), intOnly) BY <2>1
    <3>. QED BY <2>1, <2>2, <3>1, BitstringExact
  <2>4. ASSUME r # Bad PROVE ScalarDone(t, v, intOnly, r)
    <3>1. r = Bits(r.bytes) /\ BitsDone(t, v.bytes, r.bytes) BY <2>3, <2>4
    <3>2. r.kind = "bitstring" /\ r \in LeafSet
      <4>. DEFINE c == r.bytes
      <4>1. c \in Strings BY <3>1 DEF BitsDone
      <4>2. r = Bits(c) BY <3>1
      <4>. HIDE DEF c
      <4>3. r.kind = "bitstring" /\ r \in [kind : {"bitstring", "enumValue"}, bytes : Strings]
        BY <4>1, <4>2 DEF Bits
      <4>. QED BY <4>3 DEF LeafSet
    <3>. QED BY <1>1, <1>2, <1>4, <3>1, <3>2 DEF ScalarDone, BitsDone
  <2>. QED BY <1>1, <1>4, <2>3, <2>4
<1>. QED BY <1>3, <1>4

\* A varbit keeps its bytes and its width.
LEMMA VarbitExact ==
  ASSUME NEW t \in BitTypes, t.type = "varbit", NEW v, Shaped(v), NEW intOnly \in BOOLEAN,
         NEW r, r = Bitstring(t, v, intOnly)
  PROVE  /\ r # Bad <=> IsScalar(t, v, intOnly)
         /\ r # Bad => ScalarDone(t, v, intOnly, r)
<1>1. IsScalar(t, v, intOnly) <=>
        /\ v.kind = "varbit" /\ v.width \in 0..t.width /\ ~intOnly
        /\ IsUnsigned(v.bytes, v.width) /\ Len(v.bytes) = ByteLen(v.width)
  BY Zenon DEF IsScalar
<1>2. ScalarForm(t, v, v) BY Zenon DEF ScalarForm
<1>3. r = IF intOnly THEN Bad ELSE Varbit(t, v) BY Zenon DEF Bitstring
<1>4. CASE v.kind # "varbit" BY <1>1, <1>3, <1>4 DEF Varbit, Checked
<1>5. CASE v.kind = "varbit"
  <2>1. v.bytes \in Strings /\ v.width \in Int /\ v \in LeafSet BY <1>5 DEF Shaped, LeafSet
  <2>2. UnsignedBytes(v.bytes, v.width) # Error <=> IsUnsigned(v.bytes, v.width) BY <2>1, UnsignedDone
  <2>3. v # Bad BY <1>5, NoValues
  <2>4. r = IF IsScalar(t, v, intOnly) THEN v ELSE Bad
    BY <1>1, <1>3, <1>5, <2>2, Zenon DEF Varbit, Checked
  <2>. QED BY <1>2, <2>1, <2>3, <2>4 DEF ScalarDone
<1>. QED BY <1>4, <1>5

\* The types whose values are left as they are.
LEMMA KeptExact ==
  ASSUME NEW t, t.type \in {"bool", "enum", "error"}, NEW v, ~HasPart(v) => v \in LeafSet,
         NEW intOnly, NEW r, r = Scalar(t, v, intOnly)
  PROVE  /\ r # Bad <=> IsScalar(t, v, intOnly)
         /\ r # Bad => ScalarDone(t, v, intOnly, r)
<1>1. r = IF IsScalar(t, v, intOnly) THEN v ELSE Bad
  <2>1. CASE t.type = "bool" BY <2>1, Zenon DEF Scalar, IsScalar, Checked
  <2>2. CASE t.type = "enum" BY <2>2, Zenon DEF Scalar, IsScalar, Checked
  <2>3. CASE t.type = "error" BY <2>3, Zenon DEF Scalar, IsScalar, Checked
  <2>. QED BY <2>1, <2>2, <2>3
<1>2. IsScalar(t, v, intOnly) => v.kind \in {"bool", "enum", "error"}
  <2>1. CASE t.type = "bool" BY <2>1, Zenon DEF IsScalar
  <2>2. CASE t.type = "enum" BY <2>2, Zenon DEF IsScalar
  <2>3. CASE t.type = "error" BY <2>3, Zenon DEF IsScalar
  <2>. QED BY <2>1, <2>2, <2>3
<1>3. ScalarForm(t, v, v)
  <2>1. CASE t.type = "bool" BY <2>1, Zenon DEF ScalarForm
  <2>2. CASE t.type = "enum" BY <2>2, Zenon DEF ScalarForm
  <2>3. CASE t.type = "error" BY <2>3, Zenon DEF ScalarForm
  <2>. QED BY <2>1, <2>2, <2>3
<1>4. IsScalar(t, v, intOnly) => v # Bad /\ v \in LeafSet
  BY <1>2, NoValues DEF HasPart
<1>. QED BY <1>1, <1>3, <1>4 DEF ScalarDone

\* The number of a serializable enum.
LEMMA SerializableExact ==
  ASSUME NEW t, t.type = "serializableEnum", NEW v, Shaped(v),
         NEW intOnly, NEW r, r = Scalar(t, v, intOnly)
  PROVE  /\ r # Bad <=> IsScalar(t, v, intOnly)
         /\ r # Bad => ScalarDone(t, v, intOnly, r)
<1>1. ASSUME NEW x
      PROVE  IsScalar(t, x, intOnly) <=>
               t.name \in DOMAIN SerEnums /\ x.kind = "enumValue" /\ IsUnsigned(x.bytes, SerEnums[t.name])
  BY Zenon DEF IsScalar
<1>2. ASSUME NEW x, NEW y
      PROVE  ScalarForm(t, x, y) <=> y.kind = "enumValue" /\ CanonicalOf(y.bytes, ValueOf(x.bytes))
  BY Zenon DEF ScalarForm
<1>3. r = IF t.name \notin DOMAIN SerEnums \/ v.kind # "enumValue" THEN Bad
          ELSE WithBytes(v, UnsignedBytes(v.bytes, SerEnums[t.name]))
  BY Zenon DEF Scalar
<1>4. CASE t.name \notin DOMAIN SerEnums \/ v.kind # "enumValue" BY <1>1, <1>3, <1>4
<1>5. CASE t.name \in DOMAIN SerEnums /\ v.kind = "enumValue"
  <2>. DEFINE W == SerEnums[t.name]
              c == UnsignedBytes(v.bytes, W)
              w == [kind |-> "enumValue", bytes |-> c]
  <2>1. v.bytes \in Strings /\ v = [kind |-> "enumValue", bytes |-> v.bytes] /\ W \in Int
    BY <1>5, RegisterAssumption DEF Shaped
  <2>2. /\ c # Error <=> IsUnsigned(v.bytes, W)
        /\ c # Error => /\ c \in Strings /\ CanonicalOf(c, ValueOf(v.bytes))
                        /\ IsUnsigned(c, W) /\ CanonicalOf(c, ValueOf(c))
    <3>. HIDE DEF W
    <3>. QED BY <2>1, UnsignedDone
  <2>3. r = WithBytes(v, c) BY <1>3, <1>5
  <2>. HIDE DEF c
  <2>4. r = IF c # Error THEN w ELSE Bad BY <2>1, <2>3 DEF WithBytes, Checked
  <2>5. w.kind = "enumValue" /\ w.bytes = c /\ w # Bad BY DEF Bad
  <2>6. ASSUME c # Error PROVE ScalarDone(t, v, intOnly, w)
    <3>1. w \in [kind : {"bitstring", "enumValue"}, bytes : Strings] BY <2>2, <2>6
    <3>2. w \in LeafSet BY <3>1 DEF LeafSet
    <3>. HIDE DEF w
    <3>. QED BY <1>1, <1>2, <1>5, <2>2, <2>5, <2>6, <3>2 DEF ScalarDone
  <2>. HIDE DEF w
  <2>. QED BY <1>1, <1>5, <2>2, <2>4, <2>5, <2>6
<1>. QED BY <1>4, <1>5

\* A value of a type without members is accepted exactly when it is one, and
\* its normal form is normal.
LEMMA ScalarExact ==
  ASSUME NEW t, SpecOK(t), NEW v, Shaped(v), ~HasPart(v) => v \in LeafSet,
         NEW intOnly \in BOOLEAN, NEW r, r = Scalar(t, v, intOnly)
  PROVE  /\ r # Bad <=> IsScalar(t, v, intOnly)
         /\ r # Bad => ScalarDone(t, v, intOnly, r)
<1>1. CASE t.type \in {"bit", "int"}
  <2>1. t \in BitTypes BY <1>1 DEF SpecOK
  <2>2. r = Bitstring(t, v, intOnly) BY <1>1, Zenon DEF Scalar
  <2>. QED BY <1>1, <2>1, <2>2, IntegerExact
<1>2. CASE t.type = "varbit"
  <2>1. t \in BitTypes BY <1>2 DEF SpecOK
  <2>2. r = Bitstring(t, v, intOnly) BY <1>2, Zenon DEF Scalar
  <2>. QED BY <1>2, <2>1, <2>2, VarbitExact
<1>3. CASE t.type \in {"bool", "enum", "error"} BY <1>3, KeptExact
<1>4. CASE t.type = "header"
  <2>1. r = Header(t.name, v) BY <1>4, Zenon DEF Scalar
  <2>2. \A x : IsScalar(t, x, intOnly) <=> IsHeader(t.name, x) BY <1>4, Zenon DEF IsScalar
  <2>3. \A x, y : ScalarForm(t, x, y) <=> HeaderForm(t.name, x, y) BY <1>4, Zenon DEF ScalarForm
  <2>4. (r # Bad <=> IsHeader(t.name, v)) /\ (r # Bad => HeaderDone(t.name, v, r)) BY <2>1, HeaderExact
  <2>. QED BY <2>2, <2>3, <2>4 DEF HeaderDone, ScalarDone, LeafSet
<1>5. CASE t.type = "headerUnion"
  <2>1. r = HeaderUnion(t.name, v) BY <1>5, Zenon DEF Scalar
  <2>2. \A x : IsScalar(t, x, intOnly) <=> IsUnion(t.name, x) BY <1>5, Zenon DEF IsScalar
  <2>3. \A x, y : ScalarForm(t, x, y) <=> UnionForm(t.name, x, y) BY <1>5, Zenon DEF ScalarForm
  <2>4. (r # Bad <=> IsUnion(t.name, v)) /\ (r # Bad => UnionDone(t.name, v, r)) BY <2>1, UnionExact
  <2>. QED BY <2>2, <2>3, <2>4 DEF UnionDone, ScalarDone, LeafSet
<1>6. CASE t.type = "headerStack"
  <2>1. t.size \in Int BY <1>6 DEF SpecOK
  <2>2. r = HeaderStack(t, v) BY <1>6, Zenon DEF Scalar
  <2>. QED BY <1>6, <2>1, <2>2, HeaderStackExact
<1>7. CASE t.type = "headerUnionStack"
  <2>1. t.size \in Int BY <1>7 DEF SpecOK
  <2>2. r = HeaderUnionStack(t, v) BY <1>7, Zenon DEF Scalar
  <2>. QED BY <1>7, <2>1, <2>2, HeaderUnionStackExact
<1>8. CASE t.type = "serializableEnum" BY <1>8, SerializableExact
<1>9. CASE t.type \notin {"bit", "int", "varbit", "bool", "enum", "error", "header", "headerUnion",
                          "headerStack", "headerUnionStack", "serializableEnum"}
  <2>1. r = Bad BY <1>9, Zenon DEF Scalar
  <2>2. ~IsScalar(t, v, intOnly) BY <1>9, Zenon DEF IsScalar
  <2>. QED BY <2>1, <2>2
<1>. QED BY <1>1, <1>2, <1>3, <1>4, <1>5, <1>6, <1>7, <1>8, <1>9

\* r is the normal form of the value v of a translated type, and its own.
TranslatedDone(t, v, intOnly, r) ==
  /\ r \in LeafSet
  /\ IsTranslated(t, v, intOnly) /\ TranslatedForm(t, v, r)
  /\ IsTranslated(t, r, intOnly) /\ TranslatedForm(t, r, r)

\* A value of a translated type is accepted exactly when it is one.
LEMMA TranslatedExact ==
  ASSUME NEW t, NewTypeOK(t), t.rep # "original", NEW v, Shaped(v),
         NEW intOnly \in BOOLEAN, NEW r, r = Translated(t, v, intOnly)
  PROVE  /\ r # Bad <=> IsTranslated(t, v, intOnly)
         /\ r # Bad => TranslatedDone(t, v, intOnly, r)
<1>1. CASE v.kind # "bitstring" BY <1>1 DEF Translated, IsTranslated
<1>2. CASE v.kind = "bitstring"
  <2>1. v.bytes \in Strings /\ v = Bits(v.bytes) /\ v \in LeafSet BY <1>2 DEF Shaped, Bits, LeafSet
  <2>2. v # Bad BY <1>2, NoValues
  <2>3. CASE t.rep = "sdnString"
    <3>1. r = IF ~intOnly THEN v ELSE Bad BY <1>2, <2>3 DEF Translated, Checked
    <3>2. IsTranslated(t, v, intOnly) <=> ~intOnly BY <1>2, <2>3 DEF IsTranslated
    <3>3. TranslatedForm(t, v, v) BY <2>3 DEF TranslatedForm
    <3>. QED BY <2>1, <2>2, <3>1, <3>2, <3>3 DEF TranslatedDone
  <2>4. CASE t.rep = "sdnBitwidth" /\ t.width \in Int
    <3>. DEFINE c == UnsignedBytes(v.bytes, t.width)
    <3>1. /\ c # Error <=> IsUnsigned(v.bytes, t.width)
          /\ c # Error => /\ c \in Strings /\ CanonicalOf(c, ValueOf(v.bytes))
                          /\ IsUnsigned(c, t.width) /\ CanonicalOf(c, ValueOf(c))
      BY <2>1, <2>4, UnsignedDone
    <3>2. r = IF t.width <= 0 THEN Bad ELSE WithBytes(v, c) BY <1>2, <2>4 DEF Translated
    <3>3. IsTranslated(t, v, intOnly) <=> t.width > 0 /\ c # Error BY <1>2, <2>4, <3>1 DEF IsTranslated
    <3>. HIDE DEF c
    <3>4. WithBytes(v, c) = IF c # Error THEN Bits(c) ELSE Bad BY <2>1 DEF WithBytes, Checked, Bits
    <3>5. Bits(c).kind = "bitstring" /\ Bits(c).bytes = c /\ Bits(c) # Bad BY DEF Bits, Bad
    <3>6. ASSUME t.width > 0, c # Error PROVE TranslatedDone(t, v, intOnly, Bits(c))
      <4>1. Bits(c) \in [kind : {"bitstring", "enumValue"}, bytes : Strings] BY <3>1, <3>6 DEF Bits
      <4>2. Bits(c) \in LeafSet BY <4>1 DEF LeafSet
      <4>3. TranslatedForm(t, v, Bits(c)) /\ TranslatedForm(t, Bits(c), Bits(c))
        BY <2>4, <3>1, <3>5, <3>6 DEF TranslatedForm
      <4>4. IsTranslated(t, v, intOnly) /\ IsTranslated(t, Bits(c), intOnly)
        BY <2>4, <3>1, <3>3, <3>5, <3>6 DEF IsTranslated
      <4>. QED BY <4>2, <4>3, <4>4 DEF TranslatedDone
    <3>7. t.width <= 0 <=> ~(t.width > 0) BY <2>4
    <3>. QED BY <3>2, <3>3, <3>4, <3>5, <3>6, <3>7
  <2>. QED BY <2>3, <2>4 DEF NewTypeOK
<1>. QED BY <1>1, <1>2

-----------------------------------------------------------------------------
(* The rules along the branches of normalize *)

\* The branches of normalize are those of the rule.
Renaming(a) == Renames(Specs[a.spec])
Translating(a) == Specs[a.spec].type = "newType" /\ ~Renaming(a)
Joining(a) == Specs[a.spec].type \in {"tuple", "struct"}
Plain(a) == Specs[a.spec].type \notin {"newType", "tuple", "struct"}

\* Each call takes one of them.
LEMMA Branches ==
  ASSUME NEW a
  PROVE  /\ Renaming(a) \/ Translating(a) \/ Joining(a) \/ Plain(a)
         /\ Renaming(a) => ~Translating(a) /\ ~Joining(a) /\ ~Plain(a)
         /\ Joining(a) => ~Translating(a) /\ ~Plain(a)
         /\ Translating(a) => ~Plain(a)
BY DEF Renaming, Translating, Joining, Plain, Renames

\* The call a new type leads to.
Behind(a) == Arg(NewTypes[Specs[a.spec].name].spec, a.value, a.intOnly)

\* The form of a member.
Part(w, i) == IF w = AnyForm THEN AnyForm ELSE w.members[i]

\* The value is accepted if those of the calls it leads to are.
Local(a) ==
  LET t == Specs[a.spec]
  IN  \/ Renaming(a)
      \/ /\ Translating(a) /\ t.name \in DOMAIN NewTypes
         /\ IsTranslated(NewTypes[t.name], a.value, a.intOnly)
      \/ Joining(a) /\ StructLike(t, a.value) /\ ~a.intOnly
      \/ Plain(a) /\ IsScalar(t, a.value, a.intOnly) /\ (a.intOnly => t.type \in {"bit", "int"})

\* The rule for a new type with an original type.
LEMMA RuleRenaming ==
  ASSUME NEW a, Renaming(a), NEW w, NEW T
  PROVE  Rule(a, w, T) <=> <<Behind(a), w>> \in T
<1>. DEFINE t == Specs[a.spec]
<1>1. t.type = "newType" /\ NewTypes[t.name].rep = "original" BY DEF Renaming, Renames
<1>2. ~IsTranslated(NewTypes[t.name], a.value, a.intOnly) BY <1>1 DEF IsTranslated
<1>3. ~StructLike(t, a.value) BY <1>1 DEF StructLike, HasMembers
<1>4. ~IsScalar(t, a.value, a.intOnly) BY <1>1, Zenon DEF IsScalar
<1>. QED BY <1>2, <1>3, <1>4, Zenon DEF Rule, Behind, Renaming

\* The rule for a translated type.
LEMMA RuleTranslating ==
  ASSUME NEW a, Translating(a), NEW w, NEW T
  PROVE  Rule(a, w, T) <=>
           Local(a) /\ (w = AnyForm \/ TranslatedForm(NewTypes[Specs[a.spec].name], a.value, w))
<1>. DEFINE t == Specs[a.spec]
<1>1. t.type = "newType" /\ ~Renames(t) BY DEF Translating, Renaming
<1>3. ~StructLike(t, a.value) BY <1>1 DEF StructLike, HasMembers
<1>4. ~IsScalar(t, a.value, a.intOnly) BY <1>1, Zenon DEF IsScalar
<1>5. ~Renaming(a) /\ ~Joining(a) /\ ~Plain(a) BY Branches
<1>. QED BY <1>1, <1>3, <1>4, <1>5, Zenon DEF Rule, Local

\* The rule for structs and tuples.
LEMMA RuleJoining ==
  ASSUME NEW a, Joining(a), NEW w, NEW T
  PROVE  Rule(a, w, T) <=>
           /\ Local(a)
           /\ w = AnyForm \/ (w.kind = a.value.kind /\ Len(w.members) = Len(a.value.members))
           /\ \A i \in 1..Len(a.value.members) :
                <<Arg(MembersOf(Specs[a.spec])[i], a.value.members[i], FALSE), Part(w, i)>> \in T
<1>. DEFINE t == Specs[a.spec]
<1>1. t.type \in {"tuple", "struct"} /\ t.type # "newType" BY DEF Joining
<1>2. ~Renames(t) BY <1>1 DEF Renames
<1>4. ~IsScalar(t, a.value, a.intOnly)
  <2>1. CASE t.type = "tuple" BY <2>1, Zenon DEF IsScalar
  <2>2. CASE t.type = "struct" BY <2>2, Zenon DEF IsScalar
  <2>. QED BY <1>1, <2>1, <2>2
<1>5. ~Renaming(a) /\ ~Translating(a) /\ ~Plain(a) BY Branches
<1>. QED BY <1>1, <1>2, <1>4, <1>5, Zenon DEF Rule, Local, Part

\* The rule for the other types.
LEMMA RulePlain ==
  ASSUME NEW a, Plain(a), NEW w, NEW T
  PROVE  Rule(a, w, T) <=> Local(a) /\ (w = AnyForm \/ ScalarForm(Specs[a.spec], a.value, w))
<1>. DEFINE t == Specs[a.spec]
<1>1. t.type # "newType" /\ t.type # "tuple" /\ t.type # "struct" BY DEF Plain
<1>2. ~Renames(t) BY <1>1 DEF Renames
<1>3. ~StructLike(t, a.value) BY <1>1 DEF StructLike, HasMembers
<1>5. ~Renaming(a) /\ ~Translating(a) /\ ~Joining(a) BY Branches
<1>. QED BY <1>1, <1>2, <1>3, <1>5, Zenon DEF Rule, Local

\* The parts of a call.
LEMMA ArgTyped ==
  ASSUME NEW a \in Args
  PROVE  /\ a.spec \in DOMAIN Specs /\ a.value \in Trees[MaxDepth] /\ a.intOnly \in BOOLEAN
         /\ a = Arg(a.spec, a.value, a.intOnly) /\ MaxDepth \in Nat /\ Shaped(a.value)
         /\ SpecOK(Specs[a.spec])
<1>1. a.spec \in DOMAIN Specs /\ a.value \in Trees[MaxDepth] /\ a.intOnly \in BOOLEAN
      /\ a = Arg(a.spec, a.value, a.intOnly)
  BY DEF Args, Arg
<1>2. MaxDepth \in Nat /\ SpecOK(Specs[a.spec]) BY <1>1, RegisterAssumption
<1>. QED BY <1>1, <1>2, TreeShape

\* A call is made of them.
LEMMA ArgIs ==
  ASSUME NEW p \in DOMAIN Specs, NEW v \in Trees[MaxDepth], NEW intOnly \in BOOLEAN
  PROVE  /\ Arg(p, v, intOnly) \in Args /\ Arg(p, v, intOnly).spec = p
         /\ Arg(p, v, intOnly).value = v /\ Arg(p, v, intOnly).intOnly = intOnly
BY DEF Args, Arg

\* A value that is accepted as a struct or tuple has the members of its type.
LEMMA JoinFacts ==
  ASSUME NEW a \in Args, Joining(a), Local(a)
  PROVE  LET t == Specs[a.spec] IN
         /\ HasPart(a.value) /\ a.intOnly = FALSE /\ StructLike(t, a.value) /\ t.type = a.value.kind
         /\ MembersOf(t) \in Seq(DOMAIN Specs) /\ Len(a.value.members) = Len(MembersOf(t))
         /\ Len(MembersOf(t)) \in Nat
<1>. DEFINE t == Specs[a.spec]
<1>1. StructLike(t, a.value) /\ ~a.intOnly BY Branches DEF Local
<1>2. t.type = a.value.kind /\ HasMembers(t) /\ Len(a.value.members) = Len(MembersOf(t))
  BY <1>1 DEF StructLike
<1>3. HasPart(a.value) BY <1>2 DEF Joining, HasPart
<1>4. MembersOf(t) \in Seq(DOMAIN Specs)
  <2>1. CASE t.type = "tuple" BY <2>1, ArgTyped DEF MembersOf, SpecOK
  <2>2. CASE t.type # "tuple"
    <3>1. t.name \in DOMAIN Structs BY <1>2, <2>2 DEF HasMembers
    <3>. QED BY <2>2, <3>1, RegisterAssumption DEF MembersOf
  <2>. QED BY <2>1, <2>2
<1>5. Len(MembersOf(t)) \in Nat BY <1>4
<1>6. a.intOnly = FALSE BY <1>1, ArgTyped
<1>. QED BY <1>1, <1>2, <1>3, <1>4, <1>5, <1>6

\* The members of a value are less nested.
LEMMA MemberTyped ==
  ASSUME NEW n \in Nat, NEW v \in Trees[n], HasPart(v)
  PROVE  /\ v = [kind |-> v.kind, members |-> v.members] /\ Len(v.members) \in Nat
         /\ \E k \in Nat : k + 1 <= n /\ \A i \in 1..Len(v.members) : v.members[i] \in Trees[k]
         /\ \A i \in 1..Len(v.members) : v.members[i] \in Trees[n]
<1>1. Parted(v, n) BY TreeCases
<1>2. PICK k \in Nat : k + 1 <= n /\ v \in [kind : {"struct", "tuple"}, members : Seq(Trees[k])]
  BY <1>1 DEF Parted
<1>3. v = [kind |-> v.kind, members |-> v.members] /\ Len(v.members) \in Nat
      /\ \A i \in 1..Len(v.members) : v.members[i] \in Trees[k]
  BY <1>2
<1>4. Trees[k] \subseteq Trees[n]
  <2>1. k <= n BY <1>2
  <2>. QED BY <2>1, TreesGrow
<1>. QED BY <1>2, <1>3, <1>4

\* The calls that a call makes.
NestedOK(a) ==
  /\ Nested(a) \in Seq(Args) /\ Len(Nested(a)) \in Nat
  /\ Renaming(a) => Nested(a) = <<Behind(a)>>
  /\ Joining(a) /\ Local(a) =>
       /\ Len(Nested(a)) = Len(a.value.members)
       /\ \A i \in 1..Len(a.value.members) :
            Nested(a)[i] = Arg(MembersOf(Specs[a.spec])[i], a.value.members[i], FALSE)
  /\ ~Renaming(a) /\ ~(Joining(a) /\ Local(a)) => Nested(a) = <<>>

\* They are calls, and as many as the branch asks for.
LEMMA NestedFacts == \A a \in Args : NestedOK(a)
<1>. TAKE a \in Args
<1>. DEFINE t == Specs[a.spec]
            members == [i \in 1..Len(MembersOf(t)) |-> Arg(MembersOf(t)[i], a.value.members[i], FALSE)]
<1>1. CASE Renaming(a)
  <2>1. Nested(a) = <<Behind(a)>> BY <1>1 DEF Nested, Renaming, Behind
  <2>2. Behind(a) \in Args
    <3>1. t.name \in DOMAIN NewTypes /\ NewTypes[t.name].rep = "original" BY <1>1 DEF Renaming, Renames
    <3>2. NewTypes[t.name].spec \in DOMAIN Specs BY <3>1, RegisterAssumption DEF NewTypeOK
    <3>. QED BY <3>2, ArgTyped, ArgIs DEF Behind
  <2>. HIDE DEF t
  <2>3. Nested(a) \in Seq(Args) /\ Len(Nested(a)) \in Nat BY <2>1, <2>2
  <2>. QED BY <1>1, <2>1, <2>3, Branches DEF NestedOK
<1>2. CASE Joining(a) /\ Local(a)
  <2>1. /\ HasPart(a.value) /\ a.intOnly = FALSE /\ StructLike(t, a.value)
        /\ MembersOf(t) \in Seq(DOMAIN Specs) /\ Len(a.value.members) = Len(MembersOf(t))
        /\ Len(MembersOf(t)) \in Nat
    BY <1>2, JoinFacts
  <2>2. ~Renaming(a) /\ ~Renames(t) BY <1>2, Branches DEF Renaming
  <2>3. Nested(a) = members BY <2>1, <2>2 DEF Nested
  <2>4. \A i \in 1..Len(MembersOf(t)) : members[i] \in Args
    <3>. TAKE i \in 1..Len(MembersOf(t))
    <3>1. MembersOf(t)[i] \in DOMAIN Specs BY <2>1
    <3>2. a.value.members[i] \in Trees[MaxDepth] BY <2>1, ArgTyped, MemberTyped
    <3>3. members[i] = Arg(MembersOf(t)[i], a.value.members[i], FALSE) OBVIOUS
    <3>. HIDE DEF members, t
    <3>. QED BY <3>1, <3>2, <3>3, ArgIs
  <2>5. members = [i \in 1..Len(MembersOf(t)) |-> members[i]] OBVIOUS
  <2>6. members \in Seq(Args) /\ Len(members) = Len(MembersOf(t))
    <3>. DEFINE L == Len(MembersOf(t))
    <3>1. L \in Nat BY <2>1
    <3>. HIDE DEF members, L
    <3>. QED BY <2>4, <2>5, <3>1, ListTyped DEF L
  <2>7. \A i \in 1..Len(MembersOf(t)) : members[i] = Arg(MembersOf(t)[i], a.value.members[i], FALSE)
    OBVIOUS
  <2>. HIDE DEF members
  <2>. QED BY <1>2, <2>1, <2>2, <2>3, <2>6, <2>7 DEF NestedOK
<1>3. CASE ~Renaming(a) /\ ~(Joining(a) /\ Local(a))
  <2>1. ~(StructLike(t, a.value) /\ ~a.intOnly)
    <3>1. ASSUME StructLike(t, a.value), ~a.intOnly PROVE Joining(a) /\ Local(a)
      <4>1. Joining(a) BY <3>1 DEF StructLike, HasMembers, Joining
      <4>. QED BY <3>1, <4>1 DEF Local
    <3>. QED BY <1>3, <3>1
  <2>2. Nested(a) = <<>> BY <1>3, <2>1 DEF Nested, Renaming
  <2>3. <<>> \in Seq(Args) /\ Len(<<>>) \in Nat OBVIOUS
  <2>. QED BY <1>3, <2>2, <2>3 DEF NestedOK
<1>. QED BY <1>1, <1>2, <1>3

\* A value has its type when its part of the rule holds and the values of the
\* calls that it leads to have theirs.
AllIn(a, T) == \A i \in 1..Len(Nested(a)) : <<Nested(a)[i], AnyForm>> \in T

\* So says the rule.
LEMMA RuleAny ==
  ASSUME NEW a \in Args, NEW T
  PROVE  Rule(a, AnyForm, T) <=> Local(a) /\ AllIn(a, T)
<1>0. NestedOK(a) BY NestedFacts
<1>1. CASE Renaming(a)
  <2>1. Nested(a) = <<Behind(a)>> BY <1>0, <1>1 DEF NestedOK
  <2>2. AllIn(a, T) <=> <<Behind(a), AnyForm>> \in T BY <2>1 DEF AllIn
  <2>3. Local(a) BY <1>1 DEF Local
  <2>. QED BY <1>1, <2>2, <2>3, RuleRenaming
<1>2. CASE Joining(a) /\ Local(a)
  <2>1. \A i : Part(AnyForm, i) = AnyForm BY DEF Part
  <2>2. AllIn(a, T) <=> \A i \in 1..Len(a.value.members) :
          <<Arg(MembersOf(Specs[a.spec])[i], a.value.members[i], FALSE), AnyForm>> \in T
    BY <1>0, <1>2 DEF AllIn, NestedOK
  <2>. QED BY <1>2, <2>1, <2>2, RuleJoining
<1>3. CASE ~Renaming(a) /\ ~(Joining(a) /\ Local(a))
  <2>1. Nested(a) = <<>> BY <1>0, <1>3 DEF NestedOK
  <2>2. AllIn(a, T) BY <2>1 DEF AllIn
  <2>3. Rule(a, AnyForm, T) <=> Local(a) BY <1>3, Branches, RuleTranslating, RuleJoining, RulePlain
  <2>. QED BY <2>2, <2>3
<1>. QED BY <1>1, <1>2, <1>3

\* What more is known, more follows from.
LEMMA RuleMonotonic ==
  ASSUME NEW a, NEW w, NEW T, NEW U, T \subseteq U, Rule(a, w, T) PROVE Rule(a, w, U)
<1>1. CASE Renaming(a) BY <1>1, RuleRenaming
<1>2. CASE Translating(a) BY <1>2, RuleTranslating
<1>3. CASE Joining(a) BY <1>3, RuleJoining
<1>4. CASE Plain(a) BY <1>4, RulePlain
<1>. QED BY <1>1, <1>2, <1>3, <1>4, Branches

\* More applications of the rule show more.
LEMMA FormsGrow == \A m, n \in Nat : m <= n => Forms[m] \subseteq Forms[n]
<1>. DEFINE S == {n \in Nat : Forms[n] \subseteq Forms[n + 1]}
<1>1. 0 \in S BY FormsEquation
<1>2. ASSUME NEW n \in Nat, n \in S PROVE n + 1 \in S
  <2>1. Forms[n] \subseteq Forms[n + 1] BY <1>2
  <2>2. \A x \in FormSpace : Rule(x[1], x[2], Forms[n]) => Rule(x[1], x[2], Forms[n + 1])
    BY <2>1, RuleMonotonic
  <2>3. Forms[n + 1] = RuledBy(Forms[n]) /\ Forms[(n + 1) + 1] = RuledBy(Forms[n + 1])
    <3>1. n + 1 \in Nat OBVIOUS
    <3>. QED BY <3>1, FormsEquation
  <2>4. Forms[n + 1] \subseteq Forms[(n + 1) + 1]
    <3>1. RuledBy(Forms[n]) \subseteq RuledBy(Forms[n + 1]) BY <2>2 DEF RuledBy
    <3>. QED BY <2>3, <3>1
  <2>. QED BY <2>4
<1>3. \A n \in Nat : n \in S
  <2>. HIDE DEF S
  <2>. QED BY <1>1, <1>2, SetInduction
<1>. DEFINE R == {d \in Nat : \A m \in Nat : Forms[m] \subseteq Forms[m + d]}
<1>4. 0 \in R
  <2>1. \A m \in Nat : m + 0 = m OBVIOUS
  <2>. QED BY <2>1
<1>5. ASSUME NEW d \in Nat, d \in R PROVE d + 1 \in R
  <2>. SUFFICES ASSUME NEW m \in Nat PROVE Forms[m] \subseteq Forms[m + (d + 1)] OBVIOUS
  <2>1. m + d \in Nat /\ m + (d + 1) = (m + d) + 1 OBVIOUS
  <2>2. Forms[m + d] \subseteq Forms[(m + d) + 1] BY <1>3, <2>1
  <2>. QED BY <1>5, <2>1, <2>2
<1>6. \A d \in Nat : d \in R
  <2>. HIDE DEF R
  <2>. QED BY <1>4, <1>5, SetInduction
<1>. TAKE m, n \in Nat
<1>. HAVE m <= n
<1>7. n - m \in Nat /\ m + (n - m) = n OBVIOUS
<1>. QED BY <1>6, <1>7

\* A pair is shown in n + 1 steps when the rule shows it from those shown in n.
LEMMA FormsStep ==
  ASSUME NEW n \in Nat, NEW a \in Args, NEW w \in Trees[MaxDepth] \cup {AnyForm}
  PROVE  <<a, w>> \in Forms[n + 1] <=> Rule(a, w, Forms[n])
<1>1. Forms[n + 1] = RuledBy(Forms[n]) BY FormsEquation
<1>. DEFINE x == <<a, w>>
<1>2. x \in FormSpace /\ x[1] = a /\ x[2] = w BY DEF FormSpace
<1>. HIDE DEF x
<1>3. x \in RuledBy(Forms[n]) <=> Rule(a, w, Forms[n]) BY <1>2 DEF RuledBy
<1>. QED BY <1>1, <1>3 DEF x

\* The value of a has its type, as n applications of the rule show.
Can(n, a) == <<a, AnyForm>> \in Forms[n]

\* One application more: the part of the rule and the calls that are made.
LEMMA CanStep ==
  ASSUME NEW a \in Args
  PROVE  /\ ~Can(0, a)
         /\ \A n \in Nat : Can(n + 1, a) <=> Local(a) /\ \A i \in 1..Len(Nested(a)) : Can(n, Nested(a)[i])
<1>1. ~Can(0, a) BY FormsEquation DEF Can
<1>2. ASSUME NEW n \in Nat
      PROVE  Can(n + 1, a) <=> Local(a) /\ \A i \in 1..Len(Nested(a)) : Can(n, Nested(a)[i])
  BY FormsStep, RuleAny DEF Can, AllIn
<1>. QED BY <1>1, <1>2

\* More applications of the rule show more values to have their types.
LEMMA CanGrow == \A a : \A m, n \in Nat : m <= n /\ Can(m, a) => Can(n, a)
BY FormsGrow DEF Can

\* No missing value has a type.
LEMMA NoMissing ==
  \A n \in Nat : \A a \in Args : a.value.kind = "missing" \/ Specs[a.spec].type = "missing" => ~Can(n, a)
<1>. DEFINE Missing(a) == a.value.kind = "missing" \/ Specs[a.spec].type = "missing"
            S == {n \in Nat : \A a \in Args : Missing(a) => ~Can(n, a)}
<1>1. 0 \in S BY CanStep
<1>2. ASSUME NEW n \in Nat, n \in S PROVE n + 1 \in S
  <2>. SUFFICES ASSUME NEW a \in Args, Missing(a), Can(n + 1, a) PROVE FALSE OBVIOUS
  <2>. DEFINE t == Specs[a.spec]
  <2>1. Local(a) /\ \A i \in 1..Len(Nested(a)) : Can(n, Nested(a)[i]) BY CanStep
  <2>2. CASE Renaming(a)
    <3>1. Nested(a) = <<Behind(a)>> /\ Nested(a) \in Seq(Args) BY <2>2, NestedFacts DEF NestedOK
    <3>2. Can(n, Behind(a)) /\ Behind(a) \in Args BY <2>1, <3>1
    <3>3. a.value.kind = "missing" BY <2>2 DEF Renaming, Renames
    <3>4. Behind(a).value = a.value BY DEF Behind, Arg
    <3>. QED BY <1>2, <3>2, <3>3, <3>4
  <2>3. CASE Translating(a)
    <3>1. t.type = "newType" BY <2>3 DEF Translating
    <3>2. a.value.kind = "missing" BY <3>1
    <3>. QED BY <2>1, <2>3, <3>2, Branches DEF Local, IsTranslated
  <2>4. CASE Joining(a)
    <3>1. t.type = a.value.kind BY <2>1, <2>4, JoinFacts
    <3>. QED BY <2>4, <3>1 DEF Joining
  <2>5. CASE Plain(a)
    <3>1. IsScalar(t, a.value, a.intOnly) BY <2>1, <2>5, Branches DEF Local
    <3>2. CASE t.type = "missing" BY <3>1, <3>2, Zenon DEF IsScalar
    <3>3. CASE a.value.kind = "missing"
      BY <3>1, <3>3, Zenon DEF IsScalar, IsHeader, IsUnion
    <3>. QED BY <3>2, <3>3
  <2>. QED BY <2>2, <2>3, <2>4, <2>5, Branches
<1>3. \A n \in Nat : n \in S
  <2>. HIDE DEF S
  <2>. QED BY <1>1, <1>2, SetInduction
<1>. QED BY <1>3

\* Values of one type lead to calls for the same types.
LEMMA SameCalls ==
  ASSUME NEW a \in Args, NEW b \in Args, a.spec = b.spec, Local(a), Local(b)
  PROVE  /\ Len(Nested(a)) = Len(Nested(b))
         /\ \A i \in 1..Len(Nested(b)) : Nested(a)[i].spec = Nested(b)[i].spec
<1>0. NestedOK(a) /\ NestedOK(b) BY NestedFacts
<1>1. CASE Renaming(a)
  <2>1. Nested(a) = <<Behind(a)>> /\ Nested(b) = <<Behind(b)>> BY <1>0, <1>1 DEF NestedOK, Renaming
  <2>2. Behind(a).spec = Behind(b).spec BY DEF Behind, Arg
  <2>3. Len(<<Behind(a)>>) = 1 /\ Len(<<Behind(b)>>) = 1
        /\ <<Behind(a)>>[1] = Behind(a) /\ <<Behind(b)>>[1] = Behind(b)
    OBVIOUS
  <2>4. \A i \in 1..1 : i = 1 OBVIOUS
  <2>. QED BY <2>1, <2>2, <2>3, <2>4
<1>2. CASE Joining(a)
  <2>1. Joining(b) BY <1>2 DEF Joining
  <2>2. /\ Len(a.value.members) = Len(MembersOf(Specs[a.spec]))
        /\ Len(b.value.members) = Len(MembersOf(Specs[b.spec]))
    BY <1>2, <2>1, JoinFacts
  <2>. DEFINE ms == MembersOf(Specs[a.spec])
  <2>3. /\ Len(Nested(a)) = Len(ms) /\ Len(Nested(b)) = Len(ms)
        /\ \A i \in 1..Len(ms) : /\ Nested(a)[i] = Arg(ms[i], a.value.members[i], FALSE)
                               /\ Nested(b)[i] = Arg(ms[i], b.value.members[i], FALSE)
    BY <1>0, <1>2, <2>1, <2>2 DEF NestedOK
  <2>4. \A i \in 1..Len(ms) : Nested(a)[i].spec = ms[i] /\ Nested(b)[i].spec = ms[i]
    <3>. HIDE DEF ms
    <3>. TAKE i \in 1..Len(ms)
    <3>1. Nested(a)[i] = Arg(ms[i], a.value.members[i], FALSE) BY <2>3
    <3>2. Nested(b)[i] = Arg(ms[i], b.value.members[i], FALSE) BY <2>3
    <3>. QED BY <3>1, <3>2 DEF Arg
  <2>. HIDE DEF ms
  <2>. QED BY <2>3, <2>4, Zenon
<1>3. CASE ~Renaming(a) /\ ~Joining(a)
  <2>1. Nested(a) = <<>> /\ Nested(b) = <<>> BY <1>0, <1>3 DEF NestedOK, Renaming, Joining
  <2>. QED BY <2>1
<1>. QED BY <1>1, <1>2, <1>3

\* What shows that one value has a type is as long for each of its values.
LEMMA SameHeight ==
  \A n, m \in Nat : \A a, b \in Args : a.spec = b.spec /\ Can(n, a) /\ Can(m, b) => Can(n, b)
<1>. DEFINE Same(n) == \A m \in Nat : \A a, b \in Args :
                       a.spec = b.spec /\ Can(n, a) /\ Can(m, b) => Can(n, b)
            S == {n \in Nat : Same(n)}
<1>1. 0 \in S BY CanStep
<1>2. ASSUME NEW n \in Nat, n \in S PROVE n + 1 \in S
  <2>. SUFFICES ASSUME NEW m \in Nat, NEW a \in Args, NEW b \in Args, a.spec = b.spec,
                       Can(n + 1, a), Can(m, b)
                PROVE  Can(n + 1, b)
    OBVIOUS
  <2>1. m # 0 BY CanStep
  <2>. DEFINE k == m - 1
  <2>2. k \in Nat /\ m = k + 1 BY <2>1
  <2>. HIDE DEF k
  <2>3. Local(a) /\ \A i \in 1..Len(Nested(a)) : Can(n, Nested(a)[i]) BY CanStep
  <2>4. Local(b) /\ \A i \in 1..Len(Nested(b)) : Can(k, Nested(b)[i]) BY <2>2, CanStep
  <2>5. /\ Len(Nested(a)) = Len(Nested(b))
        /\ \A i \in 1..Len(Nested(b)) : Nested(a)[i].spec = Nested(b)[i].spec
    BY <2>3, <2>4, SameCalls
  <2>6. Nested(a) \in Seq(Args) /\ Nested(b) \in Seq(Args) BY NestedFacts DEF NestedOK
  <2>7. \A i \in 1..Len(Nested(b)) : Can(n, Nested(b)[i])
    <3>. TAKE i \in 1..Len(Nested(b))
    <3>1. Nested(a)[i] \in Args /\ Nested(b)[i] \in Args BY <2>5, <2>6
    <3>2. Can(n, Nested(a)[i]) BY <2>3, <2>5
    <3>3. Can(k, Nested(b)[i]) BY <2>4
    <3>4. Nested(a)[i].spec = Nested(b)[i].spec BY <2>5
    <3>. QED BY <1>2, <2>2, <3>1, <3>2, <3>3, <3>4
  <2>. QED BY <2>4, <2>7, CanStep
<1>3. \A n \in Nat : n \in S
  <2>. HIDE DEF S
  <2>. QED BY <1>1, <1>2, SetInduction
<1>. QED BY <1>3

\* Showing that a value has its type takes at least a step more than for b.
Lower(a, b) == \A n \in Nat : Can(n + 1, a) => Can(n, b)

\* A call inside a call for the same type: neither value has it.
LEMMA NoLoop ==
  ASSUME NEW a \in Args, NEW b \in Args, a.spec = b.spec, Lower(a, b)
  PROVE  \A n \in Nat : ~Can(n, a)
<1>. DEFINE S == {n \in Nat : ~Can(n, a)}
<1>1. 0 \in S BY CanStep
<1>2. ASSUME NEW n \in Nat, n \in S PROVE n + 1 \in S
  <2>1. SUFFICES ASSUME Can(n + 1, a) PROVE FALSE OBVIOUS
  <2>2. Can(n, b) BY <2>1 DEF Lower
  <2>3. Can(n, a)
    <3>1. n + 1 \in Nat OBVIOUS
    <3>. QED BY <2>1, <2>2, <3>1, SameHeight
  <2>. QED BY <1>2, <2>3
<1>3. \A n \in Nat : n \in S
  <2>. HIDE DEF S
  <2>. QED BY <1>1, <1>2, SetInduction
<1>. QED BY <1>3

\* The calls a call makes are lower, and so are those of the calls it is lower than.
LEMMA NestedLower ==
  ASSUME NEW a \in Args, NEW i \in 1..Len(Nested(a))
  PROVE  /\ Lower(a, Nested(a)[i])
         /\ \A b \in Args : Lower(b, a) => Lower(b, Nested(a)[i])
<1>1. Lower(a, Nested(a)[i]) BY CanStep DEF Lower
<1>2. ASSUME NEW b \in Args, Lower(b, a), NEW n \in Nat, Can(n + 1, b) PROVE Can(n, Nested(a)[i])
  <2>1. Can(n, a) BY <1>2 DEF Lower
  <2>2. n # 0 BY <2>1, CanStep
  <2>. DEFINE k == n - 1
  <2>3. k \in Nat /\ n = k + 1 /\ k <= n BY <2>2
  <2>. HIDE DEF k
  <2>4. Can(k, Nested(a)[i]) BY <1>1, <2>1, <2>3 DEF Lower
  <2>. QED BY <2>3, <2>4, CanGrow
<1>. QED BY <1>1, <1>2 DEF Lower

-----------------------------------------------------------------------------
(* What a call returns *)

\* The call that normalizes a result again.
Again(a, w) == Arg(a.spec, w, a.intOnly)

\* w is nested no deeper than v.
NoDeeper(v, w) == \A k \in Nat : v \in Trees[k] => w \in Trees[k]

\* w is the form of the value of a, and its own, as n applications of the rule show.
Settled(n, a, w) ==
  /\ w \in Trees[MaxDepth] /\ NoDeeper(a.value, w)
  /\ <<a, w>> \in Forms[n] /\ <<Again(a, w), w>> \in Forms[n]

\* It takes the same branch.
LEMMA AgainFacts ==
  ASSUME NEW a \in Args, NEW w \in Trees[MaxDepth]
  PROVE  LET b == Again(a, w) IN
         /\ b \in Args /\ b.spec = a.spec /\ b.value = w /\ b.intOnly = a.intOnly
         /\ Renaming(b) <=> Renaming(a)
         /\ Translating(b) <=> Translating(a)
         /\ Joining(b) <=> Joining(a)
         /\ Plain(b) <=> Plain(a)
<1>. DEFINE b == Again(a, w)
<1>1. b \in Args /\ b.spec = a.spec /\ b.value = w /\ b.intOnly = a.intOnly
  <2>1. a.spec \in DOMAIN Specs /\ a.intOnly \in BOOLEAN BY ArgTyped
  <2>. QED BY <2>1, ArgIs DEF Again
<1>. HIDE DEF b
<1>2. /\ Renaming(b) <=> Renaming(a)
      /\ Translating(b) <=> Translating(a)
      /\ Joining(b) <=> Joining(a)
      /\ Plain(b) <=> Plain(a)
  BY <1>1 DEF Renaming, Translating, Joining, Plain
<1>. QED BY <1>1, <1>2 DEF b

\* Leaves are values of every depth.
LEMMA LeafTree == \A v \in LeafSet : v \in Trees[MaxDepth] /\ v # AnyForm /\ \A k \in Nat : v \in Trees[k]
<1>. TAKE v \in LeafSet
<1>1. v \in Trees[0] BY TreesEquation
<1>2. MaxDepth \in Nat BY RegisterAssumption
<1>3. \A k \in Nat : v \in Trees[k] BY <1>1, TreesGrow
<1>4. v # AnyForm BY LeafShape, NoValues DEF Shaped
<1>. QED BY <1>2, <1>3, <1>4

\* A pair is settled when the rule shows both of its parts.
LEMMA SettledStep ==
  ASSUME NEW n \in Nat, NEW a \in Args, NEW w \in Trees[MaxDepth], NoDeeper(a.value, w),
         Rule(a, w, Forms[n]), Rule(Again(a, w), w, Forms[n])
  PROVE  Settled(n + 1, a, w)
BY FormsStep, AgainFacts DEF Settled

\* The results of the calls that a call made.
OutsOK(n, a, outs) ==
  /\ outs \in Seq(Trees[MaxDepth]) /\ Len(outs) \in Nat /\ Len(outs) <= Len(Nested(a))
  /\ \A i \in 1..Len(outs) : Settled(n, Nested(a)[i], outs[i])

\* A new type returns what its original type does.
LEMMA ReturnRenaming ==
  ASSUME NEW a \in Args, Renaming(a), NEW n \in Nat, NEW outs, OutsOK(n, a, outs),
         Len(outs) = Len(Nested(a)), NEW r, r = Returned(a, outs)
  PROVE  r # Bad /\ Local(a) /\ Settled(n + 1, a, r)
<1>1. Nested(a) = <<Behind(a)>> /\ Nested(a) \in Seq(Args) BY NestedFacts DEF NestedOK
<1>2. Len(outs) = 1 /\ Nested(a)[1] = Behind(a) /\ Behind(a) \in Args BY <1>1
<1>3. r = outs[1]
  <2>1. Renames(Specs[a.spec]) /\ Specs[a.spec].type = "newType" BY DEF Renaming, Renames
  <2>. QED BY <2>1, Zenon DEF Returned
<1>4. Settled(n, Behind(a), r) BY <1>2, <1>3 DEF OutsOK
<1>5. Local(a) BY DEF Local
<1>6. r \in Trees[MaxDepth] /\ r # Bad
  <2>1. r \in Trees[MaxDepth] /\ MaxDepth \in Nat BY <1>4, RegisterAssumption DEF Settled
  <2>. QED BY <2>1, TreeShape, NoValues DEF Shaped
<1>7. Behind(a).value = a.value BY DEF Behind, Arg
<1>8. NoDeeper(a.value, r) BY <1>4, <1>7 DEF Settled
<1>9. Rule(a, r, Forms[n]) BY <1>4, RuleRenaming DEF Settled
<1>10. Rule(Again(a, r), r, Forms[n])
  <2>1. Renaming(Again(a, r)) BY <1>6, AgainFacts
  <2>2. Behind(Again(a, r)) = Again(Behind(a), r) BY DEF Behind, Again, Arg
  <2>. QED BY <1>4, <2>1, <2>2, RuleRenaming DEF Settled
<1>. QED BY <1>5, <1>6, <1>8, <1>9, <1>10, SettledStep

\* What a translated type returns.
LEMMA ReturnTranslating ==
  ASSUME NEW a \in Args, Translating(a), NEW n \in Nat, NEW outs, NEW r, r = Returned(a, outs)
  PROVE  /\ r # Bad <=> Local(a)
         /\ r # Bad => Settled(n + 1, a, r)
<1>. DEFINE t == Specs[a.spec]
            d == NewTypes[t.name]
<1>1. t.type = "newType" /\ ~Renames(t) BY DEF Translating, Renaming
<1>2. r = IF t.name \in DOMAIN NewTypes THEN Translated(d, a.value, a.intOnly) ELSE Bad
  BY <1>1, Zenon DEF Returned
<1>3. Local(a) <=> t.name \in DOMAIN NewTypes /\ IsTranslated(d, a.value, a.intOnly) BY Branches DEF Local
<1>4. CASE t.name \notin DOMAIN NewTypes BY <1>2, <1>3, <1>4
<1>5. CASE t.name \in DOMAIN NewTypes
  <2>1. NewTypeOK(d) /\ d.rep # "original" BY <1>1, <1>5, RegisterAssumption DEF Renames
  <2>2. r = Translated(d, a.value, a.intOnly) BY <1>2, <1>5
  <2>3. /\ r # Bad <=> IsTranslated(d, a.value, a.intOnly)
        /\ r # Bad => TranslatedDone(d, a.value, a.intOnly, r)
    <3>. HIDE DEF d
    <3>. QED BY <2>1, <2>2, ArgTyped, TranslatedExact
  <2>4. ASSUME r # Bad PROVE Settled(n + 1, a, r)
    <3>1. r \in LeafSet /\ TranslatedDone(d, a.value, a.intOnly, r) BY <2>3, <2>4 DEF TranslatedDone
    <3>2. r \in Trees[MaxDepth] /\ NoDeeper(a.value, r) BY <3>1, LeafTree DEF NoDeeper
    <3>3. Rule(a, r, Forms[n])
      BY <1>3, <1>5, <2>3, <2>4, <3>1, RuleTranslating DEF TranslatedDone
    <3>4. Rule(Again(a, r), r, Forms[n])
      <4>. DEFINE b == Again(a, r)
      <4>1. b \in Args /\ b.spec = a.spec /\ b.value = r /\ b.intOnly = a.intOnly /\ Translating(b)
        BY <3>2, AgainFacts
      <4>. HIDE DEF b
      <4>2. Local(b) BY <1>5, <3>1, <4>1 DEF Local, TranslatedDone
      <4>3. Rule(b, r, Forms[n]) BY <3>1, <4>1, <4>2, RuleTranslating DEF TranslatedDone
      <4>. QED BY <4>3 DEF b
    <3>. QED BY <3>2, <3>3, <3>4, SettledStep
  <2>. QED BY <1>3, <1>5, <2>3, <2>4
<1>. QED BY <1>4, <1>5

\* What a type without members returns.
LEMMA ReturnPlain ==
  ASSUME NEW a \in Args, Plain(a), NEW n \in Nat, NEW outs, NEW r, r = Returned(a, outs)
  PROVE  /\ r # Bad <=> Local(a)
         /\ r # Bad => Settled(n + 1, a, r)
<1>. DEFINE t == Specs[a.spec]
            v == a.value
<1>1. t.type # "newType" /\ t.type # "tuple" /\ t.type # "struct" /\ ~Renames(t) BY DEF Plain, Renames
<1>2. r = IF a.intOnly /\ t.type \notin {"bit", "int", "varbit"} THEN Bad ELSE Scalar(t, v, a.intOnly)
  BY <1>1, Zenon DEF Returned
<1>3. Local(a) <=> IsScalar(t, v, a.intOnly) /\ (a.intOnly => t.type \in {"bit", "int"}) BY Branches DEF Local
<1>4. CASE a.intOnly /\ t.type \notin {"bit", "int", "varbit"} BY <1>2, <1>3, <1>4
<1>5. CASE ~(a.intOnly /\ t.type \notin {"bit", "int", "varbit"})
  <2>1. r = Scalar(t, v, a.intOnly) BY <1>2, <1>5
  <2>2. ~HasPart(v) => v \in LeafSet BY ArgTyped, TreeCases
  <2>3. /\ r # Bad <=> IsScalar(t, v, a.intOnly)
        /\ r # Bad => ScalarDone(t, v, a.intOnly, r)
    <3>. HIDE DEF t, v
    <3>. QED BY <2>1, <2>2, ArgTyped, ScalarExact DEF t, v
  <2>4. a.intOnly /\ IsScalar(t, v, a.intOnly) => t.type \in {"bit", "int"}
    <3>1. ASSUME t.type = "varbit", a.intOnly PROVE ~IsScalar(t, v, a.intOnly)
      BY <3>1, Zenon DEF IsScalar
    <3>. QED BY <1>5, <3>1
  <2>5. ASSUME r # Bad PROVE Settled(n + 1, a, r)
    <3>1. r \in LeafSet /\ ScalarDone(t, v, a.intOnly, r) BY <2>3, <2>5 DEF ScalarDone
    <3>2. r \in Trees[MaxDepth] /\ NoDeeper(a.value, r) BY <3>1, LeafTree DEF NoDeeper
    <3>3. Rule(a, r, Forms[n])
      BY <1>3, <2>3, <2>4, <2>5, <3>1, RulePlain DEF ScalarDone
    <3>4. Rule(Again(a, r), r, Forms[n])
      <4>. DEFINE b == Again(a, r)
      <4>1. b \in Args /\ b.spec = a.spec /\ b.value = r /\ b.intOnly = a.intOnly /\ Plain(b)
        BY <3>2, AgainFacts
      <4>. HIDE DEF b
      <4>2. Local(b) BY <2>3, <2>4, <2>5, <3>1, <4>1 DEF Local, ScalarDone
      <4>3. Rule(b, r, Forms[n]) BY <3>1, <4>1, <4>2, RulePlain DEF ScalarDone
      <4>. QED BY <4>3 DEF b
    <3>. QED BY <3>2, <3>3, <3>4, SettledStep
  <2>. QED BY <1>3, <2>3, <2>4, <2>5
<1>. QED BY <1>4, <1>5

\* A struct or tuple returns what its members did, in their order.
LEMMA ReturnJoining ==
  ASSUME NEW a \in Args, Joining(a), NEW n \in Nat, NEW outs, OutsOK(n, a, outs),
         Len(outs) = Len(Nested(a)), NEW r, r = Returned(a, outs)
  PROVE  /\ r # Bad <=> Local(a)
         /\ r # Bad => Settled(n + 1, a, r)
<1>. DEFINE t == Specs[a.spec]
            v == a.value
<1>1. t.type \in {"tuple", "struct"} /\ t.type # "newType" /\ ~Renames(t) BY DEF Joining, Renames
<1>2. r = IF StructLike(t, v) /\ ~a.intOnly THEN [v EXCEPT !.members = outs] ELSE Bad
  BY <1>1, Zenon DEF Returned, Checked
<1>3. Local(a) <=> StructLike(t, v) /\ ~a.intOnly BY Branches DEF Local
<1>4. CASE ~Local(a) BY <1>2, <1>3, <1>4
<1>5. CASE Local(a)
  <2>. DEFINE w == [kind |-> v.kind, members |-> outs]
              L == Len(v.members)
              ms == MembersOf(t)
  <2>1. /\ HasPart(v) /\ a.intOnly = FALSE /\ t.type = v.kind
        /\ L = Len(ms) /\ HasMembers(t)
    BY <1>5, JoinFacts DEF StructLike
  <2>2. /\ v = [kind |-> v.kind, members |-> v.members] /\ L \in Nat
    BY <2>1, ArgTyped, MemberTyped
  <2>3. r = w BY <1>2, <1>3, <1>5, <2>2
  <2>4. w.kind = v.kind /\ w.members = outs OBVIOUS
  <2>5. Len(outs) = L /\ outs \in Seq(Trees[MaxDepth])
        /\ \A i \in 1..L : Settled(n, Arg(ms[i], v.members[i], FALSE), outs[i])
    BY <1>5, NestedFacts DEF NestedOK, OutsOK
  <2>6. NoDeeper(v, w)
    <3>1. ASSUME NEW k \in Nat, v \in Trees[k] PROVE w \in Trees[k]
      <4>1. PICK j \in Nat : j + 1 <= k /\ \A i \in 1..L : v.members[i] \in Trees[j]
        BY <2>1, <3>1, MemberTyped
      <4>2. \A i \in 1..L : outs[i] \in Trees[j]
        <5>. TAKE i \in 1..L
        <5>. DEFINE b == Arg(ms[i], v.members[i], FALSE)
        <5>1. Settled(n, b, outs[i]) /\ b.value = v.members[i] BY <2>5 DEF Arg
        <5>. HIDE DEF b, v
        <5>2. NoDeeper(v.members[i], outs[i]) BY <5>1 DEF Settled
        <5>. QED BY <4>1, <5>2 DEF NoDeeper
      <4>3. outs \in Seq(Trees[j])
        <5>1. outs = [i \in 1..L |-> outs[i]] BY <2>5
        <5>. HIDE DEF L
        <5>. QED BY <2>2, <4>2, <5>1, ListTyped
      <4>4. w \in [kind : {"struct", "tuple"}, members : Seq(Trees[j])] BY <2>1, <4>3 DEF HasPart
      <4>. HIDE DEF w
      <4>5. w \in Trees[j + 1] BY <4>4, TreesEquation DEF Deeper
      <4>6. Trees[j + 1] \subseteq Trees[k]
        <5>1. j + 1 \in Nat BY <4>1
        <5>. QED BY <4>1, <5>1, TreesGrow
      <4>. QED BY <4>5, <4>6
    <3>. HIDE DEF w, v
    <3>. QED BY <3>1 DEF NoDeeper
  <2>7. w \in Trees[MaxDepth] BY <2>6, ArgTyped DEF NoDeeper
  <2>. HIDE DEF w
  <2>8. w # AnyForm /\ w # Bad
    <3>1. Shaped(w) BY <2>7, ArgTyped, TreeShape
    <3>. QED BY <3>1, NoValues DEF Shaped
  <2>9. \A i : Part(w, i) = outs[i] BY <2>4, <2>8 DEF Part
  <2>10. Rule(a, w, Forms[n])
    <3>1. \A i \in 1..L : <<Arg(ms[i], v.members[i], FALSE), Part(w, i)>> \in Forms[n]
      BY <2>5, <2>9 DEF Settled
    <3>. QED BY <1>5, <2>4, <2>5, <3>1, RuleJoining
  <2>11. Rule(Again(a, w), w, Forms[n])
    <3>. DEFINE b == Again(a, w)
    <3>1. b \in Args /\ b.spec = a.spec /\ b.value = w /\ b.intOnly = a.intOnly /\ Joining(b)
      BY <2>7, AgainFacts
    <3>. HIDE DEF b
    <3>2. Local(b)
      <4>1. StructLike(t, w) BY <2>1, <2>4, <2>5 DEF StructLike
      <4>. QED BY <2>1, <3>1, <4>1 DEF Local
    <3>3. \A i \in 1..L : <<Arg(ms[i], outs[i], FALSE), Part(w, i)>> \in Forms[n]
      <4>1. \A i : Again(Arg(ms[i], v.members[i], FALSE), outs[i]) = Arg(ms[i], outs[i], FALSE)
        BY DEF Again, Arg
      <4>. QED BY <2>5, <2>9, <4>1 DEF Settled
    <3>4. Rule(b, w, Forms[n]) BY <2>4, <2>5, <3>1, <3>2, <3>3, RuleJoining
    <3>. QED BY <3>4 DEF b
  <2>12. Settled(n + 1, a, w) BY <2>6, <2>7, <2>10, <2>11, SettledStep
  <2>. QED BY <1>5, <2>3, <2>8, <2>12
<1>. QED BY <1>4, <1>5

\* A call whose own calls all returned values returns one exactly when its part
\* of the rule holds.
LEMMA ReturnExact ==
  ASSUME NEW a \in Args, NEW n \in Nat, NEW outs, OutsOK(n, a, outs),
         Len(outs) = Len(Nested(a)), NEW r, r = Returned(a, outs)
  PROVE  /\ r # Bad <=> Local(a)
         /\ r # Bad => Settled(n + 1, a, r)
<1>1. CASE Renaming(a) BY <1>1, ReturnRenaming
<1>2. CASE Translating(a) BY <1>2, ReturnTranslating
<1>3. CASE Joining(a) BY <1>3, ReturnJoining
<1>4. CASE Plain(a) BY <1>4, ReturnPlain
<1>. QED BY <1>1, <1>2, <1>3, <1>4, Branches

-----------------------------------------------------------------------------
(* The stack of calls *)

\* The number of pointers, and the calls on the stack.
SpecCount == Cardinality(DOMAIN Specs)
Frames == [arg : Args, outs : Seq(Trees[MaxDepth])]

\* The parts of a call on the stack.
LEMMA FrameTyped == \A f \in Frames : f.arg \in Args /\ f.outs \in Seq(Trees[MaxDepth])
BY DEF Frames

\* The marks are the specifications of the calls, which are all different.
MarksOK(cs, marks) ==
  /\ marks \subseteq DOMAIN Specs /\ Len(cs) = Cardinality(marks)
  /\ \A i \in 1..Len(cs) : cs[i].arg.spec \in marks
  /\ \A p \in marks : \E i \in 1..Len(cs) : cs[i].arg.spec = p
  /\ \A i, j \in 1..Len(cs) : i < j => cs[i].arg.spec # cs[j].arg.spec

\* Each call but the first was made by the one before it.
ChainOK(asked, cs) ==
  /\ 1 <= Len(cs) => cs[1].arg = asked
  /\ \A i \in 1..Len(cs) - 1 :
       /\ Len(cs[i].outs) < Len(Nested(cs[i].arg))
       /\ cs[i + 1].arg = Nested(cs[i].arg)[Len(cs[i].outs) + 1]
  /\ \A i, j \in 1..Len(cs) : i < j => Lower(cs[i].arg, cs[j].arg)

\* What it has been given so far is right.
ResultsOK(cs) == \A i \in 1..Len(cs) : OutsOK(SpecCount - i, cs[i].arg, cs[i].outs)

\* All of it.
StackInv(asked, cs, marks) ==
  cs \in Seq(Frames) /\ MarksOK(cs, marks) /\ ChainOK(asked, cs) /\ ResultsOK(cs)

\* The value of a does not have its type.
Sunk(a) == \A n \in Nat : ~Can(n, a)

\* Nor does the value of a call above it.
LEMMA SunkUp ==
  ASSUME NEW a \in Args, NEW b, Lower(a, b), Sunk(b) PROVE Sunk(a)
<1>. SUFFICES ASSUME NEW n \in Nat, Can(n, a) PROVE FALSE BY DEF Sunk
<1>1. n # 0 BY CanStep
<1>. DEFINE k == n - 1
<1>2. k \in Nat /\ n = k + 1 BY <1>1
<1>. HIDE DEF k
<1>3. Can(k, b) BY <1>2 DEF Lower
<1>. QED BY <1>2, <1>3 DEF Sunk

\* A P4Info has finitely many specifications.
LEMMA SpecCountFacts == SpecCount \in Nat /\ IsFiniteSet(DOMAIN Specs)
BY RegisterAssumption, FS_CardinalityType DEF SpecCount

\* The marks bound the stack.
LEMMA Bounded ==
  ASSUME NEW cs, NEW marks, MarksOK(cs, marks)
  PROVE  IsFiniteSet(marks) /\ Len(cs) \in Nat /\ Len(cs) <= SpecCount
<1>1. marks \subseteq DOMAIN Specs /\ IsFiniteSet(DOMAIN Specs) BY SpecCountFacts DEF MarksOK
<1>2. IsFiniteSet(marks) /\ Cardinality(marks) <= SpecCount BY <1>1, FS_Subset DEF SpecCount
<1>3. Cardinality(marks) \in Nat BY <1>2, FS_CardinalityType
<1>. QED BY <1>2, <1>3 DEF MarksOK

\* If one of the calls must fail, so must the first.
LEMMA SunkFirst ==
  ASSUME NEW asked \in Args, NEW cs, NEW marks, StackInv(asked, cs, marks),
         NEW i \in 1..Len(cs), Sunk(cs[i].arg)
  PROVE  Sunk(asked)
<1>1. Len(cs) \in Nat BY Bounded DEF StackInv
<1>2. 1 \in 1..Len(cs) /\ cs[1].arg = asked BY <1>1 DEF StackInv, ChainOK
<1>3. CASE i = 1 BY <1>2, <1>3
<1>4. CASE i # 1
  <2>1. Lower(asked, cs[i].arg)
    <3>1. 1 < i BY <1>1, <1>4
    <3>. QED BY <1>2, <3>1 DEF StackInv, ChainOK
  <2>. QED BY <2>1, SunkUp
<1>. QED BY <1>3, <1>4

\* The next call that the innermost call makes.
NextCall(cs, b) ==
  /\ cs # <<>> /\ LET top == cs[Len(cs)] IN
     Len(top.outs) < Len(Nested(top.arg)) /\ b = Nested(top.arg)[Len(top.outs) + 1]

\* It is lower than all that are on the stack.
LEMMA NextLower ==
  ASSUME NEW asked \in Args, NEW cs, NEW marks, StackInv(asked, cs, marks), NEW b, NextCall(cs, b)
  PROVE  b \in Args /\ \A i \in 1..Len(cs) : Lower(cs[i].arg, b)
<1>. DEFINE L == Len(cs)
            top == cs[L]
<1>1. L \in Nat /\ cs \in Seq(Frames) /\ L >= 1 BY Bounded DEF StackInv, NextCall
<1>2. top \in Frames /\ top.arg \in Args /\ L \in 1..L
  <2>1. L \in 1..L BY <1>1
  <2>2. top \in Frames BY <1>1, <2>1
  <2>. QED BY <2>1, <2>2, FrameTyped
<1>3. OutsOK(SpecCount - L, top.arg, top.outs) BY <1>2 DEF StackInv, ResultsOK
<1>4. Nested(top.arg) \in Seq(Args) /\ Len(Nested(top.arg)) \in Nat BY <1>2, NestedFacts DEF NestedOK
<1>. DEFINE k == Len(top.outs) + 1
<1>5. k \in 1..Len(Nested(top.arg)) /\ b = Nested(top.arg)[k]
  <2>1. Len(top.outs) \in Nat BY <1>3 DEF OutsOK
  <2>2. Len(top.outs) < Len(Nested(top.arg)) /\ b = Nested(top.arg)[k] BY DEF NextCall
  <2>. QED BY <1>4, <2>1, <2>2
<1>. HIDE DEF k
<1>6. b \in Args BY <1>4, <1>5
<1>7. ASSUME NEW i \in 1..L PROVE Lower(cs[i].arg, b)
  <2>1. CASE i = L BY <1>2, <1>5, <2>1, NestedLower
  <2>2. CASE i # L
    <3>1. i < L BY <1>1, <2>2
    <3>2. Lower(cs[i].arg, top.arg) BY <1>2, <3>1 DEF StackInv, ChainOK
    <3>3. cs[i].arg \in Args
      <4>1. cs[i] \in Frames BY <1>1
      <4>. QED BY <4>1, FrameTyped
    <3>. QED BY <1>2, <1>5, <3>2, <3>3, NestedLower
  <2>. QED BY <2>1, <2>2
<1>. QED BY <1>6, <1>7

\* A call that must not be made: nothing has the type it is for.
LEMMA SunkNext ==
  ASSUME NEW asked \in Args, NEW cs, NEW marks, StackInv(asked, cs, marks), NEW b, NextCall(cs, b),
         Specs[b.spec].type = "missing" \/ b.value.kind = "missing" \/ b.spec \in marks
  PROVE  Sunk(asked)
<1>1. Len(cs) \in Nat /\ cs \in Seq(Frames) /\ Len(cs) >= 1 BY Bounded DEF StackInv, NextCall
<1>2. b \in Args /\ \A i \in 1..Len(cs) : Lower(cs[i].arg, b) BY NextLower
<1>3. \A i \in 1..Len(cs) : cs[i].arg \in Args
  <2>1. \A i \in 1..Len(cs) : cs[i] \in Frames BY <1>1
  <2>. QED BY <2>1, FrameTyped
<1>4. CASE Specs[b.spec].type = "missing" \/ b.value.kind = "missing"
  <2>1. Sunk(b) BY <1>2, <1>4, NoMissing DEF Sunk
  <2>2. 1 \in 1..Len(cs) BY <1>1
  <2>3. Sunk(cs[1].arg) BY <1>2, <1>3, <2>1, <2>2, SunkUp
  <2>. QED BY <2>2, <2>3, SunkFirst
<1>5. CASE b.spec \in marks
  <2>1. PICK i \in 1..Len(cs) : cs[i].arg.spec = b.spec BY <1>5 DEF StackInv, MarksOK
  <2>2. Sunk(cs[i].arg) BY <1>2, <1>3, <2>1, NoLoop DEF Sunk
  <2>. QED BY <2>2, SunkFirst
<1>. QED BY <1>4, <1>5

\* Making a call.
LEMMA Push ==
  ASSUME NEW asked \in Args, NEW cs, NEW marks, StackInv(asked, cs, marks), NEW b \in Args,
         b.spec \notin marks, NextCall(cs, b) \/ (cs = <<>> /\ b = asked)
  PROVE  StackInv(asked, Append(cs, [arg |-> b, outs |-> <<>>]), marks \cup {b.spec})
<1>. DEFINE L == Len(cs)
            f == [arg |-> b, outs |-> <<>>]
            ds == Append(cs, f)
            more == marks \cup {b.spec}
<1>1. L \in Nat /\ cs \in Seq(Frames) /\ IsFiniteSet(marks) BY Bounded DEF StackInv
<1>2. f \in Frames /\ f.arg = b /\ f.outs = <<>> BY DEF Frames
<1>. HIDE DEF f
<1>3. /\ ds \in Seq(Frames) /\ Len(ds) = L + 1 /\ ds[L + 1] = f
      /\ \A i \in 1..L : ds[i] = cs[i]
  BY <1>1, <1>2
<1>. HIDE DEF ds
<1>4. \A i \in 1..L : Lower(cs[i].arg, b)
  <2>1. CASE NextCall(cs, b) BY <2>1, NextLower
  <2>2. CASE cs = <<>>
    <3>1. L = 0 BY <2>2
    <3>. QED BY <3>1
  <2>. QED BY <2>1, <2>2
<1>5. MarksOK(ds, more)
  <2>1. more \subseteq DOMAIN Specs BY ArgTyped DEF StackInv, MarksOK
  <2>2. Cardinality(more) = L + 1
    <3>1. Cardinality(marks \cup {b.spec}) = Cardinality(marks) + 1 BY <1>1, FS_AddElement
    <3>. QED BY <3>1 DEF StackInv, MarksOK
  <2>3. ASSUME NEW i \in 1..L + 1 PROVE ds[i].arg.spec \in more
    <3>1. CASE i = L + 1 BY <1>2, <1>3, <3>1
    <3>2. CASE i # L + 1
      <4>1. i \in 1..L BY <1>1, <3>2
      <4>. QED BY <1>3, <4>1 DEF StackInv, MarksOK
    <3>. QED BY <3>1, <3>2
  <2>4. ASSUME NEW p \in more PROVE \E i \in 1..L + 1 : ds[i].arg.spec = p
    <3>1. CASE p = b.spec
      <4>1. L + 1 \in 1..L + 1 BY <1>1
      <4>. QED BY <1>2, <1>3, <3>1, <4>1
    <3>2. CASE p \in marks
      <4>1. PICK i \in 1..L : cs[i].arg.spec = p BY <3>2 DEF StackInv, MarksOK
      <4>2. i \in 1..L + 1 BY <1>1
      <4>. QED BY <1>3, <4>1, <4>2
    <3>. QED BY <3>1, <3>2
  <2>5. ASSUME NEW i \in 1..L + 1, NEW j \in 1..L + 1, i < j PROVE ds[i].arg.spec # ds[j].arg.spec
    <3>1. i \in 1..L BY <1>1, <2>5
    <3>2. CASE j = L + 1
      <4>1. cs[i].arg.spec \in marks BY <3>1 DEF StackInv, MarksOK
      <4>. QED BY <1>2, <1>3, <3>1, <3>2, <4>1
    <3>3. CASE j # L + 1
      <4>1. j \in 1..L BY <1>1, <3>3
      <4>. QED BY <1>3, <2>5, <3>1, <4>1 DEF StackInv, MarksOK
    <3>. QED BY <3>2, <3>3
  <2>. HIDE DEF more
  <2>. QED BY <1>3, <2>1, <2>2, <2>3, <2>4, <2>5 DEF MarksOK
<1>6. ChainOK(asked, ds)
  <2>1. ds[1].arg = asked
    <3>1. CASE cs = <<>>
      <4>1. L = 0 /\ ~NextCall(cs, b) BY <3>1 DEF NextCall
      <4>. QED BY <1>2, <1>3, <4>1
    <3>2. CASE cs # <<>>
      <4>1. 1 \in 1..L /\ 1 <= L BY <1>1, <3>2
      <4>. QED BY <1>3, <4>1 DEF StackInv, ChainOK
    <3>. QED BY <3>1, <3>2
  <2>2. ASSUME NEW i \in 1..L
        PROVE  /\ Len(ds[i].outs) < Len(Nested(ds[i].arg))
               /\ ds[i + 1].arg = Nested(ds[i].arg)[Len(ds[i].outs) + 1]
    <3>1. CASE i = L
      <4>1. NextCall(cs, b)
        <5>1. cs # <<>> BY <1>1, <3>1
        <5>. QED BY <5>1
      <4>. QED BY <1>2, <1>3, <3>1, <4>1 DEF NextCall
    <3>2. CASE i # L
      <4>1. i \in 1..L - 1 /\ i + 1 \in 1..L BY <1>1, <3>2
      <4>. QED BY <1>3, <4>1 DEF StackInv, ChainOK
    <3>. QED BY <3>1, <3>2
  <2>3. ASSUME NEW i \in 1..L + 1, NEW j \in 1..L + 1, i < j PROVE Lower(ds[i].arg, ds[j].arg)
    <3>1. i \in 1..L BY <1>1, <2>3
    <3>2. CASE j = L + 1 BY <1>2, <1>3, <1>4, <3>1, <3>2
    <3>3. CASE j # L + 1
      <4>1. j \in 1..L BY <1>1, <3>3
      <4>. QED BY <1>3, <2>3, <3>1, <4>1 DEF StackInv, ChainOK
    <3>. QED BY <3>2, <3>3
  <2>4. 1..(L + 1) - 1 = 1..L BY <1>1
  <2>. QED BY <1>3, <2>1, <2>2, <2>3, <2>4 DEF ChainOK
<1>7. ResultsOK(ds)
  <2>1. ASSUME NEW i \in 1..L + 1 PROVE OutsOK(SpecCount - i, ds[i].arg, ds[i].outs)
    <3>1. CASE i = L + 1
      <4>1. Len(Nested(b)) \in Nat BY NestedFacts DEF NestedOK
      <4>2. <<>> \in Seq(Trees[MaxDepth]) /\ Len(<<>>) = 0 /\ 1..0 = {} OBVIOUS
      <4>3. OutsOK(SpecCount - i, b, <<>>) BY <4>1, <4>2 DEF OutsOK
      <4>. QED BY <1>2, <1>3, <3>1, <4>3
    <3>2. CASE i # L + 1
      <4>1. i \in 1..L BY <1>1, <3>2
      <4>. QED BY <1>3, <4>1 DEF StackInv, ResultsOK
    <3>. QED BY <3>1, <3>2
  <2>. QED BY <1>3, <2>1 DEF ResultsOK
<1>8. StackInv(asked, ds, more) BY <1>3, <1>5, <1>6, <1>7 DEF StackInv
<1>. QED BY <1>8 DEF ds, f

\* The stack after the innermost call returned r to its caller.
Popped(cs, r) ==
  [i \in 1..Len(cs) - 1 |-> IF i = Len(cs) - 1 THEN [cs[i] EXCEPT !.outs = Append(@, r)] ELSE cs[i]]

\* What the innermost call returns.
LEMMA TopSettled ==
  ASSUME NEW asked \in Args, NEW cs, NEW marks, StackInv(asked, cs, marks), cs # <<>>,
         NEW top, top = cs[Len(cs)], Len(top.outs) = Len(Nested(top.arg)),
         NEW r, r = Returned(top.arg, top.outs)
  PROVE  /\ r = Bad => Sunk(asked)
         /\ r # Bad => Settled(SpecCount - (Len(cs) - 1), top.arg, r)
<1>. DEFINE L == Len(cs)
            n == SpecCount - L
<1>1. L \in Nat /\ cs \in Seq(Frames) /\ L >= 1 /\ L <= SpecCount BY Bounded DEF StackInv
<1>2. L \in 1..L BY <1>1
<1>3. top.arg \in Args
  <2>1. top \in Frames BY <1>1, <1>2
  <2>. QED BY <2>1, FrameTyped
<1>4. n \in Nat /\ n + 1 = SpecCount - (L - 1) BY <1>1, SpecCountFacts
<1>5. OutsOK(n, top.arg, top.outs) BY <1>2 DEF StackInv, ResultsOK
<1>. HIDE DEF n
<1>6. /\ r # Bad <=> Local(top.arg)
      /\ r # Bad => Settled(n + 1, top.arg, r)
  BY <1>3, <1>4, <1>5, ReturnExact
<1>7. ASSUME r = Bad PROVE Sunk(asked)
  <2>1. Sunk(top.arg)
    <3>. SUFFICES ASSUME NEW k \in Nat, Can(k, top.arg) PROVE FALSE BY DEF Sunk
    <3>1. k # 0 BY <1>3, CanStep
    <3>. DEFINE m == k - 1
    <3>2. m \in Nat /\ k = m + 1 BY <3>1
    <3>. HIDE DEF m
    <3>. QED BY <1>3, <1>6, <1>7, <3>2, CanStep
  <2>. QED BY <1>2, <2>1, SunkFirst
<1>. QED BY <1>4, <1>6, <1>7

\* Its caller goes on.
LEMMA Pop ==
  ASSUME NEW asked \in Args, NEW cs, NEW marks, StackInv(asked, cs, marks), Len(cs) > 1,
         NEW top, top = cs[Len(cs)], NEW r, Settled(SpecCount - (Len(cs) - 1), top.arg, r)
  PROVE  StackInv(asked, Popped(cs, r), marks \ {top.arg.spec})
<1>. DEFINE L == Len(cs)
            K == L - 1
            ds == Popped(cs, r)
            f == [cs[K] EXCEPT !.outs = Append(@, r)]
            less == marks \ {top.arg.spec}
<1>1. L \in Nat /\ cs \in Seq(Frames) /\ L <= SpecCount /\ IsFiniteSet(marks) BY Bounded DEF StackInv
<1>2. K \in Nat /\ K + 1 = L /\ K >= 1 /\ K \in 1..L /\ L \in 1..L /\ K \in 1..L - 1 BY <1>1
<1>3. r \in Trees[MaxDepth] BY DEF Settled
<1>4. cs[K] \in Frames BY <1>1, <1>2
<1>5. f \in Frames /\ f.arg = cs[K].arg /\ f.outs = Append(cs[K].outs, r)
  <2>. DEFINE g == cs[K]
  <2>1. g \in [arg : Args, outs : Seq(Trees[MaxDepth])] BY <1>4 DEF Frames
  <2>2. Append(g.outs, r) \in Seq(Trees[MaxDepth])
    <3>1. g.outs \in Seq(Trees[MaxDepth]) BY <1>4, FrameTyped
    <3>. DEFINE o == g.outs
                S == Trees[MaxDepth]
    <3>2. o \in Seq(S) /\ r \in S BY <1>3, <3>1
    <3>. HIDE DEF g, o, S
    <3>3. Append(o, r) \in Seq(S) BY <3>2
    <3>. QED BY <3>3 DEF o, S
  <2>. HIDE DEF g
  <2>3. [g EXCEPT !.outs = Append(@, r)] \in Frames
        /\ [g EXCEPT !.outs = Append(@, r)].arg = g.arg
        /\ [g EXCEPT !.outs = Append(@, r)].outs = Append(g.outs, r)
    BY <2>1, <2>2 DEF Frames
  <2>. QED BY <2>3 DEF g
<1>6. ds = [i \in 1..K |-> IF i = K THEN f ELSE cs[i]] BY DEF Popped
<1>. HIDE DEF ds, f
<1>7. \A i \in 1..K : i \in 1..L /\ cs[i] \in Frames /\ ds[i] = IF i = K THEN f ELSE cs[i]
  <2>1. \A i \in 1..K : i \in 1..L
    <3>1. K \in Nat /\ K + 1 = L BY <1>2
    <3>. HIDE DEF K, L
    <3>. QED BY <3>1
  <2>2. \A i \in 1..L : cs[i] \in Frames BY <1>1
  <2>. HIDE DEF K, L
  <2>. QED BY <1>6, <2>1, <2>2
<1>8. ds \in Seq(Frames) /\ Len(ds) = K
  <2>1. ds = [i \in 1..K |-> ds[i]] BY <1>6
  <2>2. \A i \in 1..K : ds[i] \in Frames BY <1>5, <1>7
  <2>3. K \in Nat BY <1>2
  <2>. HIDE DEF K
  <2>. QED BY <2>1, <2>2, <2>3, ListTyped
<1>9. \A i \in 1..K : ds[i].arg = cs[i].arg BY <1>5, <1>7
<1>10. \A i \in 1..K - 1 : ds[i] = cs[i] /\ i \in 1..K /\ i \in 1..L - 1 /\ i + 1 \in 1..K
  <2>1. \A i \in 1..K - 1 : i \in 1..K /\ i # K /\ i \in 1..L - 1 /\ i + 1 \in 1..K
    <3>1. K \in Nat /\ K + 1 = L BY <1>2
    <3>. HIDE DEF K, L
    <3>. QED BY <3>1
  <2>. QED BY <1>7, <2>1
<1>11. \A i \in 1..K : i < L BY <1>2
<1>. HIDE DEF K
<1>12. MarksOK(ds, less)
  <2>1. top.arg.spec \in marks BY <1>2 DEF StackInv, MarksOK
  <2>2. Cardinality(less) = K
    <3>1. Cardinality(marks \ {top.arg.spec}) = Cardinality(marks) - 1 BY <1>1, <2>1, FS_RemoveElement
    <3>2. Cardinality(marks) = L BY DEF StackInv, MarksOK
    <3>. QED BY <1>2, <3>1, <3>2 DEF K
  <2>3. \A i \in 1..K : ds[i].arg.spec \in less
    BY <1>2, <1>7, <1>9, <1>11 DEF StackInv, MarksOK
  <2>4. ASSUME NEW p \in less PROVE \E i \in 1..K : ds[i].arg.spec = p
    <3>1. PICK i \in 1..L : cs[i].arg.spec = p BY DEF StackInv, MarksOK
    <3>2. i # L BY <3>1
    <3>3. i \in 1..K
      <4>1. K \in Nat /\ K + 1 = L BY <1>2
      <4>. HIDE DEF L
      <4>. QED BY <3>2, <4>1
    <3>. QED BY <1>9, <3>1, <3>3
  <2>5. \A i, j \in 1..K : i < j => ds[i].arg.spec # ds[j].arg.spec
    BY <1>7, <1>9 DEF StackInv, MarksOK
  <2>6. less \subseteq DOMAIN Specs BY DEF StackInv, MarksOK
  <2>. HIDE DEF less
  <2>. QED BY <1>8, <2>2, <2>3, <2>4, <2>5, <2>6 DEF MarksOK
<1>13. ChainOK(asked, ds)
  <2>1. ds[1].arg = asked
    <3>1. 1 \in 1..K /\ 1 <= L BY <1>1, <1>2
    <3>. QED BY <1>9, <3>1 DEF StackInv, ChainOK
  <2>2. ASSUME NEW i \in 1..K - 1
        PROVE  /\ Len(ds[i].outs) < Len(Nested(ds[i].arg))
               /\ ds[i + 1].arg = Nested(ds[i].arg)[Len(ds[i].outs) + 1]
    BY <1>9, <1>10 DEF StackInv, ChainOK
  <2>3. \A i, j \in 1..K : i < j => Lower(ds[i].arg, ds[j].arg)
    BY <1>7, <1>9 DEF StackInv, ChainOK
  <2>. QED BY <1>8, <2>1, <2>2, <2>3 DEF ChainOK
<1>14. ResultsOK(ds)
  <2>1. ASSUME NEW i \in 1..K PROVE OutsOK(SpecCount - i, ds[i].arg, ds[i].outs)
    <3>1. OutsOK(SpecCount - i, cs[i].arg, cs[i].outs) BY <1>7 DEF StackInv, ResultsOK
    <3>2. CASE i # K BY <1>7, <3>1, <3>2
    <3>3. CASE i = K
      <4>. DEFINE outs == cs[K].outs
                  a == cs[K].arg
                  n == SpecCount - K
      <4>1. OutsOK(n, a, outs) BY <3>1, <3>3
      <4>2. Len(outs) < Len(Nested(a)) /\ top.arg = Nested(a)[Len(outs) + 1]
        BY <1>2 DEF StackInv, ChainOK, K
      <4>3. Settled(n, Nested(a)[Len(outs) + 1], r) BY <4>2 DEF K
      <4>4. Len(Nested(a)) \in Nat
        <5>1. a \in Args BY <1>4, FrameTyped
        <5>. QED BY <5>1, NestedFacts DEF NestedOK
      <4>. HIDE DEF outs, a, n
      <4>5. outs \in Seq(Trees[MaxDepth]) /\ Len(outs) \in Nat BY <4>1 DEF OutsOK
      <4>. DEFINE more == Append(outs, r)
      <4>6. /\ more \in Seq(Trees[MaxDepth]) /\ Len(more) = Len(outs) + 1 /\ more[Len(outs) + 1] = r
            /\ \A k \in 1..Len(outs) : more[k] = outs[k]
        BY <1>3, <4>5
      <4>. HIDE DEF more
      <4>7. \A k \in 1..Len(more) : Settled(n, Nested(a)[k], more[k])
        <5>. TAKE k \in 1..Len(more)
        <5>1. CASE k = Len(outs) + 1 BY <4>3, <4>6, <5>1
        <5>2. CASE k # Len(outs) + 1
          <6>1. k \in 1..Len(outs) BY <4>5, <4>6, <5>2
          <6>. QED BY <4>1, <4>6, <6>1 DEF OutsOK
        <5>. QED BY <5>1, <5>2
      <4>8. Len(more) \in Nat /\ Len(more) <= Len(Nested(a)) BY <4>2, <4>4, <4>5, <4>6
      <4>9. OutsOK(n, a, more) BY <4>6, <4>7, <4>8 DEF OutsOK
      <4>10. ds[i] = f /\ f.arg = a /\ f.outs = more BY <1>5, <1>7, <3>3 DEF a, more, outs
      <4>. QED BY <3>3, <4>9, <4>10 DEF n
    <3>. QED BY <3>2, <3>3
  <2>. QED BY <1>8, <2>1 DEF ResultsOK
<1>15. StackInv(asked, ds, less) BY <1>8, <1>12, <1>13, <1>14 DEF StackInv
<1>. QED BY <1>15 DEF ds

\* The empty stack.
LEMMA EmptyStack == \A asked : StackInv(asked, <<>>, {})
<1>. TAKE asked
<1>1. <<>> \in Seq(Frames) /\ Len(<<>>) = 0 /\ 1..0 = {} /\ ~(1 <= 0) /\ 1..0 - 1 = {} OBVIOUS
<1>2. Cardinality({}) = 0 BY FS_EmptySet
<1>3. MarksOK(<<>>, {}) BY <1>1, <1>2 DEF MarksOK
<1>4. ChainOK(asked, <<>>) BY <1>1 DEF ChainOK
<1>5. ResultsOK(<<>>) BY <1>1 DEF ResultsOK
<1>. QED BY <1>1, <1>3, <1>4, <1>5 DEF StackInv

-----------------------------------------------------------------------------
(* Register data *)

\* The value the register is written with.
Asked == Arg(root, data, integerOnly)

\* The stack and the result so far, with nothing left that could go wrong.
DataInv ==
  /\ Asked \in Args /\ StackInv(Asked, calls, active)
  /\ result = Bad => Sunk(Asked)
  /\ result \notin {Pending, Bad} => Settled(SpecCount, Asked, result)

\* It holds before the first call.
LEMMA DataInitial == DataInit => DataInv
<1>. SUFFICES ASSUME DataInit PROVE DataInv OBVIOUS
<1>1. root \in DOMAIN Specs /\ data \in Trees[MaxDepth] /\ integerOnly \in BOOLEAN
  BY RegisterAssumption DEF DataInit
<1>2. Asked \in Args BY <1>1, ArgIs DEF Asked
<1>3. StackInv(Asked, calls, active) BY EmptyStack DEF DataInit
<1>4. result = Pending /\ result # Bad BY NoValues DEF DataInit
<1>. QED BY <1>2, <1>3, <1>4 DEF DataInv

\* An error is right if no derivation shows that the value has its type.
LEMMA FailRight ==
  ASSUME Asked \in Args, Asked' = Asked, Sunk(Asked), Fail PROVE DataInv'
<1>1. StackInv(Asked', calls', active') BY EmptyStack DEF Fail
<1>2. result' = Bad /\ Asked' \in Args /\ Sunk(Asked') BY DEF Fail
<1>. QED BY <1>1, <1>2 DEF DataInv

\* The first call.
LEMMA BeginRight == DataInv /\ Begin => DataInv'
<1>. SUFFICES ASSUME DataInv, Begin PROVE DataInv' OBVIOUS
<1>. DEFINE a == Asked
            refused == Specs[a.spec].type = "missing" \/ a.value.kind = "missing" \/ a.spec \in active
<1>1. a \in Args /\ StackInv(a, calls, active) /\ calls = <<>> /\ Asked' = a
  BY DEF DataInv, Begin, Normalize, Asked
<1>2. a.spec \notin active
  <2>1. Len(calls) = 0 BY <1>1
  <2>. QED BY <1>1, <2>1 DEF StackInv, MarksOK
<1>3. CASE refused
  <2>1. Fail BY <1>3 DEF Begin, Normalize, Asked
  <2>2. Sunk(a) BY <1>1, <1>2, <1>3, NoMissing DEF Sunk
  <2>. QED BY <1>1, <2>1, <2>2, FailRight
<1>4. CASE ~refused
  <2>1. /\ calls' = Append(calls, [arg |-> a, outs |-> <<>>]) /\ active' = active \cup {a.spec}
        /\ result' = result
    BY <1>4 DEF Begin, Normalize, Asked
  <2>2. StackInv(a, calls', active')
    <3>. HIDE DEF a
    <3>. QED BY <1>1, <1>2, <2>1, Push
  <2>. QED BY <1>1, <2>1, <2>2 DEF DataInv
<1>. QED BY <1>3, <1>4

\* A call that a call makes.
LEMMA DescendRight == DataInv /\ Descend => DataInv'
<1>. SUFFICES ASSUME DataInv, Descend PROVE DataInv' OBVIOUS
<1>. DEFINE b == Nested(Top.arg)[Len(Top.outs) + 1]
            refused == Specs[b.spec].type = "missing" \/ b.value.kind = "missing" \/ b.spec \in active
<1>1. Asked \in Args /\ StackInv(Asked, calls, active) /\ Asked' = Asked
  BY DEF DataInv, Descend, Normalize, Asked
<1>2. NextCall(calls, b) BY DEF Descend, NextCall, Top
<1>3. b \in Args BY <1>1, <1>2, NextLower
<1>4. Normalize(b) BY DEF Descend
<1>. HIDE DEF b
<1>5. CASE refused
  <2>1. Fail BY <1>4, <1>5 DEF Normalize
  <2>2. Sunk(Asked) BY <1>1, <1>2, <1>5, SunkNext
  <2>. QED BY <1>1, <2>1, <2>2, FailRight
<1>6. CASE ~refused
  <2>1. /\ calls' = Append(calls, [arg |-> b, outs |-> <<>>]) /\ active' = active \cup {b.spec}
        /\ result' = result
    BY <1>4, <1>6 DEF Normalize
  <2>2. StackInv(Asked, calls', active') BY <1>1, <1>2, <1>3, <1>6, <2>1, Push
  <2>. QED BY <1>1, <2>1, <2>2 DEF DataInv
<1>. QED BY <1>5, <1>6

\* The result of a call.
LEMMA ReturnRight == DataInv /\ Return => DataInv'
<1>. SUFFICES ASSUME DataInv, Return PROVE DataInv' OBVIOUS
<1>. DEFINE r == Returned(Top.arg, Top.outs)
            L == Len(calls)
<1>1. Asked \in Args /\ StackInv(Asked, calls, active) /\ Asked' = Asked
  BY DEF DataInv, Return, Asked
<1>2. calls # <<>> /\ Top = calls[L] /\ Len(Top.outs) = Len(Nested(Top.arg)) BY DEF Return, Top
<1>3. /\ r = Bad => Sunk(Asked)
      /\ r # Bad => Settled(SpecCount - (L - 1), Top.arg, r)
  BY <1>1, <1>2, TopSettled
<1>4. L \in Nat /\ calls \in Seq(Frames) /\ L >= 1 BY <1>1, <1>2, Bounded DEF StackInv
<1>5. IF r = Bad THEN Fail ELSE Answer(r) /\ active' = Leave(Top.arg.spec) BY DEF Return
<1>. HIDE DEF r
<1>6. CASE r = Bad
  <2>1. Fail BY <1>5, <1>6
  <2>. QED BY <1>1, <1>3, <1>6, <2>1, FailRight
<1>7. CASE r # Bad
  <2>. DEFINE callers == SubSeq(calls, 1, L - 1)
  <2>1. Answer(r) /\ active' = active \ {Top.arg.spec} BY <1>5, <1>7 DEF Leave
  <2>2. callers = [i \in 1..L - 1 |-> calls[i]] /\ Len(callers) = L - 1
    <3>1. callers = [i \in 1..(L - 1) - 1 + 1 |-> calls[1 + i - 1]] BY <1>4
    <3>2. (L - 1) - 1 + 1 = L - 1 /\ \A i \in 1..L - 1 : 1 + i - 1 = i BY <1>4
    <3>3. callers = [i \in 1..L - 1 |-> calls[i]] BY <3>1, <3>2
    <3>4. L - 1 \in Nat BY <1>4
    <3>. QED BY <3>3, <3>4
  <2>3. CASE L = 1
    <3>1. callers = <<>> BY <2>2, <2>3
    <3>2. calls' = <<>> /\ result' = r BY <2>1, <3>1 DEF Answer
    <3>3. Top.arg = Asked /\ Settled(SpecCount, Asked, r)
      <4>1. Top.arg = Asked BY <1>1, <1>2, <2>3 DEF StackInv, ChainOK
      <4>2. SpecCount - (L - 1) = SpecCount BY <2>3, SpecCountFacts
      <4>. QED BY <1>3, <1>7, <4>1, <4>2
    <3>4. active' = {}
      <4>1. \A p \in active : p = Top.arg.spec
        <5>1. \A i \in 1..L : i = L BY <2>3
        <5>. QED BY <1>1, <1>2, <5>1 DEF StackInv, MarksOK
      <4>. QED BY <2>1, <4>1
    <3>5. StackInv(Asked', calls', active') BY <3>2, <3>4, EmptyStack
    <3>6. Asked' \in Args /\ result' # Bad /\ Settled(SpecCount, Asked', result')
      BY <1>1, <1>7, <3>2, <3>3
    <3>. QED BY <3>5, <3>6 DEF DataInv
  <2>4. CASE L > 1
    <3>1. callers # <<>>
      <4>1. L - 1 # 0
        <5>. HIDE DEF L
        <5>. QED BY <1>4, <2>4
      <4>. QED BY <2>2, <4>1
    <3>2. calls' = [callers EXCEPT ![Len(callers)].outs = Append(@, r)] /\ result' = result
      BY <2>1, <3>1 DEF Answer
    <3>3. [callers EXCEPT ![Len(callers)].outs = Append(@, r)] = Popped(calls, r)
      <4>1. L - 1 \in 1..L - 1 BY <1>4, <2>4
      <4>. DEFINE K == L - 1
      <4>. HIDE DEF K
      <4>2. [[i \in 1..K |-> calls[i]] EXCEPT ![K].outs = Append(@, r)]
              = [i \in 1..K |-> IF i = K THEN [calls[i] EXCEPT !.outs = Append(@, r)] ELSE calls[i]]
        OBVIOUS
      <4>. QED BY <2>2, <4>2 DEF K, Popped
    <3>4. StackInv(Asked, Popped(calls, r), active \ {Top.arg.spec})
      BY <1>1, <1>2, <1>3, <1>7, <2>4, Pop
    <3>5. StackInv(Asked', calls', active') BY <1>1, <2>1, <3>2, <3>3, <3>4
    <3>. QED BY <1>1, <3>2, <3>5 DEF DataInv
  <2>5. L = 1 \/ L > 1
    <3>. HIDE DEF L
    <3>. QED BY <1>4
  <2>. QED BY <2>3, <2>4, <2>5
<1>. QED BY <1>6, <1>7

\* The calls that are active, their marks and what they have been given are as
\* the rules have it.
LEMMA DataInductive == DataSpec => []DataInv
<1>1. ASSUME DataInv, [DataNext]_rvars PROVE DataInv'
  <2>1. CASE Begin BY <1>1, <2>1, BeginRight
  <2>2. CASE Descend BY <1>1, <2>2, DescendRight
  <2>3. CASE Return BY <1>1, <2>3, ReturnRight
  <2>4. CASE UNCHANGED rvars BY <1>1, <2>4 DEF rvars, DataInv, Asked
  <2>. QED BY <1>1, <2>1, <2>2, <2>3, <2>4 DEF DataNext
<1>. QED BY <1>1, DataInitial, PTL DEF DataSpec

\* Whatever the types of a P4Info, cyclic ones included, and however deeply a
\* value is nested: normalize accepts exactly the values of the register's type,
\* no deeper in calls than there are type specifications, and sends the numbers
\* it was given in their shortest form.
THEOREM NormalizeCorrect == DataSpec => []NormalizeExact
<1>1. DataInv => NormalizeExact
  <2>. SUFFICES ASSUME DataInv PROVE NormalizeExact OBVIOUS
  <2>. DEFINE M == (MaxDepth + 1) * SpecCount
  <2>1. M \in Nat /\ SpecCount <= M
    <3>1. MaxDepth \in Nat /\ SpecCount \in Nat BY RegisterAssumption, SpecCountFacts
    <3>. DEFINE s == SpecCount
                d == MaxDepth
    <3>2. s \in Nat /\ d \in Nat BY <3>1
    <3>. HIDE DEF s, d
    <3>3. (d + 1) * s = d * s + s /\ d * s \in Nat BY <3>2
    <3>4. (d + 1) * s \in Nat /\ s <= (d + 1) * s BY <3>2, <3>3
    <3>. QED BY <3>4 DEF s, d
  <2>2. Len(calls) <= SpecCount BY Bounded DEF DataInv, StackInv
  <2>3. ASSUME result = Bad PROVE ~HasForm(Asked, AnyForm)
    <3>1. Sunk(Asked) BY <2>3 DEF DataInv
    <3>. QED BY <2>1, <3>1 DEF HasForm, Sunk, Can, SpecCount
  <2>4. ASSUME result \notin {Pending, Bad}
        PROVE  HasForm(Asked, result) /\ HasForm(Arg(root, result, integerOnly), result)
    <3>1. Settled(SpecCount, Asked, result) BY <2>4 DEF DataInv
    <3>2. Forms[SpecCount] \subseteq Forms[M] BY <2>1, SpecCountFacts, FormsGrow
    <3>3. Again(Asked, result) = Arg(root, result, integerOnly) BY DEF Again, Asked, Arg
    <3>. QED BY <3>1, <3>2, <3>3 DEF Settled, HasForm, SpecCount
  <2>. QED BY <2>2, <2>3, <2>4 DEF NormalizeExact, Asked, SpecCount
<1>. QED BY <1>1, DataInductive, PTL
=============================================================================
