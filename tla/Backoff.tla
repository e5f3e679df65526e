------------------------------ MODULE Backoff ------------------------------
(***************************************************************************)
(* The reconnection delays of internal/stream/supervisor.go: nextBackoff,  *)
(* jitter and their use in run and sleep. A time.Duration is a signed      *)
(* integer of 64 bits that wraps; MaxInt is 2^63 - 1 in the code.          *)
(*                                                                         *)
(* The Supervisor module leaves durations out. Here the loop is reduced to *)
(* what its delays depend on: an attempt fails and run sleeps, or          *)
(* arbitration succeeds. The rounding of jitter's floating point product,  *)
(* nanoseconds even of years, is left out.                                 *)
(***************************************************************************)
EXTENDS Powers

CONSTANTS
  MaxInt,            \* largest duration
  DefaultInitial,    \* New's delays for options that are not positive
  DefaultMax,
  MaxFails           \* attempts that fail in a row

ASSUME BackoffAssumption ==
  /\ MaxInt \in Nat /\ DefaultInitial \in 1..MaxInt /\ DefaultMax \in 1..MaxInt
  /\ MaxFails \in Nat

Durations == -(MaxInt + 1)..MaxInt

\* A result of duration arithmetic that left the range by less than its size.
Wrap(x) == IF x > MaxInt THEN x - 2 * (MaxInt + 1) ELSE x

\* New: the options or the defaults.
Initial(i) == IF i <= 0 THEN DefaultInitial ELSE i
Maximum(m) == IF m <= 0 THEN DefaultMax ELSE m

MutNextBackoff(cur, max) ==
  LET next == Wrap(cur * 2) IN IF next > max THEN max ELSE next
NextBackoff(cur, max) ==
  LET next == Wrap(cur * 2) IN IF next <= 0 \/ next > max THEN max ELSE next

\* The delays jitter may return: within a fifth of d, rounded towards zero.
Jitter(d) ==
  LET delta == d \div 5
  IN  IF delta <= 0 THEN {d} ELSE {Wrap(d + o) : o \in -delta..delta - 1}

-----------------------------------------------------------------------------
VARIABLES
  initial, max,  \* the configured delays, after New
  backoff,       \* run's local variable
  requested,     \* what the last sleep was asked for, 0 before the first
  delay,         \* what its timer was set to
  fails          \* history: attempts that failed since the last arbitration

bvars == <<initial, max, backoff, requested, delay, fails>>

\* WithReconnectBackoff passes its arguments on unchecked.
BackoffInit ==
  \E i \in Durations, m \in Durations :
    /\ initial = Initial(i) /\ max = Maximum(m)
    /\ backoff = initial /\ requested = 0 /\ delay = 0 /\ fails = 0

\* Dialling or arbitration fails, and run sleeps.
Retry ==
  /\ fails < MaxFails /\ fails' = fails + 1
  /\ requested' = backoff /\ delay' \in Jitter(backoff)
  /\ backoff' = NextBackoff(backoff, max)
  /\ UNCHANGED <<initial, max>>

\* Arbitration succeeds.
MutReset == fails' = 0 /\ UNCHANGED <<initial, max, backoff, requested, delay>>
Reset == fails' = 0 /\ backoff' = initial /\ UNCHANGED <<initial, max, requested, delay>>

BackoffNext == Retry \/ Reset

BackoffSpec == BackoffInit /\ [][BackoffNext]_bvars

-----------------------------------------------------------------------------
(* Properties *)

\* The larger of the two configured delays.
Ceiling == IF initial > max THEN initial ELSE max

\* Above 5/6 of the range a fifth more is no duration.
Limit == (5 * MaxInt) \div 6

\* A delay that is that of a sleep, give or take a fifth.
Within(d, of) == 4 * of <= 5 * d /\ 5 * d <= 6 * of

\* However long the target stays away, and whatever was configured, run asks
\* sleep for a delay between one and the larger of the configured ones, also
\* when doubling overflows. What it then waits is that delay within a fifth. Only
\* one above 5/6 of all durations may overflow in jitter instead, and then run
\* does not wait: it never waits longer than was asked for and a fifth.
DelaySane ==
  /\ backoff \in 1..Ceiling /\ requested \in 0..Ceiling
  /\ Within(delay, requested) \/ (requested > Limit /\ delay < 0)

\* The delay that run asks for after k failures in a row: initial * 2^k up to max,
\* except that the first is initial even if that is more.
DelayAfter(k) ==
  IF k = 0 THEN initial
  ELSE IF initial * Pow2[k] > max THEN max ELSE initial * Pow2[k]

\* With every failed attempt the delay doubles until it reaches the maximum, where
\* it stays, and a successful arbitration, but nothing else, takes it back to the
\* initial one; no number of failures makes it overflow. An initial delay above the
\* maximum comes down to it with the first failure.
GrowsToMax ==
  /\ backoff = DelayAfter(fails)
  /\ fails > 0 => requested = DelayAfter(fails - 1)

\* docs/architecture.md, line 55: the delays are at most max. They are not if the
\* initial delay is above it.
UpToMax == requested <= max
=============================================================================
