----------------------------- MODULE ElectionID -----------------------------
(***************************************************************************)
(* client/electionid.go: the 128-bit election ID, kept as two halves of 64 *)
(* bits. Half is 2^64 in the code; nothing here depends on it.             *)
(*                                                                         *)
(* The state is two election IDs, as of two controllers that outbid each   *)
(* other with Increment.                                                   *)
(***************************************************************************)
EXTENDS Integers

CONSTANT Half  \* number of values of one half

ASSUME HalfAssumption == Half \in Nat \ {0}

Word == 0..Half - 1
ID == [High : Word, Low : Word]

IsZero(e) == e.High = 0 /\ e.Low = 0

Equal(e, f) == e.High = f.High /\ e.Low = f.Low

MutLess(e, f) == e.High < f.High \/ e.Low < f.Low
Less(e, f) == IF e.High # f.High THEN e.High < f.High ELSE e.Low < f.Low

Cmp(e, f) == CASE Less(e, f) -> -1 [] ~Less(e, f) /\ Equal(e, f) -> 0 [] OTHER -> 1

\* The incremented ID and whether there is one; the largest stays as it is.
MutIncrement(e) ==
  IF e.Low = Half - 1
  THEN [id |-> [High |-> (e.High + 1) % Half, Low |-> 0], ok |-> TRUE]
  ELSE [id |-> [High |-> e.High, Low |-> e.Low + 1], ok |-> TRUE]
Increment(e) ==
  IF e.Low = Half - 1
  THEN IF e.High = Half - 1 THEN [id |-> e, ok |-> FALSE]
       ELSE [id |-> [High |-> e.High + 1, Low |-> 0], ok |-> TRUE]
  ELSE [id |-> [High |-> e.High, Low |-> e.Low + 1], ok |-> TRUE]

\* BigInt: the number the halves stand for.
BigInt(e) == e.High * Half + e.Low

-----------------------------------------------------------------------------
VARIABLES mine, theirs

idVars == <<mine, theirs>>

IDInit == mine \in ID /\ theirs \in ID

Raise == mine' = Increment(mine).id /\ UNCHANGED theirs
RaiseTheirs == theirs' = Increment(theirs).id /\ UNCHANGED mine

IDNext == Raise \/ RaiseTheirs

IDSpec == IDInit /\ [][IDNext]_idVars

-----------------------------------------------------------------------------
(* Properties *)

\* Less, Equal, Cmp and IsZero order election IDs as the 128-bit numbers they
\* stand for: zero is below every other ID and no carry between the halves is
\* lost.
OrderExact ==
  /\ mine \in ID /\ theirs \in ID
  /\ Less(mine, theirs) <=> BigInt(mine) < BigInt(theirs)
  /\ Equal(mine, theirs) <=> BigInt(mine) = BigInt(theirs)
  /\ Cmp(mine, theirs) = IF BigInt(mine) < BigInt(theirs) THEN -1
                         ELSE IF BigInt(mine) = BigInt(theirs) THEN 0 ELSE 1
  /\ IsZero(mine) <=> BigInt(mine) = 0

\* Increment adds one and never wraps: it refuses exactly the largest ID, so an
\* ID that was raised is never overtaken by an older one.
NeverWraps ==
  [][/\ mine' # mine => BigInt(mine') = BigInt(mine) + 1 /\ Less(mine, mine')
     /\ Increment(mine).ok <=> \E e \in ID : BigInt(e) > BigInt(mine)
     /\ Increment(mine).ok <=> Increment(mine).id # mine]_idVars
=============================================================================
