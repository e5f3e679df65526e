---------------------------- MODULE DigestService ----------------------------
(***************************************************************************)
(* digest/digest.go: subscriptions to digests by name, on top of the       *)
(* client's dispatch. The digest's ID is looked up once, when subscribing; *)
(* the registered handler compares it with the ID of each list and calls   *)
(* the caller's handler. OnDigest is Subscribe without the error. Ack only *)
(* checks the ID of a list and sends, as in the Supervisor module.         *)
(***************************************************************************)
EXTENDS Dispatch

CONSTANTS
  DigestNames,  \* names the pipeline declares
  DigestID,     \* their IDs, perhaps zero
  AnyDigest,    \* the empty name
  ListIDs       \* digest IDs a target uses, declared or not

ASSUME DigestAssumption ==
  /\ DigestID \in [DigestNames -> Nat] /\ AnyDigest \notin DigestNames
  /\ ListIDs \subseteq Nat /\ 0 \in ListIDs

VARIABLES
  wants,    \* the name and the ID a subscription's closure holds
  list,     \* the digest ID of the list being dispatched
  handled   \* history: the subscriptions whose caller's handler got the list

dvars == <<wants, list, handled>>

DigestInit ==
  /\ Init
  /\ wants = [s \in DigestSubs |-> [name |-> AnyDigest, id |-> 0]]
  /\ list = [r \in Receivers |-> 0] /\ handled = [r \in Receivers |-> {}]

\* An unknown name and a digest without an ID register nothing.
Subscribable(n) == n = AnyDigest \/ (n \in DigestNames /\ DigestID[n] # 0)

Subscribe(s, n) ==
  /\ Subscribable(n)
  /\ wants' = [wants EXCEPT ![s] = [name |-> n, id |-> IF n = AnyDigest THEN 0 ELSE DigestID[n]]]
  /\ Add(s) /\ UNCHANGED <<list, handled>>

\* A message of kind k comes; a digest list has the ID i.
Receive(r, k, i) ==
  /\ Select(r, k) /\ (k # "digest" => i = 0)
  /\ list' = [list EXCEPT ![r] = i] /\ handled' = [handled EXCEPT ![r] = {}]
  /\ UNCHANGED wants

\* The closure: the caller's handler runs if the list is of the digest wanted.
MutPasses(s, i) == wants[s].id = i
Passes(s, i) == wants[s].name = AnyDigest \/ wants[s].id = i

CallFilter(r, s) ==
  /\ Call(r, s)
  /\ handled' = [handled EXCEPT ![r] = IF Passes(s, list[r]) THEN @ \cup {s} ELSE @]
  /\ UNCHANGED <<wants, list>>

\* Everything else is the dispatch's own.
Elsewhere ==
  /\ \/ \E s \in Subs \ DigestSubs : Add(s)
     \/ \E s \in Subs : Cancel(s)
     \/ \E r \in Receivers :
          \/ \E s \in Subs \ DigestSubs : Call(r, s)
          \/ CallReturn(r) \/ StreamDone(r) \/ TypedDone(r)
  /\ UNCHANGED dvars

DigestNext ==
  \/ \E s \in DigestSubs, n \in DigestNames \cup {AnyDigest} : Subscribe(s, n)
  \/ \E r \in Receivers, k \in Kinds, i \in ListIDs : Receive(r, k, i)
  \/ \E r \in Receivers, s \in DigestSubs : CallFilter(r, s)
  \/ Elsewhere

DigestSpec == DigestInit /\ [][DigestNext]_<<vars, dvars>>

-----------------------------------------------------------------------------
(* Properties *)

\* Each subscription in force when a list was taken gets it exactly if it asked
\* for that digest by name, or for all digests; lists of undeclared digests, and
\* those whose ID is zero, go to the latter only.
DigestsServed ==
  \A r \in Receivers :
    kind[r] = "digest" =>
      handled[r] = {s \in (asOf[r] \ todo[r]) \cap DigestSubs :
                      \/ wants[s].name = AnyDigest
                      \/ list[r] # 0 /\ DigestID[wants[s].name] = list[r]}
=============================================================================
