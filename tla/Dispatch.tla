------------------------------ MODULE Dispatch ------------------------------
(***************************************************************************)
(* client/stream.go: the registration of stream handlers and the dispatch  *)
(* of received messages to them.                                           *)
(*                                                                         *)
(* A receive goroutine dispatches one message at a time, but the goroutine *)
(* of a stream that was left can still be in a handler while the next      *)
(* stream's goroutine dispatches. Handlers, and any other goroutine, may   *)
(* register and cancel while dispatches are in progress. d.mu is held only *)
(* inside one step. A map is ranged over in any order.                     *)
(***************************************************************************)
EXTENDS Naturals, FiniteSets

CONSTANTS
  StreamSubs,   \* calls of OnStreamMessage
  PacketSubs,   \* calls of OnPacketIn
  DigestSubs,   \* calls of OnDigestList; OnIdleTimeout is alike
  Receivers,    \* receive goroutines
  None          \* no handler

Subs == StreamSubs \cup PacketSubs \cup DigestSubs

ASSUME DispatchAssumption ==
  /\ StreamSubs \cap PacketSubs = {} /\ StreamSubs \cap DigestSubs = {}
  /\ PacketSubs \cap DigestSubs = {} /\ None \notin Subs \cup Nat

\* The kinds of messages: with handlers of their own, or with none.
Kinds == {"packet", "digest", "other"}

TypedSubs(k) == IF k = "packet" THEN PacketSubs
                ELSE IF k = "digest" THEN DigestSubs ELSE {}

\* The map a call registers in.
SlotOf(s) == IF s \in StreamSubs THEN "stream"
             ELSE IF s \in PacketSubs THEN "packet" ELSE "digest"

VARIABLES
  slots,    \* the maps: a set of [slot, id, sub], at most one per slot and id
  nextID,
  id,       \* the id each registered call's cancel closure holds
  cancelled,\* calls whose cancel closure returned
  rpc,      \* where each receive goroutine is
  kind,     \* of the message being dispatched
  todo,     \* the selected handlers that have not run
  running,  \* the handler in progress
  ran,      \* history: the handlers that were called for the message
  asOf      \* history: the calls in force when the message was taken

vars == <<slots, nextID, id, cancelled, rpc, kind, todo, running, ran, asOf>>
dispatching == <<rpc, kind, todo, running, ran, asOf>>

Registered == {s \in Subs : id[s] # None}
InForce == Registered \ cancelled

\* Every variable is of its type.
TypeOK ==
  /\ slots \subseteq [slot : {"stream", "packet", "digest"}, id : Nat, sub : Subs]
  /\ nextID \in Nat
  /\ id \in [Subs -> Nat \cup {None}]
  /\ cancelled \subseteq Subs
  /\ rpc \in [Receivers -> {"recv", "stream", "typed"}]
  /\ kind \in [Receivers -> Kinds]
  /\ todo \in [Receivers -> SUBSET Subs]
  /\ running \in [Receivers -> Subs \cup {None}]
  /\ ran \in [Receivers -> SUBSET Subs] /\ asOf \in [Receivers -> SUBSET Subs]

Init ==
  /\ slots = {} /\ nextID = 0 /\ id = [s \in Subs |-> None] /\ cancelled = {}
  /\ rpc = [r \in Receivers |-> "recv"] /\ kind = [r \in Receivers |-> "other"]
  /\ todo = [r \in Receivers |-> {}] /\ running = [r \in Receivers |-> None]
  /\ ran = [r \in Receivers |-> {}] /\ asOf = [r \in Receivers |-> {}]

\* add...: the handler goes into its map under a fresh id.
MutAdd(s) ==
  /\ id[s] = None
  /\ id' = [id EXCEPT ![s] = nextID]
  /\ slots' = {x \in slots : ~(x.slot = SlotOf(s) /\ x.id = nextID)}
              \cup {[slot |-> SlotOf(s), id |-> nextID, sub |-> s]}
  /\ UNCHANGED <<nextID, cancelled, dispatching>>
Add(s) ==
  /\ id[s] = None
  /\ id' = [id EXCEPT ![s] = nextID]
  /\ slots' = {x \in slots : ~(x.slot = SlotOf(s) /\ x.id = nextID)}
              \cup {[slot |-> SlotOf(s), id |-> nextID, sub |-> s]}
  /\ nextID' = nextID + 1
  /\ UNCHANGED <<cancelled, dispatching>>

\* The closure Add returned; a second call deletes nothing.
Cancel(s) ==
  /\ s \in Registered
  /\ slots' = {x \in slots : ~(x.slot = SlotOf(s) /\ x.id = id[s])}
  /\ cancelled' = cancelled \cup {s}
  /\ UNCHANGED <<nextID, id, dispatching>>

Selected(k) == {x.sub : x \in {y \in slots : y.slot \in {"stream", k}}}

\* A message arrives and all its handlers are selected under one read lock.
Select(r, k) ==
  /\ rpc[r] = "recv"
  /\ kind' = [kind EXCEPT ![r] = k]
  /\ todo' = [todo EXCEPT ![r] = Selected(k)]
  /\ rpc' = [rpc EXCEPT ![r] = "stream"]
  /\ ran' = [ran EXCEPT ![r] = {}] /\ asOf' = [asOf EXCEPT ![r] = InForce]
  /\ UNCHANGED <<slots, nextID, id, cancelled, running>>

\* A selected handler starts: first those of every message, then the typed.
Call(r, s) ==
  /\ running[r] = None /\ s \in todo[r]
  /\ \/ rpc[r] = "stream" /\ s \in StreamSubs
     \/ rpc[r] = "typed" /\ s \in TypedSubs(kind[r])
  /\ running' = [running EXCEPT ![r] = s]
  /\ todo' = [todo EXCEPT ![r] = @ \ {s}] /\ ran' = [ran EXCEPT ![r] = @ \cup {s}]
  /\ UNCHANGED <<slots, nextID, id, cancelled, rpc, kind, asOf>>

CallReturn(r) ==
  /\ running[r] # None
  /\ running' = [running EXCEPT ![r] = None]
  /\ UNCHANGED <<slots, nextID, id, cancelled, rpc, kind, todo, ran, asOf>>

\* The loop over the stream handlers ends, then the one over the typed ones.
StreamDone(r) ==
  /\ rpc[r] = "stream" /\ running[r] = None /\ todo[r] \cap StreamSubs = {}
  /\ rpc' = [rpc EXCEPT ![r] = "typed"]
  /\ UNCHANGED <<slots, nextID, id, cancelled, kind, todo, running, ran, asOf>>

TypedDone(r) ==
  /\ rpc[r] = "typed" /\ running[r] = None /\ todo[r] \cap TypedSubs(kind[r]) = {}
  /\ rpc' = [rpc EXCEPT ![r] = "recv"]
  /\ UNCHANGED <<slots, nextID, id, cancelled, kind, todo, running, ran, asOf>>

Next ==
  \/ \E s \in Subs : Add(s) \/ Cancel(s)
  \/ \E r \in Receivers :
       \/ \E k \in Kinds : Select(r, k)
       \/ \E s \in Subs : Call(r, s)
       \/ CallReturn(r) \/ StreamDone(r) \/ TypedDone(r)

Spec == Init /\ [][Next]_vars

-----------------------------------------------------------------------------
(* Properties *)

\* The handlers a message of kind k is for.
Meant(k) == StreamSubs \cup TypedSubs(k)

\* A message is given, once each, to exactly the handlers for its kind that
\* were registered and not cancelled when it was taken, whatever handlers and
\* others register and cancel meanwhile.
DispatchedOnceToAll ==
  \A r \in Receivers :
    /\ ran[r] \cup todo[r] = asOf[r] \cap Meant(kind[r])
    /\ ran[r] \cap todo[r] = {}
    /\ rpc[r] = "recv" => todo[r] = {}

\* OnStreamMessage handlers see a message before the handlers of its type.
StreamFirst ==
  \A r \in Receivers : ran[r] \subseteq StreamSubs \/ todo[r] \cap StreamSubs = {}

\* The maps hold exactly the subscriptions in force, each under the id its
\* cancel closure holds, so that cancelling one removes that one only.
SlotsExact ==
  /\ slots = {[slot |-> SlotOf(s), id |-> id[s], sub |-> s] : s \in InForce}
  /\ \A s, t \in Registered : s # t => id[s] # id[t]
  /\ \A s \in Registered : id[s] \in 0..(nextID - 1)
=============================================================================
