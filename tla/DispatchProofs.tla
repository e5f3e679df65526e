--------------------------- MODULE DispatchProofs ---------------------------
(***************************************************************************)
(* Proofs about the dispatch of stream messages and about digest           *)
(* subscriptions, for any number of subscriptions, receive goroutines,     *)
(* digests and IDs. Every step of the digest service is one of the         *)
(* dispatch, so the dispatch's theorems hold for the service too.          *)
(***************************************************************************)
EXTENDS DigestService, TLAPS

-----------------------------------------------------------------------------
(* The dispatch *)

\* Where a dispatch is, and what it has still to do.
ProgressInv ==
  \A r \in Receivers :
    /\ rpc[r] = "stream" => ran[r] \subseteq StreamSubs
    /\ rpc[r] # "stream" => todo[r] \cap StreamSubs = {}

\* The inductive invariant.
DInv == TypeOK /\ cancelled \subseteq Registered /\ SlotsExact /\ DispatchedOnceToAll /\ ProgressInv

\* What is selected for a message are the subscriptions in force for its kind.
LEMMA SelectedExact ==
  ASSUME TypeOK, SlotsExact, NEW k \in Kinds
  PROVE  Selected(k) = InForce \cap Meant(k)
<1> USE DispatchAssumption DEF Subs
<1>1. ASSUME NEW s \in Selected(k) PROVE s \in InForce \cap Meant(k)
  <2>1. PICK x \in slots : x.slot \in {"stream", k} /\ x.sub = s  BY <1>1 DEF Selected
  <2>2. PICK t \in InForce : x = [slot |-> SlotOf(t), id |-> id[t], sub |-> t]
    BY <2>1 DEF SlotsExact
  <2>3. s = t /\ SlotOf(s) \in {"stream", k}  BY <2>1, <2>2
  <2>4. s \in Meant(k)
    BY <2>2, <2>3 DEF SlotOf, Meant, TypedSubs, Kinds, InForce, Registered
  <2>5. QED  BY <2>2, <2>3, <2>4
<1>2. ASSUME NEW s \in InForce \cap Meant(k) PROVE s \in Selected(k)
  <2> DEFINE x == [slot |-> SlotOf(s), id |-> id[s], sub |-> s]
  <2>1. x \in slots  BY <1>2 DEF SlotsExact
  <2>2. SlotOf(s) \in {"stream", k}  BY <1>2 DEF SlotOf, Meant, TypedSubs, Kinds
  <2>3. QED  BY <2>1, <2>2 DEF Selected
<1>3. QED  BY <1>1, <1>2

\* A registration goes into its map under an id no other holds.
LEMMA AddSlots ==
  ASSUME DInv, NEW s \in Subs, Add(s)
  PROVE  SlotsExact' /\ (cancelled \subseteq Registered)'
<1> USE DispatchAssumption
<1>1. /\ id' = [id EXCEPT ![s] = nextID] /\ id[s] = None /\ nextID' = nextID + 1
      /\ cancelled' = cancelled /\ nextID \in Nat /\ id \in [Subs -> Nat \cup {None}]
  BY DEF Add, DInv, TypeOK
<1>2. /\ Registered' = Registered \cup {s} /\ s \notin Registered
      /\ InForce' = InForce \cup {s} /\ s \notin InForce
  BY <1>1 DEF Registered, InForce, DInv
<1>3. /\ id'[s] = nextID /\ \A t \in Registered : id'[t] = id[t] /\ id[t] \in 0..(nextID - 1)
  BY <1>1, <1>2 DEF DInv, SlotsExact, Registered
<1>4. \A t \in Registered : id'[t] # nextID  BY <1>1, <1>3
<1>5. slots' = slots \cup {[slot |-> SlotOf(s), id |-> nextID, sub |-> s]}
  <2>1. ASSUME NEW x \in slots PROVE x.id # nextID
    <3>1. PICK t \in InForce : x = [slot |-> SlotOf(t), id |-> id[t], sub |-> t]
      BY <2>1 DEF DInv, SlotsExact
    <3>2. t \in Registered  BY <3>1 DEF InForce
    <3>3. QED  BY <3>1, <3>2, <1>3, <1>4
  <2>2. QED  BY <2>1 DEF Add
<1>6. slots' = {[slot |-> SlotOf(t), id |-> id'[t], sub |-> t] : t \in InForce'}
  <2> DEFINE E(t) == [slot |-> SlotOf(t), id |-> id[t], sub |-> t]
             F(t) == [slot |-> SlotOf(t), id |-> id'[t], sub |-> t]
  <2>1. \A t \in InForce : E(t) = F(t)  BY <1>3 DEF InForce
  <2>2. F(s) = [slot |-> SlotOf(s), id |-> nextID, sub |-> s]  BY <1>3
  <2>3. slots = {E(t) : t \in InForce}  BY DEF DInv, SlotsExact
  <2> HIDE DEF E, F
  <2>4. slots' = {F(t) : t \in InForce \cup {s}}  BY <2>1, <2>2, <2>3, <1>5
  <2>5. QED  BY <2>4, <1>2 DEF F
<1>7. \A t, u \in Registered' : t # u => id'[t] # id'[u]
  BY <1>2, <1>3, <1>4 DEF DInv, SlotsExact
<1>8. \A t \in Registered' : id'[t] \in 0..(nextID' - 1)  BY <1>1, <1>2, <1>3
<1>9. QED  BY <1>1, <1>2, <1>6, <1>7, <1>8 DEF SlotsExact, DInv

\* A cancel closure removes its own registration and no other.
LEMMA CancelSlots ==
  ASSUME DInv, NEW s \in Subs, Cancel(s)
  PROVE  SlotsExact' /\ (cancelled \subseteq Registered)'
<1> USE DispatchAssumption
<1>1. /\ s \in Registered /\ UNCHANGED <<id, nextID>> /\ cancelled' = cancelled \cup {s}
      /\ slots' = {x \in slots : ~(x.slot = SlotOf(s) /\ x.id = id[s])}
  BY DEF Cancel
<1>2. Registered' = Registered /\ InForce' = InForce \ {s}
  BY <1>1 DEF Registered, InForce
<1> DEFINE E(t) == [slot |-> SlotOf(t), id |-> id[t], sub |-> t]
<1>3. slots = {E(t) : t \in InForce}  BY DEF DInv, SlotsExact
<1>4. \A t \in InForce : E(t).id = id[s] <=> t = s
  BY <1>1 DEF DInv, SlotsExact, InForce
<1>5. E(s).slot = SlotOf(s)  OBVIOUS
<1>6. slots' = {E(t) : t \in InForce \ {s}}
  <2> HIDE DEF E
  <2>1. QED  BY <1>1, <1>3, <1>4, <1>5
<1>7. QED  BY <1>1, <1>2, <1>6 DEF SlotsExact, DInv

\* A receive goroutine changes no registration.
LEMMA DispatchFrame ==
  ASSUME DInv, UNCHANGED <<slots, nextID, id, cancelled>>
  PROVE  SlotsExact' /\ (cancelled \subseteq Registered)'
<1>1. Registered' = Registered /\ InForce' = InForce  BY DEF Registered, InForce
<1>2. QED  BY <1>1 DEF DInv, SlotsExact

\* Every step preserves the inductive invariant.
LEMMA DispatchStep == DInv /\ [Next]_vars => DInv'
<1> SUFFICES ASSUME DInv, [Next]_vars PROVE DInv'
  OBVIOUS
<1> USE DispatchAssumption DEF dispatching
<1>1. ASSUME NEW s \in Subs, Add(s) \/ Cancel(s) PROVE DInv'
  <2>1. TypeOK'
    <3>1. CASE Add(s)
      <4>1. [slot |-> SlotOf(s), id |-> nextID, sub |-> s]
              \in [slot : {"stream", "packet", "digest"}, id : Nat, sub : Subs]
        BY DEF SlotOf, DInv, TypeOK
      <4>2. slots' \subseteq [slot : {"stream", "packet", "digest"}, id : Nat, sub : Subs]
        BY <3>1, <4>1 DEF Add, DInv, TypeOK
      <4>3. QED  BY <3>1, <4>2 DEF Add, DInv, TypeOK
    <3>2. CASE Cancel(s)  BY <3>2 DEF Cancel, DInv, TypeOK
    <3>3. QED  BY <1>1, <3>1, <3>2
  <2>2. SlotsExact' /\ (cancelled \subseteq Registered)'  BY <1>1, AddSlots, CancelSlots
  <2>3. DispatchedOnceToAll' /\ ProgressInv'
    BY <1>1 DEF Add, Cancel, DInv, DispatchedOnceToAll, ProgressInv
  <2>4. QED  BY <2>1, <2>2, <2>3 DEF DInv
<1>2. ASSUME NEW r \in Receivers, NEW k \in Kinds, Select(r, k) PROVE DInv'
  <2>1. Selected(k) = InForce \cap Meant(k) /\ InForce \subseteq Subs
    BY SelectedExact DEF DInv, InForce, Registered
  <2>2. TypeOK'  BY <1>2, <2>1 DEF Select, DInv, TypeOK
  <2>3. SlotsExact' /\ (cancelled \subseteq Registered)'  BY <1>2, DispatchFrame DEF Select
  <2>4. /\ rpc'[r] = "stream" /\ ran'[r] = {} /\ kind'[r] = k
        /\ todo'[r] = Selected(k) /\ asOf'[r] = InForce
        /\ \A q \in Receivers : q # r => /\ rpc'[q] = rpc[q] /\ ran'[q] = ran[q]
                                         /\ kind'[q] = kind[q] /\ todo'[q] = todo[q]
                                         /\ asOf'[q] = asOf[q]
    BY <1>2 DEF Select, DInv, TypeOK
  <2>5. DispatchedOnceToAll'  BY <2>1, <2>4 DEF DInv, DispatchedOnceToAll
  <2>6. ProgressInv'  BY <2>4 DEF DInv, ProgressInv
  <2>7. QED  BY <2>2, <2>3, <2>5, <2>6 DEF DInv
<1>3. ASSUME NEW r \in Receivers, NEW s \in Subs, Call(r, s) PROVE DInv'
  <2>1. TypeOK'  BY <1>3 DEF Call, DInv, TypeOK
  <2>2. SlotsExact' /\ (cancelled \subseteq Registered)'  BY <1>3, DispatchFrame DEF Call
  <2>3. /\ UNCHANGED <<rpc, kind, asOf>> /\ s \in todo[r] /\ rpc[r] # "recv"
        /\ rpc[r] = "stream" => s \in StreamSubs
        /\ todo'[r] = todo[r] \ {s} /\ ran'[r] = ran[r] \cup {s}
        /\ \A q \in Receivers : q # r => ran'[q] = ran[q] /\ todo'[q] = todo[q]
    BY <1>3 DEF Call, DInv, TypeOK
  <2>4. DispatchedOnceToAll'  BY <2>3 DEF DInv, DispatchedOnceToAll
  <2>5. ProgressInv'  BY <2>3 DEF DInv, ProgressInv
  <2>6. QED  BY <2>1, <2>2, <2>4, <2>5 DEF DInv
<1>4. ASSUME NEW r \in Receivers, CallReturn(r) PROVE DInv'
  <2>1. TypeOK'  BY <1>4 DEF CallReturn, DInv, TypeOK
  <2>2. SlotsExact' /\ (cancelled \subseteq Registered)'  BY <1>4, DispatchFrame DEF CallReturn
  <2>3. DispatchedOnceToAll' /\ ProgressInv'
    BY <1>4 DEF CallReturn, DInv, DispatchedOnceToAll, ProgressInv
  <2>4. QED  BY <2>1, <2>2, <2>3 DEF DInv
<1>5. ASSUME NEW r \in Receivers, StreamDone(r) \/ TypedDone(r) PROVE DInv'
  <2>1. TypeOK'  BY <1>5 DEF StreamDone, TypedDone, DInv, TypeOK
  <2>2. SlotsExact' /\ (cancelled \subseteq Registered)'
    BY <1>5, DispatchFrame DEF StreamDone, TypedDone
  <2>3. /\ UNCHANGED <<kind, todo, ran, asOf>> /\ todo[r] \cap StreamSubs = {}
        /\ rpc'[r] # "stream" /\ \A q \in Receivers : q # r => rpc'[q] = rpc[q]
    BY <1>5 DEF StreamDone, TypedDone, DInv, TypeOK, ProgressInv
  <2>4. rpc'[r] = "recv" => todo[r] = {}
    <3>1. CASE StreamDone(r)  BY <3>1 DEF StreamDone, DInv, TypeOK
    <3>2. CASE TypedDone(r)
      BY <3>2, <2>3 DEF TypedDone, DInv, DispatchedOnceToAll, Meant
    <3>3. QED  BY <1>5, <3>1, <3>2
  <2>5. DispatchedOnceToAll'  BY <2>3, <2>4 DEF DInv, DispatchedOnceToAll
  <2>6. ProgressInv'  BY <2>3 DEF DInv, ProgressInv
  <2>7. QED  BY <2>1, <2>2, <2>5, <2>6 DEF DInv
<1>6. CASE UNCHANGED vars
  <2>1. TypeOK' /\ DispatchedOnceToAll' /\ ProgressInv'
    BY <1>6 DEF vars, DInv, TypeOK, DispatchedOnceToAll, ProgressInv
  <2>2. QED  BY <1>6, <2>1, DispatchFrame DEF vars, DInv
<1>7. QED  BY <1>1, <1>2, <1>3, <1>4, <1>5, <1>6 DEF Next

\* The inductive invariant holds in every reachable state.
LEMMA DispatchInvariant == Spec => []DInv
<1>1. ASSUME Init PROVE DInv
  <2>1. TypeOK  BY <1>1 DEF Init, TypeOK, Kinds
  <2>2. Registered = {} /\ InForce = {}  BY <1>1 DEF Init, Registered, InForce
  <2>3. SlotsExact /\ cancelled \subseteq Registered  BY <1>1, <2>2 DEF Init, SlotsExact
  <2>4. DispatchedOnceToAll /\ ProgressInv  BY <1>1 DEF Init, DispatchedOnceToAll, ProgressInv
  <2>5. QED  BY <2>1, <2>3, <2>4 DEF DInv
<1>2. QED  BY <1>1, DispatchStep, PTL DEF Spec

\* Every reachable state is well typed.
THEOREM DispatchTypes == Spec => []TypeOK
<1>1. DInv => TypeOK  BY DEF DInv
<1>2. QED  BY DispatchInvariant, <1>1, PTL

\* Each message goes once to exactly the handlers in force when it was taken.
THEOREM DispatchExact == Spec => []DispatchedOnceToAll
<1>1. DInv => DispatchedOnceToAll  BY DEF DInv
<1>2. QED  BY DispatchInvariant, <1>1, PTL

\* Cancelling a subscription removes that one and no other.
THEOREM RegistrationExact == Spec => []SlotsExact
<1>1. DInv => SlotsExact  BY DEF DInv
<1>2. QED  BY DispatchInvariant, <1>1, PTL

\* Handlers of every message run before those of the message's type.
THEOREM StreamHandlersFirst == Spec => []StreamFirst
<1>1. DInv => StreamFirst  BY DEF DInv, TypeOK, ProgressInv, StreamFirst
<1>2. QED  BY DispatchInvariant, <1>1, PTL

-----------------------------------------------------------------------------
(* Digest subscriptions *)

\* A closure for a name holds that digest's ID, which is not zero; and what a
\* message was taken with was registered, so its closures are fixed.
ClosureInv ==
  /\ wants \in [DigestSubs -> [name : DigestNames \cup {AnyDigest}, id : Nat]]
  /\ \A s \in DigestSubs :
       wants[s].name # AnyDigest => /\ wants[s].id = DigestID[wants[s].name]
                                    /\ wants[s].id # 0
  /\ list \in [Receivers -> ListIDs] /\ handled \in [Receivers -> SUBSET DigestSubs]
  /\ \A r \in Receivers : asOf[r] \subseteq Registered

\* The inductive invariant, on top of the dispatch's.
ServiceInv == ClosureInv /\ DigestsServed

\* The subscriptions that are to have got r's list.
Served(r) ==
  {s \in (asOf[r] \ todo[r]) \cap DigestSubs :
     wants[s].name = AnyDigest \/ (list[r] # 0 /\ DigestID[wants[s].name] = list[r])}

\* What the service adds to the dispatch changes nothing of it.
LEMMA ServiceStep == [DigestNext]_<<vars, dvars>> => [Next]_vars
<1> SUFFICES ASSUME [DigestNext]_<<vars, dvars>> PROVE [Next]_vars
  OBVIOUS
<1>1. DigestSubs \subseteq Subs  BY DEF Subs
<1>2. ASSUME NEW s \in DigestSubs, NEW n \in DigestNames \cup {AnyDigest}, Subscribe(s, n)
      PROVE  Next
  BY <1>1, <1>2 DEF Subscribe, Next
<1>3. ASSUME NEW r \in Receivers, NEW k \in Kinds, NEW i \in ListIDs, Receive(r, k, i)
      PROVE  Next
  BY <1>3 DEF Receive, Next
<1>4. ASSUME NEW r \in Receivers, NEW s \in DigestSubs, CallFilter(r, s) PROVE Next
  BY <1>1, <1>4 DEF CallFilter, Next
<1>5. CASE Elsewhere  BY <1>5 DEF Elsewhere, Next
<1>6. CASE UNCHANGED <<vars, dvars>>  BY <1>6
<1>7. QED  BY <1>2, <1>3, <1>4, <1>5, <1>6 DEF DigestNext

\* The closure compares as if it looked the name up at every call.
LEMMA PassesExact ==
  ASSUME ClosureInv, NEW s \in DigestSubs, NEW i \in Nat
  PROVE  Passes(s, i) <=> wants[s].name = AnyDigest \/ (i # 0 /\ DigestID[wants[s].name] = i)
BY DigestAssumption DEF ClosureInv, Passes

\* Steps that leave the closures, the lists and the dispatches' progress alone.
LEMMA ServiceFrame ==
  ASSUME ServiceInv, UNCHANGED <<wants, list, handled, kind, todo, asOf>>,
         Registered \subseteq Registered'
  PROVE  ServiceInv'
<1>1. ClosureInv'  BY DEF ServiceInv, ClosureInv
<1>2. DigestsServed'  BY DEF ServiceInv, DigestsServed
<1>3. QED  BY <1>1, <1>2 DEF ServiceInv

\* Every step keeps the invariant.
LEMMA ServiceInductive ==
  DInv /\ DInv' /\ ServiceInv /\ [DigestNext]_<<vars, dvars>> => ServiceInv'
<1> SUFFICES ASSUME DInv, DInv', ServiceInv, [DigestNext]_<<vars, dvars>> PROVE ServiceInv'
  OBVIOUS
<1> USE DispatchAssumption DEF dispatching
<1>1. ASSUME NEW s \in DigestSubs, NEW n \in DigestNames \cup {AnyDigest}, Subscribe(s, n)
      PROVE  ServiceInv'
  <2>1. s \notin Registered /\ s \in Subs  BY <1>1 DEF Subscribe, Add, Registered, Subs
  <2>2. Registered \subseteq Registered'
    BY <1>1 DEF Subscribe, Add, Registered, DInv, TypeOK
  <2>3. UNCHANGED <<kind, todo, asOf, list, handled>>  BY <1>1 DEF Subscribe, Add
  <2>4. wants' = [wants EXCEPT ![s] = [name |-> n, id |-> IF n = AnyDigest THEN 0 ELSE DigestID[n]]]
    BY <1>1 DEF Subscribe
  <2>5. \A t \in DigestSubs : t # s => wants'[t] = wants[t]
    BY <2>4 DEF ServiceInv, ClosureInv
  <2>6. ClosureInv'
    <3>1. n # AnyDigest => DigestID[n] \in Nat \ {0}
      BY <1>1, DigestAssumption DEF Subscribe, Subscribable
    <3>2. wants' \in [DigestSubs -> [name : DigestNames \cup {AnyDigest}, id : Nat]]
      BY <2>4, <3>1 DEF ServiceInv, ClosureInv
    <3>3. wants'[s].name # AnyDigest => /\ wants'[s].id = DigestID[wants'[s].name]
                                        /\ wants'[s].id # 0
      BY <2>4, <3>1 DEF ServiceInv, ClosureInv
    <3>4. QED  BY <2>2, <2>3, <2>5, <3>2, <3>3 DEF ServiceInv, ClosureInv
  <2>7. \A r \in Receivers : s \notin asOf[r]  BY <2>1 DEF ServiceInv, ClosureInv
  <2>8. DigestsServed'  BY <2>3, <2>5, <2>7 DEF ServiceInv, DigestsServed
  <2>9. QED  BY <2>6, <2>8 DEF ServiceInv
<1>2. ASSUME NEW r \in Receivers, NEW k \in Kinds, NEW i \in ListIDs, Receive(r, k, i)
      PROVE  ServiceInv'
  <2>1. /\ UNCHANGED <<wants, id>>
        /\ list' = [list EXCEPT ![r] = i] /\ handled' = [handled EXCEPT ![r] = {}]
        /\ kind' = [kind EXCEPT ![r] = k] /\ todo' = [todo EXCEPT ![r] = Selected(k)]
        /\ ran' = [ran EXCEPT ![r] = {}] /\ asOf' = [asOf EXCEPT ![r] = InForce]
    BY <1>2 DEF Receive, Select
  <2>2. Registered' = Registered /\ InForce \subseteq Registered
    BY <2>1 DEF Registered, InForce
  <2>3. ClosureInv'  BY <2>1, <2>2 DEF ServiceInv, ClosureInv, DInv, TypeOK
  <2>4. \A q \in Receivers : q # r => /\ kind'[q] = kind[q] /\ list'[q] = list[q]
                                      /\ handled'[q] = handled[q] /\ asOf'[q] = asOf[q]
                                      /\ todo'[q] = todo[q]
    BY <2>1 DEF ServiceInv, ClosureInv, DInv, TypeOK
  <2>5. handled'[r] = {} /\ ran'[r] = {} /\ kind'[r] = k
    BY <2>1 DEF ServiceInv, ClosureInv, DInv, TypeOK
  <2>6. k = "digest" => (asOf'[r] \ todo'[r]) \cap DigestSubs = {}
    BY <2>5 DEF DInv, DispatchedOnceToAll, Meant, TypedSubs
  <2>7. DigestsServed'  BY <2>1, <2>4, <2>5, <2>6 DEF ServiceInv, DigestsServed
  <2>8. QED  BY <2>3, <2>7 DEF ServiceInv
<1>3. ASSUME NEW r \in Receivers, NEW s \in DigestSubs, CallFilter(r, s) PROVE ServiceInv'
  <2>1. /\ UNCHANGED <<wants, list, kind, asOf, id>> /\ s \in todo[r]
        /\ handled' = [handled EXCEPT ![r] =
                         IF Passes(s, list[r]) THEN handled[r] \cup {s} ELSE handled[r]]
        /\ todo' = [todo EXCEPT ![r] = @ \ {s}]
    BY <1>3 DEF CallFilter, Call
  <2>2. ClosureInv'  BY <2>1 DEF ServiceInv, ClosureInv, Registered
  <2>3. /\ handled'[r] = IF Passes(s, list[r]) THEN handled[r] \cup {s} ELSE handled[r]
        /\ todo'[r] = todo[r] \ {s}
        /\ \A q \in Receivers : q # r => handled'[q] = handled[q] /\ todo'[q] = todo[q]
    BY <2>1 DEF ServiceInv, ClosureInv, DInv, TypeOK
  <2>4. s \in asOf[r]  BY <2>1 DEF DInv, DispatchedOnceToAll
  <2>5. Passes(s, list[r]) <=>
          wants[s].name = AnyDigest \/ (list[r] # 0 /\ DigestID[wants[s].name] = list[r])
    BY PassesExact, DigestAssumption DEF ServiceInv, ClosureInv
  <2>6. DigestsServed'
    <3>1. ASSUME kind[r] = "digest" PROVE handled'[r] = Served(r)'
      <4>1. handled[r] = Served(r)  BY <3>1 DEF ServiceInv, DigestsServed, Served
      <4>2. (asOf[r] \ todo'[r]) \cap DigestSubs = ((asOf[r] \ todo[r]) \cap DigestSubs) \cup {s}
        BY <2>3, <2>4
      <4>3. Served(r)' = IF Passes(s, list[r]) THEN Served(r) \cup {s} ELSE Served(r)
        BY <2>1, <2>5, <4>2 DEF Served
      <4>4. QED  BY <2>3, <4>1, <4>3
    <3>2. ASSUME NEW q \in Receivers, q # r, kind[q] = "digest" PROVE handled'[q] = Served(q)'
      BY <2>1, <2>3, <3>2 DEF ServiceInv, DigestsServed, Served
    <3>3. QED  BY <2>1, <3>1, <3>2 DEF DigestsServed, Served
  <2>7. QED  BY <2>2, <2>6 DEF ServiceInv
<1>4. CASE Elsewhere
  <2>1. UNCHANGED <<wants, list, handled>>  BY <1>4 DEF Elsewhere, dvars
  <2>2. CASE \E s \in Subs \ DigestSubs : Add(s)
    <3>1. UNCHANGED <<kind, todo, asOf>> /\ Registered \subseteq Registered'
      BY <2>2 DEF Add, Registered, DInv, TypeOK
    <3>2. QED  BY <2>1, <3>1, ServiceFrame
  <2>3. CASE \E s \in Subs : Cancel(s)
    BY <2>1, <2>3, ServiceFrame DEF Cancel, Registered
  <2>4. ASSUME NEW r \in Receivers, NEW s \in Subs \ DigestSubs, Call(r, s) PROVE ServiceInv'
    <3>1. /\ UNCHANGED <<kind, asOf, id>>
          /\ \A q \in Receivers : todo'[q] \cap DigestSubs = todo[q] \cap DigestSubs
      BY <2>4 DEF Call, DInv, TypeOK
    <3>2. ClosureInv'  BY <2>1, <3>1 DEF ServiceInv, ClosureInv, Registered
    <3>3. \A q \in Receivers : (asOf[q] \ todo'[q]) \cap DigestSubs
                                 = (asOf[q] \ todo[q]) \cap DigestSubs
      BY <3>1
    <3>4. DigestsServed'  BY <2>1, <3>1, <3>3 DEF ServiceInv, DigestsServed
    <3>5. QED  BY <3>2, <3>4 DEF ServiceInv
  <2>5. ASSUME NEW r \in Receivers, CallReturn(r) \/ StreamDone(r) \/ TypedDone(r)
        PROVE  ServiceInv'
    <3>1. UNCHANGED <<kind, todo, asOf, id>>
      BY <2>5 DEF CallReturn, StreamDone, TypedDone
    <3>2. QED  BY <2>1, <3>1, ServiceFrame DEF Registered
  <2>6. QED  BY <1>4, <2>2, <2>3, <2>4, <2>5 DEF Elsewhere
<1>5. CASE UNCHANGED <<vars, dvars>>
  BY <1>5, ServiceFrame DEF vars, dvars, Registered
<1>6. QED  BY <1>1, <1>2, <1>3, <1>4, <1>5 DEF DigestNext

\* A digest list goes to exactly the subscriptions in force that asked for its
\* digest by name or for all.
THEOREM DigestsExact == DigestSpec => []DigestsServed
<1>1. DigestInit => Init /\ ServiceInv
  <2> SUFFICES ASSUME DigestInit PROVE Init /\ ServiceInv
    OBVIOUS
  <2>1. Init  BY DEF DigestInit
  <2>2. ClosureInv  BY DigestAssumption DEF DigestInit, Init, ClosureInv
  <2>3. DigestsServed  BY DEF DigestInit, Init, DigestsServed
  <2>4. QED  BY <2>1, <2>2, <2>3 DEF ServiceInv
<1>2. DigestSpec => Spec  BY <1>1, ServiceStep, PTL DEF DigestSpec, Spec
<1>3. ServiceInv => DigestsServed  BY DEF ServiceInv
<1>4. QED  BY <1>1, <1>2, <1>3, ServiceInductive, DispatchInvariant, PTL DEF DigestSpec
=============================================================================
