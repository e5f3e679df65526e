---------------------------- MODULE ClientProofs ----------------------------
(***************************************************************************)
(* Proofs about the client for every set of calls and channels of any      *)
(* capacity: it drives its supervisor correctly, so the supervisor's       *)
(* theorems hold inside it, Close and BecomePrimary keep their promises,   *)
(* and mastership events tell the application the supervisor's state.      *)
(***************************************************************************)
EXTENDS Client, Events, SupervisorProofs, SequenceTheorems

-----------------------------------------------------------------------------
(* Close and BecomePrimary *)

\* How far the body of Close has come, and what it has done by then.
CloseInv ==
  /\ once \in OncePc
  /\ once \in {"free", "cancel"} => ~parentDone /\ ~stop
  /\ once = "stop" => parentDone /\ ~stop
  /\ once \in {"wait", "finished"} => parentDone /\ stop
  /\ once = "finished" => stopped
  /\ DOMAIN cpc = CloseCalls
  /\ \A k \in CloseCalls : cpc[k] = "returned" => once = "finished"

\* The supervisor's own steps leave its channels stop and run's context alone,
\* and never reopen stopped.
LEMMA SupervisorFrame ==
  SupervisorStep => UNCHANGED <<stop, parentDone>> /\ (stopped => stopped')
<1> SUFFICES ASSUME SupervisorStep
    PROVE UNCHANGED <<stop, parentDone>> /\ (stopped => stopped')
  OBVIOUS
<1> USE DEF ending
<1>1. ASSUME NEW p \in Senders, SendStep(p) PROVE UNCHANGED <<stop, parentDone, stopped>>
  BY <1>1 DEF SendStep, SendEnter, SendTurnedAway, Enqueue
<1>2. ASSUME NEW c \in Closers, GraceStep(c) PROVE UNCHANGED <<stop, parentDone, stopped>>
  BY <1>2 DEF GraceStep, GraceEnter, GraceTurnedAway, GraceEnqueue
<1>3. ASSUME NEW p \in Callers, WaitStep(p) \/ Expire(p)
      PROVE  UNCHANGED <<stop, parentDone, stopped>>
  BY <1>3 DEF WaitStep, WaitCheck, WaitReturn, Expire
<1>4. CASE ConnectStep
  BY <1>4 DEF ConnectStep, LoopTop, DialOK, DialErr, ArbSendOK, ArbFail, ArbOK, Sleep
<1>5. CASE ServeStep
  BY <1>5 DEF ServeStep, ServeStop, ServeArbitration, ServeRecvErr, ServeReject, ServeSend,
              AfterFunc, SendDone, FailPop, FailDone
<1>6. CASE ExitStep
  BY <1>6 DEF ExitStep, HalfClose, HalfCloseErr, FinishStatus, FinishStop, ExitState, ExitDone
<1>7. ASSUME NEW s \in Streams, RecvStep(s) PROVE UNCHANGED <<stop, parentDone, stopped>>
  BY <1>7 DEF RecvStep, RecvMessage, RecvFail, RecvQuit, HandlerReturn, Receiving
<1>8. QED  BY <1>1, <1>2, <1>3, <1>4, <1>5, <1>6, <1>7 DEF SupervisorStep

\* Every step of the client keeps the order of Close.
LEMMA CloseStepInv == CloseInv /\ [ClientNext]_cvars => CloseInv'
<1> SUFFICES ASSUME CloseInv, [ClientNext]_cvars PROVE CloseInv'
  OBVIOUS
<1> USE DEF OncePc, ending, closing, waiting, own
<1>0. ASSUME UNCHANGED <<once, cpc, stop, parentDone>>, stopped => stopped' PROVE CloseInv'
  BY <1>0 DEF CloseInv
<1>a. ASSUME NEW k \in CloseCalls, CallClose(k), UNCHANGED vars PROVE CloseInv'
  <2>1. /\ UNCHANGED <<stop, parentDone, stopped>> /\ DOMAIN cpc' = CloseCalls
        /\ cpc'[k] = "close" /\ \A j \in CloseCalls : j # k => cpc'[j] = cpc[j]
    BY <1>a DEF CallClose, vars, CloseInv
  <2>2. QED  BY <1>a, <2>1 DEF CallClose, CloseInv
<1>1. CASE DialOpen
  <2>1. /\ UNCHANGED <<once, stop, parentDone, stopped>> /\ DOMAIN cpc' = CloseCalls
        /\ \A j \in CloseCalls : cpc'[j] = "returned" => cpc[j] = "returned"
    BY <1>1 DEF DialOpen, vars, CloseInv
  <2>2. QED  BY <2>1 DEF CloseInv
<1>2. CASE DialGiveUp  BY <1>2, <1>a DEF DialGiveUp, CloseCalls
<1>3. ASSUME NEW u \in Users, UserClose(u) PROVE CloseInv'
  BY <1>3, <1>a DEF UserClose, CloseCalls
<1>4. ASSUME NEW c \in Closers, ClientGraceStart(c) \/ ClientGraceClose(c) PROVE CloseInv'
  <2>1. CASE ClientGraceStart(c)  BY <2>1, <1>0 DEF ClientGraceStart, GraceStart
  <2>2. CASE ClientGraceClose(c)  BY <2>2, <1>a DEF ClientGraceClose, CloseCalls
  <2>3. QED  BY <1>4, <2>1, <2>2
<1>5. ASSUME NEW w \in Waiters, BecomePrimary(w) \/ WatchState(w) \/ Wake(w) \/ GiveUp(w)
      PROVE  CloseInv'
  BY <1>5, <1>0 DEF BecomePrimary, WatchState, Wake, GiveUp, vars
<1>6. ASSUME NEW p \in Senders, SendStreamRequest(p) PROVE CloseInv'
  BY <1>6, <1>0 DEF SendStreamRequest, SendStart, vars
<1>7. CASE CloseStep
  <2>1. CASE CloseCancelCtx  BY <2>1 DEF CloseCancelCtx, CloseInv
  <2>2. CASE CloseStopSupervisor  BY <2>2 DEF CloseStopSupervisor, CloseStop, CloseInv
  <2>3. CASE CloseRelease  BY <2>3 DEF CloseRelease, vars, CloseInv
  <2>4. ASSUME NEW k \in CloseCalls, CloseReturn(k) PROVE CloseInv'
    <3>1. /\ UNCHANGED <<once, stop, parentDone, stopped>> /\ DOMAIN cpc' = CloseCalls
          /\ once = "finished"
      BY <2>4 DEF CloseReturn, vars, CloseInv
    <3>2. QED  BY <3>1 DEF CloseInv
  <2>5. QED  BY <1>7, <2>1, <2>2, <2>3, <2>4 DEF CloseStep
<1>8. CASE SupervisorStep  BY <1>8, <1>0, SupervisorFrame DEF SupervisorStep
<1>9. CASE UNCHANGED cvars  BY <1>9, <1>0 DEF cvars, vars
<1>10. QED
  BY <1>1, <1>2, <1>3, <1>4, <1>5, <1>6, <1>7, <1>8, <1>9 DEF ClientNext, ClientTerminated

\* The order of Close holds in every reachable state.
LEMMA CloseInvariant == ClientSpec => []CloseInv
<1>1. ClientInit => CloseInv  BY DEF ClientInit, Init, CloseInv, OncePc, CloseCalls
<1>2. QED  BY <1>1, CloseStepInv, PTL DEF ClientSpec

\* Every step of the client is a step of its supervisor or leaves it alone.
LEMMA ClientStepIsSupervisorStep == CloseInv /\ [ClientNext]_cvars => [Next]_vars
<1> SUFFICES ASSUME CloseInv, [ClientNext]_cvars PROVE Next \/ UNCHANGED vars
  OBVIOUS
<1>1. CASE DialOpen \/ DialGiveUp  BY <1>1 DEF DialOpen, DialGiveUp
<1>2. ASSUME NEW u \in Users, UserClose(u) PROVE UNCHANGED vars  BY <1>2 DEF UserClose
<1>3. ASSUME NEW c \in Closers, ClientGraceStart(c) \/ ClientGraceClose(c)
      PROVE  Next \/ UNCHANGED vars
  BY <1>3 DEF ClientGraceStart, ClientGraceClose, Next
<1>4. ASSUME NEW w \in Waiters, BecomePrimary(w) \/ WatchState(w) \/ Wake(w) \/ GiveUp(w)
      PROVE  UNCHANGED vars
  BY <1>4 DEF BecomePrimary, WatchState, Wake, GiveUp
<1>5. ASSUME NEW p \in Senders, SendStreamRequest(p) PROVE Next \/ UNCHANGED vars
  BY <1>5 DEF SendStreamRequest, Next
<1>6. CASE CloseStep
  <2>1. CASE CloseCancelCtx
    <3>1. ParentCancel  BY <2>1 DEF CloseCancelCtx, CloseInv, ParentCancel
    <3>2. QED  BY <3>1 DEF Next
  <2>2. CASE CloseStopSupervisor  BY <2>2 DEF CloseStopSupervisor, Next
  <2>3. CASE CloseRelease  BY <2>3 DEF CloseRelease
  <2>4. ASSUME NEW k \in CloseCalls, CloseReturn(k) PROVE UNCHANGED vars
    BY <2>4 DEF CloseReturn
  <2>5. QED  BY <1>6, <2>1, <2>2, <2>3, <2>4 DEF CloseStep
<1>7. CASE SupervisorStep  BY <1>7 DEF SupervisorStep, Next
<1>8. CASE UNCHANGED cvars  BY <1>8 DEF cvars
<1>9. QED
  BY <1>1, <1>2, <1>3, <1>4, <1>5, <1>6, <1>7, <1>8 DEF ClientNext, ClientTerminated, cvars

\* The client uses its supervisor as the Supervisor module says it is used, so
\* every theorem about the supervisor is one about the client's.
THEOREM ClientDrivesSupervisor == ClientSpec => DrivesSupervisor
<1>1. ClientInit => Init  BY DEF ClientInit
<1>2. QED
  BY <1>1, CloseInvariant, ClientStepIsSupervisorStep, PTL DEF ClientSpec, Spec, DrivesSupervisor

\* When Close, CloseGracefully or a failed Dial returns, the supervisor has
\* stopped and mastership is gone.
THEOREM ClientReleased == ClientSpec => []Released
<1>1. CloseInv /\ IInv => Released
  BY DEF CloseInv, IInv, LoopInv, Released
<1>2. QED
  BY <1>1, CloseInvariant, ClientDrivesSupervisor, Invariant, PTL DEF DrivesSupervisor

\* Every reachable state of the client is well typed.
THEOREM ClientTypes == ClientSpec => []ClientTypeOK
<1>1. ClientInit => ClientTypeOK
  BY DEF ClientInit, ClientTypeOK, OncePc, CloseCalls
<1>2. ASSUME ClientTypeOK, [ClientNext]_cvars PROVE ClientTypeOK'
  <2> USE DEF own, closing, waiting, OncePc
  <2>1. CASE DialOpen \/ DialGiveUp
    BY <1>2, <2>1 DEF DialOpen, DialGiveUp, CallClose, ClientTypeOK
  <2>2. ASSUME NEW u \in Users, UserClose(u) PROVE ClientTypeOK'
    BY <1>2, <2>2 DEF UserClose, CallClose, ClientTypeOK
  <2>3. ASSUME NEW c \in Closers, ClientGraceStart(c) \/ ClientGraceClose(c) PROVE ClientTypeOK'
    BY <1>2, <2>3 DEF ClientGraceStart, ClientGraceClose, CallClose, ClientTypeOK
  <2>4. ASSUME NEW w \in Waiters, BecomePrimary(w) \/ WatchState(w) \/ Wake(w) \/ GiveUp(w)
        PROVE  ClientTypeOK'
    BY <1>2, <2>4 DEF BecomePrimary, WatchState, Wake, GiveUp, Round, Answer, Proceed,
                      ClientTypeOK
  <2>5. ASSUME NEW p \in Senders, SendStreamRequest(p) PROVE ClientTypeOK'
    BY <1>2, <2>5 DEF SendStreamRequest, ClientTypeOK
  <2>6. CASE CloseStep
    BY <1>2, <2>6 DEF CloseStep, CloseCancelCtx, CloseStopSupervisor, CloseRelease, CloseReturn,
                      ClientTypeOK
  <2>7. CASE SupervisorStep  BY <1>2, <2>7 DEF SupervisorStep, Woken, ClientTypeOK
  <2>8. CASE UNCHANGED cvars  BY <1>2, <2>8 DEF cvars, ClientTypeOK
  <2>9. QED
    BY <1>2, <2>1, <2>2, <2>3, <2>4, <2>5, <2>6, <2>7, <2>8 DEF ClientNext, ClientTerminated
<1>3. QED  BY <1>1, <1>2, PTL DEF ClientSpec

\* No BecomePrimary call misses the change to primary between its WatchState
\* and its select.
THEOREM NoPrimaryMissed == ClientSpec => []NoMissedPrimary
<1> DEFINE WInv == /\ DOMAIN wpc = Waiters /\ watching \subseteq Waiters
                   /\ NoMissedPrimary
<1>1. ClientInit => WInv  BY DEF ClientInit, NoMissedPrimary
<1>2. ASSUME WInv, [ClientNext]_cvars PROVE WInv'
  <2> USE DEF own, closing, waiting, mastership
  <2>0. ASSUME UNCHANGED <<state, wpc, watching>> PROVE WInv'
    BY <1>2, <2>0 DEF NoMissedPrimary
  \* A waiter moves anywhere but to its select.
  <2>a. ASSUME NEW w \in Waiters, NEW l, l # "block", wpc' = [wpc EXCEPT ![w] = l],
               UNCHANGED <<state, watching>>
        PROVE  WInv'
    BY <1>2, <2>a DEF NoMissedPrimary
  <2>1. CASE DialOpen \/ DialGiveUp  BY <2>1, <2>0 DEF DialOpen, DialGiveUp, vars
  <2>2. ASSUME NEW u \in Users, UserClose(u) PROVE WInv'  BY <2>2, <2>0 DEF UserClose, vars
  <2>3. ASSUME NEW c \in Closers, ClientGraceStart(c) \/ ClientGraceClose(c) PROVE WInv'
    BY <2>3, <2>0 DEF ClientGraceStart, ClientGraceClose, GraceStart, vars
  <2>4. ASSUME NEW w \in Waiters, BecomePrimary(w) PROVE WInv'
    BY <2>4, <2>a DEF BecomePrimary, Round, Answer, Proceed, vars
  <2>5. ASSUME NEW w \in Waiters, WatchState(w) PROVE WInv'
    <3>1. CASE state = "primary"  BY <2>5, <3>1, <2>a DEF WatchState, Answer, vars
    <3>2. CASE state # "primary"
      <4>1. wpc' = [wpc EXCEPT ![w] = "block"] /\ watching' = watching \cup {w} /\ state' = state
        BY <2>5, <3>2 DEF WatchState, Proceed, vars
      <4>2. QED  BY <1>2, <3>2, <4>1 DEF NoMissedPrimary
    <3>3. QED  BY <3>1, <3>2
  <2>6. ASSUME NEW w \in Waiters, Wake(w) \/ GiveUp(w) PROVE WInv'
    BY <2>6, <2>a DEF Wake, GiveUp, Round, Answer, Proceed, vars
  <2>7. ASSUME NEW p \in Senders, SendStreamRequest(p) PROVE WInv'
    BY <2>7, <2>0 DEF SendStreamRequest, SendStart, vars
  <2>8. CASE CloseStep
    BY <2>8, <2>0 DEF CloseStep, CloseCancelCtx, CloseStopSupervisor, CloseStop, CloseRelease,
                      CloseReturn, vars
  <2>9. CASE SupervisorStep
    <3>1. UNCHANGED wpc /\ watching' = IF state' = state THEN watching ELSE {}
      BY <2>9 DEF SupervisorStep, Woken
    <3>2. QED  BY <1>2, <3>1 DEF NoMissedPrimary
  <2>10. CASE UNCHANGED cvars  BY <2>10, <2>0 DEF cvars, vars
  <2>11. QED
    BY <1>2, <2>1, <2>2, <2>3, <2>4, <2>5, <2>6, <2>7, <2>8, <2>9, <2>10
    DEF ClientNext, ClientTerminated
<1>3. WInv => NoMissedPrimary  OBVIOUS
<1>4. QED  BY <1>1, <1>2, <1>3, PTL DEF ClientSpec

-----------------------------------------------------------------------------
(* Mastership events *)

\* Both channels hold states and never more than their capacity.
ChannelInv ==
  /\ supEvents \in Seq(State) /\ Len(supEvents) <= EventCap
  /\ cliEvents \in Seq(State) /\ Len(cliEvents) <= EventCap
  /\ seen \in State

\* The inductive invariant, on top of the supervisor's.
EventsInv == ChannelInv /\ EventsTrackState

\* setState is the only writer of the state: a step of the supervisor that is
\* none of its callers leaves the state alone.
LEMMA OnlySetState == IInv /\ Next /\ ~SetsState => state' = state
<1> SUFFICES ASSUME IInv, Next, ~SetsState PROVE state' = state
  OBVIOUS
<1> USE DEF mastership
<1>1. ASSUME NEW p \in Senders, SendStart(p) \/ SendStep(p) PROVE state' = state
  BY <1>1 DEF SendStart, SendStep, SendEnter, SendTurnedAway, Enqueue
<1>2. ASSUME NEW c \in Closers, GraceStart(c) \/ GraceStep(c) PROVE state' = state
  BY <1>2 DEF GraceStart, GraceStep, GraceEnter, GraceTurnedAway, GraceEnqueue
<1>3. ASSUME NEW p \in Callers, WaitStep(p) \/ Expire(p) PROVE state' = state
  BY <1>3 DEF WaitStep, WaitCheck, WaitReturn, Expire
<1>4. CASE CloseStop \/ CloseCancel \/ ParentCancel \/ Terminated
  BY <1>4 DEF CloseStop, CloseCancel, ParentCancel, Terminated, vars
<1>5. CASE ConnectStep
  BY <1>5 DEF ConnectStep, LoopTop, DialOK, DialErr, ArbSendOK, ArbFail, ArbOK, Sleep,
              LeaveStream, SetsState
<1>6. CASE ServeStep
  <2>1. CASE ServeArbitration
    <3>1. cur \in Streams /\ DOMAIN recv = Streams
      BY <2>1 DEF ServeArbitration, IInv, TypeOK, LoopInv
    <3>2. mpc' = mpc /\ recv'[cur] = "recv" BY <2>1, <3>1 DEF ServeArbitration, main
    <3>. QED BY <2>1, <3>2 DEF ServeArbitration, SetsState
  <2>2. CASE ServeRecvErr BY <2>2 DEF ServeRecvErr, SetsState
  <2>3. ASSUME NEW e, SendDone(e) PROVE state' = state BY <2>3 DEF SendDone, SetsState
  <2>. QED
    BY <1>6, <2>1, <2>2, <2>3
    DEF ServeStep, ServeStop, ServeReject, ServeSend, AfterFunc, FailPop, FailDone
<1>7. CASE ExitStep
  BY <1>7 DEF ExitStep, HalfClose, HalfCloseErr, FinishStatus, FinishStop, ExitState, ExitDone,
              SetState, SetsState
<1>8. ASSUME NEW s \in Streams, RecvStep(s) PROVE state' = state
  BY <1>8 DEF RecvStep, RecvMessage, RecvFail, RecvQuit, HandlerReturn, Receiving
<1>. QED BY <1>1, <1>2, <1>3, <1>4, <1>5, <1>6, <1>7, <1>8 DEF Next

\* The last of what the application saw and two channels is the last of the
\* last channel that holds an event.
LEMMA LastCases ==
  ASSUME NEW sup \in Seq(State), NEW cli \in Seq(State), NEW e \in State,
         NEW all, all = <<e>> \o cli \o sup
  PROVE  all[Len(all)] = IF sup # <<>> THEN sup[Len(sup)]
                         ELSE IF cli # <<>> THEN cli[Len(cli)] ELSE e
<1> DEFINE first == <<e>> \o cli
<1>1. <<e>> \in Seq(State) /\ Len(<<e>>) = 1 /\ <<e>>[1] = e OBVIOUS
<1>2. /\ first \in Seq(State) /\ Len(first) = 1 + Len(cli)
      /\ \A i \in 1..Len(first) : first[i] = IF i <= 1 THEN <<e>>[i] ELSE cli[i - 1]
  BY <1>1, ConcatProperties
<1>3. /\ Len(cli) \in Nat /\ Len(sup) \in Nat
      /\ cli # <<>> <=> Len(cli) > 0
      /\ sup # <<>> <=> Len(sup) > 0
  BY LenProperties, EmptySeq
<1>4. first[Len(first)] = IF cli # <<>> THEN cli[Len(cli)] ELSE e
  BY <1>1, <1>2, <1>3
<1>5. all = first \o sup OBVIOUS
<1> HIDE DEF first
<1>6. /\ Len(all) = Len(first) + Len(sup)
      /\ \A i \in 1..(Len(first) + Len(sup)) :
           all[i] = IF i <= Len(first) THEN first[i] ELSE sup[i - Len(first)]
  BY <1>2, <1>5, ConcatProperties
<1>7. all[Len(all)] = IF sup # <<>> THEN sup[Len(sup)] ELSE first[Len(first)]
  BY <1>2, <1>3, <1>6
<1>. QED BY <1>4, <1>7

\* A channel that is offered an event takes it as its last or is full.
LEMMA OfferFacts ==
  ASSUME NEW ch \in Seq(State), Len(ch) <= EventCap, NEW e \in State
  PROVE  /\ Offer(ch, e) \in Seq(State) /\ Len(Offer(ch, e)) <= EventCap
         /\ Len(ch) # EventCap => /\ Offer(ch, e) # <<>>
                                  /\ Offer(ch, e)[Len(Offer(ch, e))] = e
<1>1. Len(ch) \in Nat BY LenProperties
<1>2. CASE Len(ch) < EventCap
  <2>1. Offer(ch, e) = Append(ch, e) BY <1>2 DEF Offer
  <2>2. /\ Append(ch, e) \in Seq(State) /\ Append(ch, e) # <<>>
        /\ Len(Append(ch, e)) = Len(ch) + 1 /\ Append(ch, e)[Len(ch) + 1] = e
    BY AppendProperties
  <2>. QED BY <1>1, <1>2, <2>1, <2>2, EventsAssumption
<1>3. CASE Len(ch) >= EventCap
  <2>1. Offer(ch, e) = ch BY <1>1, <1>3, EventsAssumption DEF Offer
  <2>. QED BY <1>1, <1>3, <2>1, EventsAssumption
<1>. QED BY <1>1, <1>2, <1>3, EventsAssumption

\* Taking an event from a channel leaves the last one where it is, unless it
\* was the only one.
LEMMA TakeFacts ==
  ASSUME NEW ch \in Seq(State), ch # <<>>, Len(ch) <= EventCap
  PROVE  /\ Head(ch) \in State /\ Tail(ch) \in Seq(State) /\ Len(Tail(ch)) <= EventCap
         /\ IF Tail(ch) # <<>> THEN Tail(ch)[Len(Tail(ch))] = ch[Len(ch)]
                               ELSE Head(ch) = ch[Len(ch)]
<1>1. Len(ch) \in Nat \ {0} BY EmptySeq
<1>2. /\ Head(ch) \in State /\ Head(ch) = ch[1] /\ Tail(ch) \in Seq(State)
      /\ Len(Tail(ch)) = Len(ch) - 1
      /\ \A i \in 1..Len(Tail(ch)) : Tail(ch)[i] = ch[i + 1]
  BY <1>1, HeadTailProperties
<1>3. Tail(ch) # <<>> => Len(Tail(ch)) \in Nat \ {0} BY <1>2, EmptySeq
<1>4. Tail(ch) = <<>> => Len(Tail(ch)) = 0 BY EmptySeq
<1>. QED BY <1>1, <1>2, <1>3, <1>4, EventsAssumption

\* The steps of the four parties keep the invariant.
LEMMA PublishKeeps == IInv /\ IInv' /\ EventsInv /\ Publish => EventsInv'
<1> SUFFICES ASSUME IInv, IInv', EventsInv, Publish PROVE EventsInv'
  OBVIOUS
<1>1. state' \in State BY DEF IInv, TypeOK, State
<1>2. UNCHANGED <<cliEvents, seen>> BY DEF Publish
<1>3. CASE SetsState
  <2>1. /\ supEvents' = Offer(supEvents, state')
        /\ dropped' = (dropped \/ Len(supEvents) = EventCap)
    BY <1>3 DEF Publish
  <2>2. /\ supEvents' \in Seq(State) /\ Len(supEvents') <= EventCap
        /\ Len(supEvents) # EventCap => /\ supEvents' # <<>>
                                        /\ supEvents'[Len(supEvents')] = state'
    BY <1>1, <2>1, OfferFacts DEF EventsInv, ChannelInv
  <2>3. ChannelInv' BY <1>2, <2>2 DEF EventsInv, ChannelInv, State
  <2>4. EventsTrackState'
    <3>1. LastEvent' = IF supEvents' # <<>> THEN supEvents'[Len(supEvents')]
                       ELSE IF cliEvents' # <<>> THEN cliEvents'[Len(cliEvents')] ELSE seen'
      BY <2>3, LastCases DEF LastEvent, ChannelInv, State
    <3>. QED BY <2>1, <2>2, <3>1 DEF EventsTrackState
  <2>. QED BY <2>3, <2>4 DEF EventsInv
<1>4. CASE ~SetsState
  <2>1. UNCHANGED <<supEvents, dropped, cliEvents, seen>> BY <1>4 DEF Publish
  <2>2. state' = state BY <1>4, OnlySetState DEF Publish
  <2>3. ChannelInv' BY <2>1 DEF EventsInv, ChannelInv, State
  <2>4. EventsTrackState' BY <2>1, <2>2 DEF EventsInv, EventsTrackState, LastEvent
  <2>. QED BY <2>3, <2>4 DEF EventsInv
<1>. QED BY <1>3, <1>4

LEMMA ForwardKeeps == EventsInv /\ Forward => EventsInv'
<1> SUFFICES ASSUME EventsInv, Forward PROVE EventsInv'
  OBVIOUS
<1> DEFINE e == Head(supEvents)
<1>1. /\ supEvents' = Tail(supEvents) /\ cliEvents' = Offer(cliEvents, e)
      /\ dropped' = (dropped \/ Len(cliEvents) = EventCap)
      /\ UNCHANGED <<state, seen>> /\ supEvents # <<>>
  BY DEF Forward, vars, mastership
<1>2. /\ e \in State /\ supEvents' \in Seq(State) /\ Len(supEvents') <= EventCap
      /\ IF supEvents' # <<>> THEN supEvents'[Len(supEvents')] = supEvents[Len(supEvents)]
                              ELSE e = supEvents[Len(supEvents)]
  BY <1>1, TakeFacts DEF EventsInv, ChannelInv
<1> HIDE DEF e
<1>3. /\ cliEvents' \in Seq(State) /\ Len(cliEvents') <= EventCap
      /\ Len(cliEvents) # EventCap => /\ cliEvents' # <<>>
                                      /\ cliEvents'[Len(cliEvents')] = e
  BY <1>1, <1>2, OfferFacts DEF EventsInv, ChannelInv
<1>4. ChannelInv' BY <1>1, <1>2, <1>3 DEF EventsInv, ChannelInv, State
<1>5. LastEvent = supEvents[Len(supEvents)]
  BY <1>1, LastCases DEF EventsInv, LastEvent, ChannelInv
<1>6. LastEvent' = IF supEvents' # <<>> THEN supEvents'[Len(supEvents')]
                   ELSE IF cliEvents' # <<>> THEN cliEvents'[Len(cliEvents')] ELSE seen'
  BY <1>4, LastCases DEF LastEvent, ChannelInv, State
<1>7. EventsTrackState'
  BY <1>1, <1>2, <1>3, <1>5, <1>6 DEF EventsInv, EventsTrackState
<1>. QED BY <1>4, <1>7 DEF EventsInv

LEMMA ReceiveKeeps == EventsInv /\ Receive => EventsInv'
<1> SUFFICES ASSUME EventsInv, Receive PROVE EventsInv'
  OBVIOUS
<1>1. /\ cliEvents # <<>> /\ cliEvents' = Tail(cliEvents) /\ seen' = Head(cliEvents)
      /\ UNCHANGED <<state, supEvents, dropped>>
  BY DEF Receive, vars, mastership
<1>2. /\ seen' \in State /\ cliEvents' \in Seq(State) /\ Len(cliEvents') <= EventCap
      /\ IF cliEvents' # <<>> THEN cliEvents'[Len(cliEvents')] = cliEvents[Len(cliEvents)]
                              ELSE seen' = cliEvents[Len(cliEvents)]
  BY <1>1, TakeFacts DEF EventsInv, ChannelInv
<1>3. ChannelInv' BY <1>1, <1>2 DEF EventsInv, ChannelInv, State
<1>4. LastEvent = IF supEvents # <<>> THEN supEvents[Len(supEvents)]
                  ELSE cliEvents[Len(cliEvents)]
  BY <1>1, LastCases DEF EventsInv, LastEvent, ChannelInv
<1>5. LastEvent' = IF supEvents' # <<>> THEN supEvents'[Len(supEvents')]
                   ELSE IF cliEvents' # <<>> THEN cliEvents'[Len(cliEvents')] ELSE seen'
  BY <1>3, LastCases DEF LastEvent, ChannelInv, State
<1>6. EventsTrackState' BY <1>1, <1>2, <1>4, <1>5 DEF EventsInv, EventsTrackState
<1>. QED BY <1>3, <1>6 DEF EventsInv

\* The events an application gets lead up to the supervisor's state unless a
\* full channel dropped one, whatever the capacity of the channels.
THEOREM EventsTrack == EventsSpec => []EventsTrackState
<1>1. EventsInit => IInv /\ EventsInv
  <2> SUFFICES ASSUME EventsInit PROVE IInv /\ EventsInv
    OBVIOUS
  <2>1. IInv BY InvInit DEF EventsInit
  <2>2. /\ supEvents = <<>> /\ cliEvents = <<>> /\ seen = "disconnected"
        /\ state = "disconnected" /\ Len(<<>>) = 0 /\ <<>> \in Seq(State)
    BY DEF EventsInit, Init
  <2>3. ChannelInv BY <2>2, EventsAssumption DEF ChannelInv, State
  <2>4. EventsTrackState BY <2>2, <2>3, LastCases DEF EventsTrackState, LastEvent, ChannelInv
  <2>. QED BY <2>1, <2>3, <2>4 DEF EventsInv
<1>2. IInv /\ EventsInv /\ [EventsNext]_evars => IInv' /\ EventsInv'
  <2> SUFFICES ASSUME IInv, EventsInv, [EventsNext]_evars PROVE IInv' /\ EventsInv'
    OBVIOUS
  <2>1. [Next]_vars
    BY DEF EventsNext, Publish, Forward, ForwardEnd, Receive, evars
  <2>2. IInv' BY <2>1, InvStep
  <2>3. CASE ForwardEnd \/ UNCHANGED evars
    <3>1. UNCHANGED <<state, supEvents, cliEvents, dropped, seen>>
      BY <2>3 DEF ForwardEnd, evars, events, vars, mastership
    <3>. QED BY <2>2, <3>1 DEF EventsInv, ChannelInv, EventsTrackState, LastEvent, State
  <2>. QED BY <2>2, <2>3, PublishKeeps, ForwardKeeps, ReceiveKeeps DEF EventsNext
<1>3. EventsInv => EventsTrackState BY DEF EventsInv
<1>. QED BY <1>1, <1>2, <1>3, PTL DEF EventsSpec
=============================================================================
