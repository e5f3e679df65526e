-------------------------- MODULE SupervisorProofs --------------------------
(***************************************************************************)
(* Machine-checked proofs about the supervisor, for every set of calls and *)
(* streams and every queue capacity: its invariants, that it implements    *)
(* the session contract of StreamSession, that no message is sent under    *)
(* another mastership than its own, and that a stopped supervisor stays as *)
(* it is.                                                                  *)
(***************************************************************************)
EXTENDS Tenure, TLAPS

\* Taking the head off a non-empty queue shifts it by one.
LEMMA TailFacts ==
  ASSUME NEW S, NEW q \in Seq(S), q # << >>
  PROVE  /\ Head(q) = q[1] /\ Head(q) \in S
         /\ Tail(q) \in Seq(S) /\ Len(Tail(q)) = Len(q) - 1
         /\ Len(q) \in Nat \ {0}
         /\ \A i \in 1..Len(Tail(q)) : Tail(q)[i] = q[i + 1] /\ i + 1 \in 1..Len(q)
OBVIOUS

\* Appending keeps every place and adds one.
LEMMA AppendFacts ==
  ASSUME NEW S, NEW q \in Seq(S), NEW e \in S
  PROVE  /\ Append(q, e) \in Seq(S) /\ Len(Append(q, e)) = Len(q) + 1
         /\ Len(q) \in Nat
         /\ Append(q, e)[Len(q) + 1] = e
         /\ \A i \in 1..Len(q) : Append(q, e)[i] = q[i]
OBVIOUS

\* Leaving a stream keeps the types of the main loop's variables.
LEMMA LeaveTypes ==
  ASSUME TypeOK, NEW next \in MainPc, LeaveStream(next)
  PROVE  /\ mpc' \in MainPc /\ cur' \in Streams \cup {None} /\ req' \in Callers \cup {None}
         /\ failErr' \in {"none", "ctx", "transport"} /\ interrupted' \in BOOLEAN
         /\ recv' \in [Streams -> RecvPc]
<1>1. recv' \in [Streams -> RecvPc]  BY DEF TypeOK, LeaveStream, RecvPc
<1>2. interrupted' \in BOOLEAN  BY Zenon DEF LeaveStream
<1>3. mpc' = next /\ cur' = None /\ req' = None /\ failErr' = "none"  BY DEF LeaveStream
<1>4. QED  BY <1>1, <1>2, <1>3

\* The initial state satisfies the type invariant.
LEMMA TypeInit == Init => TypeOK
<1> SUFFICES ASSUME Init PROVE TypeOK  OBVIOUS
<1>1. sendCh \in Seq(Callers) /\ Len(sendCh) <= QueueCap
  BY SupervisorAssumption DEF Init
<1>2. QED
  BY <1>1, SupervisorAssumption
  DEF Init, TypeOK, State, MainPc, RecvPc, CallPc, Result, Callers

\* Every step keeps the variables in their types and the queue within its
\* capacity.
LEMMA TypeStep == TypeOK /\ GateInv /\ [Next]_vars => TypeOK'
<1> SUFFICES ASSUME TypeOK, GateInv, [Next]_vars PROVE TypeOK'
  OBVIOUS
<1> USE SupervisorAssumption
    DEF State, MainPc, RecvPc, CallPc, Result, Callers,
        mastership, queue, ending, main, calls, history
<1>1. ASSUME NEW p \in Senders, SendStart(p) \/ SendStep(p) PROVE TypeOK'
  <2>1. CASE SendStart(p)  BY <2>1 DEF TypeOK, SendStart, Return, Goto
  <2>2. CASE SendEnter(p)  BY <2>2 DEF TypeOK, SendEnter, Goto
  <2>3. CASE SendTurnedAway(p)  BY <2>3 DEF TypeOK, SendTurnedAway, Return
  <2>4. CASE Enqueue(p)
    <3>1. sendCh' \in Seq(Callers) /\ Len(sendCh') <= QueueCap
      <4>1. CASE sendCh' = sendCh  BY <4>1 DEF TypeOK
      <4>2. CASE HasRoom /\ sendCh' = Append(sendCh, p)
        BY <4>2, AppendFacts DEF TypeOK, HasRoom
      <4>3. QED  BY <2>4, <4>1, <4>2 DEF Enqueue
    <3>2. pc' \in [Callers -> CallPc] /\ ret' \in [Callers -> Result]
      BY <2>4 DEF TypeOK, Enqueue, Return, Goto
    <3>3. QED  BY <2>4, <3>1, <3>2 DEF TypeOK, Enqueue
  <2>5. QED  BY <1>1, <2>1, <2>2, <2>3, <2>4 DEF SendStep
<1>2. ASSUME NEW c \in Closers, GraceStart(c) \/ GraceStep(c) PROVE TypeOK'
  <2>1. CASE GraceStart(c)  BY <2>1 DEF TypeOK, GraceStart, Return, Goto
  <2>2. CASE GraceEnter(c)
    <3>1. done' \in [Callers -> Result]  BY <2>2 DEF TypeOK, GraceEnter, Finished
    <3>2. grace' \in Closers \cup {None} /\ gate' \in Callers \cup {None} /\ draining' \in BOOLEAN
      BY <2>2 DEF TypeOK, GraceEnter
    <3>3. pc' \in [Callers -> CallPc] /\ ret' = ret  BY <2>2 DEF TypeOK, GraceEnter, Goto
    <3>4. QED  BY <2>2, <3>1, <3>2, <3>3 DEF TypeOK, GraceEnter
  <2>3. CASE GraceTurnedAway(c)  BY <2>3 DEF TypeOK, GraceTurnedAway, Return
  <2>4. CASE GraceEnqueue(c)
    <3>1. sendCh' \in Seq(Callers) /\ Len(sendCh') <= QueueCap
      <4>1. CASE sendCh' = sendCh  BY <4>1 DEF TypeOK
      <4>2. CASE HasRoom /\ sendCh' = Append(sendCh, c)
        BY <4>2, AppendFacts DEF TypeOK, HasRoom
      <4>3. QED  BY <2>4, <4>1, <4>2 DEF GraceEnqueue
    <3>2. done' \in [Callers -> Result]  BY <2>4 DEF TypeOK, GraceEnqueue, Finished
    <3>3. QED  BY <2>4, <3>1, <3>2 DEF TypeOK, GraceEnqueue, Goto
  <2>5. QED  BY <1>2, <2>1, <2>2, <2>3, <2>4 DEF GraceStep
<1>3. ASSUME NEW p \in Callers, WaitStep(p) \/ Expire(p) PROVE TypeOK'
  <2>1. CASE Expire(p)  BY <2>1 DEF TypeOK, Expire
  <2>2. CASE WaitCheck(p)
    <3>1. done[RequestOf(p)] \in Result  BY <2>2 DEF TypeOK, GateInv, WaitCheck, RequestOf
    <3>2. QED  BY <2>2, <3>1 DEF TypeOK, WaitCheck, Return, Goto
  <2>3. CASE WaitReturn(p)
    <3>1. done[RequestOf(p)] \in Result  BY <2>3 DEF TypeOK, GateInv, WaitReturn, RequestOf
    <3>2. QED  BY <2>3, <3>1 DEF TypeOK, WaitReturn, Return, AfterStopped
  <2>4. QED  BY <1>3, <2>1, <2>2, <2>3 DEF WaitStep
<1>4. CASE CloseStop \/ CloseCancel \/ ParentCancel
  <2>1. CASE CloseStop  BY <2>1 DEF TypeOK, CloseStop
  <2>2. CASE CloseCancel  BY <2>2 DEF TypeOK, CloseCancel
  <2>3. CASE ParentCancel  BY <2>3 DEF TypeOK, ParentCancel
  <2>4. QED  BY <1>4, <2>1, <2>2, <2>3
<1>5. CASE ConnectStep
  <2>1. CASE LoopTop  BY <2>1 DEF TypeOK, LoopTop, SetState
  <2>2. ASSUME NEW s \in Streams, DialOK(s) PROVE TypeOK'  BY <2>2 DEF TypeOK, DialOK
  <2>3. CASE DialErr  BY <2>3 DEF TypeOK, DialErr, SetState
  <2>4. CASE ArbSendOK  BY <2>4 DEF TypeOK, ArbSendOK
  <2>5. CASE ArbFail
    <3>1. LeaveStream("sleep") /\ "sleep" \in MainPc  BY <2>5 DEF ArbFail, MainPc
    <3>2. state' \in State /\ current' \subseteq Senders  BY <2>5 DEF TypeOK, ArbFail, SetState, State
    <3>3. QED  BY <2>5, <3>1, <3>2, LeaveTypes DEF TypeOK, ArbFail
  <2>6. ASSUME NEW m, ArbOK(m) PROVE TypeOK'
    <3>1. state' \in State /\ current' \subseteq Senders
      BY <2>6 DEF TypeOK, ArbOK, SetState, ArbState
    <3>2. recv' \in [Streams -> RecvPc]  BY <2>6 DEF TypeOK, ArbOK
    <3>3. QED  BY <2>6, <3>1, <3>2 DEF TypeOK, ArbOK
  <2>7. CASE Sleep  BY <2>7 DEF TypeOK, Sleep
  <2>8. QED  BY <1>5, <2>1, <2>2, <2>3, <2>4, <2>5, <2>6, <2>7 DEF ConnectStep
<1>6. CASE ServeStep
  <2>1. CASE ServeStop
    <3>1. LeaveStream("top") /\ "top" \in MainPc  BY <2>1 DEF ServeStop, MainPc
    <3>2. QED  BY <2>1, <3>1, LeaveTypes DEF TypeOK, ServeStop
  <2>2. CASE ServeArbitration
    <3>1. state' \in State /\ current' \subseteq Senders
      BY <2>2 DEF TypeOK, ServeArbitration, SetState, ArbState
    <3>2. recv' \in [Streams -> RecvPc]  BY <2>2 DEF TypeOK, ServeArbitration
    <3>3. QED  BY <2>2, <3>1, <3>2 DEF TypeOK, ServeArbitration
  <2>3. CASE ServeRecvErr  BY <2>3 DEF TypeOK, ServeRecvErr, SetState
  <2>4. CASE ServeReject  BY <2>4, TailFacts DEF TypeOK, ServeReject, Finished
  <2>5. CASE ServeSend  BY <2>5, TailFacts DEF TypeOK, ServeSend
  <2>6. CASE AfterFunc  BY <2>6 DEF TypeOK, AfterFunc
  <2>7. ASSUME NEW e \in {"ok", "transport"}, SendDone(e) PROVE TypeOK'
    <3>1. SendResult(e) \in {"ok", "ctx", "transport"}  BY <2>7 DEF SendResult
    <3>2. done' \in [Callers -> Result]  BY <2>7, <3>1 DEF TypeOK, SendDone, Finished
    <3>3. state' \in State /\ current' \subseteq Senders
      BY <2>7 DEF TypeOK, SendDone, SetState
    <3>4. QED  BY <2>7, <3>1, <3>2, <3>3 DEF TypeOK, SendDone
  <2>8. CASE FailPop  BY <2>8, TailFacts DEF TypeOK, FailPop, Finished
  <2>9. CASE FailDone
    <3>1. LeaveStream("top") /\ "top" \in MainPc  BY <2>9 DEF FailDone, MainPc
    <3>2. QED  BY <2>9, <3>1, LeaveTypes DEF TypeOK, FailDone
  <2>10. QED
    BY <1>6, <2>1, <2>2, <2>3, <2>4, <2>5, <2>6, <2>7, <2>8, <2>9 DEF ServeStep
<1>7. CASE ExitStep
  <2>1. CASE HalfClose  BY <2>1, TailFacts DEF TypeOK, HalfClose
  <2>2. CASE HalfCloseErr
    <3>1. sendCh' \in Seq(Callers) /\ Len(sendCh') <= QueueCap
      BY <2>2, TailFacts DEF TypeOK, HalfCloseErr
    <3>2. done' \in [Callers -> Result]  BY <2>2 DEF TypeOK, HalfCloseErr, Finished
    <3>3. LeaveStream("exit") /\ "exit" \in MainPc  BY <2>2 DEF HalfCloseErr, MainPc
    <3>4. QED  BY <2>2, <3>1, <3>2, <3>3, LeaveTypes DEF TypeOK, HalfCloseErr
  <2>3. CASE FinishStatus
    <3>1. done' \in [Callers -> Result]  BY <2>3 DEF TypeOK, FinishStatus, Finished, Result
    <3>2. LeaveStream("exit") /\ "exit" \in MainPc  BY <2>3 DEF FinishStatus, MainPc
    <3>3. QED  BY <2>3, <3>1, <3>2, LeaveTypes DEF TypeOK, FinishStatus
  <2>4. CASE FinishStop
    <3>1. done' \in [Callers -> Result]  BY <2>4 DEF TypeOK, FinishStop, Finished, Result
    <3>2. LeaveStream("exit") /\ "exit" \in MainPc  BY <2>4 DEF FinishStop, MainPc
    <3>3. QED  BY <2>4, <3>1, <3>2, LeaveTypes DEF TypeOK, FinishStop
  <2>5. CASE ExitState  BY <2>5 DEF TypeOK, ExitState, SetState
  <2>6. CASE ExitDone  BY <2>6 DEF TypeOK, ExitDone
  <2>7. QED  BY <1>7, <2>1, <2>2, <2>3, <2>4, <2>5, <2>6 DEF ExitStep
<1>8. ASSUME NEW s \in Streams, RecvStep(s) PROVE TypeOK'
  BY <1>8 DEF TypeOK, RecvStep, RecvMessage, RecvFail, RecvQuit, HandlerReturn, Receiving
<1>9. CASE UNCHANGED vars  BY <1>9 DEF TypeOK, vars
<1>10. QED
  BY <1>1, <1>2, <1>3, <1>4, <1>5, <1>6, <1>7, <1>8, <1>9 DEF Next, Terminated

\* What the queue part says of its head.
LEMMA HeadFacts ==
  ASSUME IInv, sendCh # << >>
  PROVE  /\ Head(sendCh) \in Callers
         /\ pc[Head(sendCh)] \in {"wait", "block", "returned"}
         /\ done[Head(sendCh)] = "none" /\ Head(sendCh) \notin wire
         /\ Head(sendCh) \in Closers => Head(sendCh) = grace /\ Len(sendCh) = 1
         /\ ~halfClosed /\ Queued(Head(sendCh))
<1>1. Head(sendCh) = sendCh[1] /\ 1 \in 1..Len(sendCh) /\ Head(sendCh) \in Callers
  BY TailFacts DEF IInv, TypeOK
<1>2. QED  BY <1>1 DEF IInv, QueueInv, Queued

-----------------------------------------------------------------------------
(* The main loop's part of the invariant *)

\* Each point of the main loop keeps the state, stream and request it goes with.
LEMMA LoopStep == IInv /\ [Next]_vars => LoopInv'
<1> SUFFICES ASSUME IInv, [Next]_vars PROVE LoopInv'
  OBVIOUS
<1> USE SupervisorAssumption DEF mastership, queue, ending, main, calls, history, Callers
<1> DEFINE Frame == /\ UNCHANGED <<state, main, stopped>>
                    /\ stop => stop'
                    /\ parentDone => parentDone'
                    /\ draining => draining'
                    /\ grace # None => grace' = grace
                    /\ ctxDone \subseteq ctxDone'
<1>0. ASSUME Frame PROVE LoopInv'
  BY <1>0 DEF LoopInv, IInv
<1>1. ASSUME NEW p \in Senders, SendStart(p) \/ SendStep(p) PROVE LoopInv'
  BY <1>1, <1>0 DEF SendStart, SendStep, SendEnter, SendTurnedAway, Enqueue
<1>2. ASSUME NEW c \in Closers, GraceStart(c) \/ GraceStep(c) PROVE LoopInv'
  BY <1>2, <1>0 DEF GraceStart, GraceStep, GraceEnter, GraceTurnedAway, GraceEnqueue
<1>3. ASSUME NEW p \in Callers, WaitStep(p) \/ Expire(p) PROVE LoopInv'
  BY <1>3, <1>0 DEF WaitStep, WaitCheck, WaitReturn, Expire
<1>4. CASE CloseStop \/ CloseCancel \/ ParentCancel
  BY <1>4, <1>0 DEF CloseStop, CloseCancel, ParentCancel
<1>5. CASE ConnectStep
  <2>1. CASE LoopTop  BY <2>1 DEF LoopInv, IInv, LoopTop, Ending, SetState
  <2>2. ASSUME NEW s \in Streams, DialOK(s) PROVE LoopInv'
    BY <2>2 DEF LoopInv, IInv, DialOK
  <2>3. CASE DialErr  BY <2>3 DEF LoopInv, IInv, DialErr, SetState
  <2>4. CASE ArbSendOK  BY <2>4 DEF LoopInv, IInv, ArbSendOK
  <2>5. CASE ArbFail  BY <2>5 DEF LoopInv, IInv, ArbFail, SetState, LeaveStream
  <2>6. ASSUME NEW m, ArbOK(m) PROVE LoopInv'
    BY <2>6 DEF LoopInv, IInv, ArbOK, SetState, ArbState
  <2>7. CASE Sleep  BY <2>7 DEF LoopInv, IInv, Sleep
  <2>8. QED  BY <1>5, <2>1, <2>2, <2>3, <2>4, <2>5, <2>6, <2>7 DEF ConnectStep
<1>6. CASE ServeStep
  <2>1. CASE ServeStop  BY <2>1 DEF LoopInv, IInv, ServeStop, CtxDone, LeaveStream
  <2>2. CASE ServeArbitration
    BY <2>2 DEF LoopInv, IInv, ServeArbitration, SetState, ArbState
  <2>3. CASE ServeRecvErr  BY <2>3 DEF LoopInv, IInv, ServeRecvErr, SetState
  <2>4. CASE ServeReject  BY <2>4, <1>0 DEF ServeReject
  <2>5. CASE ServeSend  BY <2>5 DEF LoopInv, IInv, ServeSend
  <2>6. CASE AfterFunc  BY <2>6 DEF LoopInv, IInv, AfterFunc
  <2>7. ASSUME NEW e \in {"ok", "transport"}, SendDone(e) PROVE LoopInv'
    <3>1. interrupted => SendResult(e) = "ctx"
      BY <2>7 DEF LoopInv, IInv, SendDone, SendResult
    <3>2. SendResult(e) \in {"ok", "ctx", "transport"}  BY <2>7 DEF SendResult
    <3>3. CASE SendResult(e) = "ok"  BY <2>7, <3>1, <3>3 DEF LoopInv, IInv, SendDone
    <3>4. CASE SendResult(e) # "ok"
      BY <2>7, <3>2, <3>4 DEF LoopInv, IInv, SendDone, SetState
    <3>5. QED  BY <3>3, <3>4
  <2>8. CASE FailPop  BY <2>8, <1>0 DEF FailPop
  <2>9. CASE FailDone  BY <2>9 DEF LoopInv, IInv, FailDone, LeaveStream
  <2>10. QED
    BY <1>6, <2>1, <2>2, <2>3, <2>4, <2>5, <2>6, <2>7, <2>8, <2>9 DEF ServeStep
<1>7. CASE ExitStep
  <2>1. CASE HalfClose \/ HalfCloseErr
    <3>1. Head(sendCh) \in Closers /\ Head(sendCh) = grace /\ draining
      BY <2>1, HeadFacts DEF IInv, GateInv, HalfClose, HalfCloseErr
    <3>2. CASE HalfClose  BY <3>1, <3>2 DEF LoopInv, IInv, HalfClose
    <3>3. CASE HalfCloseErr  BY <3>1, <3>3 DEF LoopInv, IInv, HalfCloseErr, LeaveStream
    <3>4. QED  BY <2>1, <3>2, <3>3
  <2>2. CASE FinishStatus  BY <2>2 DEF LoopInv, IInv, FinishStatus, LeaveStream
  <2>3. CASE FinishStop  BY <2>3 DEF LoopInv, IInv, FinishStop, LeaveStream
  <2>4. CASE ExitState  BY <2>4 DEF LoopInv, IInv, ExitState, SetState
  <2>5. CASE ExitDone  BY <2>5 DEF LoopInv, IInv, ExitDone
  <2>6. QED  BY <1>7, <2>1, <2>2, <2>3, <2>4, <2>5 DEF ExitStep
<1>8. ASSUME NEW s \in Streams, RecvStep(s) PROVE LoopInv'
  BY <1>8, <1>0 DEF RecvStep, RecvMessage, RecvFail, RecvQuit, HandlerReturn, Receiving
<1>9. CASE UNCHANGED vars  BY <1>9, <1>0 DEF vars
<1>10. QED
  BY <1>1, <1>2, <1>3, <1>4, <1>5, <1>6, <1>7, <1>8, <1>9 DEF Next, Terminated

-----------------------------------------------------------------------------
(* The send gate *)

\* The send gate has one holder, and grace and draining are set together.
LEMMA GateStep == IInv /\ [Next]_vars => GateInv'
<1> SUFFICES ASSUME IInv, [Next]_vars PROVE GateInv'
  OBVIOUS
<1> USE SupervisorAssumption DEF mastership, queue, ending, main, calls, history, Callers
<1>0. ASSUME UNCHANGED <<pc, gate, draining, grace>> PROVE GateInv'
  BY <1>0 DEF GateInv, IInv
<1>1. ASSUME NEW p \in Senders, SendStart(p) \/ SendStep(p) PROVE GateInv'
  <2>1. CASE SendStart(p)
    BY <2>1 DEF GateInv, IInv, TypeOK, SendStart, Return, Goto
  <2>2. CASE SendEnter(p)  BY <2>2 DEF GateInv, IInv, TypeOK, SendEnter, Goto
  <2>3. CASE SendTurnedAway(p)
    BY <2>3 DEF GateInv, IInv, TypeOK, SendTurnedAway, Return
  <2>4. CASE Enqueue(p)  BY <2>4 DEF GateInv, IInv, TypeOK, Enqueue, Return, Goto
  <2>5. QED  BY <1>1, <2>1, <2>2, <2>3, <2>4 DEF SendStep
<1>2. ASSUME NEW c \in Closers, GraceStart(c) \/ GraceStep(c) PROVE GateInv'
  <2>1. CASE GraceStart(c)
    BY <2>1 DEF GateInv, IInv, TypeOK, GraceStart, Return, Goto
  <2>2. CASE GraceEnter(c)
    BY <2>2 DEF GateInv, IInv, TypeOK, GraceEnter, TakeGate, Goto
  <2>3. CASE GraceTurnedAway(c)
    BY <2>3 DEF GateInv, IInv, TypeOK, GraceTurnedAway, Return
  <2>4. CASE GraceEnqueue(c)
    BY <2>4 DEF GateInv, IInv, TypeOK, GraceEnqueue, Goto
  <2>5. QED  BY <1>2, <2>1, <2>2, <2>3, <2>4 DEF GraceStep
<1>3. ASSUME NEW p \in Callers, WaitStep(p) \/ Expire(p) PROVE GateInv'
  <2>1. CASE Expire(p)  BY <2>1, <1>0 DEF Expire
  <2>2. CASE WaitCheck(p)
    BY <2>2 DEF GateInv, IInv, TypeOK, WaitCheck, Return, Goto
  <2>3. CASE WaitReturn(p)  BY <2>3 DEF GateInv, IInv, TypeOK, WaitReturn, Return
  <2>4. QED  BY <1>3, <2>1, <2>2, <2>3 DEF WaitStep
<1>4. CASE CloseStop \/ CloseCancel \/ ParentCancel
  BY <1>4, <1>0 DEF CloseStop, CloseCancel, ParentCancel
<1>5. CASE ConnectStep
  BY <1>5, <1>0 DEF ConnectStep, LoopTop, DialOK, DialErr, ArbSendOK, ArbFail, ArbOK, Sleep
<1>6. CASE ServeStep
  BY <1>6, <1>0 DEF ServeStep, ServeStop, ServeArbitration, ServeRecvErr, ServeReject,
     ServeSend, AfterFunc, SendDone, FailPop, FailDone
<1>7. CASE ExitStep
  BY <1>7, <1>0
  DEF ExitStep, HalfClose, HalfCloseErr, FinishStatus, FinishStop, ExitState, ExitDone
<1>8. ASSUME NEW s \in Streams, RecvStep(s) PROVE GateInv'
  BY <1>8, <1>0 DEF RecvStep, RecvMessage, RecvFail, RecvQuit, HandlerReturn, Receiving
<1>9. CASE UNCHANGED vars  BY <1>9, <1>0 DEF vars
<1>10. QED
  BY <1>1, <1>2, <1>3, <1>4, <1>5, <1>6, <1>7, <1>8, <1>9 DEF Next, Terminated

-----------------------------------------------------------------------------
(* The queue *)

\* Requests stay queued once, unanswered and unsent, with the half-close last,
\* and nothing is queued after CloseSend.
LEMMA QueueStep == IInv /\ [Next]_vars => QueueInv'
<1> SUFFICES ASSUME IInv, [Next]_vars PROVE QueueInv'
  OBVIOUS
<1> USE SupervisorAssumption DEF mastership, queue, ending, main, calls, history, Callers
<1>a. /\ sendCh \in Seq(Callers) /\ Len(sendCh) \in Nat
      /\ \A i \in 1..Len(sendCh) : sendCh[i] \in Callers
  BY DEF IInv, TypeOK
<1>0. ASSUME UNCHANGED <<sendCh, pc, done, wire, grace, halfClosed, draining>>,
             halfClosed => mpc' \in {"finish", "exit", "exitFail", "done"}
      PROVE  QueueInv'
  BY <1>0 DEF QueueInv, IInv
\* A call that is not queued moves on.
<1>b. ASSUME NEW p \in Callers, pc[p] \in {"idle", "gate", "push", "wait", "block"},
             UNCHANGED <<sendCh, done, wire, grace, halfClosed, draining, mpc>>,
             NEW l \in {"gate", "wait", "block", "returned"},
             pc' = [pc EXCEPT ![p] = l],
             l # "gate" \/ pc[p] = "idle"
      PROVE  QueueInv'
  BY <1>a, <1>b DEF QueueInv, IInv, TypeOK
\* The head is taken and its request perhaps finished.
<1>c. ASSUME sendCh # << >>, sendCh' = Tail(sendCh),
             \A p \in Callers : p # Head(sendCh) => done'[p] = done[p],
             wire' \subseteq wire \cup {Head(sendCh)}, ~halfClosed, ~halfClosed',
             UNCHANGED <<pc, grace>>
      PROVE  QueueInv'
  <2>1. ~halfClosed'  BY <1>c
  <2>2. \A i \in 1..Len(sendCh') : /\ sendCh'[i] = sendCh[i + 1] /\ i + 1 \in 1..Len(sendCh)
                                   /\ sendCh'[i] # Head(sendCh) /\ sendCh'[i] \in Callers
    BY <1>a, <1>c, TailFacts DEF QueueInv, IInv
  <2>3. Len(sendCh') = Len(sendCh) - 1  BY <1>a, <1>c, TailFacts
  <2>4. \A i, j \in 1..Len(sendCh') : sendCh'[i] = sendCh'[j] => i = j
    BY <1>a, <2>2, <2>3 DEF QueueInv, IInv
  <2>5. \A i \in 1..Len(sendCh') :
          /\ pc'[sendCh'[i]] \in {"wait", "block", "returned"}
          /\ done'[sendCh'[i]] = "none"
          /\ sendCh'[i] \notin wire'
          /\ sendCh'[i] \in Closers => sendCh'[i] = grace' /\ i = Len(sendCh')
    <3> TAKE i \in 1..Len(sendCh')
    <3>1. sendCh'[i] = sendCh[i + 1] /\ i + 1 \in 1..Len(sendCh) /\ sendCh'[i] # Head(sendCh)
      BY <2>2
    <3>2. /\ pc[sendCh[i + 1]] \in {"wait", "block", "returned"}
          /\ done[sendCh[i + 1]] = "none" /\ sendCh[i + 1] \notin wire
          /\ sendCh[i + 1] \in Closers => sendCh[i + 1] = grace /\ i + 1 = Len(sendCh)
      BY <3>1 DEF QueueInv, IInv
    <3>3. done'[sendCh[i + 1]] = done[sendCh[i + 1]]  BY <1>a, <1>c, <3>1
    <3>4. i \in Nat /\ Len(sendCh) \in Nat  BY <1>a
    <3>5. sendCh'[i] \in Closers => i = Len(sendCh')  BY <2>3, <3>1, <3>2, <3>4
    <3>6. sendCh'[i] \notin wire'  BY <1>c, <3>1, <3>2
    <3>7. UNCHANGED <<pc, grace>>  BY <1>c
    <3>8. QED  BY <3>1, <3>2, <3>3, <3>5, <3>6, <3>7
  <2>6. QED  BY <2>1, <2>4, <2>5 DEF QueueInv
\* A call appends its request.
<1>d. ASSUME NEW p \in Callers, pc[p] = "push", sendCh' = Append(sendCh, p),
             pc' = [pc EXCEPT ![p] = "wait"], UNCHANGED <<done, wire, grace, halfClosed>>
      PROVE  QueueInv'
  <2>1. /\ Len(sendCh') = Len(sendCh) + 1 /\ sendCh'[Len(sendCh) + 1] = p
        /\ \A i \in 1..Len(sendCh) : sendCh'[i] = sendCh[i]
    BY <1>a, <1>d, AppendFacts
  <2>2. \A i \in 1..Len(sendCh) : sendCh[i] # p
    BY <1>d DEF QueueInv, IInv
  <2>3. done[p] = "none" /\ p \notin wire
    BY <1>d DEF ResultInv, IInv, TypeOK
  <2>4. p \in Closers => grace = p
    BY <1>d DEF GateInv, IInv
  <2>5. \A i \in 1..Len(sendCh) : sendCh[i] \notin Closers
    BY <1>d, <2>2, <2>4 DEF GateInv, QueueInv, IInv, TypeOK
  <2>6. ~halfClosed
    BY <1>d, <2>4 DEF GateInv, QueueInv, IInv
  <2>7. \A i, j \in 1..Len(sendCh') : sendCh'[i] = sendCh'[j] => i = j
    BY <1>a, <2>1, <2>2 DEF QueueInv, IInv
  <2>8. \A i \in 1..Len(sendCh') :
          /\ pc'[sendCh'[i]] \in {"wait", "block", "returned"}
          /\ done'[sendCh'[i]] = "none"
          /\ sendCh'[i] \notin wire'
          /\ sendCh'[i] \in Closers => sendCh'[i] = grace' /\ i = Len(sendCh')
    BY <1>a, <1>d, <2>1, <2>2, <2>3, <2>4, <2>5 DEF QueueInv, IInv, TypeOK
  <2>9. QED  BY <1>d, <2>6, <2>7, <2>8 DEF QueueInv
<1>1. ASSUME NEW p \in Senders, SendStart(p) \/ SendStep(p) PROVE QueueInv'
  <2>1. CASE SendStart(p)  BY <2>1, <1>b DEF SendStart, Return, Goto
  <2>2. CASE SendEnter(p)
    BY <2>2, <1>a DEF QueueInv, GateInv, IInv, TypeOK, SendEnter, Goto
  <2>3. CASE SendTurnedAway(p)  BY <2>3, <1>b DEF SendTurnedAway, Return
  <2>4. CASE Enqueue(p)
    <3>1. CASE sendCh' = Append(sendCh, p) /\ Goto(p, "wait")
      BY <2>4, <3>1, <1>d DEF Enqueue, Goto
    <3>2. CASE sendCh' = sendCh /\ pc' = [pc EXCEPT ![p] = "returned"]
      BY <2>4, <3>2, <1>b DEF Enqueue
    <3>3. QED  BY <2>4, <3>1, <3>2 DEF Enqueue, Return
  <2>5. QED  BY <1>1, <2>1, <2>2, <2>3, <2>4 DEF SendStep
<1>2. ASSUME NEW c \in Closers, GraceStart(c) \/ GraceStep(c) PROVE QueueInv'
  <2>1. CASE GraceStart(c)  BY <2>1, <1>b DEF GraceStart, Return, Goto
  <2>2. CASE GraceEnter(c)
    <3>1. CASE grace # None  BY <2>2, <3>1, <1>b DEF GraceEnter, TakeGate, Goto
    <3>2. CASE grace = None
      <4>1. \A i \in 1..Len(sendCh) : sendCh[i] # c /\ sendCh[i] \notin Closers
        BY <2>2, <3>2, <1>a DEF QueueInv, IInv, GraceEnter, TakeGate
      <4>2. ~halfClosed  BY <3>2 DEF QueueInv, GateInv, IInv
      <4>3. \A i \in 1..Len(sendCh) : pc'[sendCh[i]] = pc[sendCh[i]] /\ done'[sendCh[i]] = done[sendCh[i]]
        BY <2>2, <4>1, <1>a DEF GraceEnter, Goto, Finished, IInv, TypeOK
      <4>4. UNCHANGED <<sendCh, wire, halfClosed>>  BY <2>2 DEF GraceEnter
      <4>5. QED  BY <4>1, <4>2, <4>3, <4>4 DEF QueueInv, IInv
    <3>3. QED  BY <3>1, <3>2
  <2>3. CASE GraceTurnedAway(c)  BY <2>3, <1>b DEF GraceTurnedAway, Return
  <2>4. CASE GraceEnqueue(c)
    <3>1. CASE sendCh' = Append(sendCh, c) /\ UNCHANGED done
      BY <2>4, <3>1, <1>d DEF GraceEnqueue, Goto
    <3>2. CASE sendCh' = sendCh /\ (\E e \in {"ctx", "stopped"} : done' = Finished(c, e))
      <4>1. \A i \in 1..Len(sendCh) : sendCh[i] # c
        BY <2>4, <1>a DEF QueueInv, IInv, GraceEnqueue
      <4>2. ~halfClosed  BY <2>4 DEF QueueInv, GateInv, IInv, GraceEnqueue
      <4>3. \A i \in 1..Len(sendCh) : pc'[sendCh[i]] = pc[sendCh[i]] /\ done'[sendCh[i]] = done[sendCh[i]]
        BY <2>4, <3>2, <4>1, <1>a DEF GraceEnqueue, Goto, Finished, IInv, TypeOK
      <4>4. UNCHANGED <<wire, halfClosed, grace>>  BY <2>4 DEF GraceEnqueue
      <4>5. QED  BY <3>2, <4>1, <4>2, <4>3, <4>4 DEF QueueInv, IInv
    <3>3. QED  BY <2>4, <3>1, <3>2 DEF GraceEnqueue
  <2>5. QED  BY <1>2, <2>1, <2>2, <2>3, <2>4 DEF GraceStep
<1>3. ASSUME NEW p \in Callers, WaitStep(p) \/ Expire(p) PROVE QueueInv'
  <2>1. CASE Expire(p)  BY <2>1, <1>0 DEF Expire, QueueInv, IInv
  <2>2. CASE WaitCheck(p)  BY <2>2, <1>b DEF WaitCheck, Return, Goto
  <2>3. CASE WaitReturn(p)  BY <2>3, <1>b DEF WaitReturn, Return
  <2>4. QED  BY <1>3, <2>1, <2>2, <2>3 DEF WaitStep
<1>4. CASE CloseStop \/ CloseCancel \/ ParentCancel
  BY <1>4, <1>0 DEF CloseStop, CloseCancel, ParentCancel, QueueInv, IInv
<1>5. CASE ConnectStep
  BY <1>5, <1>0 DEF ConnectStep, LoopTop, DialOK, DialErr, ArbSendOK, ArbFail, ArbOK, Sleep,
     QueueInv, IInv
<1>6. CASE ServeStep
  <2>1. CASE ServeStop \/ ServeArbitration \/ ServeRecvErr \/ AfterFunc \/ FailDone
    BY <2>1, <1>0 DEF ServeStop, ServeArbitration, ServeRecvErr, AfterFunc, FailDone,
       QueueInv, IInv
  <2>2. CASE ServeReject
    BY <2>2, <1>c, <1>a, TailFacts DEF ServeReject, Finished, QueueInv, IInv, TypeOK
  <2>3. CASE ServeSend  BY <2>3, <1>c DEF ServeSend, QueueInv, IInv
  <2>4. ASSUME NEW e \in {"ok", "transport"}, SendDone(e) PROVE QueueInv'
    <3>1. req \in Senders /\ InTransit(req) /\ req \in wire
      BY <2>4 DEF SendDone, InTransit, LoopInv, ResultInv, IInv
    <3>2. \A i \in 1..Len(sendCh) : sendCh[i] # req  BY <3>1 DEF QueueInv, IInv
    <3>3. \A i \in 1..Len(sendCh) : done'[sendCh[i]] = done[sendCh[i]]
      BY <2>4, <3>2, <1>a DEF SendDone, Finished, IInv, TypeOK
    <3>4. ~halfClosed  BY <2>4 DEF SendDone, QueueInv, IInv
    <3>5. QED  BY <2>4, <3>3, <3>4 DEF SendDone, QueueInv, IInv
  <2>5. CASE FailPop
    <3>1. ~halfClosed  BY <2>5 DEF FailPop, QueueInv, IInv
    <3>2. QED
      BY <2>5, <3>1, <1>c, <1>a, TailFacts DEF FailPop, Finished, IInv, TypeOK
  <2>6. QED  BY <1>6, <2>1, <2>2, <2>3, <2>4, <2>5 DEF ServeStep
<1>7. CASE ExitStep
  <2>1. CASE HalfClose
    <3>1. Head(sendCh) = sendCh[1] /\ sendCh[1] \in Closers /\ 1 \in 1..Len(sendCh)
      BY <2>1, <1>a, TailFacts DEF HalfClose
    <3>2. Len(sendCh) = 1 /\ sendCh[1] = grace /\ pc[grace] # "push" /\ draining
      <4>1. Len(sendCh) = 1 /\ sendCh[1] = grace /\ pc[sendCh[1]] # "push"
        BY <3>1 DEF QueueInv, IInv
      <4>2. grace # None  BY <3>1, <4>1
      <4>3. QED  BY <4>1, <4>2 DEF GateInv, IInv
    <3>3. sendCh' = << >>  BY <2>1, <3>2, <1>a DEF HalfClose
    <3>4. QED  BY <2>1, <3>2, <3>3 DEF HalfClose, QueueInv
  <2>2. CASE HalfCloseErr
    BY <2>2, <1>c, <1>a, TailFacts DEF HalfCloseErr, Finished, QueueInv, IInv, TypeOK
  <2>3. CASE FinishStatus \/ FinishStop
    <3>1. req \in Closers /\ halfClosed /\ sendCh = << >>
      BY <2>3 DEF FinishStatus, FinishStop, LoopInv, ResultInv, QueueInv, IInv
    <3>2. /\ UNCHANGED <<sendCh, pc, wire, grace, halfClosed, draining>>
          /\ mpc' = "exit" /\ Len(sendCh) = 0
      BY <2>3, <3>1 DEF FinishStatus, FinishStop, LeaveStream
    <3>3. QED  BY <3>1, <3>2 DEF QueueInv, IInv
  <2>4. CASE ExitState \/ ExitDone
    BY <2>4, <1>0 DEF ExitState, ExitDone, QueueInv, IInv
  <2>5. QED  BY <1>7, <2>1, <2>2, <2>3, <2>4 DEF ExitStep
<1>8. ASSUME NEW s \in Streams, RecvStep(s) PROVE QueueInv'
  BY <1>8, <1>0 DEF RecvStep, RecvMessage, RecvFail, RecvQuit, HandlerReturn, Receiving,
     QueueInv, IInv
<1>9. CASE UNCHANGED vars  BY <1>9, <1>0 DEF vars, QueueInv, IInv
<1>10. QED
  BY <1>1, <1>2, <1>3, <1>4, <1>5, <1>6, <1>7, <1>8, <1>9 DEF Next, Terminated

-----------------------------------------------------------------------------
(* Results *)

\* A pop leaves every other request queued.
LEMMA QueuedTail ==
  ASSUME TypeOK, sendCh # << >>, sendCh' = Tail(sendCh), NEW p, p # Head(sendCh), Queued(p)
  PROVE  Queued(p)'
<1>1. PICK i \in 1..Len(sendCh) : sendCh[i] = p  BY DEF Queued
<1>2. i # 1 /\ Len(sendCh) \in Nat  BY <1>1, TailFacts DEF TypeOK
<1>3. i - 1 \in 1..Len(Tail(sendCh)) /\ Tail(sendCh)[i - 1] = sendCh[i]
  BY <1>2, TailFacts DEF TypeOK
<1>4. QED  BY <1>1, <1>3 DEF Queued

\* An append queues its request and leaves the others queued.
LEMMA QueuedAppend ==
  ASSUME TypeOK, NEW e \in Callers, sendCh' = Append(sendCh, e), NEW p,
         Queued(p) \/ p = e
  PROVE  Queued(p)'
<1>1. /\ Len(Append(sendCh, e)) = Len(sendCh) + 1 /\ Len(sendCh) \in Nat
      /\ Append(sendCh, e)[Len(sendCh) + 1] = e
      /\ \A i \in 1..Len(sendCh) : Append(sendCh, e)[i] = sendCh[i]
  BY AppendFacts DEF TypeOK
<1>2. CASE p = e  BY <1>1, <1>2 DEF Queued
<1>3. CASE Queued(p)  BY <1>1, <1>3 DEF Queued
<1>4. QED  BY <1>2, <1>3

\* The result of a request stays true of the stream.
LEMMA ResultStep == IInv /\ [Next]_vars => ResultInv'
<1> SUFFICES ASSUME IInv, [Next]_vars PROVE ResultInv'
  OBVIOUS
<1> USE SupervisorAssumption DEF mastership, queue, ending, main, calls, history, Callers
\* Nothing the results depend on changes.
<1>0. ASSUME UNCHANGED <<pc, done, wire, halfClosed, sendCh, req>>,
             mpc' = "sending" <=> mpc = "sending", mpc' = "finish" => mpc = "finish"
      PROVE  ResultInv'
  BY <1>0 DEF ResultInv, IInv, Queued, InTransit
\* A call moves on without its request.
<1>a. ASSUME NEW p \in Callers, NEW l \in CallPc, pc' = [pc EXCEPT ![p] = l],
             l \in {"idle", "gate", "push"} => pc[p] \in {"idle", "gate", "push"},
             l \in {"wait", "block"} => pc[p] \in {"wait", "block"} \/ p \in Closers,
             UNCHANGED <<done, wire, halfClosed, sendCh, mpc, req>>
      PROVE  ResultInv'
  BY <1>a DEF ResultInv, IInv, TypeOK, Queued, InTransit
\* The head of the queue is answered without being sent.
<1>b. ASSUME sendCh # << >>, sendCh' = Tail(sendCh), NEW e \in Result \ {"none", "ok"},
             Head(sendCh) \in Closers => e # "notPrimary",
             done' = Finished(Head(sendCh), e),
             UNCHANGED <<pc, wire, halfClosed>>,
             \/ UNCHANGED <<mpc, req>> /\ mpc \notin {"sending", "finish"}
             \/ mpc = "serve" /\ mpc' = "exit"
      PROVE  ResultInv'
  <2>1. done' = [done EXCEPT ![Head(sendCh)] = e]
    BY <1>b, HeadFacts DEF Finished, IInv, TypeOK
  <2>2. \A p \in Senders : p # Head(sendCh) /\ Queued(p) => Queued(p)'
    BY <1>b, QueuedTail DEF IInv
  <2>3. \A p \in Senders : ~InTransit(p) /\ ~InTransit(p)'  BY <1>b DEF InTransit
  <2>4. mpc' # "finish"  BY <1>b
  <2>5. QED
    BY <1>b, <2>1, <2>2, <2>3, <2>4, HeadFacts DEF ResultInv, IInv, TypeOK
<1>1. ASSUME NEW p \in Senders, SendStart(p) \/ SendStep(p) PROVE ResultInv'
  <2>1. CASE SendStart(p)  BY <2>1, <1>a DEF SendStart, Return, Goto, CallPc
  <2>2. CASE SendEnter(p)  BY <2>2, <1>a DEF SendEnter, Goto, CallPc
  <2>3. CASE SendTurnedAway(p)  BY <2>3, <1>a DEF SendTurnedAway, Return, CallPc
  <2>4. CASE Enqueue(p)
    <3>1. CASE sendCh' = Append(sendCh, p) /\ Goto(p, "wait")
      <4>1. \A q \in Senders : Queued(q) \/ q = p => Queued(q)'
        BY <3>1, QueuedAppend DEF IInv
      <4>2. UNCHANGED <<done, wire, halfClosed, mpc, req>>  BY <2>4 DEF Enqueue
      <4>3. \A q \in Senders : InTransit(q)' <=> InTransit(q)  BY <4>2 DEF InTransit
      <4>4. pc' = [pc EXCEPT ![p] = "wait"]  BY <3>1 DEF Goto
      <4>5. QED  BY <4>1, <4>2, <4>3, <4>4 DEF ResultInv, IInv, TypeOK
    <3>2. CASE sendCh' = sendCh /\ pc' = [pc EXCEPT ![p] = "returned"]
      BY <2>4, <3>2, <1>a DEF Enqueue, CallPc
    <3>3. QED  BY <2>4, <3>1, <3>2 DEF Enqueue, Return
  <2>5. QED  BY <1>1, <2>1, <2>2, <2>3, <2>4 DEF SendStep
<1>2. ASSUME NEW c \in Closers, GraceStart(c) \/ GraceStep(c) PROVE ResultInv'
  <2>1. CASE GraceStart(c)  BY <2>1, <1>a DEF GraceStart, Return, Goto, CallPc
  <2>2. CASE GraceEnter(c)
    <3>1. CASE UNCHANGED done
      BY <2>2, <3>1, <1>a DEF GraceEnter, TakeGate, Goto, CallPc
    <3>2. CASE stopped /\ done' = Finished(c, "stopped") /\ Goto(c, "wait")
      <4>1. mpc = "done" /\ c \notin Senders  BY <3>2 DEF LoopInv, IInv
      <4>2. done' = [done EXCEPT ![c] = "stopped"] /\ pc' = [pc EXCEPT ![c] = "wait"]
        BY <2>2, <3>2 DEF ResultInv, IInv, TypeOK, Finished, Goto, GraceEnter, TakeGate
      <4>3. UNCHANGED <<wire, halfClosed, sendCh, mpc, req>>  BY <2>2 DEF GraceEnter
      <4>4. \A p \in Senders : done'[p] = done[p] /\ pc'[p] = pc[p]
        BY <4>1, <4>2 DEF IInv, TypeOK
      <4>5. \A p \in Callers : p # c => done'[p] = done[p] /\ pc'[p] = pc[p]
        BY <4>2 DEF IInv, TypeOK
      <4>6. done'[c] = "stopped" /\ pc'[c] = "wait"  BY <4>2 DEF IInv, TypeOK
      <4>7. QED
        BY <4>1, <4>3, <4>4, <4>5, <4>6 DEF ResultInv, IInv, Queued, InTransit
    <3>3. QED  BY <2>2, <3>1, <3>2 DEF GraceEnter
  <2>3. CASE GraceTurnedAway(c)  BY <2>3, <1>a DEF GraceTurnedAway, Return, CallPc
  <2>4. CASE GraceEnqueue(c)
    <3>1. \A p \in Senders : Queued(p) => Queued(p)'
      <4>1. CASE sendCh' = Append(sendCh, c)  BY <4>1, QueuedAppend DEF IInv
      <4>2. CASE sendCh' = sendCh  BY <4>2 DEF Queued
      <4>3. QED  BY <2>4, <4>1, <4>2 DEF GraceEnqueue
    <3>2. UNCHANGED <<wire, halfClosed, mpc, req>>  BY <2>4 DEF GraceEnqueue
    <3>3. /\ done'[c] \in {"none", "ctx", "stopped"} /\ pc'[c] = "wait"
          /\ \A p \in Callers : p # c => done'[p] = done[p] /\ pc'[p] = pc[p]
      BY <2>4 DEF GraceEnqueue, Goto, Finished, ResultInv, IInv, TypeOK
    <3>4. c \notin Senders /\ (mpc = "finish" => req # c)
      BY <2>4 DEF GraceEnqueue, LoopInv, QueueInv, GateInv, ResultInv, IInv
    <3>5. QED
      BY <3>1, <3>2, <3>3, <3>4 DEF ResultInv, LoopInv, IInv, InTransit
  <2>5. QED  BY <1>2, <2>1, <2>2, <2>3, <2>4 DEF GraceStep
<1>3. ASSUME NEW p \in Callers, WaitStep(p) \/ Expire(p) PROVE ResultInv'
  <2>1. CASE Expire(p)  BY <2>1, <1>0 DEF Expire
  <2>2. CASE WaitCheck(p)  BY <2>2, <1>a DEF WaitCheck, Return, Goto, CallPc
  <2>3. CASE WaitReturn(p)  BY <2>3, <1>a DEF WaitReturn, Return, CallPc
  <2>4. QED  BY <1>3, <2>1, <2>2, <2>3 DEF WaitStep
<1>4. CASE CloseStop \/ CloseCancel \/ ParentCancel
  BY <1>4, <1>0 DEF CloseStop, CloseCancel, ParentCancel
<1>5. CASE ConnectStep
  <2>1. CASE ArbFail
    BY <2>1 DEF ArbFail, LeaveStream, ResultInv, IInv, Queued, InTransit
  <2>2. CASE ~ArbFail
    BY <1>5, <2>2, <1>0 DEF ConnectStep, LoopTop, DialOK, DialErr, ArbSendOK, ArbOK, Sleep
  <2>3. QED  BY <2>1, <2>2
<1>6. CASE ServeStep
  <2>1. CASE ServeStop \/ FailDone
    BY <2>1 DEF ServeStop, FailDone, LeaveStream, ResultInv, IInv, Queued, InTransit
  <2>2. CASE ServeArbitration \/ ServeRecvErr \/ AfterFunc
    BY <2>2, <1>0 DEF ServeArbitration, ServeRecvErr, AfterFunc
  <2>3. CASE ServeReject
    <3>1. PICK e \in {"ctx", "notPrimary", "stopped"} :
            done' = Finished(Head(sendCh), e) /\ (Head(sendCh) \in Closers => e # "notPrimary")
      BY <2>3 DEF ServeReject
    <3>2. QED  BY <2>3, <3>1, <1>b DEF ServeReject, Result
  <2>4. CASE ServeSend
    <3>1. /\ req' = Head(sendCh) /\ Head(sendCh) \in Senders /\ mpc' = "sending"
          /\ wire' = wire \cup {Head(sendCh)} /\ mpc = "serve"
          /\ UNCHANGED <<pc, done, halfClosed>>
      BY <2>4 DEF ServeSend
    <3>2. \A p \in Senders : p # Head(sendCh) /\ Queued(p) => Queued(p)'
      BY <2>4, QueuedTail DEF ServeSend, IInv
    <3>3. \A p \in Senders : ~InTransit(p) /\ (InTransit(p)' <=> p = Head(sendCh))
      BY <3>1 DEF InTransit
    <3>4. QED  BY <2>4, <3>1, <3>2, <3>3, HeadFacts DEF ServeSend, ResultInv, IInv
  <2>5. ASSUME NEW e \in {"ok", "transport"}, SendDone(e) PROVE ResultInv'
    <3>1. req \in Senders /\ InTransit(req) /\ req \in wire /\ done[req] = "none"
      BY <2>5 DEF SendDone, InTransit, LoopInv, ResultInv, IInv
    <3>2. SendResult(e) \in {"ok", "ctx", "transport"}  BY <2>5 DEF SendResult
    <3>3. done' = [done EXCEPT ![req] = SendResult(e)]
      BY <2>5, <3>1 DEF SendDone, Finished, IInv, TypeOK
    <3>4. /\ UNCHANGED <<pc, wire, halfClosed, sendCh>> /\ req \notin Closers
          /\ mpc' \notin {"sending", "finish"} /\ mpc = "sending"
      BY <2>5, <3>1 DEF SendDone
    <3>5. \A p \in Senders : (InTransit(p) <=> p = req) /\ ~InTransit(p)' /\ (Queued(p)' <=> Queued(p))
      BY <3>4 DEF InTransit, Queued
    <3>6. /\ done'[req] = SendResult(e)
          /\ \A p \in Callers : p # req => done'[p] = done[p]
      BY <3>1, <3>3 DEF IInv, TypeOK
    <3>7. QED  BY <3>1, <3>2, <3>4, <3>5, <3>6 DEF ResultInv, IInv
  <2>6. CASE FailPop
    <3>1. PICK e \in {"ctx", "transport", "stopped"} : done' = Finished(Head(sendCh), e)
      BY <2>6 DEF FailPop, LoopInv, IInv, TypeOK
    <3>2. QED  BY <2>6, <3>1, <1>b DEF FailPop, Result
  <2>7. QED  BY <1>6, <2>1, <2>2, <2>3, <2>4, <2>5, <2>6 DEF ServeStep
<1>7. CASE ExitStep
  <2>1. CASE HalfClose
    <3>1. /\ req' = Head(sendCh) /\ Head(sendCh) \in Closers /\ mpc' = "finish"
          /\ mpc = "serve" /\ halfClosed' = TRUE /\ UNCHANGED <<pc, done, wire>>
      BY <2>1 DEF HalfClose
    <3>2. \A p \in Senders : Queued(p) => Queued(p)'
      BY <2>1, <3>1, QueuedTail DEF HalfClose, IInv
    <3>3. \A p \in Senders : ~InTransit(p) /\ ~InTransit(p)'  BY <3>1 DEF InTransit
    <3>4. QED  BY <2>1, <3>1, <3>2, <3>3, HeadFacts DEF HalfClose, ResultInv, IInv
  <2>2. CASE HalfCloseErr
    <3>1. PICK e \in {"transport", "stopped"} : done' = Finished(Head(sendCh), e)
      BY <2>2 DEF HalfCloseErr
    <3>2. QED  BY <2>2, <3>1, <1>b DEF HalfCloseErr, LeaveStream, Result
  <2>3. CASE FinishStatus \/ FinishStop
    <3>1. req \in Closers /\ halfClosed /\ mpc = "finish"
      BY <2>3 DEF FinishStatus, FinishStop, LoopInv, ResultInv, IInv
    <3>2. PICK e \in {"ok", "transport", "stopped"} : done' = [done EXCEPT ![req] = e]
      BY <2>3, <3>1 DEF FinishStatus, FinishStop, Finished, ResultInv, IInv, TypeOK
    <3>3. mpc' = "exit" /\ UNCHANGED <<pc, wire, halfClosed, sendCh>>
      BY <2>3 DEF FinishStatus, FinishStop, LeaveStream
    <3>4. /\ done'[req] = e /\ req \notin Senders
          /\ \A p \in Callers : p # req => done'[p] = done[p]
      BY <3>1, <3>2 DEF IInv, TypeOK
    <3>5. pc[req] \notin {"idle", "gate", "push"}
      BY <3>1 DEF GateInv, QueueInv, LoopInv, IInv
    <3>6. QED
      BY <3>1, <3>3, <3>4, <3>5 DEF ResultInv, IInv, Queued, InTransit
  <2>4. CASE ExitState \/ ExitDone
    BY <2>4, <1>0 DEF ExitState, ExitDone
  <2>5. QED  BY <1>7, <2>1, <2>2, <2>3, <2>4 DEF ExitStep
<1>8. ASSUME NEW s \in Streams, RecvStep(s) PROVE ResultInv'
  BY <1>8, <1>0 DEF RecvStep, RecvMessage, RecvFail, RecvQuit, HandlerReturn, Receiving
<1>9. CASE UNCHANGED vars  BY <1>9, <1>0 DEF vars
<1>10. QED
  BY <1>1, <1>2, <1>3, <1>4, <1>5, <1>6, <1>7, <1>8, <1>9 DEF Next, Terminated

\* A pop queues nothing.
LEMMA QueuedTailBack ==
  ASSUME TypeOK, sendCh # << >>, sendCh' = Tail(sendCh), NEW p, Queued(p)'
  PROVE  Queued(p)
<1>1. PICK i \in 1..Len(Tail(sendCh)) : Tail(sendCh)[i] = p  BY DEF Queued
<1>2. Tail(sendCh)[i] = sendCh[i + 1] /\ i + 1 \in 1..Len(sendCh)
  BY <1>1, TailFacts DEF TypeOK
<1>3. QED  BY <1>1, <1>2 DEF Queued

\* An append queues its own request only.
LEMMA QueuedAppendBack ==
  ASSUME TypeOK, NEW e \in Callers, sendCh' = Append(sendCh, e), NEW p, Queued(p)'
  PROVE  Queued(p) \/ p = e
<1>1. /\ Len(Append(sendCh, e)) = Len(sendCh) + 1 /\ Len(sendCh) \in Nat
      /\ Append(sendCh, e)[Len(sendCh) + 1] = e
      /\ \A i \in 1..Len(sendCh) : Append(sendCh, e)[i] = sendCh[i]
  BY AppendFacts DEF TypeOK
<1>2. PICK i \in 1..(Len(sendCh) + 1) : Append(sendCh, e)[i] = p  BY <1>1 DEF Queued
<1>3. CASE i = Len(sendCh) + 1  BY <1>1, <1>2, <1>3
<1>4. CASE i # Len(sendCh) + 1
  <2>1. i \in 1..Len(sendCh)  BY <1>1, <1>2, <1>4
  <2>2. QED  BY <1>1, <1>2, <2>1 DEF Queued
<1>5. QED  BY <1>3, <1>4

\* A call has a result exactly when it returned, and none that says its message
\* did not go out while the message can still be taken from the queue.
LEMMA ReturnStep == IInv /\ [Next]_vars => ReturnInv'
<1> SUFFICES ASSUME IInv, [Next]_vars PROVE ReturnInv'
  OBVIOUS
<1> USE SupervisorAssumption DEF mastership, queue, ending, main, calls, history, Callers
\* No call moves and nothing is queued.
<1>0. ASSUME UNCHANGED <<pc, ret>>, stopped => stopped',
             sendCh' = sendCh \/ (sendCh # << >> /\ sendCh' = Tail(sendCh))
      PROVE  ReturnInv'
  <2>1. ASSUME NEW p \in Senders, Queued(p)' PROVE Queued(p)
    <3>1. CASE sendCh' = sendCh  BY <2>1, <3>1 DEF Queued
    <3>2. CASE sendCh # << >> /\ sendCh' = Tail(sendCh)
      BY <2>1, <3>2, QueuedTailBack DEF IInv
    <3>3. QED  BY <1>0, <3>1, <3>2
  <2>2. QED  BY <1>0, <2>1 DEF ReturnInv, IInv
\* A call goes on, perhaps with its request queued.
<1>a. ASSUME NEW p \in Callers, NEW l \in CallPc \ {"returned"}, Goto(p, l), pc[p] # "returned",
             UNCHANGED stopped, sendCh' = sendCh \/ sendCh' = Append(sendCh, p)
      PROVE  ReturnInv'
  <2>1. ASSUME NEW q \in Senders, Queued(q)' PROVE Queued(q) \/ q = p
    <3>1. CASE sendCh' = sendCh  BY <2>1, <3>1 DEF Queued
    <3>2. CASE sendCh' = Append(sendCh, p)  BY <2>1, <3>2, QueuedAppendBack DEF IInv
    <3>3. QED  BY <1>a, <3>1, <3>2
  <2>2. ret' = ret /\ ret[p] = "none"  BY <1>a DEF Goto, ReturnInv, IInv
  <2>3. \A q \in Callers : pc'[q] = "returned" <=> pc[q] = "returned"
    BY <1>a DEF Goto, IInv, TypeOK
  <2>4. QED  BY <1>a, <2>1, <2>2, <2>3 DEF ReturnInv, IInv
\* A call returns.
<1>b. ASSUME NEW p \in Callers, NEW e \in Result \ {"none"}, Return(p, e),
             UNCHANGED <<sendCh, stopped>>,
             p \in Senders /\ Queued(p) => e = "ctx" \/ stopped
      PROVE  ReturnInv'
  <2>1. \A q \in Senders : Queued(q)' <=> Queued(q)  BY <1>b DEF Queued
  <2>2. /\ ret'[p] = e /\ pc'[p] = "returned"
        /\ \A q \in Callers : q # p => ret'[q] = ret[q] /\ pc'[q] = pc[q]
    BY <1>b DEF Return, IInv, TypeOK
  <2>3. QED  BY <1>b, <2>1, <2>2 DEF ReturnInv, IInv
\* The request of a call that is not in wait is not queued.
<1>c. \A p \in Callers : Queued(p) => pc[p] \notin {"idle", "gate", "push"} /\ done[p] = "none"
  BY DEF Queued, QueueInv, IInv
<1>1. ASSUME NEW p \in Senders, SendStart(p) \/ SendStep(p) PROVE ReturnInv'
  <2>1. CASE SendStart(p)
    BY <2>1, <1>a, <1>b, <1>c DEF SendStart, CallPc, Result
  <2>2. CASE SendEnter(p)  BY <2>2, <1>a DEF SendEnter, CallPc
  <2>3. CASE SendTurnedAway(p)  BY <2>3, <1>b, <1>c DEF SendTurnedAway, Result
  <2>4. CASE Enqueue(p)  BY <2>4, <1>a, <1>b, <1>c DEF Enqueue, CallPc, Result
  <2>5. QED  BY <1>1, <2>1, <2>2, <2>3, <2>4 DEF SendStep
<1>2. ASSUME NEW c \in Closers, GraceStart(c) \/ GraceStep(c) PROVE ReturnInv'
  <2>1. CASE GraceStart(c)  BY <2>1, <1>a, <1>b DEF GraceStart, CallPc, Result
  <2>2. CASE GraceEnter(c)  BY <2>2, <1>a DEF GraceEnter, TakeGate, CallPc
  <2>3. CASE GraceTurnedAway(c)  BY <2>3, <1>b DEF GraceTurnedAway, Result
  <2>4. CASE GraceEnqueue(c)  BY <2>4, <1>a DEF GraceEnqueue, CallPc
  <2>5. QED  BY <1>2, <2>1, <2>2, <2>3, <2>4 DEF GraceStep
<1>3. ASSUME NEW p \in Callers, WaitStep(p) \/ Expire(p) PROVE ReturnInv'
  <2>1. CASE Expire(p)  BY <2>1, <1>0 DEF Expire
  <2>0. ASSUME pc[p] \in {"wait", "block"}
        PROVE  done[RequestOf(p)] \in Result /\ (p \in Senders => RequestOf(p) = p)
    BY <2>0 DEF RequestOf, GateInv, IInv, TypeOK
  <2>2. CASE WaitCheck(p)
    <3>1. CASE done[RequestOf(p)] # "none"
      BY <2>2, <2>0, <3>1, <1>b, <1>c DEF WaitCheck
    <3>2. CASE done[RequestOf(p)] = "none"
      BY <2>2, <3>2, <1>a DEF WaitCheck, CallPc
    <3>3. QED  BY <3>1, <3>2
  <2>3. CASE WaitReturn(p)
    <3>1. CASE done[RequestOf(p)] # "none" /\ Return(p, done[RequestOf(p)])
      BY <2>3, <2>0, <3>1, <1>b, <1>c DEF WaitReturn
    <3>2. CASE Return(p, "ctx")  BY <2>3, <3>2, <1>b DEF WaitReturn, Result
    <3>3. CASE stopped /\ Return(p, AfterStopped(done[RequestOf(p)]))
      <4>1. AfterStopped(done[RequestOf(p)]) \in Result \ {"none"}
        BY <2>3, <2>0 DEF WaitReturn, AfterStopped, Result
      <4>2. QED  BY <2>3, <3>3, <4>1, <1>b DEF WaitReturn
    <3>4. QED  BY <2>3, <3>1, <3>2, <3>3 DEF WaitReturn
  <2>4. QED  BY <1>3, <2>1, <2>2, <2>3 DEF WaitStep
<1>4. CASE CloseStop \/ CloseCancel \/ ParentCancel
  BY <1>4, <1>0 DEF CloseStop, CloseCancel, ParentCancel
<1>5. CASE ConnectStep
  BY <1>5, <1>0 DEF ConnectStep, LoopTop, DialOK, DialErr, ArbSendOK, ArbFail, ArbOK, Sleep
<1>6. CASE ServeStep
  BY <1>6, <1>0 DEF ServeStep, ServeStop, ServeArbitration, ServeRecvErr, ServeReject,
    ServeSend, AfterFunc, SendDone, FailPop, FailDone
<1>7. CASE ExitStep
  BY <1>7, <1>0 DEF ExitStep, HalfClose, HalfCloseErr, FinishStatus, FinishStop, ExitState, ExitDone
<1>8. ASSUME NEW s \in Streams, RecvStep(s) PROVE ReturnInv'
  BY <1>8, <1>0 DEF RecvStep, RecvMessage, RecvFail, RecvQuit, HandlerReturn, Receiving
<1>9. CASE UNCHANGED vars  BY <1>9, <1>0 DEF vars
<1>10. QED
  BY <1>1, <1>2, <1>3, <1>4, <1>5, <1>6, <1>7, <1>8, <1>9 DEF Next, Terminated

\* The supervisor starts in a state that satisfies the inductive invariant.
LEMMA InvInit == Init => IInv
<1> SUFFICES ASSUME Init PROVE IInv  OBVIOUS
<1>1. Len(sendCh) = 0 /\ 1..Len(sendCh) = {}  BY DEF Init
<1>2. LoopInv  BY SupervisorAssumption DEF Init, LoopInv
<1>3. GateInv  BY SupervisorAssumption DEF Init, GateInv, Callers
<1>4. QueueInv  BY <1>1 DEF Init, QueueInv
<1>5. ResultInv  BY <1>1 DEF Init, ResultInv, InTransit, Callers
<1>6. ReturnInv  BY <1>1 DEF Init, ReturnInv, Queued, Callers
<1>7. QED  BY TypeInit, <1>2, <1>3, <1>4, <1>5, <1>6 DEF IInv

\* Every step of every activity preserves the inductive invariant.
LEMMA InvStep == IInv /\ [Next]_vars => IInv'
<1>1. IInv => TypeOK /\ GateInv  BY DEF IInv
<1>2. QED
  BY <1>1, TypeStep, LoopStep, GateStep, QueueStep, ResultStep, ReturnStep DEF IInv

\* The inductive invariant holds in every reachable state.
THEOREM Invariant == Spec => []IInv
BY InvInit, InvStep, PTL DEF Spec

\* Type correctness: every reachable state is well typed and sendCh stays
\* within its capacity.
THEOREM TypeCorrect == Spec => []TypeOK
<1>1. IInv => TypeOK  BY DEF IInv
<1>2. QED  BY Invariant, <1>1, PTL

\* IsPrimary is always backed by a live arbitrated stream, or by a supervisor
\* that is about to end: no interrupted stream leaves mastership behind.
THEOREM MastershipBackedHolds == Spec => []MastershipBacked
<1>1. IInv => MastershipBacked
  BY DEF IInv, LoopInv, MastershipBacked, TypeOK, MainPc
<1>2. QED  BY Invariant, <1>1, PTL

\* CloseGracefully drains: when CloseSend succeeds every queued message has
\* been answered, and none is queued later.
THEOREM Drained == Spec => []DrainedAtHalfClose
<1>1. ASSUME IInv PROVE DrainedAtHalfClose
  <2> SUFFICES ASSUME halfClosed PROVE DrainedAtHalfClose  BY DEF DrainedAtHalfClose
  <2>1. sendCh = << >> /\ draining /\ mpc # "sending"
    BY <1>1 DEF IInv, QueueInv
  <2>2. \A p \in Senders : ~Queued(p) /\ ~InTransit(p)
    BY <2>1 DEF Queued, InTransit
  <2>3. QED  BY <1>1, <2>1, <2>2 DEF DrainedAtHalfClose, IInv, GateInv, ResultInv
<1>2. QED  BY Invariant, <1>1, PTL

-----------------------------------------------------------------------------
(* The mastership a message is sent under *)

\* What a step does to the captured channels: a token is captured when the gate is
\* taken and the state stays, and a change of state leaves no token current. No
\* call goes back before the gate and no message is taken back from the stream.
LEMMA TokenStep ==
  ASSUME IInv, Next, NEW p \in Senders
  PROVE  /\ p \in current' /\ p \notin current => pc[p] = "gate" /\ pc'[p] = "push" /\ state' = state
         /\ state' # state => current' = {}
         /\ pc[p] \notin {"idle", "gate"} => pc'[p] \notin {"idle", "gate"}
         /\ p \in wire => p \in wire'
<1> DEFINE Goal == /\ p \in current' /\ p \notin current =>
                        pc[p] = "gate" /\ pc'[p] = "push" /\ state' = state
                   /\ state' # state => current' = {}
                   /\ pc[p] \notin {"idle", "gate"} => pc'[p] \notin {"idle", "gate"}
                   /\ p \in wire => p \in wire'
<1> USE SupervisorAssumption DEF Callers, mastership, history, calls
<1>t. pc \in [Callers -> CallPc]  BY DEF IInv, TypeOK
<1>k. ASSUME UNCHANGED <<current, state, wire>>,
             pc' = pc \/ \E q \in Callers, l \in CallPc : l \notin {"idle"} /\
               (l = "gate" => pc[q] = "idle") /\ pc' = [pc EXCEPT ![q] = l]
      PROVE  Goal
  BY <1>k, <1>t
<1>s. ASSUME NEW st, SetState(st), pc' = pc, wire' = wire PROVE Goal
  BY <1>s DEF SetState
<1>1. ASSUME NEW q \in Senders, SendStart(q) \/ SendStep(q) PROVE Goal
  <2>1. CASE SendStart(q)  BY <2>1, <1>k DEF SendStart, Return, Goto, CallPc
  <2>2. CASE SendEnter(q)  BY <2>2, <1>t DEF SendEnter, Goto, CallPc
  <2>3. CASE SendTurnedAway(q)  BY <2>3, <1>k DEF SendTurnedAway, Return, CallPc
  <2>4. CASE Enqueue(q)  BY <2>4, <1>k DEF Enqueue, Return, Goto, CallPc
  <2>5. QED  BY <1>1, <2>1, <2>2, <2>3, <2>4 DEF SendStep
<1>2. ASSUME NEW c \in Closers, GraceStart(c) \/ GraceStep(c) PROVE Goal
  BY <1>2, <1>k DEF GraceStep, GraceStart, GraceEnter, TakeGate, GraceTurnedAway, GraceEnqueue,
    Return, Goto, CallPc
<1>3. ASSUME NEW q \in Callers, WaitStep(q) \/ Expire(q) PROVE Goal
  BY <1>3, <1>k DEF WaitStep, WaitCheck, WaitReturn, Expire, Return, Goto, CallPc
<1>4. CASE CloseStop \/ CloseCancel \/ ParentCancel
  BY <1>4, <1>k DEF CloseStop, CloseCancel, ParentCancel
<1>5. CASE ConnectStep
  BY <1>5, <1>k, <1>s DEF ConnectStep, LoopTop, DialOK, DialErr, ArbSendOK, ArbFail, ArbOK, Sleep
<1>6. CASE ServeStep
  <2>1. CASE ServeSend  BY <2>1 DEF ServeSend
  <2>2. CASE ServeStop \/ ServeReject \/ AfterFunc \/ FailPop \/ FailDone
    BY <2>2, <1>k DEF ServeStop, ServeReject, AfterFunc, FailPop, FailDone
  <2>3. CASE ServeArbitration \/ ServeRecvErr
    BY <2>3, <1>s DEF ServeArbitration, ServeRecvErr
  <2>4. ASSUME NEW e \in {"ok", "transport"}, SendDone(e) PROVE Goal
    BY <2>4, <1>k, <1>s DEF SendDone
  <2>5. QED  BY <1>6, <2>1, <2>2, <2>3, <2>4 DEF ServeStep
<1>7. CASE ExitStep
  BY <1>7, <1>k, <1>s DEF ExitStep, HalfClose, HalfCloseErr, FinishStatus, FinishStop, ExitState,
    ExitDone
<1>8. ASSUME NEW s \in Streams, RecvStep(s) PROVE Goal
  BY <1>8, <1>k DEF RecvStep, RecvMessage, RecvFail, RecvQuit, HandlerReturn, Receiving
<1>9. CASE UNCHANGED vars  BY <1>9, <1>k DEF vars
<1>10. QED
  BY <1>1, <1>2, <1>3, <1>4, <1>5, <1>6, <1>7, <1>8, <1>9 DEF Next, Terminated

\* A step preserves that a current token has seen one state only.
LEMMA TenureStep == IInv /\ TenureInv /\ [TenureNext]_tenureVars => TenureInv'
<1>1. ASSUME UNCHANGED tenureVars, TenureInv PROVE TenureInv'
  BY <1>1 DEF tenureVars, vars, mastership, calls, history, TenureInv
<1>2. ASSUME IInv, TenureInv, Next, Watch, NEW p \in Senders
      PROVE  /\ pc'[p] \in {"idle", "gate"} => since'[p] = {}
             /\ p \in current' => /\ pc'[p] \notin {"idle", "gate"}
                                  /\ p \notin wire' => since'[p] = {state'}
  <2>1. since'[p] = IF pc'[p] \in {"idle", "gate"} \/ p \in wire' THEN {} ELSE since[p] \cup {state'}
    BY <1>2 DEF Watch
  <2>2. CASE p \in current' /\ p \in current
    BY <1>2, <2>1, <2>2, TokenStep DEF TenureInv
  <2>3. CASE p \in current' /\ p \notin current
    BY <1>2, <2>1, <2>3, TokenStep DEF TenureInv
  <2>4. QED  BY <2>1, <2>2, <2>3
<1>3. QED  BY <1>1, <1>2 DEF TenureNext, TenureInv

\* No message is given to stream.Send under another mastership than the one its
\* Send was accepted in: the supervisor was primary all the time in between.
THEOREM TenureKept == TenureSpec => SentInItsTenure
<1>1. TenureInit => Init  BY DEF TenureInit
<1>2. [TenureNext]_tenureVars => [Next]_vars  BY DEF TenureNext, tenureVars
<1>3. TenureInit => TenureInv  BY DEF TenureInit, Init, TenureInv
<1>4. ASSUME IInv, TenureInv, TenureNext
      PROVE  \A p \in Senders : p \in wire' \ wire => since[p] = {"primary"}
  <2>1. CASE ServeSend
    BY <2>1, <1>4 DEF ServeSend, SameTenure, TenureInv
  <2>2. CASE ~ServeSend
    <3>1. wire' = wire
      BY <1>4, <2>2 DEF TenureNext, Next, SendStep, SendStart, SendEnter, SendTurnedAway, Enqueue,
        GraceStart, GraceStep, GraceEnter, GraceTurnedAway, GraceEnqueue,
        WaitStep, WaitCheck, WaitReturn, Expire, CloseStop, CloseCancel, ParentCancel,
        ConnectStep, LoopTop, DialOK, DialErr, ArbSendOK, ArbFail, ArbOK, Sleep,
        ServeStep, ServeStop, ServeArbitration, ServeRecvErr, ServeReject, AfterFunc,
        SendDone, FailPop, FailDone, ExitStep, HalfClose, HalfCloseErr, FinishStatus,
        FinishStop, ExitState, ExitDone, RecvStep, RecvMessage, RecvFail, RecvQuit,
        HandlerReturn, Receiving, Terminated, vars, history
    <3>2. QED  BY <3>1
  <2>3. QED  BY <2>1, <2>2
<1>5. TenureSpec => Spec  BY <1>1, <1>2, PTL DEF TenureSpec, Spec
<1>6. TenureSpec => []TenureInv
  BY <1>3, <1>5, Invariant, TenureStep, PTL DEF TenureSpec
<1>7. QED  BY <1>4, <1>5, <1>6, Invariant, PTL DEF TenureSpec, SentInItsTenure

-----------------------------------------------------------------------------
(* The session contract *)

\* The actions of callers, contexts and receive goroutines never touch what the
\* session shows, except for a call's result.
LEMMA CallFrame ==
  ASSUME NEW p \in Callers, ret[p] = "none", p \in Senders \/ p \in Closers,
         NEW e \in Session!Errors, Return(p, e),
         p \in Senders => /\ e = "ok" => p \in wire
                          /\ e \in {"stopped", "notPrimary"} => p \notin wire,
         p \in Closers => (e = "ok" => halfClosed) /\ e # "notPrimary",
         UNCHANGED <<state, wire, halfClosed, stopped>>
  PROVE  Session!Next
<1>1. CASE p \in Senders
  <2>1. Session!ReplySend(p, e)  BY <1>1 DEF Session!ReplySend, Return
  <2>2. QED  BY <1>1, <2>1 DEF Session!Next
<1>2. CASE p \in Closers
  <2>1. Session!ReplyClose(p, e)  BY <1>2 DEF Session!ReplyClose, Return
  <2>2. QED  BY <1>2, <2>1 DEF Session!Next
<1>3. QED  BY <1>1, <1>2 DEF Callers

\* Every step of the supervisor is a step of the session or leaves what the
\* session shows as it is.
LEMMA StepSimulation == IInv /\ [Next]_vars => [Session!Next]_(Session!vars)
<1> SUFFICES ASSUME IInv, [Next]_vars PROVE Session!Next \/ UNCHANGED Session!vars
  OBVIOUS
<1> USE SupervisorAssumption
    DEF mastership, queue, ending, main, calls, history, Callers
<1>0. ASSUME UNCHANGED <<state, wire, halfClosed, stopped, ret>>
      PROVE  Session!Next \/ UNCHANGED Session!vars
  BY <1>0 DEF Session!vars
<1>a. \A p \in Callers : pc[p] # "returned" => ret[p] = "none"
  BY DEF IInv, ReturnInv
<1>b. \A p \in Senders : pc[p] \in {"idle", "gate", "push"} => p \notin wire
  BY DEF IInv, ResultInv
<1>1. ASSUME NEW p \in Senders, SendStart(p) \/ SendStep(p)
      PROVE  Session!Next \/ UNCHANGED Session!vars
  <2>1. CASE SendStart(p)
    BY <2>1, <1>0, <1>a, <1>b, CallFrame DEF SendStart, Goto, Session!Errors
  <2>2. CASE SendEnter(p)  BY <2>2, <1>0 DEF SendEnter, Goto
  <2>3. CASE SendTurnedAway(p)
    BY <2>3, <1>a, <1>b, CallFrame DEF SendTurnedAway, Session!Errors
  <2>4. CASE Enqueue(p)
    BY <2>4, <1>0, <1>a, <1>b, CallFrame DEF Enqueue, Goto, Session!Errors
  <2>5. QED  BY <1>1, <2>1, <2>2, <2>3, <2>4 DEF SendStep
<1>2. ASSUME NEW c \in Closers, GraceStart(c) \/ GraceStep(c)
      PROVE  Session!Next \/ UNCHANGED Session!vars
  <2>1. CASE GraceStart(c)
    BY <2>1, <1>0, <1>a, CallFrame DEF GraceStart, Goto, Session!Errors
  <2>2. CASE GraceEnter(c)  BY <2>2, <1>0 DEF GraceEnter, Goto
  <2>3. CASE GraceTurnedAway(c)
    BY <2>3, <1>a, CallFrame DEF GraceTurnedAway, Session!Errors
  <2>4. CASE GraceEnqueue(c)  BY <2>4, <1>0 DEF GraceEnqueue, Goto
  <2>5. QED  BY <1>2, <2>1, <2>2, <2>3, <2>4 DEF GraceStep
<1>3. ASSUME NEW p \in Callers, WaitStep(p) \/ Expire(p)
      PROVE  Session!Next \/ UNCHANGED Session!vars
  <2> DEFINE e == done[RequestOf(p)]
  \* What a finished request says is true of the stream.
  <2>0. ASSUME pc[p] \in {"wait", "block"}, e # "none"
        PROVE  /\ e \in Session!Errors
               /\ p \in Senders => /\ e = "ok" => p \in wire
                                   /\ e \in {"stopped", "notPrimary"} => p \notin wire
               /\ p \in Closers => (e = "ok" => halfClosed) /\ e # "notPrimary"
    <3>1. CASE p \in Senders
      BY <2>0, <3>1 DEF RequestOf, IInv, TypeOK, ResultInv, Result, Session!Errors
    <3>2. CASE p \in Closers
      <4>1. RequestOf(p) = grace /\ grace \in Closers
        BY <2>0, <3>2 DEF RequestOf, IInv, TypeOK, GateInv
      <4>2. QED  BY <2>0, <3>2, <4>1 DEF IInv, TypeOK, ResultInv, Result, Session!Errors
    <3>3. QED  BY <3>1, <3>2
  \* A message that has gone out has a result, once the supervisor stopped.
  <2>a. ASSUME stopped, p \in Senders, p \in wire PROVE done[p] # "none"
    BY <2>a DEF IInv, ResultInv, LoopInv, InTransit
  <2>1. CASE Expire(p)  BY <2>1, <1>0 DEF Expire
  <2>2. CASE WaitCheck(p)
    <3>1. CASE e # "none"
      BY <2>2, <2>0, <3>1, <1>a, CallFrame DEF WaitCheck
    <3>2. CASE e = "none"  BY <2>2, <3>2, <1>0 DEF WaitCheck, Goto
    <3>3. QED  BY <3>1, <3>2
  <2>3. CASE WaitReturn(p)
    <3>0. ret[p] = "none" /\ pc[p] = "block" /\ UNCHANGED <<state, wire, halfClosed, stopped>>
      BY <2>3, <1>a DEF WaitReturn
    <3>1. CASE e # "none" /\ Return(p, e)  BY <2>0, <3>0, <3>1, CallFrame
    <3>2. CASE Return(p, "ctx")  BY <3>0, <3>2, CallFrame DEF Session!Errors
    <3>3. CASE stopped /\ e = "none" /\ Return(p, "stopped")
      <4>1. p \in Senders => p \notin wire  BY <3>3, <2>a DEF RequestOf
      <4>2. QED  BY <3>0, <3>3, <4>1, CallFrame DEF Session!Errors
    <3>4. QED  BY <2>3, <3>1, <3>2, <3>3 DEF WaitReturn, AfterStopped
  <2>4. QED  BY <1>3, <2>1, <2>2, <2>3 DEF WaitStep
<1>4. CASE CloseStop \/ CloseCancel \/ ParentCancel
  BY <1>4, <1>0 DEF CloseStop, CloseCancel, ParentCancel
<1>5. CASE ConnectStep
  <2>1. CASE LoopTop
    <3>1. CASE Ending  BY <2>1, <3>1, <1>0 DEF LoopTop
    <3>2. CASE ~Ending
      <4>1. state = "disconnected" /\ ~stopped /\ ~halfClosed
        BY <2>1, <3>2 DEF LoopTop, Ending, IInv, LoopInv, QueueInv
      <4>2. Session!Open  BY <2>1, <3>2, <4>1 DEF LoopTop, SetState, Session!Open
      <4>3. QED  BY <4>2 DEF Session!Next
    <3>3. QED  BY <3>1, <3>2
  <2>2. CASE \E m \in {"arbOK", "arbOther"} : ArbOK(m)
    <3>1. state # "disconnected"  BY <2>2 DEF ArbOK, IInv, LoopInv
    <3>2. Session!Elect  BY <2>2, <3>1 DEF ArbOK, SetState, ArbState, Session!Elect
    <3>3. QED  BY <3>2 DEF Session!Next
  <2>3. CASE DialErr \/ ArbFail
    <3>1. Session!Lose  BY <2>3 DEF DialErr, ArbFail, SetState, LeaveStream, Session!Lose
    <3>2. QED  BY <3>1 DEF Session!Next
  <2>4. CASE (\E s \in Streams : DialOK(s)) \/ ArbSendOK \/ Sleep
    BY <2>4, <1>0 DEF DialOK, ArbSendOK, Sleep
  <2>5. QED  BY <1>5, <2>1, <2>2, <2>3, <2>4 DEF ConnectStep
<1>6. CASE ServeStep
  <2>1. CASE ServeStop \/ ServeReject \/ AfterFunc \/ FailPop \/ FailDone
    BY <2>1, <1>0 DEF ServeStop, ServeReject, AfterFunc, FailPop, FailDone
  <2>2. CASE ServeArbitration
    <3>1. state # "disconnected"  BY <2>2 DEF ServeArbitration, IInv, LoopInv
    <3>2. Session!Elect
      BY <2>2, <3>1 DEF ServeArbitration, SetState, ArbState, Session!Elect
    <3>3. QED  BY <3>2 DEF Session!Next
  <2>3. CASE ServeRecvErr
    <3>1. Session!Lose  BY <2>3 DEF ServeRecvErr, SetState, Session!Lose
    <3>2. QED  BY <3>1 DEF Session!Next
  <2>4. CASE ServeSend
    <3>0. /\ Head(sendCh) \in Senders /\ state = "primary"
          /\ wire' = wire \cup {Head(sendCh)} /\ UNCHANGED <<state, halfClosed, stopped, ret>>
      BY <2>4 DEF ServeSend
    <3>1. ~halfClosed /\ ~stopped  BY <2>4 DEF ServeSend, IInv, LoopInv, QueueInv
    <3>2. Queued(Head(sendCh)) /\ Head(sendCh) \notin wire
      BY <2>4, TailFacts DEF ServeSend, Queued, IInv, TypeOK, QueueInv
    <3>3. ret[Head(sendCh)] \in {"none", "ctx"}
      BY <3>0, <3>1, <3>2 DEF IInv, ReturnInv
    <3>4. Session!Transmit(Head(sendCh))
      BY <3>0, <3>1, <3>2, <3>3 DEF Session!Transmit
    <3>5. QED  BY <3>0, <3>4 DEF Session!Next
  <2>5. ASSUME NEW e \in {"ok", "transport"}, SendDone(e)
        PROVE  Session!Next \/ UNCHANGED Session!vars
    <3>1. CASE SendResult(e) = "ok"  BY <2>5, <3>1, <1>0 DEF SendDone
    <3>2. CASE SendResult(e) # "ok"
      <4>1. Session!Lose  BY <2>5, <3>2 DEF SendDone, SetState, Session!Lose
      <4>2. QED  BY <4>1 DEF Session!Next
    <3>3. QED  BY <3>1, <3>2
  <2>6. QED  BY <1>6, <2>1, <2>2, <2>3, <2>4, <2>5 DEF ServeStep
<1>7. CASE ExitStep
  <2>1. CASE HalfClose
    <3>1. state \in {"primary", "backup"} /\ ~halfClosed
      BY <2>1 DEF HalfClose, IInv, LoopInv, QueueInv
    <3>2. Session!HalfClose  BY <2>1, <3>1 DEF HalfClose, Session!HalfClose
    <3>3. QED  BY <3>2 DEF Session!Next
  <2>2. CASE HalfCloseErr \/ FinishStatus \/ FinishStop
    BY <2>2, <1>0 DEF HalfCloseErr, FinishStatus, FinishStop
  <2>3. CASE ExitState
    <3>1. Session!Lose  BY <2>3 DEF ExitState, SetState, Session!Lose
    <3>2. QED  BY <3>1 DEF Session!Next
  <2>4. CASE ExitDone
    <3>1. Session!Stop  BY <2>4 DEF ExitDone, IInv, LoopInv, Session!Stop
    <3>2. QED  BY <3>1 DEF Session!Next
  <2>5. QED  BY <1>7, <2>1, <2>2, <2>3, <2>4 DEF ExitStep
<1>8. ASSUME NEW s \in Streams, RecvStep(s) PROVE Session!Next \/ UNCHANGED Session!vars
  BY <1>8, <1>0 DEF RecvStep, RecvMessage, RecvFail, RecvQuit, HandlerReturn, Receiving
<1>9. CASE UNCHANGED vars  BY <1>9, <1>0 DEF vars
<1>10. QED
  BY <1>1, <1>2, <1>3, <1>4, <1>5, <1>6, <1>7, <1>8, <1>9 DEF Next, Terminated

\* The supervisor implements the session contract: mastership only out of a
\* handshake, messages only while primary and before the half-close, and
\* results that are true of the stream.
THEOREM Refinement == Spec => Implements
<1>1. Init => Session!Init  BY DEF Init, Session!Init, Callers
<1>2. QED  BY <1>1, Invariant, StepSimulation, PTL DEF Spec, Implements, Session!Spec

\* Once run has closed stopped the supervisor is disconnected, and no goroutine
\* or call that is still running changes that or sends anything.
THEOREM StoppedForGood == Spec => StoppedIsFinal
<1>1. ASSUME IInv, Next, stopped
      PROVE  state = "disconnected" /\ UNCHANGED <<state, wire, halfClosed>>
  <2>1. mpc = "done" /\ state = "disconnected"  BY <1>1 DEF IInv, LoopInv
  <2>2. ~ConnectStep  BY <2>1 DEF ConnectStep, LoopTop, DialOK, DialErr, ArbSendOK, ArbFail,
                                  ArbOK, Sleep
  <2>3. ~ServeStep
    BY <2>1 DEF ServeStep, ServeStop, ServeArbitration, ServeRecvErr, ServeReject, ServeSend,
                AfterFunc, SendDone, FailPop, FailDone
  <2>4. ~ExitStep
    BY <2>1 DEF ExitStep, HalfClose, HalfCloseErr, FinishStatus, FinishStop, ExitState, ExitDone
  <2>5. UNCHANGED <<state, wire, halfClosed>>
    BY <1>1, <2>2, <2>3, <2>4 DEF Next, SendStart, SendStep, SendEnter, SendTurnedAway,
      Enqueue, GraceStart, GraceStep, GraceEnter, GraceTurnedAway, GraceEnqueue, WaitStep,
      WaitCheck, WaitReturn, Expire, CloseStop, CloseCancel, ParentCancel, RecvStep,
      RecvMessage, RecvFail, RecvQuit, HandlerReturn, Receiving, Terminated, vars,
      mastership, history
  <2>6. QED  BY <2>1, <2>5
<1>2. QED  BY Invariant, <1>1, PTL DEF Spec, StoppedIsFinal
=============================================================================
