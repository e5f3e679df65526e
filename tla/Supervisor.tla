----------------------------- MODULE Supervisor -----------------------------
(***************************************************************************)
(* The StreamChannel supervisor of internal/stream/supervisor.go.          *)
(*                                                                         *)
(* Concurrent activities:                                                  *)
(*   - the main loop (run, arbitrate, serve, finishStream, failPending);   *)
(*   - one receive goroutine per stream, which can outlive its stream;     *)
(*   - callers of Send, CloseGracefully and Close;                         *)
(*   - contexts that expire, and the gRPC transport and target, which      *)
(*     answer, fail and block as they please.                              *)
(*                                                                         *)
(* A step is one blocking operation with the local work that follows it.   *)
(* Reads and writes that no other activity can tell apart are joined: only *)
(* the main loop writes state, so its checks of state are stable; taking   *)
(* the send gate is joined with the checks made under it, and giving it    *)
(* back with the queue operation before it; Recv returning a message is    *)
(* joined with the look at the context that follows.                       *)
(*                                                                         *)
(* The channel s.changed is closed and replaced on every change of state.  *)
(* The code only compares a captured channel with the current one or waits *)
(* for it to be closed, so the model keeps the set of calls whose captured *)
(* channel is still the current one.                                       *)
(*                                                                         *)
(* setState's non-blocking publication on the events channel changes       *)
(* nothing here and is left out.                                           *)
(***************************************************************************)
EXTENDS Naturals, Sequences, FiniteSets

CONSTANTS
  Senders,    \* calls of Send, each with its own request and context
  Closers,    \* calls of CloseGracefully
  Deadlines,  \* calls whose context can expire; the others' never does
  Streams,    \* identities of streams; reused once the receive goroutine ended
  QueueCap,   \* capacity of sendCh (16 in the code)
  None        \* no call, no stream

Callers == Senders \cup Closers

ASSUME SupervisorAssumption ==
  /\ Senders \cap Closers = {}
  /\ Deadlines \subseteq Callers
  /\ None \notin Callers \cup Streams
  /\ QueueCap \in Nat \ {0}

State == {"disconnected", "connecting", "backup", "primary"}

\* Results of a request and of a call; "none" is "not yet".
Result == {"none", "ok", "ctx", "stopped", "notPrimary", "transport"}

MainPc == {"top", "dial", "arbSend", "arbWait", "sleep", "serve", "sending",
           "finish", "fail", "exit", "exitFail", "done"}

\* A receive goroutine is in or before Recv, offers an arbitration whose status
\* is absent or OK ("arbOK") or anything else ("arbOther") to the main loop,
\* runs the packet handler, or has left the stream's last error in recvErr.
RecvPc == {"idle", "recv", "arbOK", "arbOther", "handler", "eof", "error"}

CallPc == {"idle", "gate", "push", "wait", "block", "returned"}

VARIABLES
  state,       \* s.state
  current,     \* calls whose captured s.changed is still the current channel
  grace,       \* s.grace: the CloseGracefully call that owns the half-close
  sendCh,      \* s.sendCh: queued requests, named by their calls
  gate,        \* s.sendGate: the call that holds the token, or None
  draining, stop, stopped,  \* the channels of these names are closed
  parentDone,  \* the context of run is cancelled
  mpc,         \* where the main loop is
  cur,         \* the main loop's stream
  req,         \* the request being sent, or the half-close being finished
  failErr,     \* the error failPending was called with
  interrupted, \* an expired request cancelled the context of cur
  recv,        \* where the receive goroutine of each stream is
  pc,          \* where each call is
  ctxDone,     \* calls whose context has expired
  ret,         \* result each call returned
  done,        \* result of each call's request
  wire,        \* history: requests given to stream.Send
  halfClosed   \* history: CloseSend succeeded

mastership == <<state, current>>
queue      == <<grace, sendCh, gate, draining>>
ending     == <<stop, stopped, parentDone>>
main       == <<mpc, cur, req, failErr, interrupted>>
calls      == <<pc, ctxDone, ret>>
history    == <<wire, halfClosed>>
vars == <<mastership, queue, ending, main, recv, calls, done, history>>

\* Every variable is of its type; the queue never exceeds its capacity.
TypeOK ==
  /\ state \in State
  /\ current \subseteq Senders
  /\ grace \in Closers \cup {None}
  /\ sendCh \in Seq(Callers) /\ Len(sendCh) <= QueueCap
  /\ gate \in Callers \cup {None}
  /\ draining \in BOOLEAN /\ stop \in BOOLEAN /\ stopped \in BOOLEAN
  /\ parentDone \in BOOLEAN
  /\ mpc \in MainPc
  /\ cur \in Streams \cup {None}
  /\ req \in Callers \cup {None}
  /\ failErr \in {"none", "ctx", "transport"}
  /\ interrupted \in BOOLEAN
  /\ recv \in [Streams -> RecvPc]
  /\ pc \in [Callers -> CallPc]
  /\ ctxDone \subseteq Deadlines
  /\ ret \in [Callers -> Result]
  /\ done \in [Callers -> Result]
  /\ wire \subseteq Senders
  /\ halfClosed \in BOOLEAN

\* New, followed by Start.
Init ==
  /\ state = "disconnected" /\ current = {}
  /\ grace = None /\ sendCh = << >> /\ gate = None /\ draining = FALSE
  /\ stop = FALSE /\ stopped = FALSE /\ parentDone = FALSE
  /\ mpc = "top" /\ cur = None /\ req = None /\ failErr = "none"
  /\ interrupted = FALSE
  /\ recv = [s \in Streams |-> "idle"]
  /\ pc = [p \in Callers |-> "idle"] /\ ctxDone = {}
  /\ ret = [p \in Callers |-> "none"] /\ done = [p \in Callers |-> "none"]
  /\ wire = {} /\ halfClosed = FALSE

-----------------------------------------------------------------------------
(* Helpers *)

\* The context of stream s. It derives from run's; run cancels it whenever it
\* leaves the stream, and an expired request can before that.
CtxDone(s) == parentDone \/ s # cur \/ interrupted

\* setState: a change of state replaces the channel every watcher captured.
MutSetState(st) == state' = st /\ UNCHANGED current
SetState(st) ==
  /\ state' = st
  /\ current' = IF st = state THEN current ELSE {}

\* applyArbitration with statusOK: no status, or OK, means primary.
ArbState(m) == IF m = "arbOK" THEN "primary" ELSE "backup"

\* sendRequest.finish: only the first result counts.
Finished(r, e) == [done EXCEPT ![r] = IF @ = "none" THEN e ELSE @]

\* A send on sendCh would not block.
HasRoom == Len(sendCh) < QueueCap

\* A call returns e to its caller, or goes on to l.
Return(p, e) ==
  /\ pc' = [pc EXCEPT ![p] = "returned"]
  /\ ret' = [ret EXCEPT ![p] = e]

Goto(p, l) == pc' = [pc EXCEPT ![p] = l] /\ UNCHANGED ret

\* run after serve or arbitrate: the stream is cancelled and forgotten, with
\* an error nobody took from recvErr.
LeaveStream(next) ==
  /\ mpc' = next /\ cur' = None /\ req' = None
  /\ failErr' = "none" /\ interrupted' = FALSE
  /\ recv' = [recv EXCEPT ![cur] = IF @ \in {"eof", "error"} THEN "idle" ELSE @]

-----------------------------------------------------------------------------
(* Callers of Send *)

\* The context may have expired before the call.
SendStart(p) ==
  /\ pc[p] = "idle"
  /\ \/ p \in Deadlines /\ Return(p, "ctx") /\ ctxDone' = ctxDone \cup {p}
     \/ Goto(p, "gate") /\ UNCHANGED ctxDone
  /\ UNCHANGED <<mastership, queue, ending, main, recv, done, history>>

\* The gate is taken; the token of the current state is captured and enqueue's
\* first checks are made under it.
SendEnter(p) ==
  /\ pc[p] = "gate" /\ gate = None
  /\ p \notin ctxDone /\ ~draining /\ ~stop /\ ~stopped
  /\ gate' = p
  /\ current' = current \cup {p}
  /\ Goto(p, "push")
  /\ UNCHANGED <<state, grace, sendCh, draining, ending, main, recv, ctxDone, done, history>>

\* The other cases of the select on the gate, and the same checks in enqueue
\* when the gate was taken nevertheless.
SendTurnedAway(p) ==
  /\ pc[p] = "gate"
  /\ \/ p \in ctxDone /\ Return(p, "ctx")
     \/ (draining \/ stop \/ stopped) /\ Return(p, "stopped")
  /\ UNCHANGED <<mastership, queue, ending, main, recv, ctxDone, done, history>>

\* enqueue's blocking select: a free slot, the context, or the end of the
\* supervisor. The gate is given back in every case.
Enqueue(p) ==
  /\ pc[p] = "push"
  /\ \/ HasRoom /\ sendCh' = Append(sendCh, p) /\ Goto(p, "wait")
     \/ p \in ctxDone /\ Return(p, "ctx") /\ UNCHANGED sendCh
     \/ (stop \/ stopped) /\ Return(p, "stopped") /\ UNCHANGED sendCh
  /\ gate' = None
  /\ UNCHANGED <<mastership, grace, draining, ending, main, recv, ctxDone, done, history>>

-----------------------------------------------------------------------------
(* Callers of CloseGracefully *)

\* The first read of s.grace, and of the context.
GraceStart(c) ==
  /\ pc[c] = "idle"
  /\ \/ grace # None /\ Goto(c, "wait") /\ UNCHANGED ctxDone
     \/ /\ grace = None /\ c \in Deadlines
        /\ Return(c, "ctx") /\ ctxDone' = ctxDone \cup {c}
     \/ grace = None /\ Goto(c, "gate") /\ UNCHANGED ctxDone
  /\ UNCHANGED <<mastership, queue, ending, main, recv, done, history>>

\* CloseGracefully gets the send gate.
MutTakeGate(c) == pc[c] = "gate"
TakeGate(c) == pc[c] = "gate" /\ gate = None

\* Under the gate and s.mu, grace is read again. The first caller sets it and
\* closes draining; it finishes its request at once if the supervisor stopped.
GraceEnter(c) ==
  /\ TakeGate(c)
  /\ \/ /\ grace # None
        /\ Goto(c, "wait")
        /\ UNCHANGED <<grace, draining, gate, done>>
     \/ /\ grace = None /\ ~stopped
        /\ grace' = c /\ draining' = TRUE /\ gate' = c
        /\ Goto(c, "push") /\ UNCHANGED done
     \/ /\ grace = None /\ stopped
        /\ grace' = c /\ draining' = TRUE /\ UNCHANGED gate
        /\ Goto(c, "wait") /\ done' = Finished(c, "stopped")
  /\ UNCHANGED <<mastership, sendCh, ending, main, recv, ctxDone, history>>

GraceTurnedAway(c) ==
  /\ pc[c] = "gate"
  /\ \/ c \in ctxDone /\ Return(c, "ctx")
     \/ stopped /\ Return(c, "stopped")
  /\ UNCHANGED <<mastership, queue, ending, main, recv, ctxDone, done, history>>

\* The half-close is queued behind every accepted request.
GraceEnqueue(c) ==
  /\ pc[c] = "push"
  /\ \/ HasRoom /\ sendCh' = Append(sendCh, c) /\ UNCHANGED done
     \/ c \in ctxDone /\ done' = Finished(c, "ctx") /\ UNCHANGED sendCh
     \/ stopped /\ done' = Finished(c, "stopped") /\ UNCHANGED sendCh
  /\ Goto(c, "wait")
  /\ gate' = None
  /\ UNCHANGED <<mastership, grace, draining, ending, main, recv, ctxDone, history>>

-----------------------------------------------------------------------------
(* sendRequest.wait, for both kinds of call *)

\* The request call p waits for: its own, or the one half-close.
RequestOf(p) == IF p \in Senders THEN p ELSE grace

\* The first, non-blocking look at done.
WaitCheck(p) ==
  /\ pc[p] = "wait"
  /\ LET e == done[RequestOf(p)]
     IN IF e # "none" THEN Return(p, e) ELSE Goto(p, "block")
  /\ UNCHANGED <<mastership, queue, ending, main, recv, ctxDone, done, history>>

\* What a wait that saw stopped returns: done is looked at again.
MutAfterStopped(e) == "stopped"
AfterStopped(e) == IF e # "none" THEN e ELSE "stopped"

\* The blocking select.
MutWaitReturn(p) ==
  /\ pc[p] = "block"
  /\ LET e == done[RequestOf(p)]
     IN \/ e # "none" /\ Return(p, e)
        \/ p \in ctxDone /\ Return(p, "ctx")
  /\ UNCHANGED <<mastership, queue, ending, main, recv, ctxDone, done, history>>
WaitReturn(p) ==
  /\ pc[p] = "block"
  /\ LET e == done[RequestOf(p)]
     IN \/ e # "none" /\ Return(p, e)
        \/ p \in ctxDone /\ Return(p, "ctx")
        \/ stopped /\ Return(p, AfterStopped(e))
  /\ UNCHANGED <<mastership, queue, ending, main, recv, ctxDone, done, history>>

-----------------------------------------------------------------------------
(* Close, and the contexts *)

\* Close closes stop, cancels run's context, then waits for stopped. Later
\* calls only wait, so one stands for all. A handler may be the caller: it is
\* then a handler that does not return.
CloseStop ==
  /\ ~stop /\ stop' = TRUE
  /\ UNCHANGED <<mastership, queue, stopped, parentDone, main, recv, calls, done, history>>

CloseCancel ==
  /\ stop /\ ~parentDone /\ parentDone' = TRUE
  /\ UNCHANGED <<mastership, queue, stop, stopped, main, recv, calls, done, history>>

\* The owner of the context passed to Start cancels it.
ParentCancel ==
  /\ ~stop /\ ~parentDone /\ parentDone' = TRUE
  /\ UNCHANGED <<mastership, queue, stop, stopped, main, recv, calls, done, history>>

\* The context of a call in progress is cancelled or reaches its deadline.
Expire(p) ==
  /\ pc[p] \notin {"idle", "returned"} /\ p \in Deadlines \ ctxDone
  /\ ctxDone' = ctxDone \cup {p}
  /\ UNCHANGED <<mastership, queue, ending, main, recv, pc, ret, done, history>>

-----------------------------------------------------------------------------
(* The main loop: connecting *)

\* What ends the loop between two streams.
MutEnding == parentDone \/ stop
Ending == parentDone \/ stop \/ draining

LoopTop ==
  /\ mpc = "top"
  /\ \/ Ending /\ mpc' = "exit" /\ UNCHANGED mastership
     \/ ~Ending /\ mpc' = "dial" /\ SetState("connecting")
  /\ UNCHANGED <<queue, ending, cur, req, failErr, interrupted, recv, calls, done, history>>

\* dial returns a stream, under an identity no goroutine uses.
DialOK(s) ==
  /\ mpc = "dial" /\ recv[s] = "idle"
  /\ mpc' = "arbSend" /\ cur' = s
  /\ UNCHANGED <<mastership, queue, ending, req, failErr, interrupted, recv, calls, done,
                 history>>

DialErr ==
  /\ mpc = "dial" /\ mpc' = "sleep"
  /\ SetState("disconnected")
  /\ UNCHANGED <<queue, ending, cur, req, failErr, interrupted, recv, calls, done, history>>

\* The arbitration request went out; nothing but the context bounds this Send.
ArbSendOK ==
  /\ mpc = "arbSend" /\ mpc' = "arbWait"
  /\ UNCHANGED <<mastership, queue, ending, cur, req, failErr, interrupted, recv, calls,
                 done, history>>

\* arbitrate fails: its Send failed, stop was closed, the deadline passed,
\* Recv failed, or the first message was not an arbitration.
ArbFail ==
  /\ mpc \in {"arbSend", "arbWait"}
  /\ SetState("disconnected")
  /\ LeaveStream("sleep")
  /\ UNCHANGED <<queue, ending, calls, done, history>>

\* arbitrate succeeds; serve starts the receive goroutine.
ArbOK(m) ==
  /\ mpc = "arbWait" /\ mpc' = "serve"
  /\ SetState(ArbState(m))
  /\ recv' = [recv EXCEPT ![cur] = "recv"]
  /\ UNCHANGED <<queue, ending, cur, req, failErr, interrupted, calls, done, history>>

\* sleep: the timer, or the end of the supervisor.
Sleep ==
  /\ mpc = "sleep"
  /\ mpc' = "top" \/ (Ending /\ mpc' = "exit")
  /\ UNCHANGED <<mastership, queue, ending, cur, req, failErr, interrupted, recv, calls,
                 done, history>>

-----------------------------------------------------------------------------
(* The main loop: serve *)

\* The stream's context or stop ends serve; state is left as it is.
ServeStop ==
  /\ mpc = "serve" /\ (CtxDone(cur) \/ stop)
  /\ LeaveStream("top")
  /\ UNCHANGED <<mastership, queue, ending, calls, done, history>>

\* An arbitration is taken from the receive goroutine, in serve and in
\* finishStream.
ServeArbitration ==
  /\ mpc \in {"serve", "finish"} /\ recv[cur] \in {"arbOK", "arbOther"}
  /\ SetState(ArbState(recv[cur]))
  /\ recv' = [recv EXCEPT ![cur] = "recv"]
  /\ UNCHANGED <<queue, ending, main, calls, done, history>>

ServeRecvErr ==
  /\ mpc = "serve" /\ recv[cur] \in {"eof", "error"}
  /\ SetState("disconnected")
  /\ mpc' = "fail" /\ failErr' = "transport"
  /\ UNCHANGED <<queue, ending, cur, req, interrupted, recv, calls, done, history>>

\* The request was accepted in the tenure that still lasts: the state has not
\* changed since Send captured its token.
SameTenure(r) == r \in current

\* A request that is answered without being sent.
ServeReject ==
  /\ mpc = "serve" /\ sendCh # << >>
  /\ LET r == Head(sendCh)
     IN \/ r \in ctxDone /\ done' = Finished(r, "ctx")
        \/ /\ r \in Senders \ ctxDone /\ state # "primary"
           /\ done' = Finished(r, "notPrimary")
        \/ /\ r \in Senders \ ctxDone /\ state = "primary" /\ ~SameTenure(r)
           /\ done' = Finished(r, "stopped")
  /\ sendCh' = Tail(sendCh)
  /\ UNCHANGED <<mastership, grace, gate, draining, ending, main, recv, calls, history>>

ServeSend ==
  /\ mpc = "serve" /\ sendCh # << >>
  /\ LET r == Head(sendCh)
     IN /\ r \in Senders \ ctxDone /\ state = "primary" /\ SameTenure(r)
        /\ req' = r /\ wire' = wire \cup {r}
  /\ sendCh' = Tail(sendCh)
  /\ mpc' = "sending"
  /\ UNCHANGED <<mastership, grace, gate, draining, ending, cur, failErr, interrupted, recv,
                 calls, done, halfClosed>>

\* context.AfterFunc: a request that expires interrupts the stream it is sent on.
AfterFunc ==
  /\ mpc = "sending" /\ req \in ctxDone /\ ~interrupted
  /\ interrupted' = TRUE
  /\ UNCHANGED <<mastership, queue, ending, mpc, cur, req, failErr, recv, calls, done, history>>

\* The result of a stream.Send that returned e: an expired request context
\* takes precedence.
MutSendResult(e) == e
SendResult(e) == IF req \in ctxDone THEN "ctx" ELSE e

SendDone(e) ==
  /\ mpc = "sending"
  /\ done' = Finished(req, SendResult(e))
  /\ req' = None
  /\ \/ /\ SendResult(e) = "ok" /\ mpc' = "serve"
        /\ UNCHANGED <<mastership, failErr>>
     \/ /\ SendResult(e) # "ok" /\ mpc' = "fail" /\ failErr' = SendResult(e)
        /\ SetState("disconnected")
  /\ UNCHANGED <<queue, ending, cur, interrupted, recv, calls, history>>

\* failPending takes one request; other calls may queue more meanwhile.
FailPop ==
  /\ mpc \in {"fail", "exitFail"} /\ sendCh # << >>
  /\ done' = Finished(Head(sendCh), IF mpc = "fail" THEN failErr ELSE "stopped")
  /\ sendCh' = Tail(sendCh)
  /\ UNCHANGED <<mastership, grace, gate, draining, ending, main, recv, calls, history>>

\* failPending finds the queue empty and serve returns.
FailDone ==
  /\ mpc = "fail" /\ sendCh = << >>
  /\ LeaveStream("top")
  /\ UNCHANGED <<mastership, queue, ending, calls, done, history>>

-----------------------------------------------------------------------------
(* The main loop: the graceful end, and the exit *)

\* The half-close is taken from the queue and CloseSend succeeds, or fails.
HalfClose ==
  /\ mpc = "serve" /\ sendCh # << >>
  /\ Head(sendCh) \in Closers \ ctxDone
  /\ mpc' = "finish" /\ req' = Head(sendCh) /\ halfClosed' = TRUE
  /\ sendCh' = Tail(sendCh)
  /\ UNCHANGED <<mastership, grace, gate, draining, ending, cur, failErr, interrupted, recv,
                 calls, done, wire>>

HalfCloseErr ==
  /\ mpc = "serve" /\ sendCh # << >>
  /\ Head(sendCh) \in Closers \ ctxDone
  /\ done' = Finished(Head(sendCh), IF CtxDone(cur) THEN "stopped" ELSE "transport")
  /\ LeaveStream("exit")
  /\ sendCh' = Tail(sendCh)
  /\ UNCHANGED <<mastership, grace, gate, draining, ending, calls, history>>

\* finishStream gets the stream's final status; a clean end is EOF.
FinishStatus ==
  /\ mpc = "finish" /\ recv[cur] \in {"eof", "error"}
  /\ done' = Finished(req, IF CtxDone(cur) THEN "stopped"
                           ELSE IF recv[cur] = "eof" THEN "ok" ELSE "transport")
  /\ LeaveStream("exit")
  /\ UNCHANGED <<mastership, queue, ending, calls, history>>

FinishStop ==
  /\ mpc = "finish" /\ (CtxDone(cur) \/ stop)
  /\ done' = Finished(req, "stopped")
  /\ LeaveStream("exit")
  /\ UNCHANGED <<mastership, queue, ending, calls, history>>

\* run's deferred calls: the state, failPending, then the channels.
MutExitState ==
  /\ mpc = "exit" /\ mpc' = "exitFail"
  /\ UNCHANGED <<mastership, queue, ending, cur, req, failErr, interrupted, recv, calls,
                 done, history>>
ExitState ==
  /\ mpc = "exit" /\ mpc' = "exitFail"
  /\ SetState("disconnected")
  /\ UNCHANGED <<queue, ending, cur, req, failErr, interrupted, recv, calls, done, history>>

\* A main loop that waited for the goroutines it started.
MutExitDone ==
  /\ mpc = "exitFail" /\ sendCh = << >>
  /\ \A s \in Streams : recv[s] = "idle"
  /\ mpc' = "done" /\ stopped' = TRUE
  /\ UNCHANGED <<mastership, queue, stop, parentDone, cur, req, failErr, interrupted, recv,
                 calls, done, history>>
ExitDone ==
  /\ mpc = "exitFail" /\ sendCh = << >>
  /\ mpc' = "done" /\ stopped' = TRUE
  /\ UNCHANGED <<mastership, queue, stop, parentDone, cur, req, failErr, interrupted, recv,
                 calls, done, history>>

-----------------------------------------------------------------------------
(* The receive goroutine of stream s *)

Receiving(s, from, to) ==
  /\ recv[s] \in from
  /\ recv' = [recv EXCEPT ![s] = to]
  /\ UNCHANGED <<mastership, queue, ending, main, calls, done, history>>

\* Recv returns a message and the context is still live: an arbitration is
\* offered to the main loop, anything else goes to the packet handler.
RecvMessage(s) ==
  /\ ~CtxDone(s)
  /\ \E to \in {"arbOK", "arbOther", "handler"} : Receiving(s, {"recv"}, to)

\* Recv fails, with EOF when the target ended the stream; the error waits in
\* recvErr, which a main loop that left the stream never reads.
RecvFail(s) ==
  \E to \in {"eof", "error"} : Receiving(s, {"recv"}, IF s = cur THEN to ELSE "idle")

\* The looks at the stream's context before and after Recv, and in the select
\* that offers an arbitration.
RecvQuit(s) == CtxDone(s) /\ Receiving(s, {"recv", "arbOK", "arbOther"}, "idle")

HandlerReturn(s) == Receiving(s, {"handler"}, "recv")

-----------------------------------------------------------------------------
SendStep(p)  == SendEnter(p) \/ SendTurnedAway(p) \/ Enqueue(p)
GraceStep(c) == GraceEnter(c) \/ GraceTurnedAway(c) \/ GraceEnqueue(c)
WaitStep(p)  == WaitCheck(p) \/ WaitReturn(p)
ConnectStep  == LoopTop \/ (\E s \in Streams : DialOK(s)) \/ DialErr \/ ArbSendOK
                \/ ArbFail \/ (\E m \in {"arbOK", "arbOther"} : ArbOK(m)) \/ Sleep
ServeStep    == ServeStop \/ ServeArbitration \/ ServeRecvErr \/ ServeReject \/ ServeSend
                \/ AfterFunc \/ (\E e \in {"ok", "transport"} : SendDone(e))
                \/ FailPop \/ FailDone
ExitStep     == HalfClose \/ HalfCloseErr \/ FinishStatus \/ FinishStop
                \/ ExitState \/ ExitDone
RecvStep(s)  == RecvMessage(s) \/ RecvFail(s) \/ RecvQuit(s) \/ HandlerReturn(s)

\* Nothing is left to do: the supervisor has stopped, every call returned and
\* no goroutine runs.
Terminated ==
  /\ stopped /\ parentDone /\ stop
  /\ \A p \in Callers : pc[p] = "returned"
  /\ \A s \in Streams : recv[s] = "idle"
  /\ UNCHANGED vars

Next ==
  \/ \E p \in Senders : SendStart(p) \/ SendStep(p)
  \/ \E c \in Closers : GraceStart(c) \/ GraceStep(c)
  \/ \E p \in Callers : WaitStep(p) \/ Expire(p)
  \/ CloseStop \/ CloseCancel \/ ParentCancel
  \/ ConnectStep \/ ServeStep \/ ExitStep
  \/ \E s \in Streams : RecvStep(s)
  \/ Terminated

Spec == Init /\ [][Next]_vars

-----------------------------------------------------------------------------
(* Fairness *)

\* What the main loop does without waiting for the network: a gRPC call returns
\* once its context is cancelled, the arbitration deadline and the backoff
\* timer fire, and a select takes a case that stays ready.
MainProgress ==
  \/ LoopTop \/ Sleep \/ (parentDone /\ DialErr)
  \/ ((parentDone \/ mpc = "arbWait") /\ ArbFail)
  \/ ServeStop \/ (CtxDone(cur) /\ SendDone("transport")) \/ FailPop \/ FailDone
  \/ FinishStop \/ ExitState \/ ExitDone

\* Calls in progress are scheduled, Close goes on to cancel, and AfterFunc runs.
\* Nothing is assumed of targets, transports, handlers or contexts.
Fairness ==
  /\ WF_vars(MainProgress) /\ WF_vars(CloseCancel) /\ WF_vars(AfterFunc)
  /\ \A p \in Senders : WF_vars(SendStep(p))
  /\ \A c \in Closers : WF_vars(GraceStep(c))
  /\ \A p \in Callers : WF_vars(WaitStep(p))

-----------------------------------------------------------------------------
(* Properties *)

\* IsPrimary (and a backup's standing) is backed by an arbitrated stream that
\* was not interrupted, except by the expired request being sent on it, or the
\* supervisor is on its way out. So run never goes from primary to its next
\* connection attempt without setState revoking mastership first.
MastershipBacked ==
  state \in {"primary", "backup"} =>
    \/ /\ mpc \in {"serve", "sending", "finish"}
       /\ interrupted => mpc = "sending" /\ req \in ctxDone
    \/ mpc \in {"top", "exit"} /\ (stop \/ parentDone \/ draining)

\* CloseGracefully half-closes only when every request that Send queued has
\* been answered, and nothing is queued afterwards.
DrainedAtHalfClose ==
  halfClosed =>
    /\ sendCh = << >>
    /\ \A p \in Senders : /\ pc[p] # "push"
                          /\ pc[p] \in {"wait", "block"} => done[p] # "none"

\* Once stopped is closed, IsPrimary is false and nothing more is sent,
\* whatever goroutines and calls are still running.
StoppedIsFinal == [][stopped => /\ state = "disconnected"
                                /\ UNCHANGED <<state, wire, halfClosed>>]_vars

\* The supervisor implements the session contract.
Session == INSTANCE StreamSession
Implements == Session!Spec

\* Send and CloseGracefully return once their context expires or the
\* supervisor has stopped.
CallsReturn ==
  \A p \in Callers : (pc[p] # "idle" /\ (p \in ctxDone \/ stopped)) ~> pc[p] = "returned"

\* CloseGracefully called while the supervisor waits to reconnect ends it.
GraceEndsBackoff == (draining /\ mpc = "sleep") ~> stopped
=============================================================================
