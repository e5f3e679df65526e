--------------------------- MODULE SupervisorInv ---------------------------
(***************************************************************************)
(* The inductive invariant of the supervisor: what holds between two steps *)
(* of any activity, strong enough to imply the safety properties.          *)
(***************************************************************************)
EXTENDS Supervisor

\* The request of call p is in the queue.
Queued(p) == \E i \in 1..Len(sendCh) : sendCh[i] = p

\* The request of call p is in stream.Send.
InTransit(p) == mpc = "sending" /\ req = p

\* The state each point of the main loop goes with, and the stream it holds.
LoopInv ==
  /\ mpc \in {"dial", "arbSend", "arbWait"} => state = "connecting"
  /\ mpc \in {"sleep", "fail", "exitFail", "done"} => state = "disconnected"
  /\ mpc \in {"serve", "sending", "finish"} => state \in {"primary", "backup"}
  /\ mpc \in {"top", "exit"} => state # "connecting"
  /\ mpc \in {"top", "exit"} /\ state # "disconnected" => stop \/ parentDone \/ draining
  /\ mpc \in {"arbSend", "arbWait", "serve", "sending", "finish", "fail"} <=> cur # None
  /\ mpc = "sending" => req \in Senders
  /\ mpc = "finish" => req \in Closers /\ req = grace /\ draining
  /\ mpc = "fail" => failErr # "none"
  /\ interrupted => mpc \in {"sending", "fail"}
  /\ interrupted /\ mpc = "sending" => req \in ctxDone
  /\ stopped <=> mpc = "done"

\* Who holds the send gate, and what graceful close does with it.
GateInv ==
  /\ \A p \in Callers : pc[p] = "push" <=> gate = p
  /\ draining <=> grace # None
  /\ \A p \in Senders : pc[p] = "push" => ~draining
  /\ \A c \in Closers : pc[c] = "push" => grace = c
  /\ \A c \in Closers : pc[c] \in {"wait", "block"} => grace # None
  /\ grace # None => pc[grace] \notin {"idle", "gate"}

\* What is queued: each request once, not yet answered, the half-close last.
QueueInv ==
  /\ \A i, j \in 1..Len(sendCh) : sendCh[i] = sendCh[j] => i = j
  /\ \A i \in 1..Len(sendCh) :
       /\ pc[sendCh[i]] \in {"wait", "block", "returned"}
       /\ done[sendCh[i]] = "none"
       /\ sendCh[i] \notin wire
       /\ sendCh[i] \in Closers => sendCh[i] = grace /\ i = Len(sendCh)
  /\ halfClosed => /\ sendCh = << >> /\ draining
                   /\ mpc \in {"finish", "exit", "exitFail", "done"}
                   /\ pc[grace] # "push"

\* What the result of a request says about the stream.
ResultInv ==
  /\ \A p \in Callers : pc[p] \in {"idle", "gate", "push"} => done[p] = "none"
  /\ \A p \in Senders :
       /\ pc[p] \in {"idle", "gate", "push"} => p \notin wire
       /\ done[p] = "ok" => p \in wire
       /\ done[p] \in {"stopped", "notPrimary"} => p \notin wire
       /\ p \in wire => done[p] # "none" \/ InTransit(p)
       /\ InTransit(p) => p \in wire /\ done[p] = "none"
       /\ pc[p] \in {"wait", "block"} /\ done[p] = "none" =>
            Queued(p) \/ InTransit(p)
  /\ \A c \in Closers :
       /\ done[c] # "notPrimary"
       /\ done[c] = "ok" => halfClosed
  /\ mpc = "finish" => done[req] = "none" /\ halfClosed

\* What a call returned is what its request got, or its own context's error,
\* or that the supervisor ended.
ReturnInv ==
  /\ \A p \in Callers : pc[p] = "returned" <=> ret[p] # "none"
  /\ \A p \in Senders : Queued(p) /\ ret[p] \notin {"none", "ctx"} => stopped

\* The inductive invariant.
IInv == TypeOK /\ LoopInv /\ GateInv /\ QueueInv /\ ResultInv /\ ReturnInv
=============================================================================
