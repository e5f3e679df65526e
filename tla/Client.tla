------------------------------- MODULE Client -------------------------------
(***************************************************************************)
(* client/client.go on top of the supervisor: Dial, Close, CloseGracefully *)
(* and BecomePrimary, and the mastership check of SendStreamRequest.       *)
(*                                                                         *)
(* The client owns the context of run: c.cancel is what the Supervisor     *)
(* module calls the cancelling of run's context, and Close is the only     *)
(* caller of the supervisor's Close. The application has the client, and   *)
(* can call it, once Dial returned it.                                     *)
(***************************************************************************)
EXTENDS Supervisor

CONSTANTS
  Waiters,  \* calls of BecomePrimary
  Users,    \* calls of Client.Close, from handlers or elsewhere
  Dialing   \* the call of Dial

\* The calls that end in Client.Close.
CloseCalls == Users \cup Closers \cup {Dialing}

ASSUME ClientAssumption ==
  /\ Dialing \notin Users \cup Closers /\ Users \cap Closers = {}

\* Where Client.Close's once is: unused, about to cancel, about to stop the
\* supervisor, waiting for it, or done with the connection closed and c.closed.
OncePc == {"free", "cancel", "stop", "wait", "finished"}

VARIABLES
  once,      \* progress of the one run of Close's body
  cpc,       \* where each call that ends in Close is
  refused,   \* sends turned away by SendStreamRequest's own check
  wpc,       \* where each BecomePrimary call is
  wret,      \* what it returned
  watching   \* waiters whose captured s.changed is still the current channel

closing  == <<once, cpc>>
waiting  == <<wpc, wret>>
own      == <<closing, refused, waiting>>
cvars    == <<vars, own, watching>>

\* Every variable of the client is of its type.
ClientTypeOK ==
  /\ once \in OncePc
  /\ cpc \in [CloseCalls -> {"poll", "open", "idle", "close", "returned"}]
  /\ refused \subseteq Senders
  /\ wpc \in [Waiters -> {"idle", "snapshot", "block", "returned"}]
  /\ wret \in [Waiters -> {"none", "ok", "ctx", "stopped"}]
  /\ watching \subseteq Waiters

\* Dial has built the client and started the supervisor.
ClientInit ==
  /\ Init
  /\ once = "free"
  /\ cpc = [k \in CloseCalls |-> IF k = Dialing THEN "poll" ELSE "idle"]
  /\ refused = {}
  /\ wpc = [w \in Waiters |-> "idle"] /\ wret = [w \in Waiters |-> "none"]
  /\ watching = {}

HasClient == cpc[Dialing] = "open"

\* setState closes the channel every waiter captured.
MutWoken == IF state' = state \/ watching = {} THEN watching
            ELSE watching \ {CHOOSE w \in watching : TRUE}
Woken == IF state' = state THEN watching ELSE {}

-----------------------------------------------------------------------------
(* Close *)

\* A call enters Close; the first one runs the body.
CallClose(k) ==
  /\ cpc' = [cpc EXCEPT ![k] = "close"]
  /\ once' = IF once = "free" THEN "cancel" ELSE once

CloseCancelCtx ==
  /\ once = "cancel" /\ once' = "stop"
  /\ parentDone' = TRUE
  /\ UNCHANGED <<mastership, queue, stop, stopped, main, recv, calls, done, history,
                 cpc, refused, waiting, watching>>

CloseStopSupervisor ==
  /\ once = "stop" /\ once' = "wait"
  /\ CloseStop
  /\ UNCHANGED <<cpc, refused, waiting, watching>>

\* The supervisor has stopped: the connection and c.closed are closed.
CloseRelease ==
  /\ once = "wait" /\ stopped /\ once' = "finished"
  /\ UNCHANGED <<vars, cpc, refused, waiting, watching>>

\* once.Do returns, for the call that ran the body and for the others, only
\* when the body is done.
MutCloseReturn(k) ==
  /\ cpc[k] = "close"
  /\ cpc' = [cpc EXCEPT ![k] = "returned"]
  /\ UNCHANGED <<vars, once, refused, waiting, watching>>
CloseReturn(k) ==
  /\ cpc[k] = "close" /\ once = "finished"
  /\ cpc' = [cpc EXCEPT ![k] = "returned"]
  /\ UNCHANGED <<vars, once, refused, waiting, watching>>

-----------------------------------------------------------------------------
(* Dial, and the calls that lead to Close *)

\* Dial's poll sees an arbitrated stream, or its context or deadline ends it
\* and it closes what it opened.
DialOpen ==
  /\ cpc[Dialing] = "poll" /\ state \in {"primary", "backup"}
  /\ cpc' = [cpc EXCEPT ![Dialing] = "open"]
  /\ UNCHANGED <<vars, once, refused, waiting, watching>>

DialGiveUp ==
  /\ cpc[Dialing] = "poll" /\ CallClose(Dialing)
  /\ UNCHANGED <<vars, refused, waiting, watching>>

UserClose(u) ==
  /\ HasClient /\ cpc[u] = "idle" /\ CallClose(u)
  /\ UNCHANGED <<vars, refused, waiting, watching>>

\* CloseGracefully: the supervisor's, then Close, whatever the first returned.
ClientGraceStart(c) == HasClient /\ GraceStart(c) /\ UNCHANGED <<own, watching>>

ClientGraceClose(c) ==
  /\ pc[c] = "returned" /\ cpc[c] = "idle" /\ CallClose(c)
  /\ UNCHANGED <<vars, refused, waiting, watching>>

-----------------------------------------------------------------------------
(* BecomePrimary *)

Answer(w, e) ==
  /\ wpc' = [wpc EXCEPT ![w] = "returned"]
  /\ wret' = [wret EXCEPT ![w] = e]

Proceed(w, l) == wpc' = [wpc EXCEPT ![w] = l] /\ UNCHANGED wret

\* The look at c.ctx that starts every round.
Round(w) == IF parentDone THEN Answer(w, "stopped") ELSE Proceed(w, "snapshot")

BecomePrimary(w) ==
  /\ HasClient /\ wpc[w] = "idle" /\ Round(w)
  /\ UNCHANGED <<vars, closing, refused, watching>>

\* WatchState: the state and its channel, read under one lock.
WatchState(w) ==
  /\ wpc[w] = "snapshot"
  /\ \/ state = "primary" /\ Answer(w, "ok") /\ UNCHANGED watching
     \/ state # "primary" /\ Proceed(w, "block") /\ watching' = watching \cup {w}
  /\ UNCHANGED <<vars, closing, refused>>

\* The select: a change of state, the client's context, or c.closed.
MutWake(w) ==
  /\ wpc[w] = "block" /\ w \notin watching /\ Round(w)
  /\ UNCHANGED <<vars, closing, refused, watching>>
Wake(w) ==
  /\ wpc[w] = "block"
  /\ \/ w \notin watching /\ Round(w)
     \/ (parentDone \/ once = "finished") /\ Answer(w, "stopped")
  /\ UNCHANGED <<vars, closing, refused, watching>>

\* The select: the caller's context.
GiveUp(w) ==
  /\ wpc[w] = "block" /\ Answer(w, "ctx")
  /\ UNCHANGED <<vars, closing, refused, watching>>

-----------------------------------------------------------------------------
(* SendStreamRequest *)

SendStreamRequest(p) ==
  /\ HasClient /\ p \notin refused
  /\ \/ state = "primary" /\ SendStart(p) /\ UNCHANGED refused
     \/ /\ state # "primary" /\ pc[p] = "idle"
        /\ refused' = refused \cup {p} /\ UNCHANGED vars
  /\ UNCHANGED <<closing, waiting, watching>>

-----------------------------------------------------------------------------
\* A step of the supervisor. Everything in it but Close is its own.
SupervisorStep ==
  /\ \/ \E p \in Senders : SendStep(p)
     \/ \E c \in Closers : GraceStep(c)
     \/ \E p \in Callers : WaitStep(p) \/ Expire(p)
     \/ ConnectStep \/ ServeStep \/ ExitStep
     \/ \E s \in Streams : RecvStep(s)
  /\ watching' = Woken
  /\ UNCHANGED own

CloseStep == CloseCancelCtx \/ CloseStopSupervisor \/ CloseRelease
             \/ \E k \in CloseCalls : CloseReturn(k)

\* Nothing is left to do.
ClientTerminated ==
  /\ once = "finished"
  /\ \A k \in CloseCalls : HasClient \/ k = Dialing =>
       cpc[k] \in {"open", "returned"}
  /\ \A s \in Streams : recv[s] = "idle"
  /\ \A w \in Waiters : HasClient => wpc[w] = "returned"
  /\ \A p \in Senders : HasClient => pc[p] = "returned" \/ p \in refused
  /\ UNCHANGED cvars

ClientNext ==
  \/ DialOpen \/ DialGiveUp
  \/ \E u \in Users : UserClose(u)
  \/ \E c \in Closers : ClientGraceStart(c) \/ ClientGraceClose(c)
  \/ \E w \in Waiters : BecomePrimary(w) \/ WatchState(w) \/ Wake(w) \/ GiveUp(w)
  \/ \E p \in Senders : SendStreamRequest(p)
  \/ CloseStep \/ SupervisorStep \/ ClientTerminated

ClientSpec == ClientInit /\ [][ClientNext]_cvars

\* Close's body, calls waiting for it and running waiters are scheduled, as the
\* supervisor's activities are; a caller's context need not expire.
ClientFairSpec ==
  /\ ClientSpec /\ Fairness
  /\ WF_cvars(CloseStep)
  /\ \A c \in Closers : WF_cvars(ClientGraceClose(c))
  /\ \A w \in Waiters : WF_cvars(WatchState(w) \/ Wake(w))

-----------------------------------------------------------------------------
(* Properties *)

\* The client drives its supervisor as the Supervisor module assumes, so all
\* that holds of the supervisor holds inside the client.
DrivesSupervisor == Spec

\* When Close, CloseGracefully or a failed Dial returns, whichever call ran the
\* body of Close, the supervisor has stopped and mastership is gone.
Released ==
  \A k \in CloseCalls : cpc[k] = "returned" =>
    once = "finished" /\ stopped /\ stop /\ parentDone /\ state = "disconnected"

\* A waiter that is not going to be woken waits in a state that is not
\* primary: no change to primary is missed between WatchState and the select.
NoMissedPrimary ==
  \A w \in watching : wpc[w] = "block" => state # "primary"

\* Every call of Close, CloseGracefully and a failed Dial returns, and takes
\* everything down, even if the target, a handler or a reader never moves.
CloseReturns ==
  \A k \in CloseCalls : cpc[k] = "close" ~> cpc[k] = "returned"

\* BecomePrimary returns when the client is closed while it waits, and when the
\* client stays primary.
WaitersReturn ==
  \A w \in Waiters :
    /\ (wpc[w] # "idle" /\ parentDone) ~> wpc[w] = "returned"
    /\ (wpc[w] # "idle" /\ state = "primary") ~> (wpc[w] = "returned" \/ state # "primary")
=============================================================================
