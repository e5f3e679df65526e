------------------------------- MODULE Events -------------------------------
(***************************************************************************)
(* Mastership events: setState publishes on the supervisor's channel, the  *)
(* client's forwardEvents goroutine copies to the channel the application  *)
(* reads. Both channels are bounded and both sides drop the newest event   *)
(* when the next channel is full, so the main loop never waits for anyone. *)
(***************************************************************************)
EXTENDS Supervisor

CONSTANT EventCap   \* capacity of each channel (16 in the code)

ASSUME EventsAssumption == EventCap \in Nat \ {0}

VARIABLES
  supEvents,   \* s.events; closed when stopped is
  cliEvents,   \* c.events
  fwdDone,     \* forwardEvents has ended and closed c.events
  dropped,     \* history: an event was dropped
  seen         \* history: the last event the application read, at first the
               \* state the client starts in

events == <<supEvents, cliEvents, fwdDone, dropped, seen>>
evars  == <<vars, events>>

EventsInit ==
  /\ Init
  /\ supEvents = << >> /\ cliEvents = << >> /\ fwdDone = FALSE
  /\ dropped = FALSE /\ seen = "disconnected"

\* The steps of the main loop that call setState, told by where they lead.
MutSetsState ==
  \/ mpc = "top" /\ mpc' = "dial"
  \/ mpc \in {"dial", "arbSend", "arbWait"} /\ mpc' = "sleep"
  \/ mpc = "arbWait" /\ mpc' = "serve"
  \/ mpc \in {"serve", "sending"} /\ mpc' = "fail"
  \/ mpc = "exit" /\ mpc' = "exitFail" /\ state # "disconnected"
SetsState ==
  \/ mpc = "top" /\ mpc' = "dial"
  \/ mpc \in {"dial", "arbSend", "arbWait"} /\ mpc' = "sleep"
  \/ mpc = "arbWait" /\ mpc' = "serve"
  \/ mpc \in {"serve", "finish"} /\ mpc' = mpc /\ recv[cur] \in {"arbOK", "arbOther"}
     /\ recv'[cur] = "recv"
  \/ mpc \in {"serve", "sending"} /\ mpc' = "fail"
  \/ mpc = "exit" /\ mpc' = "exitFail" /\ state # "disconnected"

\* The non-blocking send of event e on channel ch.
Offer(ch, e) == IF Len(ch) < EventCap THEN Append(ch, e) ELSE ch

\* A step of the supervisor, with setState's publication.
Publish ==
  /\ Next
  /\ IF SetsState
     THEN /\ supEvents' = Offer(supEvents, state')
          /\ dropped' = (dropped \/ Len(supEvents) = EventCap)
     ELSE UNCHANGED <<supEvents, dropped>>
  /\ UNCHANGED <<cliEvents, fwdDone, seen>>

\* forwardEvents takes one event.
Forward ==
  /\ supEvents # << >>
  /\ supEvents' = Tail(supEvents)
  /\ cliEvents' = Offer(cliEvents, Head(supEvents))
  /\ dropped' = (dropped \/ Len(cliEvents) = EventCap)
  /\ UNCHANGED <<vars, fwdDone, seen>>

\* Its range ends on a channel that is closed and empty.
MutForwardEnd ==
  /\ stopped /\ cliEvents = << >> /\ supEvents = << >> /\ ~fwdDone
  /\ fwdDone' = TRUE
  /\ UNCHANGED <<vars, supEvents, cliEvents, dropped, seen>>
ForwardEnd ==
  /\ stopped /\ supEvents = << >> /\ ~fwdDone
  /\ fwdDone' = TRUE
  /\ UNCHANGED <<vars, supEvents, cliEvents, dropped, seen>>

\* The application receives.
Receive ==
  /\ cliEvents # << >>
  /\ seen' = Head(cliEvents) /\ cliEvents' = Tail(cliEvents)
  /\ UNCHANGED <<vars, supEvents, fwdDone, dropped>>

EventsNext == Publish \/ Forward \/ ForwardEnd \/ Receive

EventsSpec == EventsInit /\ [][EventsNext]_evars

\* forwardEvents is scheduled; nobody need read.
EventsFairSpec == EventsSpec /\ WF_evars(Forward \/ ForwardEnd)

\* What an application that reads all there is will have seen last.
LastEvent ==
  LET all == <<seen>> \o cliEvents \o supEvents IN all[Len(all)]

-----------------------------------------------------------------------------
(* Properties *)

\* As long as nothing was dropped, the events lead up to the current state, so
\* that the application's view is behind but never wrong.
EventsTrackState == ~dropped => LastEvent = state

\* The application's channel is closed after the supervisor stopped, even if it
\* is never read.
EventsClose == stopped ~> fwdDone
=============================================================================
