--------------------------- MODULE StreamSession ---------------------------
(***************************************************************************)
(* What the supervisor promises the rest of the SDK about one device's     *)
(* StreamChannel, with no queue, goroutine or context in sight:            *)
(*   - mastership comes only out of a handshake and is gone after any      *)
(*     interruption, until the next handshake;                             *)
(*   - a message goes out while this controller is primary, once, before   *)
(*     the half-close, and not after its Send reported that it did not;    *)
(*   - what Send and CloseGracefully return is true of the stream;         *)
(*   - a stopped session is disconnected for good.                         *)
(***************************************************************************)
CONSTANTS Senders, Closers

VARIABLES state, wire, halfClosed, stopped, ret

vars == <<state, wire, halfClosed, stopped, ret>>

Init ==
  /\ state = "disconnected" /\ wire = {} /\ halfClosed = FALSE /\ stopped = FALSE
  /\ ret = [p \in Senders \cup Closers |-> "none"]

\* A new stream is opened, never once the session was half-closed.
Open ==
  /\ state = "disconnected" /\ ~stopped /\ ~halfClosed
  /\ state' = "connecting"
  /\ UNCHANGED <<wire, halfClosed, stopped, ret>>

\* The target says who is primary.
Elect ==
  /\ state # "disconnected"
  /\ state' \in {"primary", "backup"}
  /\ UNCHANGED <<wire, halfClosed, stopped, ret>>

Lose ==
  /\ state' = "disconnected"
  /\ UNCHANGED <<wire, halfClosed, stopped, ret>>

\* A message is committed to the transport.
Transmit(p) ==
  /\ state = "primary" /\ ~halfClosed
  /\ p \notin wire /\ ret[p] \in {"none", "ctx"}
  /\ wire' = wire \cup {p}
  /\ UNCHANGED <<state, halfClosed, stopped, ret>>

HalfClose ==
  /\ state \in {"primary", "backup"} /\ ~halfClosed
  /\ halfClosed' = TRUE
  /\ UNCHANGED <<state, wire, stopped, ret>>

\* Send returns: success only for a message that went out, "closed" and "not
\* primary" only for one that did not and never will.
ReplySend(p, e) ==
  /\ ret[p] = "none"
  /\ e = "ok" => p \in wire
  /\ e \in {"stopped", "notPrimary"} => p \notin wire
  /\ ret' = [ret EXCEPT ![p] = e]
  /\ UNCHANGED <<state, wire, halfClosed, stopped>>

\* CloseGracefully returns: success only after the half-close.
ReplyClose(c, e) ==
  /\ ret[c] = "none"
  /\ e = "ok" => halfClosed
  /\ e # "notPrimary"
  /\ ret' = [ret EXCEPT ![c] = e]
  /\ UNCHANGED <<state, wire, halfClosed, stopped>>

Stop ==
  /\ state = "disconnected" /\ stopped' = TRUE
  /\ UNCHANGED <<state, wire, halfClosed, ret>>

Errors == {"ok", "ctx", "stopped", "notPrimary", "transport"}

Next ==
  \/ Open \/ Elect \/ Lose \/ HalfClose \/ Stop
  \/ \E p \in Senders : Transmit(p) \/ (\E e \in Errors : ReplySend(p, e))
  \/ \E c \in Closers, e \in Errors : ReplyClose(c, e)

Spec == Init /\ [][Next]_vars
=============================================================================
