------------------------------- MODULE Tenure -------------------------------
(***************************************************************************)
(* Which mastership a message is sent under. A history variable watches    *)
(* the supervisor's state while a Send is under way. It takes no notice of *)
(* the channels by which the supervisor itself tells tenures apart, and    *)
(* every behaviour of the supervisor is one of this module.                *)
(***************************************************************************)
EXTENDS SupervisorInv

VARIABLE since  \* since[p]: the states of the supervisor from when Send p took the gate until it is sent

tenureVars == <<vars, since>>

Watch ==
  since' = [p \in Senders |->
              IF pc'[p] \in {"idle", "gate"} \/ p \in wire' THEN {} ELSE since[p] \cup {state'}]

TenureInit == Init /\ since = [p \in Senders |-> {}]
TenureNext == Next /\ Watch

TenureSpec == TenureInit /\ [][TenureNext]_tenureVars

\* What the proof of SentInItsTenure needs: a call whose token is still current has
\* seen one state only, the present one.
TenureInv ==
  \A p \in Senders :
    /\ pc[p] \in {"idle", "gate"} => since[p] = {}
    /\ p \in current => /\ pc[p] \notin {"idle", "gate"}
                        /\ p \notin wire => since[p] = {state}

\* A message goes out under the mastership it was accepted in: from the moment Send
\* took the gate until the message is handed to stream.Send the supervisor has been
\* primary all the time. A message that waited in the queue while mastership was
\* lost and won again, on the same stream or on another, is not sent.
SentInItsTenure ==
  [][\A p \in Senders : p \in wire' \ wire => since[p] = {"primary"}]_tenureVars
=============================================================================
