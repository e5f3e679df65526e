---------------------------- MODULE PipelineRPC ----------------------------
(***************************************************************************)
(* SetPipeline with its fallback (client/pipeline.go) and GetPipeline with *)
(* its error (client/pipeline_error.go).                                   *)
(*                                                                         *)
(* SetPipeline looks at mastership once and may then send two requests.    *)
(* The target handles each later, perhaps after mastership changed there,  *)
(* perhaps after the caller gave up. The target is external and does what  *)
(* the P4Runtime specification says of each action. A status message is    *)
(* abstracted to what it is about: isFallbackError and getPipelineError.Is *)
(* compare the message with lists of phrasings of "unsupported action" and *)
(* of "pipeline not set".                                                  *)
(***************************************************************************)
EXTENDS Naturals, Sequences, FiniteSets

CONSTANTS
  SetCalls, GetCalls,  \* the calls made
  Configs,             \* pipeline configs
  None                 \* no config: a nil pipeline

ASSUME PipelineAssumption == None \notin Configs /\ SetCalls \cap GetCalls = {}

Calls == SetCalls \cup GetCalls

CommitActions == {"VERIFY_AND_COMMIT", "COMMIT", "RECONCILE_AND_COMMIT"}
PipelineActions == CommitActions \cup {"VERIFY", "VERIFY_AND_SAVE"}

\* A SetPipelineOptions.Action may also be left at zero or be no action at all.
OptionActions == PipelineActions \cup {"UNSPECIFIED", "invalid"}

\* "Unavailable" stands for every status of the transport and the caller's
\* context; a "plain" error carries no status.
Codes == {"OK", "PermissionDenied", "Unimplemented", "InvalidArgument",
          "FailedPrecondition", "Unavailable", "plain"}
Messages == {"other", "not primary", "unsupported action", "pipeline not set"}

Status(code, msg) == [code |-> code, msg |-> msg]

VARIABLES
  primary,    \* what IsPrimary reports
  leader,     \* whether the target takes this client for the primary
  supported,  \* the actions the target implements
  active,     \* the config the target runs
  saved,      \* the config it has saved
  forwarding, \* whether there is forwarding state under the active config
  pc,         \* idle, sent or returned
  net,        \* where the call's RPC is: none, request, reply
  reply,      \* the status on its way back
  actions,    \* the actions a SetPipeline is to try
  config,     \* the config it sends, or the one GetPipeline is sent
  attempted,  \* result.Attempted
  ret,        \* how the call returned
  did,        \* history: the actions of a SetPipeline the target performed
  seen        \* history: the active config when the target handled a GetPipeline

target == <<leader, supported, active, saved, forwarding>>
flow   == <<pc, net, reply>>
setArg == <<actions, attempted>>
pvars  == <<primary, target, flow, setArg, config, ret, did, seen>>

PipelineInit ==
  /\ primary \in BOOLEAN /\ leader \in BOOLEAN
  /\ supported \in SUBSET PipelineActions
  /\ active \in Configs \cup {None} /\ saved \in Configs \cup {None}
  /\ forwarding \in BOOLEAN /\ (active = None => ~forwarding)
  /\ pc = [c \in Calls |-> "idle"] /\ net = [c \in Calls |-> "none"]
  /\ reply = [c \in Calls |-> Status("OK", "other")]
  /\ actions = [c \in SetCalls |-> <<>>] /\ attempted = [c \in SetCalls |-> <<>>]
  /\ config = [c \in Calls |-> None]
  /\ ret = [c \in Calls |-> "none"]
  /\ did = [c \in SetCalls |-> <<>>]
  /\ seen = [c \in GetCalls |-> None]

-----------------------------------------------------------------------------
(* SetPipeline *)

\* The default action.
Chosen(a) == IF a = "UNSPECIFIED" THEN "VERIFY_AND_COMMIT" ELSE a

\* COMMIT goes without a pipeline, every other action with one.
ValidArguments(a, p) ==
  \/ Chosen(a) = "COMMIT" /\ p = None
  \/ Chosen(a) \in PipelineActions \ {"COMMIT"} /\ p # None

\* The actions to try.
MutPlan(a, noFallback) ==
  IF Chosen(a) = "RECONCILE_AND_COMMIT" /\ ~noFallback
  THEN <<Chosen(a), "VERIFY_AND_COMMIT">> ELSE <<Chosen(a)>>
Plan(a, noFallback) ==
  IF Chosen(a) = "VERIFY_AND_COMMIT" /\ ~noFallback
  THEN <<Chosen(a), "RECONCILE_AND_COMMIT">> ELSE <<Chosen(a)>>

Return(c, e) ==
  /\ pc' = [pc EXCEPT ![c] = "returned"]
  /\ ret' = [ret EXCEPT ![c] = e]

\* The next attempt is recorded and sent.
Attempt(c, plan) ==
  /\ pc' = [pc EXCEPT ![c] = "sent"] /\ net' = [net EXCEPT ![c] = "request"]
  /\ attempted' = [attempted EXCEPT ![c] = Append(@, plan[Len(@) + 1])]

SetPipeline(c, a, p, noFallback) ==
  /\ pc[c] = "idle"
  /\ \/ /\ ~ValidArguments(a, p) \/ ~primary
        /\ Return(c, IF ValidArguments(a, p) THEN "NotPrimary" ELSE "argument")
        /\ UNCHANGED <<net, setArg, config>>
     \/ /\ ValidArguments(a, p) /\ primary
        /\ actions' = [actions EXCEPT ![c] = Plan(a, noFallback)]
        /\ config' = [config EXCEPT ![c] = p]
        /\ Attempt(c, Plan(a, noFallback))
        /\ UNCHANGED ret
  /\ UNCHANGED <<primary, target, reply, did, seen>>

\* isFallbackError.
MutIsFallbackError(st) == st.code \in {"Unimplemented", "InvalidArgument", "Unavailable"}
IsFallbackError(st) ==
  \/ st.code = "Unimplemented"
  \/ st.code = "InvalidArgument" /\ st.msg = "unsupported action"

\* One turn of the loop, with the status the RPC ended with: success, the next
\* action, or the last error.
MutSetResult(c, st) ==
  \/ st.code = "OK" /\ Return(c, "nil") /\ UNCHANGED <<net, attempted>>
  \/ /\ st.code # "OK"
     /\ Len(attempted[c]) = Len(actions[c])
     /\ Return(c, "TargetUnsupported")
     /\ UNCHANGED <<net, attempted>>
  \/ /\ st.code # "OK" /\ Len(attempted[c]) < Len(actions[c])
     /\ Attempt(c, actions[c]) /\ UNCHANGED ret
SetResult(c, st) ==
  \/ st.code = "OK" /\ Return(c, "nil") /\ UNCHANGED <<net, attempted>>
  \/ /\ st.code # "OK"
     /\ ~IsFallbackError(st) \/ Len(attempted[c]) = Len(actions[c])
     /\ Return(c, IF IsFallbackError(st) THEN "TargetUnsupported" ELSE "error")
     /\ UNCHANGED <<net, attempted>>
  \/ /\ IsFallbackError(st) /\ Len(attempted[c]) < Len(actions[c])
     /\ Attempt(c, actions[c]) /\ UNCHANGED ret

SetReply(c) ==
  /\ pc[c] = "sent" /\ net[c] = "reply"
  /\ SetResult(c, reply[c])
  /\ UNCHANGED <<primary, target, reply, actions, config, did, seen>>

\* The transport fails or the caller's context expires: the request may still
\* reach the target.
SetFail(c) ==
  /\ pc[c] = "sent"
  /\ \E code \in {"Unavailable", "plain"} : SetResult(c, Status(code, "other"))
  /\ UNCHANGED <<primary, target, reply, actions, config, did, seen>>

-----------------------------------------------------------------------------
(* GetPipeline *)

GetPipeline(c) ==
  /\ pc[c] = "idle"
  /\ pc' = [pc EXCEPT ![c] = "sent"] /\ net' = [net EXCEPT ![c] = "request"]
  /\ UNCHANGED <<primary, target, reply, setArg, config, ret, did, seen>>

\* getPipelineError.Is(ErrPipelineNotSet).
MutIsNotSet(st) == st.code = "FailedPrecondition"
IsNotSet(st) == st.code = "FailedPrecondition" /\ st.msg = "pipeline not set"

\* An error, an answer without config, or a pipeline.
GetReply(c) ==
  /\ pc[c] = "sent" /\ net[c] = "reply"
  /\ Return(c, CASE reply[c].code # "OK" -> IF IsNotSet(reply[c]) THEN "PipelineNotSet" ELSE "error"
                 [] reply[c].code = "OK" /\ config[c] = None -> "PipelineNotSet"
                 [] OTHER -> "nil")
  /\ UNCHANGED <<primary, target, net, reply, setArg, config, did, seen>>

GetFail(c) ==
  /\ pc[c] = "sent" /\ Return(c, "error")
  /\ UNCHANGED <<primary, target, net, reply, setArg, config, did, seen>>

-----------------------------------------------------------------------------
(* The target *)

Reply(c, st) ==
  /\ net[c] = "request" /\ net' = [net EXCEPT ![c] = "reply"]
  /\ reply' = [reply EXCEPT ![c] = st]

Last(s) == s[Len(s)]

\* Not the primary, an action it does not implement, a config it cannot take,
\* or nothing saved to commit.
TargetRefuse(c) ==
  /\ net[c] = "request"
  /\ \/ ~leader /\ Reply(c, Status("PermissionDenied", "not primary"))
     \/ /\ Last(attempted[c]) \notin supported
        /\ \/ Reply(c, Status("Unimplemented", "other"))
           \/ Reply(c, Status("InvalidArgument", "unsupported action"))
     \/ Reply(c, Status("InvalidArgument", "other"))
     \/ Last(attempted[c]) = "COMMIT" /\ saved = None
        /\ Reply(c, Status("FailedPrecondition", "other"))
  /\ UNCHANGED <<primary, target, pc, setArg, config, ret, did, seen>>

\* VERIFY_AND_COMMIT and COMMIT clear the forwarding state.
TargetPerform(c) ==
  LET act == Last(attempted[c]) IN
  /\ net[c] = "request" /\ leader /\ act \in supported
  /\ act = "COMMIT" => saved # None
  /\ saved' = IF act = "VERIFY_AND_SAVE" THEN config[c] ELSE saved
  /\ active' = CASE act = "COMMIT" -> saved
                 [] act \in CommitActions \ {"COMMIT"} -> config[c]
                 [] OTHER -> active
  /\ forwarding' = (forwarding /\ act \notin {"VERIFY_AND_COMMIT", "COMMIT"})
  /\ did' = [did EXCEPT ![c] = Append(@, act)]
  /\ Reply(c, Status("OK", "other"))
  /\ UNCHANGED <<primary, leader, supported, pc, setArg, config, ret, seen>>

\* Without a pipeline the target answers with an error or with no config; it
\* may also refuse for another reason.
TargetGet(c) ==
  /\ \/ Reply(c, Status("OK", "other"))
     \/ active = None /\ Reply(c, Status("FailedPrecondition", "pipeline not set"))
     \/ Reply(c, Status("FailedPrecondition", "other"))
  /\ config' = [config EXCEPT ![c] = active]
  /\ seen' = [seen EXCEPT ![c] = active]
  /\ UNCHANGED <<primary, target, pc, setArg, ret, did>>

\* Entries are written under the active config.
Populate ==
  /\ active # None /\ ~forwarding /\ forwarding' = TRUE
  /\ UNCHANGED <<primary, leader, supported, active, saved, flow, setArg, config, ret, did, seen>>

\* Another controller takes over or leaves, and this client's supervisor
\* learns of it, or loses the stream.
LeaderChange ==
  /\ leader' = ~leader
  /\ UNCHANGED <<primary, supported, active, saved, forwarding, flow, setArg, config, ret, did, seen>>

ViewChange ==
  /\ primary' \in {leader, FALSE}
  /\ UNCHANGED <<target, flow, setArg, config, ret, did, seen>>

-----------------------------------------------------------------------------
SetStep(c) ==
  \/ \E a \in OptionActions, p \in Configs \cup {None}, nf \in BOOLEAN : SetPipeline(c, a, p, nf)
  \/ SetReply(c) \/ SetFail(c) \/ TargetRefuse(c) \/ TargetPerform(c)

GetStep(c) == GetPipeline(c) \/ GetReply(c) \/ GetFail(c) \/ TargetGet(c)

PipelineNext ==
  \/ \E c \in SetCalls : SetStep(c)
  \/ \E c \in GetCalls : GetStep(c)
  \/ Populate \/ LeaderChange \/ ViewChange

PipelineSpec == PipelineInit /\ [][PipelineNext]_pvars

-----------------------------------------------------------------------------
(* Properties *)

\* SetPipeline sends a second request only when the target does not implement
\* the first action, so that a config is never committed twice by one call:
\* not when the first request was carried out and its answer lost, and not when
\* the config was refused.
FallbackJustified ==
  \A c \in SetCalls :
    /\ Len(attempted[c]) = 2 => attempted[c][1] \notin supported
    /\ Len(did[c]) <= 1

\* What SetPipeline returns is true: without an error the target performed
\* exactly the action reported, the last one attempted; with
\* ErrTargetUnsupported or before any attempt it performed and will perform none.
SetOutcomeTrue ==
  \A c \in SetCalls :
    /\ ret[c] = "nil" => did[c] = <<Last(attempted[c])>>
    /\ ret[c] \in {"TargetUnsupported", "NotPrimary", "argument"} => did[c] = <<>>

\* A step that clears the forwarding state is the target's work for a call that
\* asked for an action that does.
ClearingAsked ==
  forwarding /\ ~forwarding' =>
    \E c \in SetCalls : /\ Len(did'[c]) > Len(did[c])
                        /\ actions[c][1] \in {"VERIFY_AND_COMMIT", "COMMIT"}

\* Forwarding state is cleared only for a call that asked for it with COMMIT or
\* VERIFY_AND_COMMIT: RECONCILE_AND_COMMIT never falls back to an action that does.
ForwardingKept == [][ClearingAsked]_pvars

\* GetPipeline reports ErrPipelineNotSet only if the target had no pipeline, and
\* returns the one it had.
NotSetTrue ==
  \A c \in GetCalls :
    /\ ret[c] = "PipelineNotSet" => seen[c] = None
    /\ ret[c] = "nil" => seen[c] # None /\ config[c] = seen[c]
=============================================================================
