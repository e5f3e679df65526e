------------------------- MODULE PipelineRPCProofs -------------------------
(***************************************************************************)
(* Proofs about SetPipeline and GetPipeline, for any number of concurrent  *)
(* calls and any set of configs: what a call returns is true of what the   *)
(* target did, whatever is lost or overtaken on the way.                   *)
(***************************************************************************)
EXTENDS PipelineRPC, SequenceTheorems, TLAPS

\* How far a SetPipeline has come with its plan: one action, or the fallback
\* after an action the target does not implement.
PlanInv(c) ==
  \/ \E a \in PipelineActions : actions[c] = <<a>> /\ attempted[c] = <<a>>
  \/ /\ actions[c] = <<"VERIFY_AND_COMMIT", "RECONCILE_AND_COMMIT">>
     /\ \/ attempted[c] = <<"VERIFY_AND_COMMIT">>
        \/ /\ attempted[c] = <<"VERIFY_AND_COMMIT", "RECONCILE_AND_COMMIT">>
           /\ "VERIFY_AND_COMMIT" \notin supported

\* What a request in flight and its answer say of what the target did for the
\* call, and which answer each result of the call goes back to.
SetInv(c) ==
  /\ net[c] \in {"none", "request", "reply"}
  /\ pc[c] = "idle" => net[c] = "none"
  /\ net[c] = "none" => attempted[c] = <<>>
  /\ net[c] # "none" => PlanInv(c)
  /\ net[c] # "reply" => did[c] = <<>>
  /\ net[c] = "reply" =>
       /\ did[c] = IF reply[c].code = "OK" THEN <<Last(attempted[c])>> ELSE <<>>
       /\ IsFallbackError(reply[c]) => Last(attempted[c]) \notin supported
  /\ pc[c] # "returned" => ret[c] = "none"
  /\ ret[c] = "nil" => net[c] = "reply" /\ reply[c].code = "OK"
  /\ ret[c] = "TargetUnsupported" => net[c] = "reply" /\ reply[c].code # "OK"
  /\ ret[c] \in {"NotPrimary", "argument"} => net[c] = "none"

\* What the answer to a GetPipeline says of the pipeline the target had then.
GetInv(c) ==
  /\ net[c] = "reply" =>
       /\ config[c] = seen[c]
       /\ IsNotSet(reply[c]) => seen[c] = None
  /\ pc[c] = "idle" => net[c] = "none"
  /\ pc[c] # "returned" => ret[c] = "none"
  /\ ret[c] \in {"nil", "PipelineNotSet"} => net[c] = "reply"
  /\ ret[c] = "PipelineNotSet" => seen[c] = None
  /\ ret[c] = "nil" => seen[c] # None

Shapes ==
  /\ DOMAIN pc = Calls /\ DOMAIN net = Calls /\ DOMAIN reply = Calls
  /\ DOMAIN config = Calls /\ DOMAIN ret = Calls
  /\ DOMAIN actions = SetCalls /\ DOMAIN attempted = SetCalls /\ DOMAIN did = SetCalls
  /\ DOMAIN seen = GetCalls

\* The inductive invariant.
PipelineInv ==
  Shapes /\ (\A c \in SetCalls : SetInv(c)) /\ (\A c \in GetCalls : GetInv(c))

-----------------------------------------------------------------------------
(* Steps of one call *)

\* A second attempt after the first.
LEMMA AppendSecond == ASSUME NEW x, NEW y PROVE Append(<<x>>, y) = <<x, y>>
<1> DEFINE S == {x, y}
           s == Append(<<x>>, y)
           t == <<x, y>>
<1>1. <<x>> \in Seq(S) /\ t \in Seq(S) /\ y \in S OBVIOUS
<1>2. Len(<<x>>) = 1 /\ Len(t) = 2 OBVIOUS
<1>3. s \in Seq(S) /\ Len(s) = 2 BY <1>1, <1>2
<1>4. s[1] = x /\ s[2] = y BY <1>1, <1>2
<1>5. \A i \in 1..Len(s) : s[i] = t[i] BY <1>3, <1>4
<1> HIDE DEF S, s, t
<1>. QED BY <1>1, <1>2, <1>3, <1>5, SeqEqual DEF s, t

\* A step leaves call d alone.
Untouched(d) ==
  /\ pc'[d] = pc[d] /\ net'[d] = net[d] /\ reply'[d] = reply[d]
  /\ config'[d] = config[d] /\ ret'[d] = ret[d]
  /\ d \in SetCalls => /\ actions'[d] = actions[d] /\ attempted'[d] = attempted[d]
                       /\ did'[d] = did[d]
  /\ d \in GetCalls => seen'[d] = seen[d]

\* A step of one call keeps the shape of the state and the actions the target
\* implements, and leaves every other call alone.
LEMMA CallsApart ==
  ASSUME Shapes, NEW c \in Calls,
         \/ c \in SetCalls /\ SetStep(c)
         \/ c \in GetCalls /\ GetStep(c)
  PROVE  /\ Shapes' /\ supported' = supported
         /\ \A d \in Calls : d # c => Untouched(d)
<1> USE DEF Shapes, target, flow, setArg, Return, Attempt, Reply, Untouched
<1>1. ASSUME NEW a, NEW p, NEW nf, SetPipeline(c, a, p, nf)
      PROVE  Shapes' /\ supported' = supported /\ \A d \in Calls : d # c => Untouched(d)
  BY <1>1 DEF SetPipeline
<1>2. ASSUME SetReply(c) \/ SetFail(c)
      PROVE  Shapes' /\ supported' = supported /\ \A d \in Calls : d # c => Untouched(d)
  BY <1>2 DEF SetReply, SetFail, SetResult
<1>3. ASSUME TargetRefuse(c) \/ TargetPerform(c)
      PROVE  Shapes' /\ supported' = supported /\ \A d \in Calls : d # c => Untouched(d)
  BY <1>3 DEF TargetRefuse, TargetPerform
<1>4. ASSUME GetStep(c)
      PROVE  Shapes' /\ supported' = supported /\ \A d \in Calls : d # c => Untouched(d)
  BY <1>4 DEF GetStep, GetPipeline, GetReply, GetFail, TargetGet
<1>. QED BY <1>1, <1>2, <1>3, <1>4 DEF SetStep

\* A call that is left alone keeps its invariant.
LEMMA SetFrame ==
  ASSUME NEW c \in SetCalls, SetInv(c), Untouched(c), supported' = supported
  PROVE  SetInv(c)'
BY DEF SetInv, PlanInv, Untouched, Last, IsFallbackError

LEMMA GetFrame ==
  ASSUME NEW c \in GetCalls, GetInv(c), Untouched(c)
  PROVE  GetInv(c)'
BY DEF GetInv, Untouched, IsNotSet

\* The actions a SetPipeline is to try are those PlanInv speaks of, and its
\* first attempt is the first of them.
LEMMA PlanShape ==
  ASSUME NEW a \in OptionActions, NEW p, NEW nf \in BOOLEAN, ValidArguments(a, p)
  PROVE  /\ Append(<<>>, Plan(a, nf)[Len(<<>>) + 1]) = <<Chosen(a)>>
         /\ \/ Plan(a, nf) = <<Chosen(a)>> /\ Chosen(a) \in PipelineActions
            \/ /\ Plan(a, nf) = <<"VERIFY_AND_COMMIT", "RECONCILE_AND_COMMIT">>
               /\ Chosen(a) = "VERIFY_AND_COMMIT"
BY DEF Plan, ValidArguments, Chosen, OptionActions, PipelineActions, CommitActions

\* The call itself: refused before any request, or the first request sent.
LEMMA SetPipelineKeeps ==
  ASSUME Shapes, NEW c \in SetCalls, SetInv(c),
         NEW a \in OptionActions, NEW p, NEW nf \in BOOLEAN, SetPipeline(c, a, p, nf)
  PROVE  SetInv(c)'
<1> USE DEF Shapes, target, setArg, Return, Attempt
<1>0. c \in Calls BY DEF Calls
<1>1. /\ net[c] = "none" /\ attempted[c] = <<>> /\ did[c] = <<>> /\ ret[c] = "none"
      /\ did' = did /\ supported' = supported
  BY DEF SetPipeline, SetInv
<1>2. CASE ~ValidArguments(a, p) \/ ~primary
  BY <1>0, <1>1, <1>2 DEF SetPipeline, SetInv
<1>3. CASE ValidArguments(a, p) /\ primary
  <2>1. /\ pc'[c] = "sent" /\ net'[c] = "request" /\ ret'[c] = "none"
        /\ actions'[c] = Plan(a, nf)
        /\ attempted'[c] = Append(<<>>, Plan(a, nf)[Len(<<>>) + 1])
    BY <1>0, <1>1, <1>3 DEF SetPipeline
  <2>2. PlanInv(c)' BY <2>1, <1>3, PlanShape DEF PlanInv
  <2>. QED BY <1>1, <2>1, <2>2 DEF SetInv
<1>. QED BY <1>2, <1>3

\* One turn of the loop: with the answer that arrived, or with an error of the
\* transport, which is no reason to fall back.
LEMMA SetResultKeeps ==
  ASSUME Shapes, NEW c \in SetCalls, SetInv(c), pc[c] = "sent", NEW st, SetResult(c, st),
         \/ net[c] = "reply" /\ st = reply[c]
         \/ st.code \in {"Unavailable", "plain"},
         UNCHANGED <<supported, reply, actions, did>>
  PROVE  SetInv(c)'
<1> USE DEF Shapes, Return, Attempt
<1>0. c \in Calls BY DEF Calls
<1>1. CASE st.code = "OK"
  <2>1. net[c] = "reply" /\ reply[c].code = "OK" BY <1>1
  <2>2. ret'[c] = "nil" /\ pc'[c] = "returned" /\ UNCHANGED <<net, attempted>>
    BY <1>0, <1>1 DEF SetResult, IsFallbackError
  <2>3. PlanInv(c)' BY <2>1, <2>2 DEF SetInv, PlanInv
  <2>. QED BY <2>1, <2>2, <2>3 DEF SetInv, Last
<1>2. CASE st.code # "OK" /\ Return(c, IF IsFallbackError(st) THEN "TargetUnsupported" ELSE "error")
           /\ UNCHANGED <<net, attempted>>
  BY <1>0, <1>2 DEF SetInv, PlanInv, Last, IsFallbackError
<1>3. CASE IsFallbackError(st) /\ Len(attempted[c]) < Len(actions[c]) /\ Attempt(c, actions[c])
           /\ UNCHANGED ret
  <2>1. net[c] = "reply" /\ st = reply[c] BY <1>3 DEF IsFallbackError
  <2>2. /\ actions[c] = <<"VERIFY_AND_COMMIT", "RECONCILE_AND_COMMIT">>
        /\ attempted[c] = <<"VERIFY_AND_COMMIT">>
    BY <1>3, <2>1 DEF SetInv, PlanInv
  <2>3. "VERIFY_AND_COMMIT" \notin supported /\ did[c] = <<>> /\ ret[c] = "none"
    <3>1. Last(attempted[c]) = "VERIFY_AND_COMMIT" BY <2>2 DEF Last
    <3>2. st.code # "OK" BY <1>3 DEF IsFallbackError
    <3>. QED BY <1>3, <2>1, <3>1, <3>2 DEF SetInv
  <2>4. /\ pc'[c] = "sent" /\ net'[c] = "request"
        /\ attempted'[c] = <<"VERIFY_AND_COMMIT", "RECONCILE_AND_COMMIT">>
    <3>1. attempted'[c] = Append(attempted[c], actions[c][Len(attempted[c]) + 1]) BY <1>3
    <3>2. Append(attempted[c], actions[c][Len(attempted[c]) + 1])
            = <<"VERIFY_AND_COMMIT", "RECONCILE_AND_COMMIT">>
      <4>1. actions[c][Len(attempted[c]) + 1] = "RECONCILE_AND_COMMIT" BY <2>2
      <4>. QED BY <2>2, <4>1, AppendSecond
    <3>. QED BY <1>0, <1>3, <3>1, <3>2
  <2>. QED BY <1>3, <2>2, <2>3, <2>4 DEF SetInv, PlanInv
<1>. QED BY <1>1, <1>2, <1>3 DEF SetResult

\* What the target's answers mean to the client.
LEMMA RefusalStatus ==
  /\ \A m : ~IsNotSet(Status("OK", m))
  /\ ~IsNotSet(Status("FailedPrecondition", "other"))
  /\ \A m : ~IsFallbackError(Status("PermissionDenied", m))
  /\ \A m : ~IsFallbackError(Status("FailedPrecondition", m))
  /\ ~IsFallbackError(Status("InvalidArgument", "other"))
  /\ \A k \in Codes \ {"OK"} : \A m, st : st = Status(k, m) => st.code # "OK"
BY DEF IsNotSet, IsFallbackError, Status

\* The target handles a request of the call, for which it has done nothing yet.
LEMMA TargetKeeps ==
  ASSUME Shapes, NEW c \in SetCalls, SetInv(c), TargetRefuse(c) \/ TargetPerform(c)
  PROVE  SetInv(c)'
<1> USE DEF Shapes, target, setArg, Reply
<1>0. c \in Calls BY DEF Calls
<1>1. net[c] = "request" /\ did[c] = <<>> /\ PlanInv(c)
  BY DEF TargetRefuse, TargetPerform, SetInv
<1>2. PlanInv(c)' BY <1>1 DEF PlanInv, TargetRefuse, TargetPerform
<1>3. CASE TargetRefuse(c)
  <2>1. /\ reply'[c].code # "OK"
        /\ IsFallbackError(reply'[c]) => Last(attempted[c]) \notin supported
    <3>1. \/ reply'[c] = Status("PermissionDenied", "not primary")
          \/ Last(attempted[c]) \notin supported /\ reply'[c] = Status("Unimplemented", "other")
          \/ /\ Last(attempted[c]) \notin supported
             /\ reply'[c] = Status("InvalidArgument", "unsupported action")
          \/ reply'[c] = Status("InvalidArgument", "other")
          \/ reply'[c] = Status("FailedPrecondition", "other")
      BY <1>0, <1>3 DEF TargetRefuse
    <3>2. reply'[c].code # "OK" BY <3>1, RefusalStatus DEF Codes
    <3>3. IsFallbackError(reply'[c]) => Last(attempted[c]) \notin supported
      BY <3>1, RefusalStatus
    <3>. QED BY <3>2, <3>3
  <2>. QED BY <1>0, <1>1, <1>2, <1>3, <2>1 DEF TargetRefuse, SetInv, Last, IsFallbackError
<1>4. CASE TargetPerform(c)
  <2>1. /\ reply'[c].code = "OK" /\ did'[c] = <<Last(attempted[c])>>
        /\ net'[c] = "reply"
    BY <1>0, <1>1, <1>4 DEF TargetPerform, Status
  <2>. QED BY <1>0, <1>1, <1>2, <1>4, <2>1 DEF TargetPerform, SetInv, Last, IsFallbackError
<1>. QED BY <1>3, <1>4

\* All steps of a SetPipeline.
LEMMA SetStepKeeps ==
  ASSUME Shapes, NEW c \in SetCalls, SetInv(c), SetStep(c)
  PROVE  SetInv(c)'
<1> USE DEF target
<1>1. CASE SetReply(c) BY <1>1, SetResultKeeps DEF SetReply
<1>2. CASE SetFail(c)
  <2>1. PICK code \in {"Unavailable", "plain"} : SetResult(c, Status(code, "other"))
    BY <1>2 DEF SetFail
  <2>2. Status(code, "other").code = code BY DEF Status
  <2>. QED BY <1>2, <2>1, <2>2, SetResultKeeps DEF SetFail
<1>. QED BY <1>1, <1>2, SetPipelineKeeps, TargetKeeps DEF SetStep

\* All steps of a GetPipeline.
LEMMA GetStepKeeps ==
  ASSUME Shapes, NEW c \in GetCalls, GetInv(c), GetStep(c)
  PROVE  GetInv(c)'
<1> USE DEF Shapes, target, setArg, Return, Reply
<1>0. c \in Calls BY DEF Calls
<1>1. CASE GetPipeline(c) BY <1>0, <1>1 DEF GetPipeline, GetInv
<1>2. CASE GetReply(c) BY <1>0, <1>2 DEF GetReply, GetInv, IsNotSet
<1>3. CASE GetFail(c) BY <1>0, <1>3 DEF GetFail, GetInv, IsNotSet
<1>4. CASE TargetGet(c)
  <2>1. /\ net[c] = "request" /\ net'[c] = "reply"
        /\ config'[c] = active /\ seen'[c] = active
        /\ UNCHANGED <<pc, ret>>
    BY <1>0, <1>4 DEF TargetGet
  <2>2. \/ active = None
        \/ reply'[c] = Status("OK", "other")
        \/ reply'[c] = Status("FailedPrecondition", "other")
    BY <1>0, <1>4 DEF TargetGet
  <2>3. IsNotSet(reply'[c]) => active = None
    BY <2>2, RefusalStatus
  <2>. QED BY <2>1, <2>3 DEF GetInv, IsNotSet
<1>. QED BY <1>1, <1>2, <1>3, <1>4 DEF GetStep

-----------------------------------------------------------------------------
(* The invariant *)

LEMMA PipelineInitial == PipelineInit => PipelineInv
BY DEF PipelineInit, PipelineInv, Shapes, SetInv, GetInv, Calls

LEMMA PipelineStep == PipelineInv /\ [PipelineNext]_pvars => PipelineInv'
<1> SUFFICES ASSUME PipelineInv, [PipelineNext]_pvars PROVE PipelineInv'
  OBVIOUS
<1>1. ASSUME NEW c \in SetCalls, SetStep(c) PROVE PipelineInv'
  <2>1. Shapes' /\ supported' = supported /\ \A d \in Calls : d # c => Untouched(d)
    BY <1>1, CallsApart DEF PipelineInv, Calls
  <2>2. \A d \in SetCalls : SetInv(d)'
    BY <1>1, <2>1, SetStepKeeps, SetFrame DEF PipelineInv, Calls
  <2>3. \A d \in GetCalls : GetInv(d)'
    BY <2>1, GetFrame, PipelineAssumption DEF PipelineInv, Calls
  <2>. QED BY <2>1, <2>2, <2>3 DEF PipelineInv
<1>2. ASSUME NEW c \in GetCalls, GetStep(c) PROVE PipelineInv'
  <2>1. Shapes' /\ supported' = supported /\ \A d \in Calls : d # c => Untouched(d)
    BY <1>2, CallsApart DEF PipelineInv, Calls
  <2>2. \A d \in SetCalls : SetInv(d)'
    BY <2>1, SetFrame, PipelineAssumption DEF PipelineInv, Calls
  <2>3. \A d \in GetCalls : GetInv(d)'
    BY <1>2, <2>1, GetStepKeeps, GetFrame DEF PipelineInv, Calls
  <2>. QED BY <2>1, <2>2, <2>3 DEF PipelineInv
<1>3. CASE Populate \/ LeaderChange \/ ViewChange \/ UNCHANGED pvars
  <2>1. UNCHANGED <<supported, pc, net, reply, actions, attempted, config, ret, did, seen>>
    BY <1>3 DEF Populate, LeaderChange, ViewChange, pvars, target, flow, setArg
  <2>2. Shapes' /\ \A d \in Calls : Untouched(d)
    BY <2>1 DEF PipelineInv, Shapes, Untouched
  <2>. QED BY <2>1, <2>2, SetFrame, GetFrame DEF PipelineInv, Calls
<1>. QED BY <1>1, <1>2, <1>3 DEF PipelineNext

LEMMA PipelineInvariant == PipelineSpec => []PipelineInv
BY PipelineInitial, PipelineStep, PTL DEF PipelineSpec

-----------------------------------------------------------------------------
(* The properties *)

\* A call falls back only from an action the target does not implement, so the
\* target never carries out two requests of one SetPipeline.
THEOREM FallbackIsJustified == PipelineSpec => []FallbackJustified
<1>1. PipelineInv => FallbackJustified
  <2> SUFFICES ASSUME NEW c \in SetCalls, SetInv(c)
               PROVE  /\ Len(attempted[c]) = 2 => attempted[c][1] \notin supported
                      /\ Len(did[c]) <= 1
    BY DEF PipelineInv, FallbackJustified
  <2>1. Len(attempted[c]) = 2 => attempted[c][1] \notin supported
    <3>1. CASE net[c] = "none" BY <3>1 DEF SetInv
    <3>2. CASE net[c] # "none" BY <3>2 DEF SetInv, PlanInv
    <3>. QED BY <3>1, <3>2
  <2>2. Len(did[c]) <= 1
    <3>1. CASE did[c] = <<>> BY <3>1
    <3>2. CASE did[c] = <<Last(attempted[c])>> BY <3>2
    <3>. QED BY <3>1, <3>2 DEF SetInv
  <2>. QED BY <2>1, <2>2
<1>. QED BY <1>1, PipelineInvariant, PTL

\* What SetPipeline returns is what the target did.
THEOREM SetOutcomeIsTrue == PipelineSpec => []SetOutcomeTrue
<1>1. PipelineInv => SetOutcomeTrue
  BY DEF PipelineInv, SetInv, SetOutcomeTrue
<1>. QED BY <1>1, PipelineInvariant, PTL

\* What GetPipeline returns is what the target had.
THEOREM NotSetIsTrue == PipelineSpec => []NotSetTrue
<1>1. PipelineInv => NotSetTrue
  BY DEF PipelineInv, GetInv, NotSetTrue
<1>. QED BY <1>1, PipelineInvariant, PTL

\* Forwarding state is lost only to a call that asked for an action that clears
\* it: the fallback never brings in such an action.
THEOREM ForwardingIsKept == PipelineSpec => ForwardingKept
<1>1. ASSUME PipelineInv, [PipelineNext]_pvars, forwarding, ~forwarding'
      PROVE  \E c \in SetCalls : /\ Len(did'[c]) > Len(did[c])
                                 /\ actions[c][1] \in {"VERIFY_AND_COMMIT", "COMMIT"}
  <2>1. PICK c \in SetCalls : TargetPerform(c)
    BY <1>1 DEF PipelineNext, SetStep, GetStep, SetPipeline, SetReply, SetFail, TargetRefuse,
                GetPipeline, GetReply, GetFail, TargetGet, Populate, LeaderChange, ViewChange,
                pvars, target
  <2>2. SetInv(c) /\ DOMAIN did = SetCalls BY <1>1 DEF PipelineInv, Shapes
  <2>3. did[c] = <<>> /\ PlanInv(c) BY <2>1, <2>2 DEF TargetPerform, SetInv
  <2>4. did'[c] = <<Last(attempted[c])>> BY <2>1, <2>2, <2>3 DEF TargetPerform
  <2>5. Last(attempted[c]) \in {"VERIFY_AND_COMMIT", "COMMIT"} BY <1>1, <2>1 DEF TargetPerform
  <2>6. actions[c][1] \in {"VERIFY_AND_COMMIT", "COMMIT"} BY <2>3, <2>5 DEF PlanInv, Last
  <2>. QED BY <2>3, <2>4, <2>6
<1>2. PipelineInv /\ [PipelineNext]_pvars => [ClearingAsked]_pvars
  BY <1>1 DEF ClearingAsked
<1>. QED BY <1>2, PipelineInvariant, PTL DEF PipelineSpec, ForwardingKept
=============================================================================
