------------------------------ MODULE TableRPC ------------------------------
(***************************************************************************)
(* The client's Write and Read (client/write.go) and the WriteError with   *)
(* which Write reports a failure (errors/write.go).                        *)
(*                                                                         *)
(* Write looks at mastership and then sends its request. The target        *)
(* handles it later, perhaps after mastership changed there, perhaps after *)
(* the caller gave up: a transport failure or an expired context ends the  *)
(* call and leaves the request on its way.                                 *)
(*                                                                         *)
(* The target is external and follows the P4Runtime specification, except  *)
(* that the details of a failed Write may be incomplete or hold something  *)
(* else. A status message is abstracted to what it is about.               *)
(***************************************************************************)
EXTENDS Naturals, Sequences, FiniteSets, Functions

CONSTANTS
  WriteCalls, ReadCalls,  \* the calls made
  Keys,                   \* the entries the table can hold
  MaxUpdates              \* most updates of one Write

ASSUME TableAssumption == MaxUpdates \in Nat /\ WriteCalls \cap ReadCalls = {}

Calls == WriteCalls \cup ReadCalls

SeqsUpTo(S, n) == UNION {[1..k -> S] : k \in 0..n}

Updates == [type : {"insert", "modify", "delete"}, key : Keys]
Batches == SeqsUpTo(Updates, MaxUpdates)
Atomicity == {"continue", "rollback"}

\* What can become of one update, and of a whole RPC. "Unavailable" stands for
\* every status of the transport and the caller's context; a "plain" error
\* carries no status.
UpdateCodes == {"OK", "AlreadyExists", "NotFound", "PermissionDenied", "Aborted"}
RPCCodes == {"OK", "Unknown", "PermissionDenied", "FailedPrecondition",
             "Unimplemented", "Unavailable", "plain"}
Messages == {"other", "not primary", "pipeline not set"}

\* A detail that is no p4.Error, or one whose code is out of range.
Foreign == "foreign"

Status(code, msg, details) == [code |-> code, msg |-> msg, details |-> details]

VARIABLES
  primary,   \* what IsPrimary reports
  leader,    \* whether the target takes this client for the primary
  installed, \* whether the target has a pipeline
  entries,   \* the target's table
  pc,        \* idle, sent or returned
  net,       \* where the call's RPC is: none, request, reply
  batch,     \* the updates of a Write and their atomicity
  reply,     \* the status on its way back to a Write
  ret,       \* what a Write returned
  left,      \* what the target has yet to stream to a Read
  got,       \* what a Read has gathered, and returns if it succeeds
  readRet,   \* how a Read returned
  codes,     \* history: the target's verdict on each update of a Write
  held       \* history: the table when the target handled a Read

target  == <<leader, installed, entries>>
writing == <<batch, reply, ret, codes>>
reading == <<left, got, readRet, held>>
tvars   == <<primary, target, pc, net, writing, reading>>

NotReturned == [err |-> "none", status |-> Status("OK", "other", <<>>), updates |-> <<>>]

TableInit ==
  /\ primary \in BOOLEAN /\ leader \in BOOLEAN /\ installed \in BOOLEAN
  /\ entries \in SUBSET Keys
  /\ pc = [c \in Calls |-> "idle"] /\ net = [c \in Calls |-> "none"]
  /\ batch = [c \in WriteCalls |-> [updates |-> <<>>, atomicity |-> "continue"]]
  /\ reply = [c \in WriteCalls |-> NotReturned.status]
  /\ ret = [c \in WriteCalls |-> NotReturned]
  /\ left = [c \in ReadCalls |-> {}] /\ got = [c \in ReadCalls |-> {}]
  /\ readRet = [c \in ReadCalls |-> "none"]
  /\ codes = [c \in WriteCalls |-> <<>>]
  /\ held = [c \in ReadCalls |-> {}]

-----------------------------------------------------------------------------
(* Errors *)

\* writeUpdateResults: the details, if they are one p4.Error for each update and
\* at least one of them is a failure; otherwise nothing.
MutWriteUpdateResults(st, n) ==
  LET known == SelectSeq(st.details, LAMBDA d : d # Foreign)
  IN  IF st.code = "Unknown" /\ \E i \in DOMAIN known : known[i] # "OK"
      THEN known ELSE <<>>
WriteUpdateResults(st, n) ==
  IF /\ st.code = "Unknown" /\ n > 0 /\ Len(st.details) = n
     /\ Foreign \notin Range(st.details)
     /\ \E i \in 1..n : st.details[i] # "OK"
  THEN st.details ELSE <<>>

\* translateWriteError, and the success before it.
TranslateWriteError(st, n) ==
  CASE st.code = "OK" -> [NotReturned EXCEPT !.err = "nil"]
    [] st.code = "plain" -> [NotReturned EXCEPT !.err = "plain"]
    [] OTHER -> [err |-> "WriteError", status |-> st, updates |-> WriteUpdateResults(st, n)]

\* writeSentinel, for the RPC and for one update, whose message it never uses.
MutWriteSentinel(code, msg, rpc) ==
  CASE code = "AlreadyExists" -> {"EntryExists"}
    [] code = "NotFound" -> {"EntryNotFound"}
    [] code = "Unimplemented" -> {"TargetUnsupported"}
    [] code \in {"PermissionDenied", "FailedPrecondition"} -> {"NotPrimary"}
    [] OTHER -> {}
WriteSentinel(code, msg, rpc) ==
  CASE code = "AlreadyExists" -> {"EntryExists"}
    [] code = "NotFound" -> {"EntryNotFound"}
    [] code = "Unimplemented" -> {"TargetUnsupported"}
    [] rpc /\ code \in {"PermissionDenied", "FailedPrecondition"} /\ msg = "not primary"
         -> {"NotPrimary"}
    [] rpc /\ code = "FailedPrecondition" /\ msg = "pipeline not set" -> {"PipelineNotSet"}
    [] OTHER -> {}

\* The sentinels errors.Is finds in what a Write returned.
Sentinels(r) ==
  IF r.err = "WriteError"
  THEN WriteSentinel(r.status.code, r.status.msg, TRUE)
       \cup UNION {WriteSentinel(r.updates[i], "other", FALSE) : i \in DOMAIN r.updates}
  ELSE {r.err}

-----------------------------------------------------------------------------
(* Write *)

Return(c, r) ==
  /\ pc' = [pc EXCEPT ![c] = "returned"]
  /\ ret' = [ret EXCEPT ![c] = r]

Request(c) ==
  /\ pc' = [pc EXCEPT ![c] = "sent"]
  /\ net' = [net EXCEPT ![c] = "request"]

\* The check of mastership, the empty batch, and the request.
Write(c, us, a) ==
  /\ pc[c] = "idle"
  /\ \/ /\ ~primary \/ us = <<>>
        /\ Return(c, [NotReturned EXCEPT !.err = IF primary THEN "nil" ELSE "NotPrimary"])
        /\ UNCHANGED net
     \/ primary /\ us # <<>> /\ Request(c) /\ UNCHANGED ret
  /\ batch' = [batch EXCEPT ![c] = [updates |-> us, atomicity |-> a]]
  /\ UNCHANGED <<primary, target, reply, codes, reading>>

WriteReturn(c) ==
  /\ pc[c] = "sent" /\ net[c] = "reply"
  /\ Return(c, TranslateWriteError(reply[c], Len(batch[c].updates)))
  /\ UNCHANGED <<primary, target, net, batch, reply, codes, reading>>

\* The transport fails or the caller's context expires: the request may still
\* reach the target.
WriteFail(c) ==
  /\ pc[c] = "sent"
  /\ \E code \in {"Unavailable", "plain"} :
       Return(c, TranslateWriteError(Status(code, "other", <<>>), Len(batch[c].updates)))
  /\ UNCHANGED <<primary, target, net, batch, reply, codes, reading>>

-----------------------------------------------------------------------------
(* Read *)

\* The request; an empty list of entities is refused.
Read(c, n) ==
  /\ pc[c] = "idle"
  /\ \/ /\ n = 0
        /\ pc' = [pc EXCEPT ![c] = "returned"] /\ readRet' = [readRet EXCEPT ![c] = "error"]
        /\ UNCHANGED net
     \/ n > 0 /\ Request(c) /\ UNCHANGED readRet
  /\ UNCHANGED <<primary, target, writing, left, got, held>>

\* stream.Recv returns some of the entries.
ReadRecv(c) ==
  /\ pc[c] = "sent" /\ net[c] = "reply"
  /\ \E es \in SUBSET left[c] \ {{}} :
       /\ got' = [got EXCEPT ![c] = @ \cup es]
       /\ left' = [left EXCEPT ![c] = @ \ es]
  /\ UNCHANGED <<primary, target, pc, net, writing, readRet, held>>

\* io.EOF ends the loop.
ReadEOF(c) ==
  /\ pc[c] = "sent" /\ net[c] = "reply" /\ left[c] = {}
  /\ pc' = [pc EXCEPT ![c] = "returned"] /\ readRet' = [readRet EXCEPT ![c] = "nil"]
  /\ UNCHANGED <<primary, target, net, writing, left, got, held>>

\* Any other error drops what was gathered.
MutReadFail(c) ==
  /\ pc[c] = "sent"
  /\ pc' = [pc EXCEPT ![c] = "returned"] /\ readRet' = [readRet EXCEPT ![c] = "nil"]
  /\ UNCHANGED <<primary, target, net, writing, left, got, held>>
ReadFail(c) ==
  /\ pc[c] = "sent"
  /\ pc' = [pc EXCEPT ![c] = "returned"] /\ readRet' = [readRet EXCEPT ![c] = "error"]
  /\ got' = [got EXCEPT ![c] = {}]
  /\ UNCHANGED <<primary, target, net, writing, left, held>>

-----------------------------------------------------------------------------
(* The target *)

\* The table after an update, and what the target says of the update.
Effect(table, u) ==
  IF u.type = "delete" THEN table \ {u.key} ELSE table \cup {u.key}
Verdict(table, u) ==
  CASE u.type = "insert" /\ u.key \in table -> "AlreadyExists"
    [] u.type # "insert" /\ u.key \notin table -> "NotFound"
    [] OTHER -> "OK"

\* The table before each update of us and after the last, when the target
\* denies the updates of the set d.
Tables(us, d) ==
  LET t[i \in 1..Len(us) + 1] ==
        IF i = 1 THEN entries
        ELSE IF i - 1 \in d \/ Verdict(t[i - 1], us[i - 1]) # "OK"
             THEN t[i - 1] ELSE Effect(t[i - 1], us[i - 1])
  IN  t

Verdicts(us, d) ==
  LET t == Tables(us, d)
  IN  [i \in 1..Len(us) |-> IF i \in d THEN "PermissionDenied" ELSE Verdict(t[i], us[i])]

RolledBack(vs) == [i \in DOMAIN vs |-> IF vs[i] = "OK" THEN "Aborted" ELSE vs[i]]

AllOK(vs) == \A i \in DOMAIN vs : vs[i] = "OK"

\* Details as many as the updates and all p4.Errors are the verdicts, in order.
\* Anything else may be too few, too many or foreign.
Details(vs) ==
  {ds \in SeqsUpTo(Range(vs) \cup {Foreign}, Len(vs) + 1) :
     Len(ds) = Len(vs) /\ Foreign \notin Range(ds) => ds = vs}

\* A request of a client that is not the primary, on a target without pipeline
\* or for something the target does not implement is refused as a whole.
Refusals ==
  (IF leader THEN {} ELSE {Status("PermissionDenied", "not primary", <<>>),
                           Status("FailedPrecondition", "not primary", <<>>)})
  \cup (IF installed THEN {} ELSE {Status("FailedPrecondition", "pipeline not set", <<>>)})
  \cup {Status("Unimplemented", "other", <<>>)}

TargetRefuse(c) ==
  /\ net[c] = "request" /\ net' = [net EXCEPT ![c] = "reply"]
  /\ \E st \in Refusals : reply' = [reply EXCEPT ![c] = st]
  /\ UNCHANGED <<primary, target, pc, batch, ret, codes, reading>>

TargetWrite(c) ==
  /\ net[c] = "request" /\ net' = [net EXCEPT ![c] = "reply"]
  /\ leader /\ installed
  /\ LET us == batch[c].updates IN
     \E d \in SUBSET (1..Len(us)) :
       LET vs == Verdicts(us, d)
           back == batch[c].atomicity = "rollback" /\ ~AllOK(vs)
           final == IF back THEN RolledBack(vs) ELSE vs
       IN  /\ codes' = [codes EXCEPT ![c] = final]
           /\ entries' = IF back THEN entries ELSE Tables(us, d)[Len(us) + 1]
           /\ \E ds \in IF AllOK(vs) THEN {<<>>} ELSE Details(final) :
                reply' = [reply EXCEPT ![c] =
                            Status(IF AllOK(vs) THEN "OK" ELSE "Unknown", "other", ds)]
  /\ UNCHANGED <<primary, leader, installed, pc, batch, ret, reading>>

TargetRead(c) ==
  /\ net[c] = "request" /\ net' = [net EXCEPT ![c] = "reply"]
  /\ left' = [left EXCEPT ![c] = entries] /\ held' = [held EXCEPT ![c] = entries]
  /\ UNCHANGED <<primary, target, pc, writing, got, readRet>>

\* Another controller takes over or leaves, and this client's supervisor
\* learns of it, or loses the stream.
LeaderChange ==
  /\ leader' = ~leader
  /\ UNCHANGED <<primary, installed, entries, pc, net, writing, reading>>

ViewChange ==
  /\ primary' \in {leader, FALSE}
  /\ UNCHANGED <<target, pc, net, writing, reading>>

-----------------------------------------------------------------------------
WriteStep(c) ==
  \/ \E us \in Batches, a \in Atomicity : Write(c, us, a)
  \/ WriteReturn(c) \/ WriteFail(c) \/ TargetRefuse(c) \/ TargetWrite(c)

ReadStep(c) ==
  \/ \E n \in 0..1 : Read(c, n)
  \/ ReadRecv(c) \/ ReadEOF(c) \/ ReadFail(c) \/ TargetRead(c)

TableNext ==
  \/ \E c \in WriteCalls : WriteStep(c)
  \/ \E c \in ReadCalls : ReadStep(c)
  \/ LeaderChange \/ ViewChange

TableSpec == TableInit /\ [][TableNext]_tvars

-----------------------------------------------------------------------------
(* Properties *)

\* What Write returns is true: without an error the target applied every update,
\* and per-update results, if there are any, are the target's own, one for each
\* update and in request order, whatever came in the details.
OutcomeTrue ==
  \A c \in WriteCalls :
    /\ ret[c].err = "nil" => AllOK(codes[c]) /\ Len(codes[c]) = Len(batch[c].updates)
    /\ ret[c].updates # <<>> => ret[c].updates = codes[c]

\* A Write that errors.Is matches with ErrNotPrimary changed nothing on the
\* target and never will, so that it can be repeated as a whole: neither a
\* request overtaken by a change of mastership nor one denied update among
\* others that were applied is reported so.
NotPrimaryUntouched ==
  \A c \in WriteCalls :
    "NotPrimary" \in Sentinels(ret[c]) => "OK" \notin Range(codes[c])

\* A Read that succeeds returns the whole table as it was when the target
\* handled the request, and one that fails returns nothing, however the stream
\* was cut.
ReadWhole ==
  \A c \in ReadCalls :
    /\ readRet[c] = "nil" => got[c] = held[c]
    /\ readRet[c] = "error" => got[c] = {}
=============================================================================
