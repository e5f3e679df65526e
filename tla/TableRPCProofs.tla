--------------------------- MODULE TableRPCProofs ---------------------------
(***************************************************************************)
(* Proofs about Write and Read, for any number of concurrent calls, any    *)
(* set of entries and batches of any length.                               *)
(***************************************************************************)
EXTENDS TableRPC, SequenceTheorems, TLAPS

\* What the answer to a Write says of the target's verdicts on its updates,
\* which there are none of before the answer.
AnswerInv(c) ==
  /\ net[c] # "reply" => codes[c] = <<>>
  /\ net[c] = "reply" =>
       /\ reply[c].code # "plain"
       /\ reply[c].code \in {"OK", "Unknown"} => Len(codes[c]) = Len(batch[c].updates)
       /\ reply[c].code = "OK" => AllOK(codes[c])
       /\ /\ reply[c].code = "Unknown"
          /\ Len(reply[c].details) = Len(batch[c].updates)
          /\ Foreign \notin Range(reply[c].details)
          => reply[c].details = codes[c]
       /\ reply[c].code \notin {"OK", "Unknown"} => codes[c] = <<>>

\* Which answer each result of a Write goes back to: a result that says
\* anything of the target goes back to the answer, after which the target does
\* nothing more for the call.
ResultInv(c) ==
  /\ pc[c] # "returned" => ret[c] = NotReturned
  /\ ret[c].err \in {"none", "nil", "plain", "NotPrimary", "WriteError"}
  /\ ret[c].err = "nil" => /\ net[c] # "request" /\ AllOK(codes[c])
                           /\ Len(codes[c]) = Len(batch[c].updates)
  /\ ret[c].err = "NotPrimary" => net[c] = "none"
  /\ ret[c].err = "WriteError" /\ ret[c].status.code # "Unavailable" =>
       net[c] = "reply" /\ ret[c].status = reply[c]
  /\ ret[c].updates # <<>> => net[c] = "reply" /\ ret[c].updates = codes[c]

WriteInv(c) ==
  /\ pc[c] = "idle" => net[c] = "none"
  /\ batch[c].updates \in Seq(Updates)
  /\ AnswerInv(c) /\ ResultInv(c)

\* What a Read has gathered and what is still to come make up the table that
\* the target answered with.
ReadInv(c) ==
  /\ pc[c] = "idle" => net[c] = "none"
  /\ pc[c] # "returned" => readRet[c] = "none"
  /\ net[c] # "reply" => got[c] = {} /\ readRet[c] # "nil"
  /\ net[c] = "reply" /\ pc[c] # "returned" => got[c] \cup left[c] = held[c]
  /\ readRet[c] = "nil" => got[c] = held[c]
  /\ readRet[c] = "error" => got[c] = {}

Shapes ==
  /\ DOMAIN pc = Calls /\ DOMAIN net = Calls
  /\ DOMAIN batch = WriteCalls /\ DOMAIN reply = WriteCalls
  /\ DOMAIN ret = WriteCalls /\ DOMAIN codes = WriteCalls
  /\ DOMAIN left = ReadCalls /\ DOMAIN got = ReadCalls
  /\ DOMAIN readRet = ReadCalls /\ DOMAIN held = ReadCalls

\* The inductive invariant.
TableInv ==
  Shapes /\ (\A c \in WriteCalls : WriteInv(c)) /\ (\A c \in ReadCalls : ReadInv(c))

-----------------------------------------------------------------------------
(* Lists *)

LEMMA LenOfFunction ==
  ASSUME NEW n \in Nat, NEW S, NEW f \in [1..n -> S]
  PROVE  f \in Seq(S) /\ Len(f) = n
<1>1. f \in Seq(S) BY SeqDef
<1>2. DOMAIN f = 1..Len(f) /\ Len(f) \in Nat BY <1>1, LenProperties
<1>3. 1..Len(f) = 1..n BY <1>2
<1>. QED BY <1>1, <1>2, <1>3

LEMMA BatchIsSeq == ASSUME NEW us \in Batches PROVE us \in Seq(Updates)
<1>1. PICK k \in 0..MaxUpdates : us \in [1..k -> Updates] BY DEF Batches, SeqsUpTo
<1>2. k \in Nat BY TableAssumption
<1>. QED BY <1>1, <1>2, LenOfFunction

\* The target has a verdict on each update, also after it rolled back.
LEMMA VerdictPerUpdate ==
  ASSUME NEW us \in Seq(Updates), NEW d
  PROVE  /\ Len(Verdicts(us, d)) = Len(us)
         /\ Len(RolledBack(Verdicts(us, d))) = Len(us)
<1> DEFINE vs == Verdicts(us, d)
           rb == RolledBack(vs)
<1>1. Len(us) \in Nat BY LenProperties
<1>2. DOMAIN vs = 1..Len(us) /\ vs \in [1..Len(us) -> Range(vs)]
  BY DEF Verdicts, Range
<1>3. DOMAIN rb = 1..Len(us) /\ rb \in [1..Len(us) -> Range(rb)]
  BY <1>2 DEF RolledBack, Range
<1> HIDE DEF vs, rb
<1>4. Len(vs) = Len(us) BY <1>1, <1>2, LenOfFunction
<1>5. Len(rb) = Len(us) BY <1>1, <1>3, LenOfFunction
<1>. QED BY <1>4, <1>5 DEF vs, rb

LEMMA EmptyAllOK == AllOK(<<>>) /\ Len(<<>>) = 0
BY DEF AllOK

-----------------------------------------------------------------------------
(* Steps of one call *)

\* A step leaves call d alone.
Untouched(d) ==
  /\ pc'[d] = pc[d] /\ net'[d] = net[d]
  /\ d \in WriteCalls => /\ batch'[d] = batch[d] /\ reply'[d] = reply[d]
                         /\ ret'[d] = ret[d] /\ codes'[d] = codes[d]
  /\ d \in ReadCalls => /\ left'[d] = left[d] /\ got'[d] = got[d]
                        /\ readRet'[d] = readRet[d] /\ held'[d] = held[d]

\* A step of one call keeps the shape of the state and leaves every other call
\* alone.
LEMMA CallsApart ==
  ASSUME Shapes, NEW c \in Calls,
         \/ c \in WriteCalls /\ WriteStep(c)
         \/ c \in ReadCalls /\ ReadStep(c)
  PROVE  Shapes' /\ \A d \in Calls : d # c => Untouched(d)
<1> USE DEF Shapes, Untouched, Return, Request, writing, reading
<1>1. ASSUME NEW us, NEW a, Write(c, us, a)
      PROVE  Shapes' /\ \A d \in Calls : d # c => Untouched(d)
  BY <1>1 DEF Write
<1>2. CASE WriteReturn(c) \/ WriteFail(c) BY <1>2 DEF WriteReturn, WriteFail
<1>3. CASE TargetRefuse(c) BY <1>3 DEF TargetRefuse
<1>4. CASE TargetWrite(c)
  <2>1. PICK x, y : codes' = [codes EXCEPT ![c] = x] /\ reply' = [reply EXCEPT ![c] = y]
    BY <1>4 DEF TargetWrite
  <2>2. /\ net' = [net EXCEPT ![c] = "reply"]
        /\ UNCHANGED <<pc, batch, ret, reading>>
    BY <1>4 DEF TargetWrite
  <2>. QED BY <2>1, <2>2
<1>5. ASSUME NEW n, Read(c, n)
      PROVE  Shapes' /\ \A d \in Calls : d # c => Untouched(d)
  BY <1>5 DEF Read
<1>6. CASE ReadRecv(c) \/ ReadEOF(c) \/ ReadFail(c) \/ TargetRead(c)
  BY <1>6 DEF ReadRecv, ReadEOF, ReadFail, TargetRead
<1>. QED BY <1>1, <1>2, <1>3, <1>4, <1>5, <1>6 DEF WriteStep, ReadStep

\* A call that is left alone keeps its invariant.
LEMMA WriteFrame ==
  ASSUME NEW c \in WriteCalls, WriteInv(c), Untouched(c)
  PROVE  WriteInv(c)'
BY DEF WriteInv, AnswerInv, ResultInv, Untouched, AllOK, Updates

LEMMA ReadFrame ==
  ASSUME NEW c \in ReadCalls, ReadInv(c), Untouched(c)
  PROVE  ReadInv(c)'
BY DEF ReadInv, Untouched

\* What translateWriteError makes of a status.
LEMMA TranslateResult ==
  ASSUME NEW st, NEW n, NEW r, r = TranslateWriteError(st, n)
  PROVE  /\ r.err \in {"nil", "plain", "WriteError"}
         /\ r.err = "nil" => st.code = "OK"
         /\ r.err = "WriteError" => r.status = st
         /\ r.updates # <<>> => /\ st.code = "Unknown" /\ Len(st.details) = n
                                /\ Foreign \notin Range(st.details)
                                /\ r.updates = st.details
<1>1. CASE st.code = "OK"
  <2>1. r = [NotReturned EXCEPT !.err = "nil"] BY <1>1 DEF TranslateWriteError
  <2>. QED BY <1>1, <2>1 DEF NotReturned
<1>2. CASE st.code = "plain"
  <2>1. r = [NotReturned EXCEPT !.err = "plain"] BY <1>2 DEF TranslateWriteError
  <2>. QED BY <2>1 DEF NotReturned
<1>3. CASE st.code \notin {"OK", "plain"}
  <2>1. r = [err |-> "WriteError", status |-> st, updates |-> WriteUpdateResults(st, n)]
    BY <1>3 DEF TranslateWriteError
  <2>2. WriteUpdateResults(st, n) # <<>> =>
          /\ st.code = "Unknown" /\ Len(st.details) = n
          /\ Foreign \notin Range(st.details)
          /\ WriteUpdateResults(st, n) = st.details
    BY DEF WriteUpdateResults
  <2>. QED BY <2>1, <2>2
<1>. QED BY <1>1, <1>2, <1>3

\* The call itself.
LEMMA WriteKeeps ==
  ASSUME Shapes, NEW c \in WriteCalls, WriteInv(c),
         NEW us \in Batches, NEW a, Write(c, us, a)
  PROVE  WriteInv(c)'
<1>0. c \in Calls BY DEF Calls
<1>1. /\ pc[c] = "idle" /\ net[c] = "none" /\ codes[c] = <<>> /\ ret[c] = NotReturned
      /\ UNCHANGED <<reply, codes>>
      /\ batch'[c].updates = us
  BY DEF Write, WriteInv, AnswerInv, ResultInv, Shapes
<1>2. us \in Seq(Updates) BY BatchIsSeq
<1>3. CASE ~primary \/ us = <<>>
  <2>1. /\ pc'[c] = "returned" /\ net'[c] = "none"
        /\ ret'[c] = [NotReturned EXCEPT !.err = IF primary THEN "nil" ELSE "NotPrimary"]
    BY <1>0, <1>1, <1>3 DEF Write, Return, Request, Shapes
  <2>2. AnswerInv(c)' BY <1>1, <2>1 DEF AnswerInv
  <2>3. /\ ret'[c].err = IF primary THEN "nil" ELSE "NotPrimary"
        /\ ret'[c].updates = <<>>
    BY <2>1 DEF NotReturned
  <2>4. ret'[c].err = "nil" => AllOK(codes'[c]) /\ Len(codes'[c]) = Len(us)
    BY <1>1, <1>3, <2>3, EmptyAllOK
  <2>5. ResultInv(c)' BY <1>1, <2>1, <2>3, <2>4 DEF ResultInv, AllOK
  <2>. QED BY <1>1, <1>2, <2>1, <2>2, <2>5 DEF WriteInv, Updates
<1>4. CASE primary /\ us # <<>>
  <2>1. pc'[c] = "sent" /\ net'[c] = "request" /\ ret'[c] = NotReturned
    BY <1>0, <1>1, <1>4 DEF Write, Return, Request, Shapes
  <2>2. AnswerInv(c)' BY <1>1, <2>1 DEF AnswerInv
  <2>3. ResultInv(c)' BY <2>1 DEF ResultInv, NotReturned
  <2>. QED BY <1>1, <1>2, <2>1, <2>2, <2>3 DEF WriteInv, Updates
<1>. QED BY <1>3, <1>4

\* The call returns, with the answer or with an error of the transport.
LEMMA WriteReturnKeeps ==
  ASSUME Shapes, NEW c \in WriteCalls, WriteInv(c), pc[c] = "sent", NEW st,
         Return(c, TranslateWriteError(st, Len(batch[c].updates))),
         \/ net[c] = "reply" /\ st = reply[c]
         \/ st.code \in {"Unavailable", "plain"},
         UNCHANGED <<net, batch, reply, codes>>
  PROVE  WriteInv(c)'
<1> DEFINE r == TranslateWriteError(st, Len(batch[c].updates))
<1>0. c \in Calls BY DEF Calls
<1>1. pc'[c] = "returned" /\ ret'[c] = r BY <1>0 DEF Return, Shapes
<1>2. /\ r.err \in {"nil", "plain", "WriteError"}
      /\ r.err = "nil" => st.code = "OK"
      /\ r.err = "WriteError" => r.status = st
      /\ r.updates # <<>> => /\ st.code = "Unknown" /\ Len(st.details) = Len(batch[c].updates)
                             /\ Foreign \notin Range(st.details)
                             /\ r.updates = st.details
  BY TranslateResult
<1> HIDE DEF r
<1>3. AnswerInv(c) BY DEF WriteInv
<1>4. AnswerInv(c)' BY <1>3 DEF AnswerInv, AllOK
<1>5. r.err = "nil" => /\ net[c] = "reply" /\ AllOK(codes[c])
                       /\ Len(codes[c]) = Len(batch[c].updates)
  BY <1>2, <1>3 DEF AnswerInv
<1>6. r.err = "WriteError" /\ r.status.code # "Unavailable" => net[c] = "reply" /\ r.status = reply[c]
  <2>1. r.err = "WriteError" => st.code # "plain"
    BY DEF r, TranslateWriteError, NotReturned
  <2>. QED BY <1>2, <2>1
<1>7. r.updates # <<>> => net[c] = "reply" /\ r.updates = codes[c]
  BY <1>2, <1>3 DEF AnswerInv
<1>8. ResultInv(c)' BY <1>1, <1>2, <1>5, <1>6, <1>7 DEF ResultInv, AllOK
<1>. QED BY <1>1, <1>4, <1>8 DEF WriteInv, Updates

\* The target answers a request, for which it has done nothing yet; whatever
\* the call returned by then is an error that says nothing of the target.
LEMMA AnswerKeeps ==
  ASSUME NEW c \in WriteCalls, WriteInv(c), net[c] = "request",
         net'[c] = "reply", pc'[c] = pc[c], ret'[c] = ret[c], batch'[c] = batch[c],
         AnswerInv(c)'
  PROVE  WriteInv(c)'
<1>1. ResultInv(c)' BY DEF WriteInv, ResultInv
<1>. QED BY <1>1 DEF WriteInv, Updates

LEMMA TargetRefuseKeeps ==
  ASSUME Shapes, NEW c \in WriteCalls, WriteInv(c), TargetRefuse(c)
  PROVE  WriteInv(c)'
<1>0. c \in Calls BY DEF Calls
<1>1. /\ net[c] = "request" /\ net'[c] = "reply" /\ codes'[c] = <<>>
      /\ UNCHANGED <<pc, ret, batch>>
  BY <1>0 DEF TargetRefuse, WriteInv, AnswerInv, Shapes
<1>2. reply'[c] \in Refusals BY DEF TargetRefuse, Shapes
<1>3. \A st \in Refusals : st.code \in {"PermissionDenied", "FailedPrecondition", "Unimplemented"}
  <2>1. \A st \in Refusals :
          \E k \in {"PermissionDenied", "FailedPrecondition", "Unimplemented"} :
            \E m : st = Status(k, m, <<>>)
    BY DEF Refusals
  <2>2. \A k, m : Status(k, m, <<>>).code = k BY DEF Status
  <2>. QED BY <2>1, <2>2
<1>4. reply'[c].code \in {"PermissionDenied", "FailedPrecondition", "Unimplemented"}
  BY <1>2, <1>3
<1>5. AnswerInv(c)' BY <1>1, <1>4 DEF AnswerInv
<1>. QED BY <1>1, <1>5, AnswerKeeps

LEMMA TargetWriteKeeps ==
  ASSUME Shapes, NEW c \in WriteCalls, WriteInv(c), TargetWrite(c)
  PROVE  WriteInv(c)'
<1> DEFINE us == batch[c].updates
           final(d) == IF batch[c].atomicity = "rollback" /\ ~AllOK(Verdicts(us, d))
                       THEN RolledBack(Verdicts(us, d)) ELSE Verdicts(us, d)
<1>0. c \in Calls BY DEF Calls
<1>1. /\ net[c] = "request" /\ net'[c] = "reply" /\ UNCHANGED <<pc, ret, batch>>
      /\ us \in Seq(Updates)
  BY <1>0 DEF TargetWrite, WriteInv, Shapes
<1>2. PICK d \in SUBSET (1..Len(us)) :
        /\ codes' = [codes EXCEPT ![c] = final(d)]
        /\ \E ds \in IF AllOK(Verdicts(us, d)) THEN {<<>>} ELSE Details(final(d)) :
             reply' = [reply EXCEPT ![c] =
                         Status(IF AllOK(Verdicts(us, d)) THEN "OK" ELSE "Unknown", "other", ds)]
  BY DEF TargetWrite
<1>3. Len(final(d)) = Len(us) BY <1>1, VerdictPerUpdate
<1>4. codes'[c] = final(d) BY <1>2 DEF Shapes
<1>5. CASE AllOK(Verdicts(us, d))
  <2>1. final(d) = Verdicts(us, d) BY <1>5
  <2>2. reply'[c].code = "OK" BY <1>2, <1>5 DEF Shapes, Status
  <2>3. AllOK(codes'[c]) BY <1>4, <1>5, <2>1
  <2>4. AnswerInv(c)' BY <1>1, <1>3, <1>4, <2>2, <2>3 DEF AnswerInv, AllOK
  <2>. QED BY <1>1, <2>4, AnswerKeeps
<1>6. CASE ~AllOK(Verdicts(us, d))
  <2>1. PICK ds \in Details(final(d)) : reply' = [reply EXCEPT ![c] = Status("Unknown", "other", ds)]
    BY <1>2, <1>6
  <2>2. reply'[c].code = "Unknown" /\ reply'[c].details = ds BY <2>1 DEF Shapes, Status
  <2>3. Len(ds) = Len(final(d)) /\ Foreign \notin Range(ds) => ds = final(d)
    BY DEF Details
  <2> HIDE DEF final
  <2>4. AnswerInv(c)' BY <1>1, <1>3, <1>4, <2>2, <2>3 DEF AnswerInv
  <2>. QED BY <1>1, <2>4, AnswerKeeps
<1>. QED BY <1>5, <1>6

\* All steps of a Write.
LEMMA WriteStepKeeps ==
  ASSUME Shapes, NEW c \in WriteCalls, WriteInv(c), WriteStep(c)
  PROVE  WriteInv(c)'
<1>1. CASE WriteReturn(c) BY <1>1, WriteReturnKeeps DEF WriteReturn
<1>2. CASE WriteFail(c)
  <2>1. PICK code \in {"Unavailable", "plain"} :
          Return(c, TranslateWriteError(Status(code, "other", <<>>), Len(batch[c].updates)))
    BY <1>2 DEF WriteFail
  <2>2. Status(code, "other", <<>>).code = code BY DEF Status
  <2>. QED BY <1>2, <2>1, <2>2, WriteReturnKeeps DEF WriteFail
<1>. QED BY <1>1, <1>2, WriteKeeps, TargetRefuseKeeps, TargetWriteKeeps DEF WriteStep

\* All steps of a Read.
LEMMA ReadStepKeeps ==
  ASSUME Shapes, NEW c \in ReadCalls, ReadInv(c), ReadStep(c)
  PROVE  ReadInv(c)'
<1> USE DEF Shapes, Request
<1>0. c \in Calls BY DEF Calls
<1>1. ASSUME NEW n, Read(c, n) PROVE ReadInv(c)'
  BY <1>0, <1>1 DEF Read, ReadInv
<1>2. CASE ReadRecv(c)
  <2>1. PICK es \in SUBSET left[c] : /\ got' = [got EXCEPT ![c] = @ \cup es]
                                     /\ left' = [left EXCEPT ![c] = @ \ es]
    BY <1>2 DEF ReadRecv
  <2>2. got'[c] \cup left'[c] = got[c] \cup left[c] BY <2>1
  <2>. QED BY <1>0, <1>2, <2>2 DEF ReadRecv, ReadInv
<1>3. CASE ReadEOF(c) BY <1>0, <1>3 DEF ReadEOF, ReadInv
<1>4. CASE ReadFail(c) BY <1>0, <1>4 DEF ReadFail, ReadInv
<1>5. CASE TargetRead(c) BY <1>0, <1>5 DEF TargetRead, ReadInv
<1>. QED BY <1>1, <1>2, <1>3, <1>4, <1>5 DEF ReadStep

-----------------------------------------------------------------------------
(* The invariant *)

LEMMA TableInitial == TableInit => TableInv
<1> SUFFICES ASSUME TableInit PROVE TableInv OBVIOUS
<1>1. Shapes BY DEF TableInit, Shapes, Calls
<1>2. ASSUME NEW c \in WriteCalls PROVE WriteInv(c)
  <2>1. /\ pc[c] = "idle" /\ net[c] = "none" /\ codes[c] = <<>> /\ ret[c] = NotReturned
        /\ batch[c].updates = <<>>
    BY DEF TableInit, Calls
  <2>. QED BY <2>1 DEF WriteInv, AnswerInv, ResultInv, NotReturned
<1>3. ASSUME NEW c \in ReadCalls PROVE ReadInv(c) BY DEF TableInit, ReadInv, Calls
<1>. QED BY <1>1, <1>2, <1>3 DEF TableInv

LEMMA TableStep == TableInv /\ [TableNext]_tvars => TableInv'
<1> SUFFICES ASSUME TableInv, [TableNext]_tvars PROVE TableInv'
  OBVIOUS
<1>1. ASSUME NEW c \in WriteCalls, WriteStep(c) PROVE TableInv'
  <2>1. Shapes' /\ \A d \in Calls : d # c => Untouched(d)
    BY <1>1, CallsApart DEF TableInv, Calls
  <2>2. \A d \in WriteCalls : WriteInv(d)'
    BY <1>1, <2>1, WriteStepKeeps, WriteFrame DEF TableInv, Calls
  <2>3. \A d \in ReadCalls : ReadInv(d)'
    BY <2>1, ReadFrame, TableAssumption DEF TableInv, Calls
  <2>. QED BY <2>1, <2>2, <2>3 DEF TableInv
<1>2. ASSUME NEW c \in ReadCalls, ReadStep(c) PROVE TableInv'
  <2>1. Shapes' /\ \A d \in Calls : d # c => Untouched(d)
    BY <1>2, CallsApart DEF TableInv, Calls
  <2>2. \A d \in WriteCalls : WriteInv(d)'
    BY <2>1, WriteFrame, TableAssumption DEF TableInv, Calls
  <2>3. \A d \in ReadCalls : ReadInv(d)'
    BY <1>2, <2>1, ReadStepKeeps, ReadFrame DEF TableInv, Calls
  <2>. QED BY <2>1, <2>2, <2>3 DEF TableInv
<1>3. CASE LeaderChange \/ ViewChange \/ UNCHANGED tvars
  <2>1. UNCHANGED <<pc, net, batch, reply, ret, codes, left, got, readRet, held>>
    BY <1>3 DEF LeaderChange, ViewChange, tvars, writing, reading
  <2>2. Shapes' /\ \A d \in Calls : Untouched(d)
    BY <2>1 DEF TableInv, Shapes, Untouched
  <2>. QED BY <2>2, WriteFrame, ReadFrame DEF TableInv, Calls
<1>. QED BY <1>1, <1>2, <1>3 DEF TableNext

LEMMA TableInvariant == TableSpec => []TableInv
BY TableInitial, TableStep, PTL DEF TableSpec

-----------------------------------------------------------------------------
(* The properties *)

\* What Write returns is what the target did, whatever came in the details of
\* an error and whenever the transport failed.
THEOREM OutcomeIsTrue == TableSpec => []OutcomeTrue
<1>1. TableInv => OutcomeTrue
  BY DEF TableInv, WriteInv, ResultInv, OutcomeTrue
<1>. QED BY <1>1, TableInvariant, PTL

\* A Write reported as ErrNotPrimary has changed nothing and never will.
THEOREM NotPrimaryIsUntouched == TableSpec => []NotPrimaryUntouched
<1>1. ASSUME NEW c \in WriteCalls, WriteInv(c), "NotPrimary" \in Sentinels(ret[c])
      PROVE  codes[c] = <<>>
  <2>1. ResultInv(c) /\ AnswerInv(c) BY <1>1 DEF WriteInv
  <2>2. CASE ret[c].err # "WriteError"
    BY <1>1, <2>1, <2>2 DEF Sentinels, ResultInv, AnswerInv
  <2>3. CASE ret[c].err = "WriteError"
    <3>1. \A k, m : "NotPrimary" \notin WriteSentinel(k, m, FALSE) BY DEF WriteSentinel
    <3>2. "NotPrimary" \in WriteSentinel(ret[c].status.code, ret[c].status.msg, TRUE)
      BY <1>1, <2>3, <3>1 DEF Sentinels
    <3>3. ret[c].status.code \in {"PermissionDenied", "FailedPrecondition"}
      BY <3>2 DEF WriteSentinel
    <3>. QED BY <2>1, <2>3, <3>3 DEF ResultInv, AnswerInv
  <2>. QED BY <2>2, <2>3
<1>2. TableInv => NotPrimaryUntouched
  BY <1>1 DEF TableInv, NotPrimaryUntouched, Range
<1>. QED BY <1>2, TableInvariant, PTL

\* A Read returns the whole table as the target had it, or nothing.
THEOREM ReadIsWhole == TableSpec => []ReadWhole
<1>1. TableInv => ReadWhole BY DEF TableInv, ReadInv, ReadWhole
<1>. QED BY <1>1, TableInvariant, PTL
=============================================================================
