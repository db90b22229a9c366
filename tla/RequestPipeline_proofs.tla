----------------------- MODULE RequestPipeline_proofs -----------------------
(***************************************************************************)
(* Theorems about RequestPipeline, for any number of requests, any set of  *)
(* middleware orders and any number of answers per handler.                *)
(***************************************************************************)
EXTENDS RequestPipeline, TLAPS

LEMMA ChainShape == ASSUME NEW ch \in Chains
                    PROVE  /\ ch.outer \in Seq(Middlewares) /\ ch.inner \in Seq(Middlewares)
                           /\ Len(ch.outer) \in Nat /\ Len(ch.inner) \in Nat
  BY ChainsAssumption

(* net/http's bookkeeping keeps the wire a status line and a body.         *)
WireType == [Requests -> [status : {0} \cup Statuses, body : Seq(Callers)]]

LEMMA StatusUpdate ==
  ASSUME NEW S, NEW B, NEW w \in [Requests -> [status : S, body : B]],
         NEW r \in Requests, NEW s \in S
  PROVE  [w EXCEPT ![r].status = s] \in [Requests -> [status : S, body : B]]
  OBVIOUS

LEMMA SendStatusType ==
  ASSUME wire \in WireType, NEW r \in Requests, NEW status \in Statuses, SendStatus(r, status)
  PROVE  wire' \in WireType
<1> DEFINE sent == IF wire[r].status = 0 /\ ~Finished(r) THEN status ELSE wire[r].status
<1>1. sent \in {0} \cup Statuses
  BY DEF WireType
<1>2. wire' = [wire EXCEPT ![r].status = sent]
  BY DEF SendStatus
<1> HIDE DEF sent
<1>3. QED
  BY <1>1, <1>2, StatusUpdate DEF WireType

LEMMA SendBodyType ==
  ASSUME wire \in WireType, NEW r \in Requests, NEW by \in Callers, SendBody(r, by)
  PROVE  wire' \in WireType
<1>1. StatusOK \in {0} \cup Statuses
  BY DEF Statuses
<1>2. wire[r].status \in {0} \cup Statuses /\ Append(wire[r].body, by) \in Seq(Callers)
  BY DEF WireType
<1> DEFINE status == IF wire[r].status = 0 THEN StatusOK ELSE wire[r].status
           sent == [status |-> status, body |-> Append(wire[r].body, by)]
<1>3. sent \in [status : {0} \cup Statuses, body : Seq(Callers)]
  BY <1>1, <1>2
<1>4. wire' = wire \/ wire' = [wire EXCEPT ![r] = sent]
  BY DEF SendBody
<1> HIDE DEF sent
<1>5. QED
  BY <1>3, <1>4 DEF WireType

LEMMA InitType == Init => TypeOK
  BY ChainsAssumption, ChainShape
  DEF Init, TypeOK, SControl, HControl, NoCall, Calls, Statuses, StatusOK, Callers

LEMMA StepType == TypeOK /\ [Next]_vars => TypeOK'
<1> SUFFICES ASSUME TypeOK, [Next]_vars PROVE TypeOK'
  OBVIOUS
<1> USE ChainsAssumption, ChainShape DEF TypeOK, WireType, SControl, HControl, service, serverVars, handlerVars, writerVars
<1>1. ASSUME NEW r \in Requests, Handler(r) PROVE TypeOK'
  <2>0. /\ StatusOK \in Statuses /\ NoContent \in Statuses /\ InternalError \in Statuses
        /\ HandlerError \in Statuses /\ "handler" \in Callers
        /\ \A c \in Calls : c.by \in Callers /\ c.status \in Statuses
    BY DEF Statuses, Callers, Calls
  <2>1. ASSUME NEW status \in {StatusOK, HandlerError}, AnswerEnvelope(r, status) PROVE TypeOK'
    BY <2>0, <2>1 DEF AnswerEnvelope, HeaderAccess, Touch, Calls
  <2>2. CASE AnswerNoContent(r)
    BY <2>0, <2>2 DEF AnswerNoContent, Calls
  <2>3. CASE AnswerRaw(r)
    BY <2>0, <2>3, SendBodyType DEF AnswerRaw, HeaderAccess, Touch
  <2>4. CASE HReturn(r)
    BY <2>4 DEF HReturn
  <2>5. CASE HPanic(r)
    BY <2>5 DEF HPanic
  <2>6. CASE HHeader(r)
    BY <2>6 DEF HHeader
  <2>7. CASE HStatus(r)
    BY <2>0, <2>7, SendStatusType DEF HStatus, HeaderAccess, Touch, RecordStatus, AfterCall
  <2>8. CASE HBody(r)
    BY <2>0, <2>8, SendBodyType DEF HBody, Touch, AfterCall
  <2>a. InnerFrame(r, "logging") \/ InnerFrame(r, "recovery") =>
          /\ hdepth' \in [Requests -> Nat]
          /\ \A q \in Requests : hdepth'[q] <= Len(chain.inner)
    <3>1. Len(chain.inner) \in Nat
      OBVIOUS
    <3>2. ASSUME hdepth[r] > 0, hdepth' = [hdepth EXCEPT ![r] = @ - 1]
          PROVE  /\ hdepth' \in [Requests -> Nat]
                 /\ \A q \in Requests : hdepth'[q] <= Len(chain.inner)
      <4>1. hdepth \in [Requests -> Nat] /\ \A q \in Requests : hdepth[q] <= Len(chain.inner)
        OBVIOUS
      <4>2. QED
        BY ONLY <3>1, <3>2, <4>1, r \in Requests
    <3>3. QED
      BY <3>2 DEF InnerFrame
  <2>9. CASE HLogging(r)
    <3>1. Append(log[r], sw[r]) \in Seq(Statuses)
      OBVIOUS
    <3>2. log' \in [Requests -> Seq(Statuses)]
      BY <2>9, <3>1 DEF HLogging
    <3>3. QED
      BY <2>9, <2>a, <3>2 DEF HLogging
  <2>10. CASE HRecovery(r)
    <3>1. RecoveryAnswer \in Calls
      BY <2>0 DEF RecoveryAnswer, Calls
    <3>2. hcall' \in [Requests -> Calls] /\ late' \in [Requests -> BOOLEAN]
      <4>1. late' = late \/ late' = [late EXCEPT ![r] = @ \/ Finished(r)]
        BY <2>10 DEF HRecovery, Touch
      <4>2. hcall' = hcall \/ hcall' = [hcall EXCEPT ![r] = RecoveryAnswer]
        BY <2>10 DEF HRecovery
      <4>3. hcall' \in [Requests -> Calls]
        BY <3>1, <4>2
      <4>4. late' \in [Requests -> BOOLEAN]
        BY <4>1
      <4>5. QED
        BY <4>3, <4>4
    <3>3. /\ proc' \in {"up", "crashed"} /\ hpanic' \in [Requests -> BOOLEAN]
          /\ hpc' \in [Requests -> HControl]
      BY <2>10 DEF HRecovery, HeaderAccess
    <3>4. QED
      BY <2>10, <2>a, <3>2, <3>3 DEF HRecovery
  <2>11. CASE HEnd(r)
    BY <2>11 DEF HEnd
  <2>12. QED
    BY <1>1, <2>1, <2>2, <2>3, <2>4, <2>5, <2>6, <2>7, <2>8, <2>9, <2>10, <2>11
    DEF Handler, HandlerLibrary
<1>2. ASSUME NEW r \in Requests, Server(r) PROVE TypeOK'
  <2>0. GatewayTimeout \in Statuses /\ StatusOK \in Statuses /\ "timeout" \in Callers
    BY DEF Statuses, Callers
  <2>1. CASE Enter(r)
    <3>1. Len(chain.outer) \in Nat /\ Len(chain.inner) \in Nat /\ chain' = chain
      BY <2>1 DEF Enter
    <3>2. /\ sdepth' \in [Requests -> Nat] /\ hdepth' \in [Requests -> Nat]
          /\ spc' \in [Requests -> SControl] /\ hpc' \in [Requests -> HControl]
      BY <2>1, <3>1 DEF Enter
    <3>3. \A q \in Requests : sdepth'[q] <= Len(chain.outer)
      BY <2>1, <3>1 DEF Enter
    <3>4. \A q \in Requests : hdepth'[q] <= Len(chain.inner)
      BY <2>1, <3>1 DEF Enter
    <3>5. QED
      BY <2>1, <3>1, <3>2, <3>3, <3>4 DEF Enter
  <2>2. CASE SelectDone(r)
    BY <2>2 DEF SelectDone, EndContext
  <2>3. CASE SelectDeadline(r)
    BY <2>3 DEF SelectDeadline, HeaderAccess
  <2>4. CASE SelectCanceled(r)
    BY <2>4 DEF SelectCanceled
  <2>5. CASE SHeader(r)
    BY <2>5 DEF SHeader
  <2>6. CASE SStatus(r)
    BY <2>0, <2>6, SendStatusType DEF SStatus, HeaderAccess, RecordStatus
  <2>7. CASE SBody(r)
    BY <2>0, <2>7, SendBodyType DEF SBody
  <2>8. CASE SOuter(r)
    <3>1. Append(log[r], sw[r]) \in Seq(Statuses)
      OBVIOUS
    <3>2. log' \in [Requests -> Seq(Statuses)]
      BY <2>8, <3>1 DEF SOuter
    <3>3. chain' = chain /\ \A q \in Requests : sdepth'[q] \in Nat /\ sdepth'[q] <= sdepth[q]
      BY <2>8 DEF SOuter
    <3>4. Len(chain.outer) \in Nat /\ \A q \in Requests : sdepth'[q] <= Len(chain.outer)
      BY <3>3
    <3>5. QED
      BY <2>8, <3>2, <3>3, <3>4 DEF SOuter
  <2>9. CASE SFinish(r)
    BY <2>0, <2>9, SendStatusType DEF SFinish, HeaderAccess
  <2>10. QED
    BY <1>2, <2>1, <2>2, <2>3, <2>4, <2>5, <2>6, <2>7, <2>8, <2>9 DEF Server
<1>3. ASSUME NEW r \in Requests, Environment(r) PROVE TypeOK'
  BY <1>3 DEF Environment, Deadline, Disconnect, EndContext
<1>4. CASE UNCHANGED vars
  BY <1>4 DEF vars
<1>5. QED
  BY <1>1, <1>2, <1>3, <1>4 DEF Next, Step, Quiet

(* Type correctness of the two goroutines and of the writer they share.    *)
THEOREM TypeCorrect == Spec => []TypeOK
  BY InitType, StepType, PTL DEF Spec

-----------------------------------------------------------------------------
(* What a step of the handler goroutine can and cannot touch.              *)
LEMMA HandlerFrame ==
  ASSUME TypeOK, NEW r \in Requests, Handler(r)
  PROVE  /\ hpc[r] \notin {"idle", "ended"}
         /\ \A q \in Requests : q # r => hpc'[q] = hpc[q] /\ wire'[q] = wire[q] /\ hcall'[q] = hcall[q]
         /\ \A q \in Requests : late'[q] => late[q] \/ (q = r /\ Finished(r))
         /\ UNCHANGED <<service, serverVars, ctxErr>>
<1> USE DEF TypeOK, serverVars, handlerVars, writerVars
<1>1. hpc[r] \notin {"idle", "ended"}
  BY DEF Handler, HandlerLibrary, AnswerEnvelope, AnswerNoContent, AnswerRaw, HReturn, HPanic,
         HHeader, HStatus, HBody, HLogging, HRecovery, HEnd, InnerFrame
<1>2. \A q \in Requests : q # r => hpc'[q] = hpc[q] /\ hcall'[q] = hcall[q]
  BY DEF Handler, HandlerLibrary, AnswerEnvelope, AnswerNoContent, AnswerRaw, HReturn, HPanic,
         HHeader, HStatus, HBody, HLogging, HRecovery, HEnd, InnerFrame
<1>3. \A q \in Requests : q # r => wire'[q] = wire[q]
  BY DEF Handler, HandlerLibrary, AnswerEnvelope, AnswerNoContent, AnswerRaw, HReturn, HPanic,
         HHeader, HStatus, HBody, HLogging, HRecovery, HEnd, SendStatus, SendBody
<1>4. late' = late \/ late' = [late EXCEPT ![r] = @ \/ Finished(r)]
  BY DEF Handler, HandlerLibrary, AnswerEnvelope, AnswerNoContent, AnswerRaw, HReturn, HPanic,
         HHeader, HStatus, HBody, HLogging, HRecovery, HEnd, Touch
<1>5. UNCHANGED <<service, serverVars, ctxErr>>
  BY DEF Handler, HandlerLibrary, AnswerEnvelope, AnswerNoContent, AnswerRaw, HReturn, HPanic,
         HHeader, HStatus, HBody, HLogging, HRecovery, HEnd
<1>6. QED
  BY <1>1, <1>2, <1>3, <1>4, <1>5

(* Why the server goroutine is where it is: it answers only a deadline, it *)
(* leaves the select through done only when the handler goroutine is over. *)
ServerPhase ==
  \A r \in Requests :
    /\ spc[r] \in {"header", "status", "body"} => exit[r] = "deadline"
    /\ spc[r] \in {"unwind", "finished"} => exit[r] # "none"
    /\ exit[r] = "deadline" => ctxErr[r] = "deadline"
    /\ exit[r] = "done" => hpc[r] = "ended"
    /\ exit[r] # "none" => spc[r] \notin {"idle", "select"}

PhaseInv == ServerPhase /\ LateOnlyIfCut

LEMMA InitPhase == Init => PhaseInv
  BY DEF Init, PhaseInv, ServerPhase, LateOnlyIfCut

LEMMA StepPhase == TypeOK /\ PhaseInv /\ [Next]_vars => PhaseInv'
<1> SUFFICES ASSUME TypeOK, PhaseInv, [Next]_vars PROVE PhaseInv'
  OBVIOUS
<1> USE DEF TypeOK, SControl, PhaseInv, ServerPhase, LateOnlyIfCut, Cut, Finished, serverVars,
       handlerVars, writerVars
<1>1. ASSUME NEW r \in Requests, Handler(r) PROVE PhaseInv'
  <2>1. UNCHANGED <<spc, exit, ctxErr>>
    BY <1>1, HandlerFrame
  <2>2. hpc[r] # "ended" /\ \A q \in Requests : q # r => hpc'[q] = hpc[q]
    BY <1>1, HandlerFrame
  <2>3. \A q \in Requests : late'[q] => late[q] \/ (q = r /\ spc[r] = "finished")
    BY <1>1, HandlerFrame
  <2>4. QED
    BY <2>1, <2>2, <2>3
<1>2. ASSUME NEW r \in Requests, Server(r) PROVE PhaseInv'
  <2>1. CASE Enter(r)
    BY <2>1 DEF Enter
  <2>2. CASE SelectDone(r)
    BY <2>2 DEF SelectDone, EndContext
  <2>3. CASE SelectDeadline(r)
    BY <2>3 DEF SelectDeadline
  <2>7. CASE SelectCanceled(r)
    BY <2>7 DEF SelectCanceled
  <2>4. CASE SHeader(r) \/ SStatus(r) \/ SBody(r)
    BY <2>4 DEF SHeader, SStatus, SBody
  <2>5. CASE SOuter(r) \/ SFinish(r)
    BY <2>5 DEF SOuter, SFinish
  <2>6. QED
    BY <1>2, <2>1, <2>2, <2>3, <2>4, <2>5, <2>7 DEF Server
<1>3. ASSUME NEW r \in Requests, Environment(r) PROVE PhaseInv'
  BY <1>3 DEF Environment, Deadline, Disconnect, EndContext
<1>4. CASE UNCHANGED vars
  BY <1>4 DEF vars
<1>5. QED
  BY <1>1, <1>2, <1>3, <1>4 DEF Next, Step, Quiet

(* Nobody uses the writer after net/http is done, unless Timeout gave up.  *)
THEOREM WriterNotUsedLate == Spec => []LateOnlyIfCut
<1>1. PhaseInv => LateOnlyIfCut
  BY DEF PhaseInv
<1>2. QED
  BY <1>1, InitType, InitPhase, StepType, StepPhase, PTL DEF Spec

-----------------------------------------------------------------------------
(* Why a 504 needs a deadline: the handler goroutine never asks for it.    *)
LEMMA FramesAppend ==
  ASSUME NEW S, NEW s \in Seq(S), NEW x \in S
  PROVE  Frames(Append(s, x)) \subseteq Frames(s) \cup {x}
  BY DEF Frames

LEMMA BodyGrows ==
  ASSUME TypeOK, NEW r \in Requests, NEW by \in Callers, SendBody(r, by)
  PROVE  /\ wire'[r].status \in {wire[r].status, StatusOK}
         /\ Frames(wire'[r].body) \subseteq Frames(wire[r].body) \cup {by}
         /\ \A q \in Requests : q # r => wire'[q] = wire[q]
<1>1. wire[r].body \in Seq(Callers) /\ wire \in WireType
  BY DEF TypeOK, WireType
<1> HIDE DEF WireType
<1>2. Frames(Append(wire[r].body, by)) \subseteq Frames(wire[r].body) \cup {by}
  BY <1>1, FramesAppend
<1> USE DEF WireType
<1>3. CASE wire' = wire
  BY <1>3
<1>4. CASE wire' # wire
  <2>1. wire' = [wire EXCEPT ![r] = [status |-> IF wire[r].status = 0 THEN StatusOK ELSE wire[r].status,
                                     body |-> Append(wire[r].body, by)]]
    BY <1>4 DEF SendBody
  <2>2. /\ wire'[r].status = IF wire[r].status = 0 THEN StatusOK ELSE wire[r].status
        /\ wire'[r].body = Append(wire[r].body, by)
        /\ \A q \in Requests : q # r => wire'[q] = wire[q]
    BY <1>1, <2>1
  <2>3. QED
    BY <1>2, <2>2
<1>5. QED
  BY <1>3, <1>4

LEMMA StatusGrows ==
  ASSUME TypeOK, NEW r \in Requests, NEW status \in Statuses, SendStatus(r, status)
  PROVE  /\ wire'[r].status \in {wire[r].status, status}
         /\ wire'[r].body = wire[r].body
         /\ \A q \in Requests : q # r => wire'[q] = wire[q]
  BY DEF TypeOK, SendStatus

TimeoutSeen(r) == wire[r].status = GatewayTimeout \/ "timeout" \in Frames(wire[r].body)
WireInv == \A r \in Requests : /\ TimeoutSeen(r) => exit[r] = "deadline"
                               /\ hcall[r].status # GatewayTimeout

LEMMA HandlerWire ==
  ASSUME TypeOK, WireInv, NEW r \in Requests, Handler(r)
  PROVE  (TimeoutSeen(r)' => TimeoutSeen(r)) /\ hcall'[r].status # GatewayTimeout
<1> DEFINE Calm(h) == h \in Calls /\ h.status # GatewayTimeout
<1>1. /\ Calm(hcall[r]) /\ Calm(RecoveryAnswer)
      /\ \A st \in {StatusOK, NoContent, HandlerError} : Calm([by |-> "handler", status |-> st])
  BY DEF WireInv, TypeOK, RecoveryAnswer, Calls, Statuses, StatusOK, NoContent, HandlerError,
         InternalError, GatewayTimeout
<1>2. Calm(hcall'[r])
  <2>1. \/ hcall'[r] = hcall[r] \/ hcall'[r] = RecoveryAnswer
        \/ \E st \in {StatusOK, NoContent, HandlerError} : hcall'[r] = [by |-> "handler", status |-> st]
    <3>1. hcall \in [Requests -> Calls]
      BY DEF TypeOK
    <3>2. ASSUME NEW st \in {StatusOK, HandlerError}, AnswerEnvelope(r, st)
          PROVE  hcall'[r] = [by |-> "handler", status |-> st]
      BY <3>1, <3>2 DEF AnswerEnvelope
    <3>3. CASE AnswerNoContent(r)
      BY <3>1, <3>3 DEF AnswerNoContent
    <3>4. CASE HRecovery(r)
      BY <3>1, <3>4 DEF HRecovery
    <3>5. CASE AnswerRaw(r) \/ HReturn(r) \/ HPanic(r) \/ HHeader(r) \/ HStatus(r) \/ HBody(r)
               \/ HLogging(r) \/ HEnd(r)
      BY <3>5 DEF AnswerRaw, HReturn, HPanic, HHeader, HStatus, HBody, HLogging, HEnd
    <3>6. QED
      BY <3>2, <3>3, <3>4, <3>5 DEF Handler, HandlerLibrary
  <2>2. QED
    BY <1>1, <2>1
<1>3. \/ wire' = wire
      \/ SendStatus(r, hcall[r].status) \/ SendBody(r, hcall[r].by) \/ SendBody(r, "handler")
  BY DEF Handler, HandlerLibrary, AnswerEnvelope, AnswerNoContent, AnswerRaw, HReturn, HPanic,
         HHeader, HStatus, HBody, HLogging, HRecovery, HEnd, Touch, writerVars
<1>4. hcall[r].status \in Statuses /\ hcall[r].by \in {"handler", "recovery"}
  BY <1>1 DEF Calls
<1>5. TimeoutSeen(r)' => TimeoutSeen(r)
  <2>1. CASE wire' = wire
    BY <2>1 DEF TimeoutSeen
  <2>2. CASE SendStatus(r, hcall[r].status)
    BY <2>2, <1>1, <1>4, StatusGrows DEF TimeoutSeen
  <2>3. ASSUME NEW by \in {"handler", "recovery"}, SendBody(r, by) PROVE TimeoutSeen(r)' => TimeoutSeen(r)
    <3>1. by \in Callers /\ by # "timeout" /\ StatusOK # GatewayTimeout
      BY DEF Callers, StatusOK, GatewayTimeout
    <3>2. QED
      BY <2>3, <3>1, BodyGrows DEF TimeoutSeen
  <2>4. QED
    BY <1>3, <1>4, <2>1, <2>2, <2>3
<1>6. QED
  BY <1>2, <1>5

LEMMA InitWire == Init => WireInv
<1> SUFFICES ASSUME Init, NEW r \in Requests
             PROVE  ~TimeoutSeen(r) /\ hcall[r].status # GatewayTimeout
  BY DEF WireInv
<1>1. Frames(<<>>) = {}
  BY DEF Frames
<1>2. wire[r].status = 0 /\ wire[r].body = <<>> /\ hcall[r].status = StatusOK
  BY DEF Init, NoCall
<1>3. QED
  BY <1>1, <1>2 DEF TimeoutSeen, StatusOK, GatewayTimeout

LEMMA StepWire == TypeOK /\ PhaseInv /\ WireInv /\ [Next]_vars => WireInv'
<1> SUFFICES ASSUME TypeOK, PhaseInv, WireInv, [Next]_vars PROVE WireInv'
  OBVIOUS
<1> USE DEF serverVars, handlerVars, writerVars
<1>1. ASSUME NEW r \in Requests, Handler(r) PROVE WireInv'
  <2>1. \A q \in Requests : exit'[q] = exit[q] /\ (q # r => wire'[q] = wire[q] /\ hcall'[q] = hcall[q])
    BY <1>1, HandlerFrame
  <2>2. QED
    BY <1>1, <2>1, HandlerWire DEF WireInv, TimeoutSeen
<1>2. ASSUME NEW r \in Requests, Server(r) PROVE WireInv'
  <2>1. CASE Enter(r) \/ SHeader(r) \/ SOuter(r)
    BY <2>1 DEF Enter, SHeader, SOuter, WireInv, TimeoutSeen
  <2>2. CASE SelectDone(r) \/ SelectDeadline(r) \/ SelectCanceled(r)
    <3>1. exit[r] = "none" /\ wire' = wire /\ hcall' = hcall
      BY <2>2 DEF SelectDone, SelectDeadline, SelectCanceled, PhaseInv, ServerPhase, TypeOK
    <3>2. \A q \in Requests : q # r => exit'[q] = exit[q]
      BY <2>2 DEF SelectDone, SelectDeadline, SelectCanceled, TypeOK
    <3>3. QED
      BY <3>1, <3>2 DEF WireInv, TimeoutSeen
  <2>3. CASE SStatus(r) \/ SBody(r)
    <3>1. exit[r] = "deadline" /\ exit' = exit /\ hcall' = hcall
      BY <2>3 DEF SStatus, SBody, PhaseInv, ServerPhase
    <3>2. SStatus(r) => SendStatus(r, GatewayTimeout) /\ GatewayTimeout \in Statuses
      BY DEF SStatus, Statuses
    <3>3. SBody(r) => SendBody(r, "timeout") /\ "timeout" \in Callers
      BY DEF SBody, Callers
    <3>4. \A q \in Requests : q # r => wire'[q] = wire[q]
      BY <2>3, <3>2, <3>3, StatusGrows, BodyGrows
    <3>5. QED
      BY <3>1, <3>4 DEF WireInv, TimeoutSeen
  <2>4. CASE SFinish(r)
    <3>1. SendStatus(r, StatusOK) /\ StatusOK \in Statuses /\ StatusOK # GatewayTimeout
      BY <2>4 DEF SFinish, Statuses, StatusOK, GatewayTimeout
    <3>2. exit' = exit /\ hcall' = hcall
      BY <2>4 DEF SFinish
    <3>3. QED
      BY <3>1, <3>2, StatusGrows DEF WireInv, TimeoutSeen
  <2>5. QED
    BY <1>2, <2>1, <2>2, <2>3, <2>4 DEF Server
<1>3. ASSUME NEW r \in Requests, Environment(r) PROVE WireInv'
  BY <1>3 DEF Environment, Deadline, Disconnect, WireInv, TimeoutSeen
<1>4. CASE UNCHANGED vars
  BY <1>4 DEF vars, WireInv, TimeoutSeen
<1>5. QED
  BY <1>1, <1>2, <1>3, <1>4 DEF Next, Step, Quiet

(* A client gets Timeout's 504 only when the deadline passed.              *)
THEOREM TimeoutMeansDeadline == Spec => []TimeoutAnswerNeedsDeadline
<1>1. PhaseInv /\ WireInv => TimeoutAnswerNeedsDeadline
  BY DEF PhaseInv, ServerPhase, WireInv, TimeoutSeen, TimeoutAnswerNeedsDeadline
<1>2. QED
  BY <1>1, InitType, InitPhase, InitWire, StepType, StepPhase, StepWire, PTL DEF Spec

-----------------------------------------------------------------------------
(* Why only two things end the process.  A panic that unwinds has met no   *)
(* Recovery in the frames it left, and it starts with all frames open.     *)
PanicPhase ==
  \A r \in Requests :
    /\ hpanic[r] => /\ hpc[r] = "unwind"
                    /\ \A i \in (hdepth[r] + 1)..Len(chain.inner) : chain.inner[i] # "recovery"
    /\ hpc[r] = "run" \/ (hpc[r] \in {"header", "status", "body"} /\ hcall[r].by = "handler")
         => hdepth[r] = Len(chain.inner)
    /\ spc[r] = "idle" => hpc[r] = "idle"

PanicInv == PanicPhase /\ CrashNeedsCause

LEMMA InitPanic == Init => PanicInv
  BY DEF Init, PanicInv, PanicPhase, CrashNeedsCause, Crashed

(* The handler's header accesses end the process only against Timeout's 504. *)
LEMMA RaceNeedsDeadline ==
  ASSUME TypeOK, PhaseInv, NEW r \in Requests, proc = "up",
         HeaderAccess(spc[r]) \/ HeaderAccess(IF wire[r].status = 0 THEN spc[r] ELSE "none")
  PROVE  proc' = "up" \/ exit[r] = "deadline"
  BY DEF HeaderAccess, PhaseInv, ServerPhase

LEMMA StepPanic == TypeOK /\ PhaseInv /\ PanicInv /\ [Next]_vars => PanicInv'
<1> SUFFICES ASSUME TypeOK, PhaseInv, PanicInv, [Next]_vars PROVE PanicInv'
  OBVIOUS
<1>0. Len(chain.inner) \in Nat /\ DOMAIN chain.inner = 1..Len(chain.inner)
  BY ChainShape DEF TypeOK
<1> USE DEF serverVars, handlerVars, writerVars, service
<1>1. ASSUME NEW r \in Requests, Handler(r), proc = "up" PROVE PanicInv'
  <2> USE DEF TypeOK, PanicInv, PanicPhase
  <2>1. PanicPhase'
    <3>1. ASSUME NEW st \in {StatusOK, HandlerError}, AnswerEnvelope(r, st) PROVE PanicPhase'
      BY <3>1 DEF AnswerEnvelope
    <3>2. CASE AnswerNoContent(r)
      BY <3>2 DEF AnswerNoContent
    <3>3. CASE AnswerRaw(r) \/ HReturn(r) \/ HHeader(r)
      BY <3>3 DEF AnswerRaw, HReturn, HHeader
    <3>4. CASE HStatus(r) \/ HBody(r)
      <4>1. AfterCall(r) = "unwind" \/ (AfterCall(r) = "run" /\ hcall[r].by = "handler")
        BY DEF AfterCall, Calls
      <4>2. /\ hpc[r] \in {"status", "body"} /\ UNCHANGED <<chain, spc, hpanic, hcall, hdepth>>
            /\ \E to \in {"body", AfterCall(r)} : hpc' = [hpc EXCEPT ![r] = to]
        BY <3>4 DEF HStatus, HBody
      <4>3. QED
        BY <4>1, <4>2
    <3>5. CASE HPanic(r)
      BY <1>0, <3>5 DEF HPanic
    <3>6. CASE HLogging(r)
      BY <1>0, <3>6 DEF HLogging, InnerFrame
    <3>7. CASE HRecovery(r)
      BY <1>0, <3>7 DEF HRecovery, InnerFrame, RecoveryAnswer
    <3>8. CASE HEnd(r)
      BY <3>8 DEF HEnd
    <3>9. QED
      BY <1>1, <3>1, <3>2, <3>3, <3>4, <3>5, <3>6, <3>7, <3>8 DEF Handler, HandlerLibrary
  <2>2. CrashNeedsCause'
    <3>1. proc' = "up" \/ HEnd(r) \/ exit[r] = "deadline"
      BY <1>1, RaceNeedsDeadline
      DEF Handler, HandlerLibrary, AnswerEnvelope, AnswerNoContent, AnswerRaw, HReturn, HPanic,
          HHeader, HStatus, HBody, HLogging, HRecovery
    <3>2. exit' = exit /\ chain' = chain
      BY <1>1, HandlerFrame
    <3>3. HEnd(r) /\ proc' # "up" => hpanic'[r] /\ ~RecoveryInside'
      <4>1. HEnd(r) /\ proc' # "up" => hpanic[r] /\ hpanic' = hpanic /\ hdepth[r] = 0
        BY <1>1 DEF HEnd
      <4>2. hpanic[r] /\ hdepth[r] = 0 => \A i \in 1..Len(chain.inner) : chain.inner[i] # "recovery"
        OBVIOUS
      <4>3. QED
        BY <1>0, <3>2, <4>1, <4>2 DEF RecoveryInside, Frames
    <3>4. QED
      BY <3>1, <3>2, <3>3 DEF CrashNeedsCause, Crashed, Cut
  <2>3. QED
    BY <2>1, <2>2
<1>2. ASSUME NEW r \in Requests, Server(r), proc = "up" PROVE PanicInv'
  <2>1. \/ Enter(r)
        \/ UNCHANGED <<chain, hpanic, hcall, hpc, hdepth>> /\ \A q \in Requests : spc'[q] = "idle" => spc[q] = "idle"
    BY <1>2 DEF TypeOK, Server, SelectDone, SelectDeadline, SelectCanceled, SHeader, SStatus, SBody, SOuter,
       SFinish
  <2>2. PanicPhase'
    <3>1. CASE ~Enter(r)
      BY <2>1, <3>1 DEF PanicInv, PanicPhase
    <3>2. CASE Enter(r)
      BY <3>2 DEF Enter, PanicInv, PanicPhase, TypeOK
    <3>3. QED
      BY <2>1, <3>1, <3>2
  <2>3. CrashNeedsCause'
    <3>1. proc' = "up" \/ SelectDeadline(r) \/ SStatus(r) \/ SFinish(r)
      BY <1>2 DEF Server, Enter, SelectDone, SelectCanceled, SHeader, SBody, SOuter
    <3>2. SelectDeadline(r) \/ SStatus(r) => Cut(r)'
      BY DEF SelectDeadline, SStatus, TypeOK, PhaseInv, ServerPhase, Cut
    <3>3. SFinish(r) => proc' = "up" \/ Cut(r)'
      <4>1. SUFFICES ASSUME SFinish(r), proc' # "up" PROVE Cut(r)'
        OBVIOUS
      <4>2. hpc[r] = "header" /\ spc[r] = "unwind" /\ exit' = exit
        BY <4>1 DEF SFinish, HeaderAccess
      <4>3. exit[r] \in {"deadline", "canceled"}
        BY <4>2 DEF TypeOK, PhaseInv, ServerPhase
      <4>4. QED
        BY <4>2, <4>3 DEF Cut
    <3>4. QED
      BY <3>1, <3>2, <3>3 DEF CrashNeedsCause, Crashed
  <2>4. QED
    BY <2>2, <2>3 DEF PanicInv
<1>3. ASSUME NEW r \in Requests, Environment(r) PROVE PanicInv'
  BY <1>3 DEF Environment, Deadline, Disconnect, PanicInv, PanicPhase, CrashNeedsCause, Crashed,
     RecoveryInside, Cut
<1>4. CASE UNCHANGED vars
  BY <1>4 DEF vars, PanicInv, PanicPhase, CrashNeedsCause, Crashed, RecoveryInside,
     Cut
<1>5. QED
  BY <1>1, <1>2, <1>3, <1>4 DEF Next, Step, Quiet

(* The process ends by a panic with no Recovery inside Timeout, or by the  *)
(* race of an abandoned handler with the end of its request; by no more.   *)
THEOREM CrashesExplained == Spec => []CrashNeedsCause
<1>1. PanicInv => CrashNeedsCause
  BY DEF PanicInv
<1>2. QED
  BY <1>1, InitType, InitPhase, InitPanic, StepType, StepPhase, StepPanic, PTL DEF Spec

-----------------------------------------------------------------------------
(* What a client was sent, and what the log says of it, when Timeout did   *)
(* not give up.  Given counts the answers begun, the handler's own and     *)
(* Recovery's, Pending the one of them that has no status line yet.        *)
Given(r) == calls[r] + (IF panicked[r] THEN 1 ELSE 0)
Pending(r) == IF hpanic[r] \/ hpc[r] \in {"header", "status"} THEN 1 ELSE 0
SentStatus(r) == IF wire[r].status = 0 THEN StatusOK ELSE wire[r].status
Answering(r) == hpc[r] \in {"header", "status", "body"}
Back(r) == hpc[r] \in {"unwind", "ended"}

(* Who is giving an answer; a finished response has a status line.         *)
AnswerPhase(r) ==
  /\ panicked[r] => Back(r) \/ (Answering(r) /\ hcall[r].by = "recovery")
  /\ Answering(r) => IF hcall[r].by = "recovery"
                       THEN panicked[r] /\ hcall[r].status = InternalError
                       ELSE calls[r] > 0
  /\ hpanic[r] => panicked[r]
  /\ spc[r] = "idle" => wire[r].status = 0 /\ sw[r] = StatusOK
  /\ Finished(r) => wire[r].status # 0

(* A status line means an answer that is not pending.                      *)
FirstAnswer(r) == ~Cut(r) /\ ~Finished(r) /\ wire[r].status # 0 => Given(r) > Pending(r)

(* Of one answer, the statusWriter has the status as long as a Logging     *)
(* that may still write its line stands around the writes.                 *)
LogAgrees(r) ==
  ~Cut(r) /\ Given(r) <= 1 =>
    /\ \A i \in DOMAIN log[r] : log[r][i] = SentStatus(r)
    /\ log[r] # <<>> => Back(r) /\ ~hpanic[r]
    /\ ThroughLogging(hdepth[r], TRUE) => sw[r] = SentStatus(r)

RecoveryAnswered(r) ==
  \/ wire[r].status = NoContent
  \/ /\ wire[r].status # 0
     /\ wire[r].body # <<>> /\ wire[r].body[Len(wire[r].body)] = "recovery"
     /\ calls[r] = 0 => wire[r].status = InternalError

(* Recovery's answer, from its status line on.                             *)
PanicAnswered(r) ==
  ~Cut(r) /\ panicked[r] =>
    /\ hpc[r] = "body" => /\ wire[r].status # 0
                          /\ calls[r] = 0 => wire[r].status = InternalError
    /\ Back(r) /\ ~hpanic[r] => RecoveryAnswered(r)

AnswerOK(r) == AnswerPhase(r) /\ FirstAnswer(r) /\ LogAgrees(r) /\ PanicAnswered(r)
AnswerInv == \A r \in Requests : AnswerOK(r)

(* A request's own part of the state.                                      *)
Own(q) == <<spc[q], exit[q], hpc[q], hdepth[q], hcall[q], hpanic[q], calls[q], panicked[q],
            wire[q], sw[q], log[q]>>

LEMMA OthersKept ==
  ASSUME TypeOK, NEW r \in Requests, Handler(r) \/ Server(r) \/ Environment(r),
         NEW q \in Requests, q # r
  PROVE  Own(q)' = Own(q) /\ chain' = chain
<1> USE DEF TypeOK, serverVars, handlerVars, writerVars, service, Own
<1>1. CASE Handler(r)
  <2>1. /\ hpc'[q] = hpc[q] /\ wire'[q] = wire[q] /\ hcall'[q] = hcall[q]
        /\ UNCHANGED <<chain, spc, exit>>
    BY <1>1, HandlerFrame
  <2>2. hdepth'[q] = hdepth[q] /\ hpanic'[q] = hpanic[q] /\ calls'[q] = calls[q] /\ panicked'[q] = panicked[q]
    BY <1>1 DEF Handler, HandlerLibrary, AnswerEnvelope, AnswerNoContent, AnswerRaw, HReturn, HPanic,
       HHeader, HStatus, HBody, HLogging, HRecovery, HEnd, InnerFrame
  <2>3. sw'[q] = sw[q] /\ log'[q] = log[q]
    BY <1>1 DEF Handler, HandlerLibrary, AnswerEnvelope, AnswerNoContent, AnswerRaw, HReturn, HPanic,
       HHeader, HStatus, HBody, HLogging, HRecovery, HEnd, RecordStatus
  <2> QED BY <2>1, <2>2, <2>3
<1>2. CASE Server(r)
  <2>1. wire'[q] = wire[q]
    <3>1. \/ wire' = wire \/ SendBody(r, "timeout")
          \/ \E status \in {GatewayTimeout, StatusOK} : SendStatus(r, status)
      BY <1>2 DEF Server, Enter, SelectDone, SelectDeadline, SelectCanceled, SHeader, SStatus, SBody,
         SOuter, SFinish
    <3>2. "timeout" \in Callers /\ GatewayTimeout \in Statuses /\ StatusOK \in Statuses
      BY DEF Callers, Statuses
    <3> QED BY <3>1, <3>2, BodyGrows, StatusGrows
  <2>2. chain' = chain /\ spc'[q] = spc[q] /\ exit'[q] = exit[q] /\ log'[q] = log[q] /\ sw'[q] = sw[q]
    BY <1>2 DEF Server, Enter, SelectDone, SelectDeadline, SelectCanceled, SHeader, SStatus, SBody,
       SOuter, SFinish, RecordStatus
  <2>3. /\ hpc'[q] = hpc[q] /\ hdepth'[q] = hdepth[q]
        /\ UNCHANGED <<hcall, hpanic, calls, panicked>>
    BY <1>2 DEF Server, Enter, SelectDone, SelectDeadline, SelectCanceled, SHeader, SStatus, SBody,
       SOuter, SFinish
  <2> QED BY <2>1, <2>2, <2>3
<1>3. CASE Environment(r)
  BY <1>3 DEF Environment, Deadline, Disconnect
<1> QED BY <1>1, <1>2, <1>3

LEMMA NoLines == ASSUME NEW s, s = <<>> PROVE \A i \in DOMAIN s : FALSE
  OBVIOUS

LEMMA OneMoreLine ==
  ASSUME NEW s \in Seq(Statuses), NEW x \in Statuses, \A i \in DOMAIN s : s[i] = x
  PROVE  Append(s, x) # <<>> /\ \A i \in DOMAIN Append(s, x) : Append(s, x)[i] = x
  OBVIOUS

LEMMA OwnCarries ==
  ASSUME NEW q \in Requests, Own(q)' = Own(q), chain' = chain, AnswerOK(q)
  PROVE  AnswerOK(q)'
  BY DEF Own, AnswerOK, AnswerPhase, FirstAnswer, LogAgrees, PanicAnswered, RecoveryAnswered, Given,
     Pending, SentStatus, Answering, Back, Finished, Cut, ThroughLogging, Frames

LEMMA InitAnswer == Init => AnswerInv
<1> SUFFICES ASSUME Init, NEW r \in Requests PROVE AnswerOK(r)
  BY DEF AnswerInv
<1>1. /\ hpc[r] = "idle" /\ spc[r] = "idle" /\ hpanic[r] = FALSE /\ panicked[r] = FALSE
      /\ wire[r].status = 0 /\ sw[r] = StatusOK /\ log[r] = <<>>
  BY DEF Init
<1> QED BY <1>1 DEF AnswerOK, AnswerPhase, FirstAnswer, LogAgrees, PanicAnswered, SentStatus,
        Answering, Back, Finished

-----------------------------------------------------------------------------
(* As long as Timeout has not given up the handler goroutine is joined: it *)
(* takes no step once the response is finished.                            *)
LEMMA JoinedIfNotCut ==
  ASSUME TypeOK, PhaseInv, NEW r \in Requests, Handler(r), ~Cut(r)
  PROVE  ~Finished(r)
  BY HandlerFrame DEF TypeOK, PhaseInv, ServerPhase, Cut, Finished

(* The handler goroutine runs only for a request the server has entered.   *)
LEMMA ServedByThen ==
  ASSUME TypeOK, PanicPhase, NEW r \in Requests, Handler(r)
  PROVE  spc[r] # "idle"
  BY HandlerFrame DEF PanicPhase

(* The steps of the handler goroutine that begin an answer.                *)
LEMMA BeginsAnswer ==
  ASSUME TypeOK, PhaseInv, PanicPhase, NEW r \in Requests, AnswerOK(r),
         \/ AnswerNoContent(r) \/ AnswerRaw(r)
         \/ \E st \in {StatusOK, HandlerError} : AnswerEnvelope(r, st)
  PROVE  AnswerOK(r)'
<1> USE DEF TypeOK, serverVars, handlerVars, writerVars, service
<1>1. /\ hpc[r] = "run" /\ calls'[r] = calls[r] + 1 /\ calls[r] \in Nat
      /\ UNCHANGED <<chain, spc, exit, hdepth, hpanic, panicked, sw, log>>
  BY DEF AnswerNoContent, AnswerRaw, AnswerEnvelope
<1>2. ~panicked[r] /\ ~hpanic[r]
  BY <1>1 DEF AnswerOK, AnswerPhase, Back, Answering
<1>3. Handler(r) /\ spc[r] # "idle"
  BY ServedByThen DEF Handler
<1>4. CASE AnswerRaw(r)
  <2>1. hpc' = hpc /\ SendBody(r, "handler") /\ "handler" \in Callers
    BY <1>4 DEF AnswerRaw, Callers
  <2>2. wire'[r].status \in {wire[r].status, StatusOK} /\ (wire[r].status # 0 => wire'[r].status = wire[r].status)
    BY <2>1, BodyGrows DEF SendBody, WireType
  <2>3. ~Cut(r) /\ Given(r)' <= 1 => wire[r].status = 0
    BY <1>1, <1>2, <1>3, JoinedIfNotCut DEF AnswerOK, FirstAnswer, Given, Pending, Cut
  <2> QED
    BY <1>1, <1>2, <1>3, <2>1, <2>2, <2>3 DEF AnswerOK, AnswerPhase, FirstAnswer, LogAgrees, PanicAnswered,
       Given, Pending, SentStatus, Answering, Back, Finished, Cut, ThroughLogging, Frames
<1>5. CASE ~AnswerRaw(r)
  <2>1. /\ wire' = wire /\ hpc'[r] \in {"header", "status"} /\ hcall'[r].by = "handler"
    BY <1>5 DEF AnswerNoContent, AnswerEnvelope
  <2> QED
    BY <1>1, <1>2, <1>3, <2>1 DEF AnswerOK, AnswerPhase, FirstAnswer, LogAgrees, PanicAnswered,
       Given, Pending, SentStatus, Answering, Back, Finished, Cut, ThroughLogging, Frames
<1> QED BY <1>4, <1>5

(* The steps that go on with one.                                          *)
LEMMA GoesOnAnswering ==
  ASSUME TypeOK, PhaseInv, PanicPhase, NEW r \in Requests, AnswerOK(r),
         HHeader(r) \/ HStatus(r) \/ HBody(r)
  PROVE  AnswerOK(r)'
<1> USE DEF TypeOK, serverVars, handlerVars, writerVars, service
<1>1. /\ Answering(r) /\ calls[r] \in Nat
      /\ UNCHANGED <<chain, spc, exit, hdepth, hcall, hpanic, calls, panicked, log>>
  <2>1. CASE HHeader(r)
    BY <2>1 DEF HHeader, Answering
  <2>2. CASE HStatus(r)
    BY <2>2 DEF HStatus, Answering
  <2>3. CASE HBody(r)
    BY <2>3 DEF HBody, Answering
  <2> QED BY <2>1, <2>2, <2>3
<1>2. ~hpanic[r]
  BY <1>1 DEF PanicPhase, Answering
<1>3. (~Cut(r) => ~Finished(r)) /\ spc[r] # "idle"
  BY JoinedIfNotCut, ServedByThen DEF Handler, HandlerLibrary
<1>4. hcall[r].by \in {"handler", "recovery"} /\ hcall[r].status \in Statuses
  BY DEF Calls
<1>5. Given(r) >= 1 /\ (hcall[r].by = "recovery" => hcall[r].status = InternalError /\ panicked[r])
      /\ (hcall[r].by = "handler" => ~panicked[r])
  BY <1>1, <1>4 DEF AnswerOK, AnswerPhase, Given, Back, Answering
<1>6. StatusOK = 200 /\ InternalError = 500 /\ NoContent = 204 /\ \A st \in Statuses : st # 0
  BY DEF StatusOK, InternalError, NoContent, Statuses, HandlerError, GatewayTimeout
<1> USE DEF AnswerOK, Answering, Back, Finished, Cut
<1>7. CASE HHeader(r)
  <2>1. hpc[r] = "header" /\ hpc'[r] = "status" /\ wire' = wire /\ sw' = sw
    BY <1>7 DEF HHeader
  <2> QED
    BY <1>1, <1>2, <1>3, <2>1 DEF AnswerPhase, FirstAnswer, LogAgrees, PanicAnswered, RecoveryAnswered,
       Given, Pending, SentStatus, ThroughLogging, Frames
<1>8. CASE HStatus(r)
  <2>1. /\ hpc[r] = "status"
        /\ hpc'[r] \in {"body", "run", "unwind"}
        /\ hcall[r].by = "handler" => hpc'[r] \in {"body", "run"}
        /\ hcall[r].by = "recovery" => hpc'[r] = "body"
    BY <1>8, <1>4, <1>5, <1>6 DEF HStatus, AfterCall
  <2>2. /\ wire'[r].body = wire[r].body
        /\ wire[r].status # 0 => wire'[r].status = wire[r].status
        /\ wire[r].status = 0 /\ ~Finished(r) => wire'[r].status = hcall[r].status
        /\ Finished(r) => wire'[r].status = wire[r].status
    BY <1>8 DEF HStatus, SendStatus, WireType
  <2>3. sw'[r] = IF ThroughLogging(hdepth[r], TRUE) THEN hcall[r].status ELSE sw[r]
    BY <1>8 DEF HStatus, RecordStatus
  <2>4. AnswerPhase(r)'
    BY <1>1, <1>2, <1>3, <1>4, <1>5, <2>1, <2>2 DEF AnswerPhase
  <2>5. FirstAnswer(r)'
    BY <1>1, <1>2, <1>5, <2>1 DEF FirstAnswer, Given, Pending
  <2>6. ~Cut(r) /\ Given(r) <= 1 => wire[r].status = 0
    BY <1>1, <1>3, <1>5, <2>1 DEF FirstAnswer, Given, Pending
  <2>7. ThroughLogging(hdepth[r], TRUE)' = ThroughLogging(hdepth[r], TRUE)
    BY <1>1 DEF ThroughLogging, Frames
  <2>8. LogAgrees(r)'
    <3>1. SUFFICES ASSUME ~Cut(r), Given(r) <= 1
                   PROVE  log[r] = <<>> /\ (ThroughLogging(hdepth[r], TRUE) => sw'[r] = SentStatus(r)')
      BY <1>1, <2>7, NoLines DEF LogAgrees, Given
    <3>2. log[r] = <<>>
      BY <3>1, <2>1 DEF LogAgrees
    <3>3. SentStatus(r)' = hcall[r].status
      BY <1>3, <1>4, <1>6, <2>2, <2>6, <3>1 DEF SentStatus
    <3> QED BY <2>3, <3>2, <3>3
  <2>9. calls[r] = 0 /\ panicked[r] => Given(r) = 1
    BY DEF Given
  <2>10. PanicAnswered(r)'
    BY <1>1, <1>3, <1>4, <1>5, <1>6, <2>1, <2>2, <2>6, <2>9 DEF PanicAnswered
  <2> QED BY <2>4, <2>5, <2>8, <2>10
<1>9. CASE HBody(r)
  <2>1. hpc[r] = "body" /\ sw' = sw
    BY <1>9 DEF HBody
  <2>2. /\ hcall[r].by = "handler" => hpc'[r] = "run"
        /\ hcall[r].by = "recovery" => hpc'[r] = "unwind"
    BY <1>9, <1>4 DEF HBody, AfterCall
  <2>3. /\ wire[r].status # 0 => wire'[r].status = wire[r].status
        /\ wire'[r].status \in {wire[r].status, StatusOK}
        /\ hcall[r].by = "recovery" /\ ~Finished(r) /\ wire[r].status \notin {0, NoContent} =>
             wire'[r].body = Append(wire[r].body, "recovery")
    BY <1>9, <1>6 DEF HBody, SendBody
  <2>4. AnswerPhase(r)'
    BY <1>1, <1>2, <1>3, <1>4, <1>5, <2>2, <2>3 DEF AnswerPhase
  <2>5. FirstAnswer(r)'
    BY <1>1, <1>2, <1>4, <1>5, <2>2 DEF FirstAnswer, Given, Pending
  <2>6. SentStatus(r)' = SentStatus(r)
    BY <2>3 DEF SentStatus
  <2>7. LogAgrees(r)'
    BY <1>1, <2>1, <2>6 DEF LogAgrees, Given, ThroughLogging, Frames
  <2>8. hcall[r].by = "recovery" /\ ~Cut(r) => RecoveryAnswered(r)'
    <3>1. wire[r].body \in Seq(Callers) /\ "recovery" \in Callers
      BY DEF WireType, Callers
    <3> QED
      BY <1>1, <1>3, <1>5, <2>1, <2>3, <3>1 DEF RecoveryAnswered, PanicAnswered
  <2>9. PanicAnswered(r)'
    BY <1>1, <1>4, <1>5, <2>2, <2>8 DEF PanicAnswered
  <2> QED BY <2>4, <2>5, <2>7, <2>9
<1> QED BY <1>7, <1>8, <1>9

(* The steps on the way out of the handler and its middlewares.            *)
LEMMA GoesBack ==
  ASSUME TypeOK, PhaseInv, PanicPhase, NEW r \in Requests, AnswerOK(r),
         HReturn(r) \/ HPanic(r) \/ HLogging(r) \/ HRecovery(r) \/ HEnd(r)
  PROVE  AnswerOK(r)'
<1> USE DEF TypeOK, serverVars, handlerVars, writerVars, service
<1>1. UNCHANGED <<chain, spc, exit, calls, wire, sw>> /\ calls[r] \in Nat
  <2>1. CASE HReturn(r) \/ HPanic(r)
    BY <2>1 DEF HReturn, HPanic
  <2>2. CASE HLogging(r) \/ HEnd(r)
    BY <2>2 DEF HLogging, HEnd
  <2>3. CASE HRecovery(r)
    BY <2>3 DEF HRecovery
  <2> QED BY <2>1, <2>2, <2>3
<1>2. ~Cut(r) => ~Finished(r)
  BY JoinedIfNotCut DEF Handler, HandlerLibrary
<1> USE <1>1 DEF AnswerOK, Answering, Back, Finished, Cut
<1>3. CASE HReturn(r)
  <2>1. /\ hpc[r] = "run" /\ hpc'[r] = "unwind"
        /\ UNCHANGED <<hdepth, hcall, hpanic, panicked, log>>
    BY <1>3 DEF HReturn
  <2>2. ~panicked[r] /\ ~hpanic[r]
    BY <2>1 DEF AnswerPhase
  <2> QED
    BY <2>1, <2>2 DEF AnswerPhase, FirstAnswer, LogAgrees, PanicAnswered, Given, Pending, SentStatus,
       ThroughLogging, Frames
<1>4. CASE HPanic(r)
  <2>1. /\ hpc[r] = "run" \/ (hpc[r] = "body" /\ hcall[r].by = "handler")
        /\ hpc'[r] = "unwind" /\ hpanic'[r] /\ panicked'[r]
        /\ UNCHANGED <<hdepth, hcall, log>>
    BY <1>4 DEF HPanic
  <2>2. ~panicked[r] /\ ~hpanic[r]
    BY <2>1 DEF AnswerPhase
  <2>3. log[r] = <<>> \/ Cut(r) \/ Given(r) > 1
    <3>1. Given(r) \in Nat /\ ~Back(r)
      BY <2>1 DEF Given
    <3>2. ~(Given(r) <= 1) => Given(r) > 1
      BY <3>1
    <3>3. log[r] # <<>> /\ ~Cut(r) /\ Given(r) <= 1 => Back(r)
      BY ONLY LogAgrees(r) DEF LogAgrees
    <3> QED BY <3>1, <3>2, <3>3
  <2>4. Given(r)' = Given(r) + 1 /\ Pending(r)' = 1 /\ Given(r) \in Nat
    BY <2>1, <2>2 DEF Given, Pending
  <2>5. FirstAnswer(r)'
    BY <2>1, <2>2, <2>4 DEF FirstAnswer, Pending
  <2>6. LogAgrees(r)'
    <3>1. SentStatus(r)' = SentStatus(r) /\ ThroughLogging(hdepth[r], TRUE)' = ThroughLogging(hdepth[r], TRUE)
      BY <2>1 DEF SentStatus, ThroughLogging, Frames
    <3>2. Given(r)' <= 1 => Given(r) <= 1 /\ ~(Given(r) > 1)
      BY <2>4
    <3> QED BY <2>1, <2>3, <3>1, <3>2, NoLines DEF LogAgrees
  <2> QED
    BY <2>1, <2>2, <2>5, <2>6 DEF AnswerPhase, PanicAnswered
<1>5. CASE HEnd(r)
  <2>1. /\ hpc[r] = "unwind" /\ hpc'[r] \in {"unwind", "ended"}
        /\ UNCHANGED <<hdepth, hcall, hpanic, panicked, log>>
    BY <1>5 DEF HEnd
  <2> QED
    BY <2>1 DEF AnswerPhase, FirstAnswer, LogAgrees, PanicAnswered, RecoveryAnswered, Given, Pending,
       SentStatus, ThroughLogging, Frames
<1>6. ASSUME InnerFrame(r, "logging") \/ InnerFrame(r, "recovery")
      PROVE  /\ hpc[r] = "unwind" /\ hdepth[r] \in 1..Len(chain.inner) /\ hdepth'[r] = hdepth[r] - 1
             /\ ThroughLogging(hdepth[r], TRUE)' => ThroughLogging(hdepth[r], TRUE)
  BY <1>6, ChainShape DEF InnerFrame, ThroughLogging, Frames
<1>7. CASE HLogging(r)
  <2>1. /\ UNCHANGED <<hpc, hcall, hpanic, panicked>> /\ hpc[r] = "unwind"
        /\ ThroughLogging(hdepth[r], TRUE)' => ThroughLogging(hdepth[r], TRUE)
        /\ ThroughLogging(hdepth[r], TRUE)
    BY <1>6, <1>7 DEF HLogging, InnerFrame, ThroughLogging
  <2>2. /\ log[r] \in Seq(Statuses) /\ sw[r] \in Statuses
        /\ hpanic[r] => log'[r] = log[r]
        /\ ~hpanic[r] => log'[r] = Append(log[r], sw[r])
    BY <1>7 DEF HLogging
  <2>3. LogAgrees(r)'
    <3>1. SentStatus(r)' = SentStatus(r) /\ Given(r)' = Given(r) /\ Cut(r)' = Cut(r)
      BY <2>1 DEF SentStatus, Given
    <3>2. CASE hpanic[r]
      BY <2>1, <2>2, <3>1, <3>2 DEF LogAgrees
    <3>3. CASE ~hpanic[r]
      <4>1. SUFFICES ASSUME ~Cut(r), Given(r) <= 1 PROVE LogAgrees(r)'
        BY <3>1 DEF LogAgrees
      <4>2. sw[r] = SentStatus(r) /\ \A i \in DOMAIN log[r] : log[r][i] = sw[r]
        BY <2>1, <4>1 DEF LogAgrees
      <4>3. \A i \in DOMAIN log'[r] : log'[r][i] = SentStatus(r)'
        <5>1. log'[r] = Append(log[r], sw[r]) /\ log[r] \in Seq(Statuses) /\ sw[r] \in Statuses
          BY <2>2, <3>3
        <5>2. \A i \in DOMAIN log'[r] : log'[r][i] = sw[r]
          BY ONLY <4>2, <5>1, OneMoreLine
        <5> QED BY ONLY <3>1, <4>2, <5>2
      <4> QED BY <2>1, <3>1, <3>3, <4>2, <4>3 DEF LogAgrees
    <3> QED BY <3>2, <3>3
  <2> QED
    BY <2>1, <2>3 DEF AnswerPhase, FirstAnswer, PanicAnswered, RecoveryAnswered, Given, Pending
<1>8. CASE HRecovery(r)
  <2>1. /\ UNCHANGED <<panicked, log>> /\ hpc[r] = "unwind"
        /\ ThroughLogging(hdepth[r], TRUE)' => ThroughLogging(hdepth[r], TRUE)
    BY <1>6, <1>8 DEF HRecovery
  <2>2. CASE hpanic[r]
    <3>1. ~hpanic'[r] /\ hpc'[r] = "header" /\ hcall'[r].by = "recovery" /\ hcall'[r].status = InternalError
      BY <1>8, <2>2 DEF HRecovery, RecoveryAnswer
    <3>2. panicked[r] /\ Given(r)' = Given(r) /\ Pending(r)' = Pending(r)
      BY <2>1, <2>2, <3>1 DEF AnswerPhase, Given, Pending
    <3>3. LogAgrees(r)'
      BY <2>1, <2>2, <3>1, <3>2 DEF LogAgrees, SentStatus
    <3> QED
      BY <2>1, <3>1, <3>2, <3>3 DEF AnswerPhase, FirstAnswer, PanicAnswered
  <2>3. CASE ~hpanic[r]
    <3>1. UNCHANGED <<hpc, hcall, hpanic>>
      BY <1>8, <2>3 DEF HRecovery
    <3> QED
      BY <2>1, <3>1 DEF AnswerPhase, FirstAnswer, LogAgrees, PanicAnswered, RecoveryAnswered, Given,
         Pending, SentStatus
  <2> QED BY <2>2, <2>3
<1> QED BY <1>3, <1>4, <1>5, <1>7, <1>8

(* Timeout answers only when it gave up; else the server goroutine goes    *)
(* back after the handler goroutine has ended.                             *)
LEMMA ServerAnswer ==
  ASSUME TypeOK, PhaseInv, PanicPhase, NEW r \in Requests, AnswerOK(r),
         Server(r) \/ Environment(r)
  PROVE  AnswerOK(r)'
<1> USE DEF TypeOK, serverVars, handlerVars, writerVars, service
<1>1. /\ UNCHANGED <<chain, calls, panicked, hpanic, hcall>> /\ calls[r] \in Nat
      /\ Enter(r) \/ UNCHANGED <<hpc, hdepth>>
  <2>1. calls[r] \in Nat
    BY ChainsAssumption
  <2>2. CASE Enter(r)
    BY <2>1, <2>2 DEF Enter
  <2>3. CASE SelectDone(r) \/ SelectDeadline(r) \/ SelectCanceled(r)
    BY <2>1, <2>3 DEF SelectDone, SelectDeadline, SelectCanceled
  <2>4. CASE SHeader(r) \/ SStatus(r) \/ SBody(r)
    BY <2>1, <2>4 DEF SHeader, SStatus, SBody
  <2>5. CASE SOuter(r) \/ SFinish(r)
    BY <2>1, <2>5 DEF SOuter, SFinish
  <2>6. CASE Environment(r)
    BY <2>1, <2>6 DEF Environment, Deadline, Disconnect
  <2> QED BY <2>2, <2>3, <2>4, <2>5, <2>6 DEF Server
<1> USE <1>1 DEF AnswerOK, Answering, Back, Finished, Cut
<1>2. CASE Enter(r)
  <2>1. /\ spc[r] = "idle" /\ hpc[r] = "idle" /\ spc'[r] = "select" /\ hpc'[r] = "run"
        /\ UNCHANGED <<exit, wire, sw, log>>
    BY <1>2 DEF Enter, PanicPhase
  <2>2. wire[r].status = 0 /\ sw[r] = StatusOK /\ ~panicked[r] /\ ~hpanic[r]
    BY <2>1 DEF AnswerPhase
  <2>3. LogAgrees(r)'
    BY <2>1, <2>2 DEF LogAgrees, Given, SentStatus
  <2> QED BY <2>1, <2>2, <2>3 DEF AnswerPhase, FirstAnswer, PanicAnswered
<1>3. CASE SelectDone(r)
  <2>1. /\ spc[r] = "select" /\ spc'[r] = "unwind" /\ exit'[r] = "done" /\ exit[r] = "none"
        /\ UNCHANGED <<hpc, hdepth, wire, sw, log>>
    BY <1>3 DEF SelectDone, PhaseInv, ServerPhase
  <2> QED
    BY <2>1 DEF AnswerPhase, FirstAnswer, LogAgrees, PanicAnswered, RecoveryAnswered, Given, Pending,
       SentStatus, ThroughLogging, Frames
<1>4. CASE SelectDeadline(r) \/ SelectCanceled(r) \/ SHeader(r) \/ SStatus(r) \/ SBody(r)
  <2>1. /\ exit'[r] \in {"deadline", "canceled"} /\ spc'[r] \notin {"idle", "finished"}
        /\ UNCHANGED <<hpc, hdepth>>
    BY <1>4 DEF SelectDeadline, SelectCanceled, SHeader, SStatus, SBody, PhaseInv, ServerPhase
  <2> QED BY <2>1 DEF AnswerPhase, FirstAnswer, LogAgrees, PanicAnswered
<1>5. CASE SOuter(r) \/ SFinish(r)
  <2>1. /\ UNCHANGED <<exit, hpc, hdepth, sw>> /\ spc[r] = "unwind" /\ spc'[r] \in {"unwind", "finished"}
        /\ ~Cut(r) => hpc[r] = "ended" /\ ~hpanic[r]
    BY <1>5 DEF SOuter, SFinish, PhaseInv, ServerPhase, PanicPhase
  <2>2. CASE SOuter(r)
    <3>1. /\ wire' = wire /\ spc' = spc
          /\ log[r] \in Seq(Statuses) /\ sw[r] \in Statuses
          /\ \/ log'[r] = log[r]
             \/ log'[r] = Append(log[r], sw[r]) /\ "logging" \in Frames(chain.outer)
      BY <2>2, ChainShape DEF SOuter, Frames
    <3>2. SentStatus(r)' = SentStatus(r) /\ Given(r)' = Given(r)
          /\ ThroughLogging(hdepth[r], TRUE)' = ThroughLogging(hdepth[r], TRUE)
      BY <2>1, <3>1 DEF SentStatus, Given, ThroughLogging, Frames
    <3>3. LogAgrees(r)'
      <4>1. SUFFICES ASSUME ~Cut(r), Given(r) <= 1 PROVE LogAgrees(r)'
        BY <2>1, <3>2 DEF LogAgrees
      <4>2. CASE log'[r] = log[r]
        BY <2>1, <3>2, <4>2 DEF LogAgrees
      <4>3. CASE log'[r] # log[r]
        <5>1. sw[r] = SentStatus(r) /\ \A i \in DOMAIN log[r] : log[r][i] = sw[r]
          BY <3>1, <4>1, <4>3 DEF LogAgrees, ThroughLogging
        <5>2. log'[r] = Append(log[r], sw[r]) /\ log[r] \in Seq(Statuses) /\ sw[r] \in Statuses
          BY <3>1, <4>3
        <5>3. \A i \in DOMAIN log'[r] : log'[r][i] = sw[r]
          BY ONLY <5>1, <5>2, OneMoreLine
        <5>4. \A i \in DOMAIN log'[r] : log'[r][i] = SentStatus(r)'
          BY ONLY <3>2, <5>1, <5>3
        <5> QED BY <2>1, <3>2, <4>1, <5>1, <5>4 DEF LogAgrees
      <4> QED BY <4>2, <4>3
    <3> QED
      BY <2>1, <3>1, <3>2, <3>3 DEF AnswerPhase, FirstAnswer, PanicAnswered, RecoveryAnswered, Pending
  <2>3. CASE SFinish(r)
    <3>1. /\ log' = log /\ spc'[r] = "finished" /\ wire'[r].body = wire[r].body
          /\ wire'[r].status = SentStatus(r)
      BY <2>1, <2>3 DEF SFinish, SendStatus, SentStatus, WireType
    <3>2. SentStatus(r) # 0 /\ SentStatus(r)' = SentStatus(r)
      BY <3>1 DEF SentStatus, StatusOK
    <3>3. LogAgrees(r)'
      BY <2>1, <3>1, <3>2 DEF LogAgrees, Given, ThroughLogging, Frames
    <3>4. RecoveryAnswered(r) => RecoveryAnswered(r)'
      BY <3>1 DEF RecoveryAnswered, SentStatus, NoContent
    <3>5. PanicAnswered(r)'
      BY <2>1, <3>4 DEF PanicAnswered
    <3> QED BY <2>1, <3>1, <3>2, <3>3, <3>5 DEF AnswerPhase, FirstAnswer
  <2> QED BY <1>5, <2>2, <2>3
<1>6. CASE Environment(r)
  <2>1. UNCHANGED <<spc, exit, hpc, hdepth, wire, sw, log>>
    BY <1>6 DEF Environment, Deadline, Disconnect
  <2> QED
    BY <2>1, OwnCarries DEF Own
<1> QED BY <1>2, <1>3, <1>4, <1>5, <1>6 DEF Server

LEMMA StepAnswer == TypeOK /\ PhaseInv /\ PanicInv /\ AnswerInv /\ [Next]_vars => AnswerInv'
<1> SUFFICES ASSUME TypeOK, PhaseInv, PanicInv, AnswerInv, [Next]_vars, NEW q \in Requests
             PROVE  AnswerOK(q)'
  BY DEF AnswerInv
<1>1. AnswerOK(q) /\ PanicPhase
  BY DEF AnswerInv, PanicInv
<1>2. ASSUME NEW r \in Requests, Handler(r) \/ Server(r) \/ Environment(r) PROVE AnswerOK(q)'
  <2>1. CASE q # r
    BY <1>1, <1>2, <2>1, OthersKept, OwnCarries
  <2>2. CASE q = r
    BY <1>1, <1>2, <2>2, BeginsAnswer, GoesOnAnswering, GoesBack, ServerAnswer
    DEF Handler, HandlerLibrary
  <2> QED BY <2>1, <2>2
<1>3. CASE UNCHANGED vars
  BY <1>1, <1>3, OwnCarries DEF vars, service, serverVars, handlerVars, writerVars, Own
<1> QED BY <1>2, <1>3 DEF Next, Step, Quiet

LEMMA AlwaysAnswer == Spec => [](TypeOK /\ PhaseInv /\ PanicInv /\ AnswerInv)
  BY InitType, InitPhase, InitPanic, InitAnswer, StepType, StepPhase, StepPanic, StepAnswer, PTL DEF Spec

(* The log of a request that was answered once names the status its client *)
(* got, wherever Logging stands among the middlewares.                     *)
THEOREM LogIsTrue == Spec => []LoggedStatusIsSent
<1>1. AnswerInv => LoggedStatusIsSent
  <2> SUFFICES ASSUME AnswerInv, NEW r \in Requests, Finished(r), exit[r] = "done", Given(r) <= 1
               PROVE  \A i \in DOMAIN log[r] : log[r][i] = wire[r].status
    BY DEF LoggedStatusIsSent, Given
  <2>1. SentStatus(r) = wire[r].status /\ ~Cut(r)
    BY DEF AnswerInv, AnswerOK, AnswerPhase, SentStatus, Cut
  <2> QED BY <2>1 DEF AnswerInv, AnswerOK, LogAgrees
<1> QED BY <1>1, AlwaysAnswer, PTL

(* A panic the process survives is answered by Recovery.                   *)
THEOREM PanicsAnswered == Spec => []RecoveredPanicAnswered
<1>1. TypeOK /\ PhaseInv /\ PanicInv /\ AnswerInv => RecoveredPanicAnswered
  <2> SUFFICES ASSUME TypeOK, PhaseInv, PanicInv, AnswerInv,
                      NEW r \in Requests, Finished(r), exit[r] = "done", panicked[r]
               PROVE  RecoveryAnswered(r)
    BY DEF RecoveredPanicAnswered, RecoveryAnswered
  <2>1. hpc[r] = "ended" /\ ~hpanic[r] /\ ~Cut(r)
    BY DEF PhaseInv, ServerPhase, PanicInv, PanicPhase, Cut
  <2> QED BY <2>1 DEF AnswerInv, AnswerOK, PanicAnswered, Back
<1> QED BY <1>1, AlwaysAnswer, PTL
=============================================================================
