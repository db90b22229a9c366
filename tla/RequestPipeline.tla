--------------------------- MODULE RequestPipeline ---------------------------
(***************************************************************************)
(* The HTTP middleware chain of package middleware around one service      *)
(* handler: Logging, Recovery and Timeout, the response helpers they and   *)
(* the handler answer with, and the part of net/http they rely on.         *)
(*                                                                         *)
(* A request is served by two goroutines.  The server goroutine runs the   *)
(* middlewares outside Timeout, then Timeout itself, which waits in a      *)
(* select; the handler goroutine, spawned by Timeout, runs the middlewares *)
(* inside Timeout and the handler.  Both hold the same ResponseWriter.     *)
(* The service chooses where each middleware stands, so the chain is a     *)
(* variable that never changes.                                            *)
(***************************************************************************)
EXTENDS Naturals, Sequences

CONSTANTS
  Requests,      \* the requests in flight
  Chains,        \* the middleware orders considered: [outer, inner] records
  MaxCalls       \* bound: answers one handler gives before it stops answering

VARIABLES
  proc,          \* the service process: "up" or "crashed"
  chain,         \* the order this service uses
  cooperative,   \* the requests whose handler returns once its context is done
  spc, sdepth,   \* server goroutine: control point, outer frames still open
  hpc, hdepth,   \* handler goroutine: control point, inner frames still open
  hcall,         \* the answer the handler goroutine is giving
  hpanic,        \* is the handler goroutine unwinding a panic?
  ctxErr,        \* ctx.Err() of the context Timeout derives
  wire,          \* what net/http sent: status line (0: none yet) and body
  sw,            \* statusWriter.status of Logging
  log,           \* the statuses of Logging's "request completed" lines
  calls,         \* answers the handler gave itself
  panicked,      \* did the handler panic?
  exit,          \* why Timeout's select ended
  late           \* was the writer used after net/http finished the response?

service     == <<chain, cooperative>>
serverVars  == <<spc, sdepth, exit>>
handlerVars == <<hpc, hdepth, hcall, hpanic, calls, panicked>>
writerVars  == <<wire, sw, log, late>>
vars == <<proc, service, serverVars, handlerVars, writerVars, ctxErr>>

Middlewares == {"logging", "recovery"}
Frames(s) == {s[i] : i \in DOMAIN s}

(* Logging keeps one statusWriter per request: it stands in a chain once.  *)
ASSUME ChainsAssumption ==
  /\ \A ch \in Chains :
       /\ ch.outer \in Seq(Middlewares)
       /\ ch.inner \in Seq(Middlewares)
       /\ ~("logging" \in Frames(ch.outer) /\ "logging" \in Frames(ch.inner))
  /\ MaxCalls \in Nat

StatusOK == 200
NoContent == 204
HandlerError == 400      \* any other status a handler gives an AppError
InternalError == 500
GatewayTimeout == 504
Statuses == {StatusOK, NoContent, HandlerError, InternalError, GatewayTimeout}

Callers == {"handler", "recovery", "timeout"}
Calls == [by : {"handler", "recovery"}, status : Statuses]

SControl == {"idle", "select", "header", "status", "body", "unwind", "finished"}
HControl == {"idle", "run", "header", "status", "body", "unwind", "ended"}

TypeOK ==
  /\ proc \in {"up", "crashed"}
  /\ chain \in Chains
  /\ cooperative \subseteq Requests
  /\ spc \in [Requests -> SControl]
  /\ sdepth \in [Requests -> Nat]
  /\ \A r \in Requests : sdepth[r] <= Len(chain.outer)
  /\ hpc \in [Requests -> HControl]
  /\ hdepth \in [Requests -> Nat]
  /\ \A r \in Requests : hdepth[r] <= Len(chain.inner)
  /\ hcall \in [Requests -> Calls]
  /\ hpanic \in [Requests -> BOOLEAN]
  /\ ctxErr \in [Requests -> {"none", "deadline", "canceled"}]
  /\ wire \in [Requests -> [status : {0} \cup Statuses, body : Seq(Callers)]]
  /\ sw \in [Requests -> Statuses]
  /\ log \in [Requests -> Seq(Statuses)]
  /\ calls \in [Requests -> 0..MaxCalls]
  /\ panicked \in [Requests -> BOOLEAN]
  /\ exit \in [Requests -> {"none", "done", "deadline", "canceled"}]
  /\ late \in [Requests -> BOOLEAN]

NoCall == [by |-> "handler", status |-> StatusOK]

Init ==
  /\ proc = "up"
  /\ chain \in Chains
  /\ cooperative \in SUBSET Requests
  /\ spc = [r \in Requests |-> "idle"]
  /\ sdepth = [r \in Requests |-> 0]
  /\ hpc = [r \in Requests |-> "idle"]
  /\ hdepth = [r \in Requests |-> 0]
  /\ hcall = [r \in Requests |-> NoCall]
  /\ hpanic = [r \in Requests |-> FALSE]
  /\ ctxErr = [r \in Requests |-> "none"]
  /\ wire = [r \in Requests |-> [status |-> 0, body |-> <<>>]]
  /\ sw = [r \in Requests |-> StatusOK]
  /\ log = [r \in Requests |-> <<>>]
  /\ calls = [r \in Requests |-> 0]
  /\ panicked = [r \in Requests |-> FALSE]
  /\ exit = [r \in Requests |-> "none"]
  /\ late = [r \in Requests |-> FALSE]

-----------------------------------------------------------------------------
(* The ResponseWriter of net/http, wrapped by Logging's statusWriter.      *)

Finished(r) == spc[r] = "finished"

(* net/http: the first WriteHeader fixes the status line, a later one is   *)
(* superfluous; once the response is finished nothing reaches the client.  *)
SendStatus(r, status) ==
  wire' = [wire EXCEPT ![r].status = IF @ = 0 /\ ~Finished(r) THEN status ELSE @]

(* net/http: a body without a status line implies 200; 204 allows no body. *)
SendBody(r, by) ==
  LET status == IF wire[r].status = 0 THEN StatusOK ELSE wire[r].status
  IN  IF Finished(r) \/ status = NoContent
        THEN wire' = wire
        ELSE wire' = [wire EXCEPT ![r] = [status |-> status,
                                          body |-> Append(@.body, by)]]

(* A caller's writes pass the statusWriter when Logging stands outside it. *)
ThroughLogging(depth, inner) ==
  \/ "logging" \in Frames(chain.outer)
  \/ inner /\ \E i \in 1..depth : chain.inner[i] = "logging"

(* Fault variant: statusWriter embeds the writer without overriding WriteHeader. *)
RecordStatusNever(r, status, depth, inner) == sw' = sw

RecordStatus(r, status, depth, inner) ==
  sw' = IF ThroughLogging(depth, inner) THEN [sw EXCEPT ![r] = status] ELSE sw

(* A writer touched after ServeHTTP returned belongs to nobody.            *)
Touch(r) == late' = [late EXCEPT ![r] = @ \/ Finished(r)]

(* The header map is not synchronised: an access while the other goroutine *)
(* is inside Header().Set may end the process ("concurrent map writes"),   *)
(* which no recover() can stop.                                            *)
HeaderAccess(otherpc) ==
  proc' \in IF otherpc = "header" THEN {"up", "crashed"} ELSE {"up"}

-----------------------------------------------------------------------------
(* The handler goroutine.                                                  *)

(* The server goroutine enters the outer middlewares and Timeout, which    *)
(* arms the timer, spawns the handler goroutine and waits.                 *)
Enter(r) ==
  /\ spc[r] = "idle"
  /\ spc' = [spc EXCEPT ![r] = "select"]
  /\ sdepth' = [sdepth EXCEPT ![r] = Len(chain.outer)]
  /\ hpc' = [hpc EXCEPT ![r] = "run"]
  /\ hdepth' = [hdepth EXCEPT ![r] = Len(chain.inner)]
  /\ UNCHANGED <<proc, service, exit, hcall, hpanic, calls, panicked,
                 writerVars, ctxErr>>

(* response.JSON and response.Error begin with Header().Set.               *)
AnswerEnvelope(r, status) ==
  /\ hpc[r] = "run" /\ calls[r] < MaxCalls
  /\ HeaderAccess(spc[r])
  /\ hpc' = [hpc EXCEPT ![r] = "header"]
  /\ hcall' = [hcall EXCEPT ![r] = [by |-> "handler", status |-> status]]
  /\ calls' = [calls EXCEPT ![r] = @ + 1]
  /\ Touch(r)
  /\ UNCHANGED <<service, serverVars, hdepth, hpanic, panicked, wire, sw, log, ctxErr>>

(* response.NoContent is a WriteHeader alone.                              *)
AnswerNoContent(r) ==
  /\ hpc[r] = "run" /\ calls[r] < MaxCalls
  /\ hpc' = [hpc EXCEPT ![r] = "status"]
  /\ hcall' = [hcall EXCEPT ![r] = [by |-> "handler", status |-> NoContent]]
  /\ calls' = [calls EXCEPT ![r] = @ + 1]
  /\ UNCHANGED <<proc, service, serverVars, hdepth, hpanic, panicked, writerVars, ctxErr>>

(* A handler may also write raw bytes through statusWriter.Write.          *)
AnswerRaw(r) ==
  /\ hpc[r] = "run" /\ calls[r] < MaxCalls
  /\ calls' = [calls EXCEPT ![r] = @ + 1]
  /\ HeaderAccess(IF wire[r].status = 0 THEN spc[r] ELSE "none")
  /\ SendBody(r, "handler")
  /\ Touch(r)
  /\ UNCHANGED <<service, serverVars, hpc, hdepth, hcall, hpanic, panicked,
                 sw, log, ctxErr>>

HHeader(r) ==
  /\ hpc[r] = "header"
  /\ hpc' = [hpc EXCEPT ![r] = "status"]
  /\ UNCHANGED <<proc, service, serverVars, hdepth, hcall, hpanic, calls, panicked,
                 writerVars, ctxErr>>

(* After its answer Recovery's deferred function ends, the handler goes on. *)
AfterCall(r) == IF hcall[r].by = "recovery" THEN "unwind" ELSE "run"

HStatus(r) ==
  /\ hpc[r] = "status"
  /\ HeaderAccess(IF wire[r].status = 0 THEN spc[r] ELSE "none")
  /\ SendStatus(r, hcall[r].status)
  /\ RecordStatus(r, hcall[r].status, hdepth[r], TRUE)
  /\ Touch(r)
  /\ hpc' = [hpc EXCEPT ![r] = IF hcall[r].status = NoContent THEN AfterCall(r) ELSE "body"]
  /\ UNCHANGED <<service, serverVars, hdepth, hcall, hpanic, calls, panicked, log, ctxErr>>

(* json.Encoder writes the whole envelope, or nothing when marshalling the *)
(* handler's data fails; the helpers drop that error.                      *)
HBody(r) ==
  /\ hpc[r] = "body"
  /\ \/ SendBody(r, hcall[r].by)
     \/ hcall[r].by = "handler" /\ hcall[r].status = StatusOK /\ wire' = wire
  /\ Touch(r)
  /\ hpc' = [hpc EXCEPT ![r] = AfterCall(r)]
  /\ UNCHANGED <<proc, service, serverVars, hdepth, hcall, hpanic, calls, panicked,
                 sw, log, ctxErr>>

HReturn(r) ==
  /\ hpc[r] = "run"
  /\ hpc' = [hpc EXCEPT ![r] = "unwind"]
  /\ UNCHANGED <<proc, service, serverVars, hdepth, hcall, hpanic, calls, panicked,
                 writerVars, ctxErr>>

(* Fault variant: the handler is handed a context detached from Timeout's. *)
HObserveDetached(r) == FALSE /\ HReturn(r)

(* The handler sees the derived context end, r.WithContext(ctx).           *)
HObserveCancel(r) == ctxErr[r] # "none" /\ HReturn(r)

(* The handler panics between answers, or its data does while encoded.     *)
HPanic(r) ==
  /\ \/ hpc[r] = "run"
     \/ hpc[r] = "body" /\ hcall[r].by = "handler"
  /\ hpc' = [hpc EXCEPT ![r] = "unwind"]
  /\ hpanic' = [hpanic EXCEPT ![r] = TRUE]
  /\ panicked' = [panicked EXCEPT ![r] = TRUE]
  /\ UNCHANGED <<proc, service, serverVars, hdepth, hcall, calls, writerVars, ctxErr>>

InnerFrame(r, name) ==
  /\ hpc[r] = "unwind" /\ hdepth[r] > 0
  /\ chain.inner[hdepth[r]] = name
  /\ hdepth' = [hdepth EXCEPT ![r] = @ - 1]

(* Logging writes its line after next.ServeHTTP; a panic skips it.         *)
HLogging(r) ==
  /\ InnerFrame(r, "logging")
  /\ log' = IF hpanic[r] THEN log ELSE [log EXCEPT ![r] = Append(@, sw[r])]
  /\ UNCHANGED <<proc, service, serverVars, hpc, hcall, hpanic, calls, panicked,
                 wire, sw, late, ctxErr>>

(* response.Error(w, nil): no AppError, so the internal error stands in.   *)
RecoveryAnswer == [by |-> "recovery", status |-> InternalError]

(* Fault variants of Recovery: recover() is not called by the deferred     *)
(* function itself and returns nil; the panic is stopped but not answered. *)
HRecoveryMisses(r) ==
  /\ InnerFrame(r, "recovery")
  /\ UNCHANGED <<proc, hpanic, hcall, hpc, late, service, serverVars, calls,
                 panicked, wire, sw, log, ctxErr>>
HRecoverySilent(r) ==
  /\ InnerFrame(r, "recovery")
  /\ hpanic' = [hpanic EXCEPT ![r] = FALSE]
  /\ UNCHANGED <<proc, hcall, hpc, late, service, serverVars, calls, panicked,
                 wire, sw, log, ctxErr>>

(* Recovery's deferred recover() stops the panic and answers 500.          *)
HRecovery(r) ==
  /\ InnerFrame(r, "recovery")
  /\ IF hpanic[r]
       THEN /\ HeaderAccess(spc[r])
            /\ hpanic' = [hpanic EXCEPT ![r] = FALSE]
            /\ hcall' = [hcall EXCEPT ![r] = RecoveryAnswer]
            /\ hpc' = [hpc EXCEPT ![r] = "header"]
            /\ Touch(r)
       ELSE UNCHANGED <<proc, hpanic, hcall, hpc, late>>
  /\ UNCHANGED <<service, serverVars, calls, panicked, wire, sw, log, ctxErr>>

(* The bottom of the goroutine: close(done), or a panic nobody recovered,  *)
(* which ends the whole process.                                           *)
HEnd(r) ==
  /\ hpc[r] = "unwind" /\ hdepth[r] = 0
  /\ IF hpanic[r]
       THEN proc' = "crashed" /\ UNCHANGED hpc
       ELSE hpc' = [hpc EXCEPT ![r] = "ended"] /\ UNCHANGED proc
  /\ UNCHANGED <<service, serverVars, hdepth, hcall, hpanic, calls, panicked,
                 writerVars, ctxErr>>

-----------------------------------------------------------------------------
(* The server goroutine: Timeout's select and the way back out.            *)

EndContext(r, err) == ctxErr' = [ctxErr EXCEPT ![r] = IF @ = "none" THEN err ELSE @]

(* Fault variant: done is closed before next.ServeHTTP is called.          *)
SelectDoneEarly(r) ==
  /\ spc[r] = "select"
  /\ spc' = [spc EXCEPT ![r] = "unwind"]
  /\ exit' = [exit EXCEPT ![r] = "done"]
  /\ EndContext(r, "canceled")
  /\ UNCHANGED <<proc, service, sdepth, handlerVars, writerVars>>

(* case <-done: return; the deferred cancel() releases the timer.          *)
SelectDone(r) ==
  /\ spc[r] = "select" /\ hpc[r] = "ended"
  /\ spc' = [spc EXCEPT ![r] = "unwind"]
  /\ exit' = [exit EXCEPT ![r] = "done"]
  /\ EndContext(r, "canceled")
  /\ UNCHANGED <<proc, service, sdepth, handlerVars, writerVars>>

(* Fault variants: the select ignores ctx.Done(), or answers any end of it. *)
SelectDeadlineIgnored(r) == FALSE /\ UNCHANGED vars
SelectCanceledAnswers(r) ==
  /\ spc[r] = "select" /\ ctxErr[r] = "canceled"
  /\ HeaderAccess(hpc[r])
  /\ spc' = [spc EXCEPT ![r] = "header"]
  /\ exit' = [exit EXCEPT ![r] = "canceled"]
  /\ UNCHANGED <<service, sdepth, handlerVars, writerVars, ctxErr>>

(* case <-ctx.Done() after the deadline: answer 504.                       *)
SelectDeadline(r) ==
  /\ spc[r] = "select" /\ ctxErr[r] = "deadline"
  /\ HeaderAccess(hpc[r])
  /\ spc' = [spc EXCEPT ![r] = "header"]
  /\ exit' = [exit EXCEPT ![r] = "deadline"]
  /\ UNCHANGED <<service, sdepth, handlerVars, writerVars, ctxErr>>

(* case <-ctx.Done() after the client went away: return without a word.    *)
SelectCanceled(r) ==
  /\ spc[r] = "select" /\ ctxErr[r] = "canceled"
  /\ spc' = [spc EXCEPT ![r] = "unwind"]
  /\ exit' = [exit EXCEPT ![r] = "canceled"]
  /\ UNCHANGED <<proc, service, sdepth, handlerVars, writerVars, ctxErr>>

SHeader(r) ==
  /\ spc[r] = "header"
  /\ spc' = [spc EXCEPT ![r] = "status"]
  /\ UNCHANGED <<proc, service, sdepth, exit, handlerVars, writerVars, ctxErr>>

SStatus(r) ==
  /\ spc[r] = "status"
  /\ HeaderAccess(IF wire[r].status = 0 THEN hpc[r] ELSE "none")
  /\ SendStatus(r, GatewayTimeout)
  /\ RecordStatus(r, GatewayTimeout, 0, FALSE)
  /\ spc' = [spc EXCEPT ![r] = "body"]
  /\ UNCHANGED <<service, sdepth, exit, handlerVars, log, late, ctxErr>>

SBody(r) ==
  /\ spc[r] = "body"
  /\ SendBody(r, "timeout")
  /\ spc' = [spc EXCEPT ![r] = "unwind"]
  /\ UNCHANGED <<proc, service, sdepth, exit, handlerVars, sw, log, late, ctxErr>>

(* Back through the outer middlewares; Recovery has nothing to recover, as *)
(* no handler code runs on this goroutine.                                 *)
SOuter(r) ==
  /\ spc[r] = "unwind" /\ sdepth[r] > 0
  /\ sdepth' = [sdepth EXCEPT ![r] = @ - 1]
  /\ log' = IF chain.outer[sdepth[r]] = "logging"
              THEN [log EXCEPT ![r] = Append(@, sw[r])] ELSE log
  /\ UNCHANGED <<proc, service, spc, exit, handlerVars, wire, sw, late, ctxErr>>

(* ServeHTTP returned: net/http completes the response.  Without a status  *)
(* line it sends a 200, and copies the header map for it.                  *)
SFinish(r) ==
  /\ spc[r] = "unwind" /\ sdepth[r] = 0
  /\ HeaderAccess(IF wire[r].status = 0 THEN hpc[r] ELSE "none")
  /\ spc' = [spc EXCEPT ![r] = "finished"]
  /\ SendStatus(r, StatusOK)
  /\ UNCHANGED <<service, sdepth, exit, handlerVars, sw, log, late, ctxErr>>

(* The timer of context.WithTimeout fires.                                 *)
Deadline(r) ==
  /\ spc[r] = "select" /\ ctxErr[r] = "none"
  /\ EndContext(r, "deadline")
  /\ UNCHANGED <<proc, service, serverVars, handlerVars, writerVars>>

(* The client closes its connection: net/http cancels the parent context.  *)
Disconnect(r) ==
  /\ spc[r] = "select" /\ ctxErr[r] = "none"
  /\ EndContext(r, "canceled")
  /\ UNCHANGED <<proc, service, serverVars, handlerVars, writerVars>>

-----------------------------------------------------------------------------
HandlerLibrary(r) ==
  HHeader(r) \/ HStatus(r) \/ HBody(r) \/ HLogging(r) \/ HRecovery(r) \/ HEnd(r)

Handler(r) ==
  \/ \E status \in {StatusOK, HandlerError} : AnswerEnvelope(r, status)
  \/ AnswerNoContent(r) \/ AnswerRaw(r)
  \/ HReturn(r) \/ HPanic(r)
  \/ HandlerLibrary(r)

Server(r) ==
  \/ Enter(r)
  \/ SelectDone(r) \/ SelectDeadline(r) \/ SelectCanceled(r)
  \/ SHeader(r) \/ SStatus(r) \/ SBody(r) \/ SOuter(r) \/ SFinish(r)

Environment(r) == Deadline(r) \/ Disconnect(r)

Step(r) == proc = "up" /\ (Handler(r) \/ Server(r) \/ Environment(r))

(* Nothing is left to do: every request is over, or the process is gone.   *)
Quiet ==
  /\ proc = "crashed" \/ \A r \in Requests : Finished(r) /\ hpc[r] = "ended"
  /\ UNCHANGED vars

Next == (\E r \in Requests : Step(r)) \/ Quiet

(* The Go scheduler runs every runnable goroutine and the runtime fires    *)
(* every timer.  What a handler does is its own affair; only a cooperative *)
(* one is known to return when its context ends.                           *)
Fairness ==
  \A r \in Requests :
    /\ WF_vars(proc = "up" /\ Server(r))
    /\ WF_vars(proc = "up" /\ Deadline(r))
    /\ WF_vars(proc = "up" /\ HandlerLibrary(r))
    /\ WF_vars(proc = "up" /\ r \in cooperative /\ HObserveCancel(r))

Spec == Init /\ [][Next]_vars /\ Fairness

-----------------------------------------------------------------------------
(* Properties.                                                             *)

Crashed == proc = "crashed"
Cut(r) == exit[r] \in {"deadline", "canceled"}
RecoveryInside == "recovery" \in Frames(chain.inner)
RecoveryInstalled == RecoveryInside \/ "recovery" \in Frames(chain.outer)

(* The process goes down for two reasons only: a handler panics and no     *)
(* Recovery stands between it and its goroutine's bottom (Timeout's "go    *)
(* func"), or Timeout gave up on a handler that still sets headers on the  *)
(* writer, while the 504 or the end of the response reads them.            *)
CrashNeedsCause ==
  Crashed => \E r \in Requests : (hpanic[r] /\ ~RecoveryInside) \/ Cut(r)

(* Timeout's 504 and its envelope reach a client only when the deadline    *)
(* passed: not when the client went away, and not when the handler ended,  *)
(* whatever the select saw first.                                          *)
TimeoutAnswerNeedsDeadline ==
  \A r \in Requests :
    (wire[r].status = GatewayTimeout \/ "timeout" \in Frames(wire[r].body))
      => exit[r] = "deadline" /\ ctxErr[r] = "deadline"

(* Unless Timeout gave up on the handler, nobody touches the writer after  *)
(* net/http finished the response: the goroutine is joined through done.   *)
LateOnlyIfCut == \A r \in Requests : late[r] => Cut(r)

(* A request answered once, by its handler or by Recovery, and not cut, is *)
(* logged with the status its client got, wherever Logging stands.         *)
LoggedStatusIsSent ==
  \A r \in Requests :
    Finished(r) /\ exit[r] = "done" /\ calls[r] + (IF panicked[r] THEN 1 ELSE 0) <= 1
      => \A i \in DOMAIN log[r] : log[r][i] = wire[r].status

(* A panic that does not end the process is answered: the envelope of      *)
(* Recovery is the last thing the client gets, and the status is its 500   *)
(* when the handler had not answered yet.  Only after a 204, which has no  *)
(* body, nothing more is sent.                                             *)
RecoveredPanicAnswered ==
  \A r \in Requests :
    Finished(r) /\ exit[r] = "done" /\ panicked[r] =>
      LET w == wire[r]
      IN  \/ w.status = NoContent
          \/ /\ w.body # <<>> /\ w.body[Len(w.body)] = "recovery"
             /\ calls[r] = 0 => w.status = InternalError

(* Timeout bounds the wait: a client gets its response even when the       *)
(* handler never returns.                                                  *)
AnsweredDespiteStuckHandler ==
  \A r \in Requests : spc[r] = "select" ~> Finished(r) \/ Crashed

(* Giving up on a handler that watches its context does not leave its      *)
(* goroutine behind: the context Timeout hands down ends for both reasons. *)
AbandonedHandlerStops ==
  \A r \in Requests : r \in cooperative /\ Cut(r) ~> hpc[r] = "ended" \/ Crashed

(* recovery.go: Recovery "recovers from panics ... and returns a 500 JSON  *)
(* response".  No handler panic ends a process that has it installed.      *)
RecoveryRecovers ==
  RecoveryInstalled => ~(Crashed /\ \E r \in Requests : hpanic[r] /\ hdepth[r] = 0)
=============================================================================
