----------------------------- MODULE MongoClient -----------------------------
(***************************************************************************)
(* mongo.Client: a connection holder shared by the goroutines of a         *)
(* service.  The first call that needs a connection dials and pings the    *)
(* cluster inside sync.Once; the verdict of that one attempt is kept in    *)
(* connErr for the life of the Client.  Close reads c.client without       *)
(* passing the Once.                                                       *)
(***************************************************************************)
EXTENDS Naturals

CONSTANTS
  Procs,         \* goroutines that use the client
  MaxCalls,      \* bound: calls one goroutine makes
  MaxOutages     \* bound: times the cluster goes down

ASSUME BoundsAssumption == MaxCalls \in Nat /\ MaxOutages \in Nat

VARIABLES
  once,          \* sync.Once: "ready", "running" or "done"
  connErr,       \* c.connErr: "none", "dial" or "ping"
  client, db,    \* are c.client and c.db assigned?
  pool,          \* the driver's connection pool: "none", "open" or "closed"
  dials,         \* mongo.Connect calls that made a pool
  cluster,       \* "up" or "down"
  outages,       \* times it went down
  pc, op,        \* each goroutine's control point and the call it is in
  ctxEnded,      \* has the context of that call ended?
  synced,        \* has the goroutine returned from once.Do?
  verdict,       \* what Connect last told the goroutine
  result,        \* how its last call ended
  made,          \* calls it has made
  sawUp,         \* history: was the cluster up at a moment of the last health check?
  excuse         \* history: was there, during the last health check, a reason to fail?

holder  == <<once, connErr, client, db, pool, dials>>
network == <<cluster, outages>>
call    == <<op, ctxEnded, made>>
history == <<sawUp, excuse>>
vars == <<holder, network, pc, call, synced, verdict, result, history>>

(* Database stands for Raw and Collection too: Connect, then the handle.   *)
Operations == {"Connect", "Database", "Ping", "HealthCheck", "Close"}
Control == {"idle", "once", "dial", "ping", "disconnect", "setClient", "setDb",
            "onceEnd", "connected", "handle", "clientPing", "list", "close"}
Outcomes == {"none", "ok", "error"}

TypeOK ==
  /\ once \in {"ready", "running", "done"}
  /\ connErr \in {"none", "dial", "ping"}
  /\ client \in BOOLEAN /\ db \in BOOLEAN
  /\ pool \in {"none", "open", "closed"}
  /\ dials \in Nat
  /\ cluster \in {"up", "down"} /\ outages \in 0..MaxOutages
  /\ pc \in [Procs -> Control] /\ op \in [Procs -> Operations]
  /\ ctxEnded \in [Procs -> BOOLEAN] /\ synced \in [Procs -> BOOLEAN]
  /\ verdict \in [Procs -> Outcomes] /\ result \in [Procs -> Outcomes]
  /\ made \in [Procs -> 0..MaxCalls]
  /\ sawUp \in [Procs -> BOOLEAN] /\ excuse \in [Procs -> BOOLEAN]

Init ==
  /\ once = "ready" /\ connErr = "none" /\ pool = "none" /\ dials = 0
  /\ client = FALSE /\ db = FALSE
  /\ cluster \in {"up", "down"} /\ outages = 0
  /\ pc = [p \in Procs |-> "idle"] /\ op = [p \in Procs |-> "Connect"]
  /\ ctxEnded = [p \in Procs |-> FALSE] /\ synced = [p \in Procs |-> FALSE]
  /\ verdict = [p \in Procs |-> "none"] /\ result = [p \in Procs |-> "none"]
  /\ made = [p \in Procs |-> 0]
  /\ sawUp = [p \in Procs |-> FALSE] /\ excuse = [p \in Procs |-> FALSE]

Goto(p, from, to) == pc[p] = from /\ pc' = [pc EXCEPT ![p] = to]

(* The histories follow the health checks under way.                       *)
InHealthChecks(h) == [q \in Procs |-> h[q] \/ (pc[q] # "idle" /\ op[q] = "HealthCheck")]

Return(p, outcome) ==
  /\ pc' = [pc EXCEPT ![p] = "idle"]
  /\ result' = [result EXCEPT ![p] = outcome]

Begin(p) == \E o \in Operations :
  /\ made[p] < MaxCalls
  /\ Goto(p, "idle", IF o = "Close" THEN "close" ELSE "once")
  /\ op' = [op EXCEPT ![p] = o]
  /\ made' = [made EXCEPT ![p] = @ + 1]
  /\ ctxEnded' = [ctxEnded EXCEPT ![p] = FALSE]
  /\ sawUp' = [sawUp EXCEPT ![p] = o = "HealthCheck" /\ cluster = "up"]
  /\ excuse' = [excuse EXCEPT ![p] = o = "HealthCheck" /\
       (cluster = "down" \/ (client /\ pool = "closed") \/ connErr = "dial")]
  /\ UNCHANGED <<holder, network, synced, verdict, result>>

-----------------------------------------------------------------------------
(* Connect: c.once.Do(func() {...}); return c.connErr                      *)

(* Fault variant: a nil check on c.client in place of the Once.            *)
OnceFirstUnguarded(p) ==
  /\ ~client
  /\ Goto(p, "once", "dial")
  /\ once' = "running"
  /\ UNCHANGED <<connErr, client, db, pool, dials, network, call, synced,
                 verdict, result, history>>

OnceFirst(p) ==
  /\ once = "ready"
  /\ Goto(p, "once", "dial")
  /\ once' = "running"
  /\ UNCHANGED <<connErr, client, db, pool, dials, network, call, synced,
                 verdict, result, history>>

(* Fault variant: an atomic "started" flag, which does not make others wait. *)
OnceDoneEarly(p) ==
  /\ once # "ready"
  /\ Goto(p, "once", "connected")
  /\ synced' = [synced EXCEPT ![p] = TRUE]
  /\ UNCHANGED <<holder, network, call, verdict, result, history>>

(* The others block, whatever their own context says, until it has run.    *)
OnceDone(p) ==
  /\ once = "done"
  /\ Goto(p, "once", "connected")
  /\ synced' = [synced EXCEPT ![p] = TRUE]
  /\ UNCHANGED <<holder, network, call, verdict, result, history>>

(* mongo.Connect checks its options and starts a pool; it does no I/O.     *)
Dial(p) ==
  /\ \/ /\ Goto(p, "dial", "ping")
        /\ pool' = "open" /\ dials' = dials + 1
        /\ UNCHANGED <<connErr, excuse>>
     \/ /\ Goto(p, "dial", "onceEnd")
        /\ connErr' = "dial"
        /\ excuse' = InHealthChecks(excuse)
        /\ UNCHANGED <<pool, dials>>
  /\ UNCHANGED <<once, client, db, network, call, synced, verdict, result, sawUp>>

(* The ping of the caller that runs the Once, on a context derived from    *)
(* that caller's and bounded by ServerSelectionTimeout.                    *)
FirstPingOk(p) ==
  /\ cluster = "up"
  /\ Goto(p, "ping", "setClient")
  /\ UNCHANGED <<holder, network, call, synced, verdict, result, history>>

(* Fault variant: the ping runs on ctx itself, with no timeout of its own. *)
FirstPingUnbounded(p) ==
  /\ ctxEnded[p]
  /\ Goto(p, "ping", "disconnect")
  /\ connErr' = "ping"
  /\ UNCHANGED <<once, client, db, pool, dials, network, call, synced, verdict,
                 result, history>>

(* Fault variant: the pool of a failed attempt is not disconnected.        *)
FirstPingLeaks(p) ==
  /\ cluster = "down" \/ ctxEnded[p]
  /\ Goto(p, "ping", "onceEnd")
  /\ connErr' = "ping"
  /\ UNCHANGED <<once, client, db, pool, dials, network, call, synced, verdict,
                 result, history>>

FirstPingFails(p) ==
  /\ cluster = "down" \/ ctxEnded[p]
  /\ Goto(p, "ping", "disconnect")
  /\ connErr' = "ping"
  /\ UNCHANGED <<once, client, db, pool, dials, network, call, synced, verdict,
                 result, history>>

DisconnectFailed(p) ==
  /\ Goto(p, "disconnect", "onceEnd")
  /\ pool' = "closed"
  /\ UNCHANGED <<once, connErr, client, db, dials, network, call, synced, verdict,
                 result, history>>

SetClient(p) ==
  /\ Goto(p, "setClient", "setDb")
  /\ client' = TRUE
  /\ UNCHANGED <<once, connErr, db, pool, dials, network, call, synced, verdict,
                 result, history>>

SetDb(p) ==
  /\ Goto(p, "setDb", "onceEnd")
  /\ db' = TRUE
  /\ UNCHANGED <<once, connErr, client, pool, dials, network, call, synced, verdict,
                 result, history>>

OnceEnd(p) ==
  /\ Goto(p, "onceEnd", "connected")
  /\ once' = "done"
  /\ synced' = [synced EXCEPT ![p] = TRUE]
  /\ UNCHANGED <<connErr, client, db, pool, dials, network, call, verdict, result,
                 history>>

-----------------------------------------------------------------------------
(* What each operation does with the answer of Connect.                    *)

(* Fault variant: HealthCheck trusts Connect and skips the cluster.        *)
NextOfTrusting(o) ==
  IF o \in {"Connect", "HealthCheck"} THEN "idle"
  ELSE IF o = "Database" THEN "handle" ELSE "clientPing"
NextOf(o) ==
  IF o = "Connect" THEN "idle" ELSE IF o = "Database" THEN "handle" ELSE "clientPing"

Connected(p) ==
  /\ pc[p] = "connected"
  /\ LET told == IF connErr = "none" THEN "ok" ELSE "error"
     IN  /\ verdict' = [verdict EXCEPT ![p] = told]
         /\ IF told = "error" \/ NextOf(op[p]) = "idle"
              THEN Return(p, told)
              ELSE Goto(p, "connected", NextOf(op[p])) /\ UNCHANGED result
  /\ UNCHANGED <<holder, network, call, synced, history>>

(* return c.db, nil                                                        *)
Handle(p) ==
  /\ pc[p] = "handle"
  /\ Return(p, "ok")
  /\ UNCHANGED <<holder, network, call, synced, verdict, history>>

Reachable == cluster = "up" /\ pool = "open"

(* c.client.Ping(ctx, primary): the driver gives up by itself after        *)
(* ServerSelectionTimeout and refuses a disconnected client.               *)
ClientPing(p) ==
  /\ pc[p] = "clientPing"
  /\ \/ /\ Reachable
        /\ IF op[p] = "HealthCheck" THEN Goto(p, "clientPing", "list") /\ UNCHANGED result
                                    ELSE Return(p, "ok")
     \/ (~Reachable \/ ctxEnded[p]) /\ Return(p, "error")
  /\ UNCHANGED <<holder, network, call, synced, verdict, history>>

(* HealthCheck's second Connect returns at once: this goroutine passed it. *)
List(p) ==
  /\ pc[p] = "list"
  /\ \/ Reachable /\ Return(p, "ok")
     \/ (~Reachable \/ ctxEnded[p]) /\ Return(p, "error")
  /\ UNCHANGED <<holder, network, call, synced, verdict, history>>

(* Close reads c.client outside the Once: a goroutine that has not passed  *)
(* once.Do has no ordering with the assignment and may miss it.            *)
CloseNil(p) ==
  /\ pc[p] = "close" /\ (~client \/ ~synced[p])
  /\ Return(p, "ok")
  /\ UNCHANGED <<holder, network, call, synced, verdict, history>>

(* The driver refuses to disconnect twice.                                 *)
CloseDisconnects(p) ==
  /\ pc[p] = "close" /\ client
  /\ Return(p, IF pool = "open" THEN "ok" ELSE "error")
  /\ pool' = "closed"
  /\ excuse' = InHealthChecks(excuse)
  /\ UNCHANGED <<once, connErr, client, db, dials, network, call, synced, verdict, sawUp>>

-----------------------------------------------------------------------------
(* The environment.                                                        *)

CtxEnds(p) ==
  /\ pc[p] \notin {"idle", "close"} /\ ~ctxEnded[p]
  /\ ctxEnded' = [ctxEnded EXCEPT ![p] = TRUE]
  /\ excuse' = [excuse EXCEPT ![p] = op[p] = "HealthCheck"]
  /\ UNCHANGED <<holder, network, pc, op, made, synced, verdict, result, sawUp>>

ClusterDown ==
  /\ cluster = "up" /\ outages < MaxOutages
  /\ cluster' = "down" /\ outages' = outages + 1
  /\ excuse' = InHealthChecks(excuse)
  /\ UNCHANGED <<holder, pc, call, synced, verdict, result, sawUp>>

ClusterUp ==
  /\ cluster = "down"
  /\ cluster' = "up"
  /\ sawUp' = InHealthChecks(sawUp)
  /\ UNCHANGED <<holder, outages, pc, call, synced, verdict, result, excuse>>

InCall(p) ==
  \/ OnceFirst(p) \/ OnceDone(p)
  \/ Dial(p) \/ FirstPingOk(p) \/ FirstPingFails(p) \/ DisconnectFailed(p)
  \/ SetClient(p) \/ SetDb(p) \/ OnceEnd(p)
  \/ Connected(p) \/ Handle(p) \/ ClientPing(p) \/ List(p)
  \/ CloseNil(p) \/ CloseDisconnects(p)

Proc(p) == Begin(p) \/ InCall(p) \/ CtxEnds(p)

(* The calls of this model are used up.                                    *)
Quiet ==
  /\ \A p \in Procs : pc[p] = "idle" /\ made[p] = MaxCalls
  /\ UNCHANGED vars

Next == (\E p \in Procs : Proc(p)) \/ ClusterDown \/ ClusterUp \/ Quiet

(* Goroutines run and the driver's timers fire: a call that can go on does. *)
(* Nothing is assumed of the cluster, of contexts, or of new calls.        *)
Spec == Init /\ [][Next]_vars /\ \A p \in Procs : WF_vars(InCall(p))

-----------------------------------------------------------------------------
(* Properties.                                                             *)

(* Seen from outside, the Once, its error and the pool are one verdict.    *)
LinkState ==
  CASE once # "done"                        -> "unsettled"
    [] once = "done" /\ connErr # "none"    -> "refused"
    [] once = "done" /\ connErr = "none"    -> IF pool = "open" THEN "usable" ELSE "closed"
Link == INSTANCE Connection WITH state <- LinkState, told <- verdict

(* The client keeps the promise of Connection, on which mongo.Repository   *)
(* and every other caller of Connect, Database and Collection builds.      *)
ImplementsConnection == Link!Spec

(* A goroutine that Connect lets through finds c.client and c.db assigned, *)
(* however the calls interleave: no nil handle, no nil dereference.        *)
NoNilHandle ==
  \A p \in Procs : pc[p] \in {"handle", "clientPing", "list"} => client /\ db

(* Concurrent first calls dial once: one pool in the life of a Client.     *)
InOnce(p) == pc[p] \in {"dial", "ping", "disconnect", "setClient", "setDb", "onceEnd"}
DialsOnce == dials <= 1 /\ \A p, q \in Procs : InOnce(p) /\ InOnce(q) => p = q

(* A pool that stays open is one Close can reach: the pool of a failed     *)
(* attempt is disconnected before anyone learns of the failure.            *)
OpenPoolIsHeld == pool = "open" /\ once = "done" => client

(* Every caller of Connect is told the same, at any time.                  *)
VerdictsAgree ==
  \A p, q \in Procs : verdict[p] # "none" /\ verdict[q] # "none" => verdict[p] = verdict[q]

(* Connect "verifies connectivity" and HealthCheck "verifies the cluster   *)
(* is reachable": no success without a reachable moment.                   *)
SuccessMeansReached ==
  \A p \in Procs : pc[p] = "idle" /\ op[p] = "HealthCheck" /\ result[p] = "ok" => sawUp[p]

(* Every call returns, even with a cluster that never answers and a        *)
(* context that never ends: the Once is never held for good.               *)
EveryCallReturns == \A p \in Procs : pc[p] # "idle" ~> pc[p] = "idle"

(* health.go: HealthCheck "verifies the cluster is reachable".  When it    *)
(* fails, something was wrong while it ran.                                *)
HealthCheckTellsTheTruth ==
  \A p \in Procs :
    pc[p] = "idle" /\ op[p] = "HealthCheck" /\ result[p] = "error" => excuse[p]
=============================================================================
