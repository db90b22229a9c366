------------------------- MODULE MongoClient_proofs -------------------------
(***************************************************************************)
(* Theorems about MongoClient, for any number of goroutines, calls and     *)
(* outages.                                                                *)
(***************************************************************************)
EXTENDS MongoClient, TLAPS

(* The life of the one attempt, seen from the goroutine inside the Once.   *)
Attempt(p) ==
  /\ InOnce(p) => once = "running"
  /\ pc[p] = "dial" => connErr = "none" /\ pool = "none" /\ dials = 0
  /\ pc[p] \in {"ping", "setClient"} => connErr = "none"
  /\ pc[p] \in {"dial", "ping", "disconnect", "setClient"} => ~client
  /\ pc[p] = "setDb" => connErr = "none" /\ client
  /\ pc[p] = "disconnect" => connErr = "ping"
  /\ pc[p] = "onceEnd" => IF connErr = "none" THEN client /\ db ELSE ~client /\ pool # "open"

(* What the Once leaves behind, and what those who passed it rely on.      *)
Settled ==
  /\ once = "ready" => connErr = "none" /\ pool = "none" /\ dials = 0 /\ ~client
  /\ once = "done" => IF connErr = "none" THEN client /\ db ELSE ~client /\ pool # "open"

Passed(p) ==
  /\ pc[p] \in {"connected", "handle", "clientPing", "list"} => once = "done"
  /\ pc[p] \in {"handle", "clientPing", "list"} => connErr = "none"
  /\ pc[p] = "handle" => op[p] = "Database"
  /\ pc[p] = "close" => op[p] = "Close"
  /\ verdict[p] # "none" =>
       once = "done" /\ verdict[p] = (IF connErr = "none" THEN "ok" ELSE "error")

IInv ==
  /\ TypeOK
  /\ DialsOnce
  /\ Settled
  /\ \A p \in Procs : Attempt(p)
  /\ \A p \in Procs : Passed(p)

LEMMA HistoryType ==
  ASSUME NEW h \in [Procs -> BOOLEAN] PROVE InHealthChecks(h) \in [Procs -> BOOLEAN]
  BY DEF InHealthChecks

LEMMA InitInductive == Init => IInv
<1> SUFFICES ASSUME Init PROVE IInv
  OBVIOUS
<1>1. TypeOK
  <2>1. /\ cluster \in {"up", "down"} /\ 0 \in 0..MaxOutages /\ 0 \in 0..MaxCalls
    BY BoundsAssumption DEF Init
  <2>2. \A p \in Procs : [q \in Procs |-> FALSE][p] \in BOOLEAN
    OBVIOUS
  <2>3. QED
    BY <2>1, <2>2 DEF Init, TypeOK, Control, Operations, Outcomes
<1>2. once = "ready" /\ \A p \in Procs : pc[p] = "idle" /\ verdict[p] = "none"
  BY DEF Init
<1>3. DialsOnce /\ Settled
  BY <1>2 DEF Init, DialsOnce, InOnce, Settled
<1>4. \A p \in Procs : Attempt(p) /\ Passed(p)
  BY <1>2 DEF Attempt, Passed, InOnce
<1>5. QED
  BY <1>1, <1>3, <1>4 DEF IInv

LEMMA StepInductive == IInv /\ [Next]_vars => IInv'
<1> SUFFICES ASSUME IInv, [Next]_vars PROVE IInv'
  OBVIOUS
<1> USE BoundsAssumption DEF IInv, TypeOK, Control, Operations, Outcomes, DialsOnce, InOnce, Settled,
       Attempt, Passed, holder, network, call, history, Goto
<1>1. ASSUME NEW p \in Procs, Begin(p) PROVE IInv'
  BY <1>1 DEF Begin
<1>2. ASSUME NEW p \in Procs, OnceFirst(p) PROVE IInv'
  BY <1>2 DEF OnceFirst
<1>3. ASSUME NEW p \in Procs, OnceDone(p) PROVE IInv'
  BY <1>3 DEF OnceDone
<1>4. ASSUME NEW p \in Procs, Dial(p) PROVE IInv'
  <2>1. excuse' \in [Procs -> BOOLEAN]
    BY <1>4, HistoryType DEF Dial
  <2>2. QED
    BY <1>4, <2>1 DEF Dial
<1>5. ASSUME NEW p \in Procs, FirstPingOk(p) PROVE IInv'
  BY <1>5 DEF FirstPingOk
<1>6. ASSUME NEW p \in Procs, FirstPingFails(p) PROVE IInv'
  BY <1>6 DEF FirstPingFails
<1>7. ASSUME NEW p \in Procs, DisconnectFailed(p) PROVE IInv'
  BY <1>7 DEF DisconnectFailed
<1>8. ASSUME NEW p \in Procs, SetClient(p) PROVE IInv'
  BY <1>8 DEF SetClient
<1>9. ASSUME NEW p \in Procs, SetDb(p) PROVE IInv'
  BY <1>9 DEF SetDb
<1>10. ASSUME NEW p \in Procs, OnceEnd(p) PROVE IInv'
  BY <1>10 DEF OnceEnd
<1>11. ASSUME NEW p \in Procs, Connected(p) PROVE IInv'
  <2>1. NextOf(op[p]) \in {"idle", "handle", "clientPing"}
    BY DEF NextOf
  <2>0. NextOf(op[p]) = "handle" => op[p] = "Database"
    BY DEF NextOf
  <2>2. /\ pc[p] = "connected" /\ once = "done"
        /\ verdict' = [verdict EXCEPT ![p] = IF connErr = "none" THEN "ok" ELSE "error"]
        /\ UNCHANGED <<holder, network, call, synced, history>>
    BY <1>11 DEF Connected
  <2>3. \/ pc' = [pc EXCEPT ![p] = "idle"]
        \/ connErr = "none" /\ op[p] = "Database" /\ pc' = [pc EXCEPT ![p] = "handle"]
        \/ connErr = "none" /\ pc' = [pc EXCEPT ![p] = "clientPing"]
    BY <1>11, <2>1, <2>0 DEF Connected, Return
  <2>4. result' \in [Procs -> Outcomes]
    BY <1>11 DEF Connected, Return
  <2>5. TypeOK'
    BY <2>2, <2>3, <2>4
  <2>6. \A q \in Procs : Passed(q)'
    <3>1. verdict'[p] = IF connErr = "none" THEN "ok" ELSE "error"
      BY <2>2
    <3>2. \A q \in Procs : q # p => verdict'[q] = verdict[q] /\ pc'[q] = pc[q]
      BY <2>2, <2>3
    <3>3. /\ pc'[p] \in {"handle", "clientPing"} => connErr = "none"
          /\ pc'[p] = "handle" => op[p] = "Database"
          /\ pc'[p] # "close" /\ op' = op
      BY <2>2, <2>3
    <3>4. pc'[p] \in {"idle", "handle", "clientPing"}
      BY <2>3
    <3>5. QED
      BY <2>2, <3>1, <3>2, <3>3, <3>4
  <2>7. DialsOnce' /\ Settled' /\ \A q \in Procs : Attempt(q)'
    BY <2>2, <2>3
  <2>8. QED
    BY <2>5, <2>6, <2>7
<1>12. ASSUME NEW p \in Procs, Handle(p) PROVE IInv'
  BY <1>12 DEF Handle, Return
<1>13. ASSUME NEW p \in Procs, ClientPing(p) PROVE IInv'
  BY <1>13 DEF ClientPing, Return
<1>14. ASSUME NEW p \in Procs, List(p) PROVE IInv'
  BY <1>14 DEF List, Return
<1>15. ASSUME NEW p \in Procs, CloseNil(p) \/ CloseDisconnects(p) PROVE IInv'
  <2>1. CASE CloseNil(p)
    BY <2>1 DEF CloseNil, Return
  <2>2. CASE CloseDisconnects(p)
    <3>1. excuse' \in [Procs -> BOOLEAN]
      BY <2>2, HistoryType DEF CloseDisconnects
    <3>2. QED
      BY <2>2, <3>1 DEF CloseDisconnects, Return
  <2>3. QED
    BY <1>15, <2>1, <2>2
<1>16. ASSUME NEW p \in Procs, CtxEnds(p) PROVE IInv'
  BY <1>16 DEF CtxEnds
<1>17. CASE ClusterDown \/ ClusterUp
  <2>1. excuse' \in [Procs -> BOOLEAN] /\ sawUp' \in [Procs -> BOOLEAN]
    BY <1>17, HistoryType DEF ClusterDown, ClusterUp
  <2>2. QED
    BY <1>17, <2>1 DEF ClusterDown, ClusterUp
<1>18. CASE UNCHANGED vars
  BY <1>18 DEF vars
<1>19. QED
  BY <1>1, <1>2, <1>3, <1>4, <1>5, <1>6, <1>7, <1>8, <1>9, <1>10, <1>11, <1>12, <1>13, <1>14,
     <1>15, <1>16, <1>17, <1>18 DEF Next, Proc, InCall, Quiet

LEMMA Inductive == Spec => []IInv
  BY InitInductive, StepInductive, PTL DEF Spec

(* Nobody gets past Connect to a nil handle.                               *)
THEOREM HandlesAreSet == Spec => []NoNilHandle
<1>1. IInv => NoNilHandle
  BY DEF IInv, Passed, Settled, NoNilHandle
<1>2. QED
  BY <1>1, Inductive, PTL

(* One dial, one pool, one goroutine inside the Once.                      *)
THEOREM OneDial == Spec => []DialsOnce
<1>1. IInv => DialsOnce
  BY DEF IInv
<1>2. QED
  BY <1>1, Inductive, PTL

(* No pool stays open that Close could not reach.                          *)
THEOREM NoOrphanPool == Spec => []OpenPoolIsHeld
<1>1. IInv => OpenPoolIsHeld
  BY DEF IInv, Settled, OpenPoolIsHeld
<1>2. QED
  BY <1>1, Inductive, PTL

(* Connect tells everyone the same for the life of the Client.             *)
THEOREM OneVerdict == Spec => []VerdictsAgree
<1>1. IInv => VerdictsAgree
  BY DEF IInv, Passed, VerdictsAgree
<1>2. QED
  BY <1>1, Inductive, PTL

-----------------------------------------------------------------------------
(* The client as a Connection.                                             *)

LEMMA StepsSettleTellClose == IInv /\ [Next]_vars => [Link!Next]_(Link!vars)
<1> SUFFICES ASSUME IInv, [Next]_vars PROVE [Link!Next]_(Link!vars)
  OBVIOUS
<1> USE DEF IInv, TypeOK, Control, DialsOnce, InOnce, Settled, Attempt, Passed, LinkState,
       Link!vars, holder, network, call, history, Goto
<1>1. ASSUME NEW p \in Procs, OnceEnd(p) PROVE Link!Settle
  <2>1. pc[p] = "onceEnd"
    BY <1>1 DEF OnceEnd
  <2>2. once = "running" /\ once' = "done"
    BY <1>1, <2>1 DEF OnceEnd
  <2>3. UNCHANGED <<connErr, pool, verdict>>
    BY <1>1 DEF OnceEnd
  <2>4. QED
    BY <2>2, <2>3 DEF Link!Settle
<1>2. ASSUME NEW p \in Procs, Connected(p) PROVE Link!Tell(p)
  BY <1>2 DEF Connected, Link!Tell
<1>3. ASSUME NEW p \in Procs, CloseDisconnects(p) PROVE Link!Close \/ UNCHANGED Link!vars
  BY <1>3 DEF CloseDisconnects, Link!Close
<1>4. ASSUME NEW p \in Procs,
             \/ OnceFirst(p) \/ Dial(p) \/ FirstPingOk(p) \/ FirstPingFails(p)
             \/ DisconnectFailed(p) \/ SetClient(p) \/ SetDb(p)
      PROVE  UNCHANGED Link!vars
  <2>1. once # "done" /\ once' # "done" /\ UNCHANGED verdict
    BY <1>4 DEF OnceFirst, Dial, FirstPingOk, FirstPingFails, DisconnectFailed, SetClient, SetDb
  <2>2. QED
    BY <2>1
<1>5. ASSUME NEW p \in Procs,
             \/ Begin(p) \/ OnceDone(p) \/ Handle(p) \/ ClientPing(p) \/ List(p)
             \/ CloseNil(p) \/ CtxEnds(p)
      PROVE  UNCHANGED Link!vars
  <2>1. UNCHANGED <<once, connErr, pool, verdict>>
    BY <1>5 DEF Begin, OnceDone, Handle, ClientPing, List, CloseNil, CtxEnds
  <2>2. QED
    BY <2>1
<1>6. ASSUME ClusterDown \/ ClusterUp \/ UNCHANGED vars PROVE UNCHANGED Link!vars
  BY <1>6 DEF ClusterDown, ClusterUp, vars
<1>7. QED
  BY <1>1, <1>2, <1>3, <1>4, <1>5, <1>6 DEF Next, Proc, InCall, Quiet, Link!Next

(* Every client is a Connection to its callers.                            *)
THEOREM ClientIsConnection == Spec => ImplementsConnection
<1>1. Init => Link!Init
  BY DEF Init, Link!Init, LinkState
<1>2. QED
  BY <1>1, StepsSettleTellClose, Inductive, PTL DEF Spec, ImplementsConnection, Link!Spec

-----------------------------------------------------------------------------
(* Health checks.                                                          *)

(* A health check under way has seen the cluster if it is up now, and one  *)
(* that succeeded has seen it at some time.                                *)
Seen(p) == op[p] = "HealthCheck" =>
  /\ pc[p] # "idle" /\ cluster = "up" => sawUp[p]
  /\ pc[p] = "idle" /\ result[p] = "ok" => sawUp[p]
SeenInv == \A p \in Procs : Seen(p)

LEMMA StepSeen == IInv /\ SeenInv /\ [Next]_vars => SeenInv'
<1> SUFFICES ASSUME IInv, SeenInv, [Next]_vars PROVE SeenInv'
  OBVIOUS
<1> USE DEF IInv, TypeOK, SeenInv, Seen, holder, network, call, history, Goto
<1>1. ASSUME NEW p \in Procs, Begin(p) PROVE SeenInv'
  BY <1>1 DEF Begin
<1>2. ASSUME NEW p \in Procs,
             \/ OnceFirst(p) \/ OnceDone(p) \/ FirstPingOk(p) \/ FirstPingFails(p)
             \/ DisconnectFailed(p) \/ SetClient(p) \/ SetDb(p) \/ OnceEnd(p)
      PROVE  SeenInv'
  <2>1. /\ pc[p] # "idle" /\ UNCHANGED <<cluster, op, sawUp, result>>
        /\ \E to \in Control \ {"idle"} : pc' = [pc EXCEPT ![p] = to]
    BY <1>2 DEF OnceFirst, OnceDone, FirstPingOk, FirstPingFails, DisconnectFailed,
                SetClient, SetDb, OnceEnd, Control
  <2>2. QED
    BY <2>1
<1>3. ASSUME NEW p \in Procs, Dial(p) PROVE SeenInv'
  BY <1>3 DEF Dial
<1>4. ASSUME NEW p \in Procs, Connected(p) PROVE SeenInv'
  <2>1. op[p] = "HealthCheck" => NextOf(op[p]) = "clientPing"
    BY DEF NextOf
  <2>2. UNCHANGED <<cluster, op, sawUp>> /\ pc[p] = "connected"
    BY <1>4 DEF Connected
  <2>3. \A q \in Procs : q # p => UNCHANGED <<pc[q], result[q]>>
    BY <1>4 DEF Connected, Return
  <2>4. op[p] = "HealthCheck" => pc'[p] # "idle" \/ result'[p] = "error"
    BY <1>4, <2>1 DEF Connected, Return
  <2>5. QED
    BY <2>2, <2>3, <2>4
<1>5. ASSUME NEW p \in Procs, Handle(p) \/ CloseNil(p) \/ CloseDisconnects(p) PROVE SeenInv'
  <2>1. op[p] # "HealthCheck"
    BY <1>5 DEF Passed, Handle, CloseNil, CloseDisconnects
  <2>2. QED
    BY <1>5, <2>1 DEF Handle, CloseNil, CloseDisconnects, Return
<1>6. ASSUME NEW p \in Procs, ClientPing(p) \/ List(p) PROVE SeenInv'
  BY <1>6 DEF ClientPing, List, Return, Reachable
<1>7. ASSUME NEW p \in Procs, CtxEnds(p) PROVE SeenInv'
  BY <1>7 DEF CtxEnds
<1>8. CASE ClusterDown
  BY <1>8 DEF ClusterDown
<1>9. CASE ClusterUp
  BY <1>9 DEF ClusterUp, InHealthChecks
<1>10. CASE UNCHANGED vars
  BY <1>10 DEF vars
<1>11. QED
  BY <1>1, <1>2, <1>3, <1>4, <1>5, <1>6, <1>7, <1>8, <1>9, <1>10 DEF Next, Proc, InCall, Quiet

(* A health check that succeeds has met a reachable cluster.               *)
THEOREM HealthyMeansReached == Spec => []SuccessMeansReached
<1>1. Init => SeenInv
  BY DEF Init, SeenInv, Seen
<1>2. SeenInv => SuccessMeansReached
  BY DEF SeenInv, Seen, SuccessMeansReached
<1>3. QED
  BY <1>1, <1>2, StepSeen, Inductive, PTL DEF Spec
=============================================================================
