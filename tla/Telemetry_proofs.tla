--------------------------- MODULE Telemetry_proofs ---------------------------
(***************************************************************************)
(* What holds of telemetry.Init, its shutdown and the loggers beside them  *)
(* for any records, queue and bounds.                                      *)
(***************************************************************************)
EXTENDS Telemetry, TLAPS

(* What is open and installed at each point of Init and of shutdown.       *)
Off == {"off", "disabled", "failed", "down"}

Standing(s) ==
  CASE pc \in Off -> open[s] = 0 /\ provider[s] # "installed"
    [] pc = "create" -> open[s] = (IF s < step THEN 1 ELSE 0) /\ provider[s] # "installed"
    [] pc = "install" -> open[s] = 1 /\ (s < step => provider[s] = "installed")
    [] pc = "up" -> open[s] = 1 /\ provider[s] = "installed"
    [] OTHER -> IF s < step THEN open[s] = 0 /\ provider[s] = "stopped"
                            ELSE open[s] = 1 /\ provider[s] = "installed"

InOrder == (\A s \in Signals : Standing(s)) /\ (pc = "up" => step = 1)

(* Where a record has been by the time it is at a child of the fan-out.    *)
Passed(r) ==
  /\ at[r] \in {"otel", "done"} => r \in printed \cup broken \cup BelowLevel
  /\ at[r] = "done" => fate[r] # "none"

AllPassed == \A r \in Records : Passed(r)

IInv == TypeOK /\ InOrder /\ AllPassed

LEMMA InitIInv == Init => IInv
<1> SUFFICES ASSUME Init PROVE IInv
  OBVIOUS
<1>1. TypeOK
  BY TelemetryAssumption DEF Init, TypeOK, Signals, Fates
<1>2. InOrder /\ AllPassed
  BY DEF Init, InOrder, Standing, Off, AllPassed, Passed, Signals
<1> QED BY <1>1, <1>2 DEF IInv

-----------------------------------------------------------------------------
(* The lifecycle's steps.                                                  *)

LEMMA LifecycleTypes ==
  ASSUME IInv, InitBegins \/ CreateExporter \/ CreateFails \/ InstallProvider \/ ShutdownBegins
  PROVE  TypeOK'
<1> USE DEF IInv, TypeOK, Signals, records
<1>1. CASE InitBegins
  BY <1>1, TelemetryAssumption DEF InitBegins
<1>2. CASE CreateExporter
  BY <1>2 DEF CreateExporter, Advance, Logs
<1>3. CASE CreateFails
  <2>1. \A s \in Signals : s < step => open[s] = 1
    BY <1>3 DEF CreateFails, InOrder, Standing, Off
  <2> QED BY <1>3, <2>1 DEF CreateFails
<1>4. CASE InstallProvider
  BY <1>4 DEF InstallProvider, Advance, Logs
<1>5. CASE ShutdownBegins
  BY <1>5 DEF ShutdownBegins
<1> QED BY <1>1, <1>2, <1>3, <1>4, <1>5

LEMMA FlushTypes ==
  ASSUME TypeOK, NEW ok \in BOOLEAN, Flushed(ok)
  PROVE  /\ queue' \in Seq(Records) /\ fate' \in [Records -> Fates]
         /\ \A r \in Records : fate[r] # "none" => fate'[r] # "none"
<1>1. CASE step = Logs
  <2>1. PICK outcome \in {"exported", "shed"} : fate' = Settled(ToSet(queue), outcome)
    BY <1>1 DEF Flushed
  <2>2. fate' \in [Records -> Fates] /\ \A r \in Records : fate[r] # "none" => fate'[r] # "none"
    BY <2>1 DEF TypeOK, Settled, Fates
  <2> QED BY <1>1, <2>2 DEF Flushed
<1>2. CASE step # Logs
  BY <1>2 DEF Flushed, TypeOK
<1> QED BY <1>1, <1>2

LEMMA ShutdownTypes == ASSUME IInv, ShutdownNext PROVE TypeOK'
<1> USE DEF IInv, TypeOK, Signals
<1>1. PICK ok \in BOOLEAN : Stop(ok) /\ Advance("stopping", "down") /\ UNCHANGED <<inits, derived, records>>
  BY DEF ShutdownNext
<1>2. open[step] = 1
  BY <1>1 DEF Stop, InOrder, Standing, Off
<1>3. queue' \in Seq(Records) /\ fate' \in [Records -> Fates]
  BY <1>1, FlushTypes DEF Stop
<1> QED BY <1>1, <1>2, <1>3 DEF Stop, Advance, Logs, records

LEMMA LifecycleOrder ==
  ASSUME IInv,
         InitBegins \/ CreateExporter \/ CreateFails \/ InstallProvider \/ ShutdownBegins \/ ShutdownNext
  PROVE  InOrder'
<1> USE DEF IInv, TypeOK, Signals, InOrder, Standing, Off
<1>1. CASE InitBegins
  BY <1>1 DEF InitBegins
<1>2. CASE CreateExporter
  BY <1>2 DEF CreateExporter, Advance, Logs
<1>3. CASE CreateFails
  BY <1>3 DEF CreateFails
<1>4. CASE InstallProvider
  BY <1>4 DEF InstallProvider, Advance, Logs
<1>5. CASE ShutdownBegins
  BY <1>5 DEF ShutdownBegins
<1>6. CASE ShutdownNext
  BY <1>6 DEF ShutdownNext, Stop, Advance, Logs
<1> QED BY <1>1, <1>2, <1>3, <1>4, <1>5, <1>6

LEMMA LifecyclePassed ==
  ASSUME IInv,
         InitBegins \/ CreateExporter \/ CreateFails \/ InstallProvider \/ ShutdownBegins \/ ShutdownNext
  PROVE  AllPassed'
<1>1. CASE ShutdownNext
  <2>1. PICK ok \in BOOLEAN : Stop(ok) /\ UNCHANGED records
    BY <1>1 DEF ShutdownNext
  <2>2. \A r \in Records : fate[r] # "none" => fate'[r] # "none"
    BY <2>1, FlushTypes DEF Stop, IInv
  <2> QED BY <2>1, <2>2 DEF IInv, AllPassed, Passed, records
<1>2. CASE InitBegins \/ CreateExporter \/ CreateFails \/ InstallProvider \/ ShutdownBegins
  BY <1>2 DEF IInv, AllPassed, Passed, InitBegins, CreateExporter, CreateFails, InstallProvider,
       ShutdownBegins, records
<1> QED BY <1>1, <1>2

-----------------------------------------------------------------------------
(* A record's steps, and the batch processor's.                            *)

LEMMA OrderKept == ASSUME InOrder, UNCHANGED lifecycle PROVE InOrder'
  BY DEF InOrder, Standing, Off, lifecycle

LEMMA EnqueueTypes ==
  ASSUME TypeOK, NEW r \in Records, Enqueue(r)
  PROVE  /\ queue' \in Seq(Records) /\ fate' \in [Records -> Fates]
         /\ \A x \in Records : fate[x] # "none" \/ x = r => fate'[x] # "none"
<1> USE DEF TypeOK, Fates
<1>1. CASE Len(queue) < MaxQueue
  <2>1. queue' = Append(queue, r) /\ fate' = [fate EXCEPT ![r] = "queued"]
    BY <1>1 DEF Enqueue
  <2> QED BY <2>1
<1>2. CASE ~(Len(queue) < MaxQueue)
  <2>1. queue # <<>>
    BY <1>2, TelemetryAssumption
  <2>2. Head(queue) \in Records /\ Tail(queue) \in Seq(Records)
    BY <2>1
  <2>3. queue' = Append(Tail(queue), r) /\ fate' = [fate EXCEPT ![Head(queue)] = "shed", ![r] = "queued"]
    BY <1>2 DEF Enqueue
  <2> QED BY <2>2, <2>3
<1> QED BY <1>1, <1>2

LEMMA RecordStep ==
  ASSUME IInv, NEW r \in Records, Log(r) \/ Handle(r)
  PROVE  IInv'
<1> USE DEF IInv
<1>0. UNCHANGED lifecycle
  BY DEF Log, Handle, Stdout, Otel
<1>1. InOrder'
  BY <1>0, OrderKept
<1>2. CASE Log(r)
  BY <1>1, <1>2 DEF Log, TypeOK, AllPassed, Passed, lifecycle
<1>3. CASE Stdout(r)
  BY <1>1, <1>3 DEF Stdout, TypeOK, AllPassed, Passed, lifecycle
<1>4. CASE Otel(r)
  <2>1. provider[Logs] \in {"none", "installed", "stopped"}
    BY DEF TypeOK, Logs, Signals
  <2>2. /\ queue' \in Seq(Records) /\ fate' \in [Records -> Fates]
        /\ \A x \in Records : fate[x] # "none" \/ x = r => fate'[x] # "none"
    <3>1. CASE provider[Logs] = "installed"
      BY <1>4, <3>1, EnqueueTypes DEF Otel
    <3>2. CASE provider[Logs] = "none"
      BY <1>4, <3>2 DEF Otel, TypeOK, Fates
    <3>3. CASE provider[Logs] = "stopped"
      BY <1>4, <3>3 DEF Otel, TypeOK, Fates
    <3> QED BY <2>1, <3>1, <3>2, <3>3
  <2>3. at[r] = "otel" /\ at' = [at EXCEPT ![r] = "done"] /\ UNCHANGED <<lifecycle, derived, printed, broken>>
    BY <1>4 DEF Otel
  <2>4. TypeOK'
    BY <2>2, <2>3 DEF TypeOK, lifecycle
  <2>5. AllPassed'
    BY <2>2, <2>3 DEF TypeOK, AllPassed, Passed
  <2> QED BY <1>1, <2>4, <2>5
<1> QED BY <1>2, <1>3, <1>4 DEF Handle

LEMMA ExportStep == ASSUME IInv, Export PROVE IInv'
<1> USE DEF IInv
<1>1. PICK outcome \in {"exported", "shed"} :
        /\ queue # <<>> /\ queue' = Tail(queue)
        /\ fate' = [fate EXCEPT ![Head(queue)] = outcome]
        /\ UNCHANGED <<lifecycle, derived, records>>
  BY DEF Export
<1>2. Head(queue) \in Records /\ Tail(queue) \in Seq(Records)
  BY <1>1 DEF TypeOK
<1>3. TypeOK'
  BY <1>1, <1>2 DEF TypeOK, Fates, lifecycle, records
<1>4. AllPassed'
  BY <1>1, <1>2 DEF TypeOK, AllPassed, Passed, records
<1> QED BY <1>1, <1>3, <1>4, OrderKept

LEMMA StepIInv == IInv /\ [Next]_vars => IInv'
<1> SUFFICES ASSUME IInv, [Next]_vars PROVE IInv'
  OBVIOUS
<1>1. CASE InitBegins \/ CreateExporter \/ CreateFails \/ InstallProvider \/ ShutdownBegins
  BY <1>1, LifecycleTypes, LifecycleOrder, LifecyclePassed DEF IInv
<1>2. CASE ShutdownNext
  BY <1>2, ShutdownTypes, LifecycleOrder, LifecyclePassed DEF IInv
<1>3. CASE Export
  BY <1>3, ExportStep
<1>4. ASSUME NEW r \in Records, Log(r) \/ Handle(r) PROVE IInv'
  BY <1>4, RecordStep
<1>5. CASE UNCHANGED vars
  BY <1>5, OrderKept DEF IInv, TypeOK, AllPassed, Passed, vars, lifecycle, records
<1> QED BY <1>1, <1>2, <1>3, <1>4, <1>5 DEF Next, Lifecycle

THEOREM Invariance == Spec => []IInv
  BY InitIInv, StepIInv, PTL DEF Spec

-----------------------------------------------------------------------------

(* The variables keep their types; no exporter is shut down twice.         *)
THEOREM TypeCorrect == Spec => []TypeOK
<1>1. IInv => TypeOK
  BY DEF IInv
<1> QED BY <1>1, Invariance, PTL

(* Wherever Init fails and whichever Shutdown fails, nothing is left open  *)
(* or in service.                                                          *)
THEOREM AllOrNothing == Spec => []NothingStaysOpen
<1>1. IInv => NothingStaysOpen
  BY DEF IInv, InOrder, Standing, Off, NothingStaysOpen
<1> QED BY <1>1, Invariance, PTL

(* Both sinks spell an attribute alike, unless a group came after it.      *)
LEMMA SameKeys ==
  ASSUME NEW i \in Attributes PROVE StdoutPrefix(i) = OtelPrefix(i) \/ GroupedLate(i)
<1> SUFFICES ASSUME ~GroupedLate(i) PROVE StdoutPrefix(i) = OtelPrefix(i)
  OBVIOUS
<1>1. i \in 1..Len(Bound) /\ \A j \in 1..Len(Bound) : j > i => Bound[j] # "group"
  BY DEF Attributes, GroupedLate
<1>2. {j \in 1..i : Bound[j] = "group"} = {j \in 1..Len(Bound) : Bound[j] = "group"}
  BY <1>1
<1> QED BY <1>2 DEF StdoutPrefix, OtelPrefix, GroupsUpTo

(* Every record goes to both sinks, under the same keys.                   *)
THEOREM BothSinksGetEverything == Spec => []SinksAgree
<1>1. IInv => SinksAgree
  BY SameKeys DEF IInv, AllPassed, Passed, SinksAgree
<1> QED BY <1>1, Invariance, PTL
-----------------------------------------------------------------------------
(* What is queued is in the queue, so a shutdown settles it.               *)

QueuedAreHeld == \A r \in Records : fate[r] = "queued" => r \in ToSet(queue)

LEMMA InAppend ==
  ASSUME NEW S, NEW q \in Seq(S), NEW r \in S
  PROVE  ToSet(q) \cup {r} \subseteq ToSet(Append(q, r))
<1>1. DOMAIN Append(q, r) = 1..Len(q) + 1 /\ Append(q, r)[Len(q) + 1] = r
  OBVIOUS
<1>2. \A i \in 1..Len(q) : Append(q, r)[i] = q[i]
  OBVIOUS
<1> QED BY <1>1, <1>2 DEF ToSet

LEMMA InTail ==
  ASSUME NEW S, NEW q \in Seq(S), q # <<>>, NEW x \in ToSet(q), x # Head(q)
  PROVE  x \in ToSet(Tail(q))
<1>1. PICK i \in 1..Len(q) : x = q[i]
  BY DEF ToSet
<1>2. i # 1
  BY <1>1
<1>3. i - 1 \in 1..Len(Tail(q)) /\ Tail(q)[i - 1] = x
  BY <1>1, <1>2
<1>4. DOMAIN Tail(q) = 1..Len(Tail(q))
  OBVIOUS
<1> QED BY <1>3, <1>4 DEF ToSet

LEMMA EnqueueHolds ==
  ASSUME TypeOK, QueuedAreHeld, NEW r \in Records, Enqueue(r)
  PROVE  QueuedAreHeld'
<1> USE DEF TypeOK, QueuedAreHeld
<1>1. CASE Len(queue) < MaxQueue
  <2>1. queue' = Append(queue, r) /\ fate' = [fate EXCEPT ![r] = "queued"]
    BY <1>1 DEF Enqueue
  <2> QED BY <2>1, InAppend
<1>2. CASE ~(Len(queue) < MaxQueue)
  <2>1. queue # <<>>
    BY <1>2, TelemetryAssumption
  <2>2. Tail(queue) \in Seq(Records)
    BY <2>1
  <2>3. queue' = Append(Tail(queue), r) /\ fate' = [fate EXCEPT ![Head(queue)] = "shed", ![r] = "queued"]
    BY <1>2 DEF Enqueue
  <2>4. ToSet(Tail(queue)) \cup {r} \subseteq ToSet(queue')
    BY <2>2, <2>3, InAppend
  <2>5. ASSUME NEW x \in Records, fate'[x] = "queued" PROVE x = r \/ (fate[x] = "queued" /\ x # Head(queue))
    BY <2>3, <2>5
  <2> QED BY <2>1, <2>4, <2>5, InTail
<1> QED BY <1>1, <1>2

LEMMA StepHolds == IInv /\ QueuedAreHeld /\ [Next]_vars => QueuedAreHeld'
<1> SUFFICES ASSUME IInv, QueuedAreHeld, [Next]_vars PROVE QueuedAreHeld'
  OBVIOUS
<1> USE DEF QueuedAreHeld
<1>1. CASE UNCHANGED <<queue, fate>>
  BY <1>1
<1>2. CASE ShutdownNext
  <2>1. PICK ok \in BOOLEAN : Flushed(ok)
    BY <1>2 DEF ShutdownNext, Stop
  <2>2. CASE step = Logs
    <3>1. PICK outcome \in {"exported", "shed"} : fate' = Settled(ToSet(queue), outcome)
      BY <2>1, <2>2 DEF Flushed
    <3> QED BY <3>1 DEF Settled
  <2> QED BY <2>1, <2>2, <1>1 DEF Flushed
<1>3. ASSUME NEW r \in Records, Otel(r) PROVE QueuedAreHeld'
  <2>1. provider[Logs] \in {"none", "installed", "stopped"}
    BY DEF IInv, TypeOK, Logs, Signals
  <2>2. CASE provider[Logs] = "installed"
    BY <1>3, <2>2, EnqueueHolds DEF Otel, IInv
  <2>3. CASE provider[Logs] = "none"
    BY <1>3, <2>3 DEF Otel, IInv, TypeOK
  <2>4. CASE provider[Logs] = "stopped"
    BY <1>3, <2>4 DEF Otel, IInv, TypeOK
  <2> QED BY <2>1, <2>2, <2>3, <2>4
<1>4. CASE Export
  <2>1. PICK outcome \in {"exported", "shed"} :
          /\ queue # <<>> /\ queue' = Tail(queue)
          /\ fate' = [fate EXCEPT ![Head(queue)] = outcome]
    BY <1>4 DEF Export
  <2>2. ASSUME NEW x \in Records, fate'[x] = "queued" PROVE fate[x] = "queued" /\ x # Head(queue)
    BY <2>1, <2>2 DEF IInv, TypeOK
  <2>3. queue \in Seq(Records)
    BY DEF IInv, TypeOK
  <2> QED BY <2>1, <2>2, <2>3, InTail
<1>5. CASE InitBegins \/ CreateExporter \/ CreateFails \/ InstallProvider \/ ShutdownBegins
  BY <1>1, <1>5 DEF InitBegins, CreateExporter, CreateFails, InstallProvider, ShutdownBegins
<1>6. ASSUME NEW r \in Records, Log(r) \/ Stdout(r) PROVE QueuedAreHeld'
  BY <1>1, <1>6 DEF Log, Stdout
<1>7. CASE UNCHANGED vars
  BY <1>1, <1>7 DEF vars
<1> QED BY <1>2, <1>3, <1>4, <1>5, <1>6, <1>7 DEF Next, Lifecycle, Handle

(* Only a Shutdown moves a provider while the shutdown runs.               *)
LEMMA OnlyShutdownStops ==
  ASSUME [Next]_vars, pc = "stopping", provider' # provider \/ pc' = "down"
  PROVE  ShutdownNext
  BY DEF Next, Lifecycle, InitBegins, CreateExporter, CreateFails, InstallProvider, ShutdownBegins,
     Export, Log, Handle, Stdout, Otel, vars, lifecycle

(* What a Shutdown does to a queued record: only that of the logs touches  *)
(* it, and if it fails it is among the joined errors.                      *)
LEMMA StopSettles ==
  ASSUME QueuedAreHeld, NEW ok \in BOOLEAN, Stop(ok), NEW r \in Records, fate[r] = "queued"
  PROVE  /\ fate'[r] \in {"queued", "exported"} \/ Logs \in errors'
         /\ step = Logs => fate'[r] # "queued"
<1>1. CASE step = Logs /\ ok
  BY <1>1 DEF Stop, Flushed, Settled, QueuedAreHeld
<1>2. CASE step = Logs /\ ~ok
  BY <1>2 DEF Stop, Flushed, Settled, QueuedAreHeld
<1>3. CASE step # Logs
  BY <1>3 DEF Stop, Flushed
<1> QED BY <1>1, <1>2, <1>3

(* The last Shutdown is that of the logs, and it queues nothing.           *)
LEMMA NoneQueuedWhenDown ==
  ASSUME QueuedAreHeld, ShutdownNext, pc = "stopping", pc' = "down", NEW r \in Records
  PROVE  fate'[r] # "queued"
<1>1. PICK ok \in BOOLEAN : Stop(ok) /\ Advance("stopping", "down")
  BY DEF ShutdownNext
<1>2. step = Logs
  BY <1>1 DEF Advance
<1>3. CASE fate[r] = "queued"
  BY <1>1, <1>2, <1>3, StopSettles
<1>4. CASE fate[r] # "queued"
  BY <1>1, <1>2, <1>4 DEF Stop, Flushed, Settled
<1> QED BY <1>3, <1>4

(* A shutdown empties the queue, whichever of its parts fail, and a record *)
(* it does not export it loses under an error of the log provider.         *)
THEOREM ShutdownLosesNothingSilently == Spec => ShutdownFlushesOrReports
<1>1. Init => QueuedAreHeld
  BY DEF Init, QueuedAreHeld
<1>2. Spec => []QueuedAreHeld
  BY <1>1, Invariance, StepHolds, PTL DEF Spec
<1>3. ASSUME QueuedAreHeld, [Next]_vars, pc = "stopping", provider' # provider,
             NEW r \in Records, fate[r] = "queued"
      PROVE  fate'[r] \in {"queued", "exported"} \/ Logs \in errors'
  <2>1. PICK ok \in BOOLEAN : Stop(ok)
    BY <1>3, OnlyShutdownStops DEF ShutdownNext
  <2> QED BY <1>3, <2>1, StopSettles
<1>4. ASSUME QueuedAreHeld, [Next]_vars, pc = "stopping", pc' = "down", NEW r \in Records
      PROVE  fate'[r] # "queued"
  BY <1>4, OnlyShutdownStops, NoneQueuedWhenDown
<1>5. QueuedAreHeld /\ [Next]_vars =>
        [pc = "stopping" =>
           /\ provider' # provider => \A r \in Records : fate[r] = "queued" =>
                fate'[r] \in {"queued", "exported"} \/ Logs \in errors'
           /\ pc' = "down" => \A r \in Records : fate'[r] # "queued"]_vars
  BY <1>3, <1>4
<1> QED BY <1>2, <1>5, PTL DEF Spec, ShutdownFlushesOrReports
=============================================================================
