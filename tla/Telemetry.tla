------------------------------ MODULE Telemetry ------------------------------
(***************************************************************************)
(* telemetry.Init and the shutdown it returns, beside the loggers of the   *)
(* service: a logger writes each record to stdout and hands it to the log  *)
(* provider that is the process's global one at that moment.  Init creates *)
(* an exporter for each signal in turn, any of which may fail, and then    *)
(* installs a provider for each; the log provider queues records for its   *)
(* exporter.                                                               *)
(***************************************************************************)
EXTENDS Naturals, FiniteSets, Sequences, SequencesExt

CONSTANTS
  Records,      \* log records, each handled by a goroutine of its own
  BelowLevel,   \* those below stdout's level: debug records in production
  MaxQueue,     \* records the log provider's batch processor holds
  MaxInits,     \* bound: calls of Init
  MaxDerive     \* bound: With and WithGroup calls that derive the logger

ASSUME TelemetryAssumption ==
  /\ BelowLevel \subseteq Records
  /\ MaxQueue \in Nat \ {0} /\ MaxInits \in Nat /\ MaxDerive \in Nat

VARIABLES
  pc,           \* where Init or shutdown is; "off" before the first Init
  step,         \* the signal Init or shutdown is at
  inits,
  open,         \* exporters open for each signal
  provider,     \* the global provider of each: "none", "installed" or "stopped"
  errors,       \* what shutdown joined: the signals whose Shutdown failed
  queue,        \* the log provider's batch
  derived,      \* how the logger was derived from New's: "attr" and "group" calls
  at,           \* the child of the fan-out each record is at
  printed,      \* the records stdout took
  broken,       \* history: those a write error of stdout kept it from
  fate          \* what became of each record on its way to the collector

lifecycle == <<pc, step, inits, open, provider, errors>>
records == <<at, printed, broken>>
vars == <<lifecycle, queue, derived, records, fate>>

Signals == 1..3           \* traces, metrics, logs, in the order Init takes them
Logs == 3
Derivations == UNION {[1..n -> {"attr", "group"}] : n \in 0..MaxDerive}
Fates == {"none", "beforeInit", "afterShutdown", "queued", "exported", "shed"}

TypeOK ==
  /\ pc \in {"off", "disabled", "create", "install", "up", "failed", "stopping", "down"}
  /\ step \in Signals /\ inits \in 0..MaxInits
  /\ open \in [Signals -> Nat]
  /\ provider \in [Signals -> {"none", "installed", "stopped"}]
  /\ errors \subseteq Signals
  /\ queue \in Seq(Records)
  /\ derived \in Derivations
  /\ at \in [Records -> {"new", "stdout", "otel", "done"}]
  /\ printed \subseteq Records /\ broken \subseteq Records
  /\ fate \in [Records -> Fates]

Init ==
  /\ pc = "off" /\ step = 1 /\ inits = 0
  /\ open = [s \in Signals |-> 0]
  /\ provider = [s \in Signals |-> "none"]
  /\ errors = {}
  /\ queue = <<>>
  /\ derived \in Derivations
  /\ at = [r \in Records |-> "new"]
  /\ printed = {} /\ broken = {}
  /\ fate = [r \in Records |-> "none"]

-----------------------------------------------------------------------------
(* telemetry.Init.                                                         *)

(* With an empty endpoint nothing is created and nothing installed; a      *)
(* resource that cannot be built fails before anything is.                 *)
InitBegins ==
  /\ pc \in {"off", "failed", "down"} /\ inits < MaxInits
  /\ inits' = inits + 1 /\ step' = 1 /\ errors' = {}
  /\ pc' \in {"create", "failed"} \cup (IF inits = 0 THEN {"disabled"} ELSE {})
  /\ UNCHANGED <<open, provider, queue, derived, records, fate>>

Advance(here, next) ==
  IF step = Logs THEN pc' = next /\ step' = 1 ELSE pc' = here /\ step' = step + 1

CreateExporter ==
  /\ pc = "create"
  /\ open' = [open EXCEPT ![step] = @ + 1]
  /\ Advance("create", "install")
  /\ UNCHANGED <<inits, provider, errors, queue, derived, records, fate>>

(* Fault variant: only the exporter created first is shut down.            *)
CreateFailsLeaks ==
  /\ pc = "create"
  /\ open' = [s \in Signals |-> IF s = 1 /\ s < step THEN open[s] - 1 ELSE open[s]]
  /\ pc' = "failed"
  /\ UNCHANGED <<step, inits, provider, errors, queue, derived, records, fate>>

(* The exporters created before the one that failed are shut down.         *)
CreateFails ==
  /\ pc = "create"
  /\ open' = [s \in Signals |-> IF s < step THEN open[s] - 1 ELSE open[s]]
  /\ pc' = "failed"
  /\ UNCHANGED <<step, inits, provider, errors, queue, derived, records, fate>>

InstallProvider ==
  /\ pc = "install"
  /\ provider' = [provider EXCEPT ![step] = "installed"]
  /\ Advance("install", "up")
  /\ UNCHANGED <<inits, open, errors, queue, derived, records, fate>>

-----------------------------------------------------------------------------
(* The returned ShutdownFunc: three Shutdowns, their errors joined.        *)

ShutdownBegins ==
  /\ pc = "up" /\ pc' = "stopping"
  /\ UNCHANGED <<step, inits, open, provider, errors, queue, derived, records, fate>>

(* A provider that is shut down exports what it has; when the collector is *)
(* away or shutdownCtx ends, that fails, and the exporter closes anyway.   *)
Settled(batch, outcome) == [r \in Records |-> IF r \in batch THEN outcome ELSE fate[r]]

Flushed(ok) ==
  IF step = Logs
    THEN queue' = <<>> /\ fate' = Settled(ToSet(queue), IF ok THEN "exported" ELSE "shed")
    ELSE UNCHANGED <<queue, fate>>

Stop(ok) ==
  /\ pc = "stopping"
  /\ provider' = [provider EXCEPT ![step] = "stopped"]
  /\ open' = [open EXCEPT ![step] = @ - 1]
  /\ errors' = IF ok THEN errors ELSE errors \cup {step}
  /\ Flushed(ok)

(* Fault variant: the first Shutdown that fails is returned at once.       *)
ShutdownFirstError == \E ok \in BOOLEAN :
  /\ Stop(ok)
  /\ IF ok THEN Advance("stopping", "down") ELSE pc' = "down" /\ UNCHANGED step
  /\ UNCHANGED <<inits, derived, records>>

ShutdownNext == \E ok \in BOOLEAN :
  /\ Stop(ok)
  /\ Advance("stopping", "down")
  /\ UNCHANGED <<inits, derived, records>>

-----------------------------------------------------------------------------
(* A record on its way through fanoutHandler.Handle.                       *)

Log(r) ==
  /\ at[r] = "new"
  /\ at' = [at EXCEPT ![r] = "stdout"]
  /\ UNCHANGED <<lifecycle, queue, derived, printed, broken, fate>>

(* Fault variant: Handle returns the first error there and then.           *)
StdoutStopsAtError(r) ==
  /\ at[r] = "stdout"
  /\ \/ r \in BelowLevel /\ UNCHANGED <<printed, broken>> /\ at' = [at EXCEPT ![r] = "otel"]
     \/ /\ r \notin BelowLevel /\ printed' = printed \cup {r}
        /\ at' = [at EXCEPT ![r] = "otel"] /\ UNCHANGED broken
     \/ /\ r \notin BelowLevel /\ broken' = broken \cup {r}
        /\ at' = [at EXCEPT ![r] = "done"] /\ UNCHANGED printed
  /\ UNCHANGED <<lifecycle, queue, derived, fate>>

(* stdout's child is asked whether the level is enabled; its error is kept *)
(* for the caller and does not stop the loop.                              *)
Stdout(r) ==
  /\ at[r] = "stdout"
  /\ at' = [at EXCEPT ![r] = "otel"]
  /\ \/ r \in BelowLevel /\ UNCHANGED <<printed, broken>>
     \/ r \notin BelowLevel /\ printed' = printed \cup {r} /\ UNCHANGED broken
     \/ r \notin BelowLevel /\ broken' = broken \cup {r} /\ UNCHANGED printed
  /\ UNCHANGED <<lifecycle, queue, derived, fate>>

(* The batch processor drops its oldest record for a new one when full.    *)
Enqueue(r) ==
  IF Len(queue) < MaxQueue
    THEN queue' = Append(queue, r) /\ fate' = [fate EXCEPT ![r] = "queued"]
    ELSE /\ queue' = Append(Tail(queue), r)
         /\ fate' = [fate EXCEPT ![Head(queue)] = "shed", ![r] = "queued"]

(* Fault variant: the provider is looked up when the logger is built.      *)
OtelCached(r) ==
  /\ at[r] = "otel"
  /\ at' = [at EXCEPT ![r] = "done"]
  /\ fate' = [fate EXCEPT ![r] = "beforeInit"]
  /\ UNCHANGED <<lifecycle, queue, derived, printed, broken>>

(* otelHandler is enabled at every level and asks for the provider anew.   *)
Otel(r) ==
  /\ at[r] = "otel"
  /\ at' = [at EXCEPT ![r] = "done"]
  /\ CASE provider[Logs] = "installed" -> Enqueue(r)
       [] provider[Logs] = "none" -> UNCHANGED queue /\ fate' = [fate EXCEPT ![r] = "beforeInit"]
       [] provider[Logs] = "stopped" -> UNCHANGED queue /\ fate' = [fate EXCEPT ![r] = "afterShutdown"]
  /\ UNCHANGED <<lifecycle, derived, printed, broken>>

(* The batch processor's own goroutine; a collector that stays away beyond *)
(* the exporter's timeout costs the record.                                *)
Export == \E outcome \in {"exported", "shed"} :
  /\ provider[Logs] = "installed" /\ queue # <<>>
  /\ queue' = Tail(queue)
  /\ fate' = [fate EXCEPT ![Head(queue)] = outcome]
  /\ UNCHANGED <<lifecycle, derived, records>>

Handle(r) == Stdout(r) \/ Otel(r)
Lifecycle == CreateExporter \/ CreateFails \/ InstallProvider \/ ShutdownNext

Next ==
  \/ InitBegins \/ Lifecycle \/ ShutdownBegins \/ Export
  \/ \E r \in Records : Log(r) \/ Handle(r)

(* Init and shutdown go on (each exporter has a timeout of ten seconds),   *)
(* so do the goroutines that log, and the batch processor's.               *)
Spec ==
  /\ Init /\ [][Next]_vars
  /\ WF_vars(Lifecycle) /\ WF_vars(Export)
  /\ \A r \in Records : WF_vars(Handle(r))

-----------------------------------------------------------------------------
(* The keys a sink writes: of New's own attributes, of those the logger    *)
(* was derived with, and of the record's.  A key is its group prefix.      *)

Bound == <<"attr">> \o derived \o <<"attr">>
GroupsUpTo(n) == Cardinality({j \in 1..n : Bound[j] = "group"})

(* slog's JSON handler puts an attribute into the groups open when it was  *)
(* added; slogAttrToKV puts all of them into all the logger's groups.      *)
StdoutPrefix(i) == GroupsUpTo(i)
OtelPrefix(i) == GroupsUpTo(Len(Bound))

Attributes == {i \in 1..Len(Bound) : Bound[i] = "attr"}
GroupedLate(i) == \E j \in 1..Len(Bound) : j > i /\ Bound[j] = "group"

-----------------------------------------------------------------------------
(* Properties.                                                             *)

(* After an Init that failed, at whichever exporter and after however many *)
(* attempts, and after a shutdown, whichever Shutdowns failed, no exporter *)
(* is open and no provider in service.                                     *)
NothingStaysOpen ==
  pc \in {"failed", "down"} => \A s \in Signals : open[s] = 0 /\ provider[s] # "installed"

(* A record that was handled has been to both sinks, whichever of them     *)
(* failed, and under the same keys, unless a group was opened on a logger  *)
(* that had the attribute already.                                         *)
SinksAgree ==
  /\ \A r \in Records : at[r] = "done" =>
       fate[r] # "none" /\ r \in printed \cup broken \cup BelowLevel
  /\ \A i \in Attributes : StdoutPrefix(i) = OtelPrefix(i) \/ GroupedLate(i)

(* otel_handler.go:13: "logger.New can run before telemetry.Init without   *)
(* losing log signals once telemetry comes online".  A record logged while *)
(* it is online is exported, or shed by a full queue or an absent          *)
(* collector; a shutdown flushes what is queued and may only forestall it. *)
OnlineRecordsSettle ==
  \A r \in Records :
    at[r] = "stdout" /\ pc = "up" ~> fate[r] \in {"exported", "shed", "afterShutdown"}

(* A shutdown leaves no record in the queue, whichever Shutdowns fail, and *)
(* loses one itself only if it reports an error of the log provider.       *)
(* (While it is at the other providers the batch processor goes on, and    *)
(* may shed a record as it may at any time.)                               *)
ShutdownFlushesOrReports ==
  [][pc = "stopping" =>
       /\ provider' # provider => \A r \in Records : fate[r] = "queued" =>
            fate'[r] \in {"queued", "exported"} \/ Logs \in errors'
       /\ pc' = "down" => \A r \in Records : fate'[r] # "queued"]_vars
=============================================================================
