---------------------------- MODULE AuditPipeline ----------------------------
(***************************************************************************)
(* Audit events from audit.KafkaEmitter to the sink: Emit fills a copy of  *)
(* the event and publishes it through kafka.Producer, whose kafka-go       *)
(* Writer queues it for a partition and writes it, several times if need   *)
(* be, while Emit waits for the answer or for its context.  The sink reads *)
(* the topic through a consumer group, of which AtLeastOnce is all that is *)
(* used here.                                                              *)
(***************************************************************************)
EXTENDS Naturals, Sequences

CONSTANTS
  Callers,       \* goroutines that emit
  Facts,         \* what happened and is to be recorded
  Partitions,
  MaxAttempts,   \* the Writer's attempts at one message
  MaxEmits,      \* bound: Emit calls for each fact
  MaxFailovers   \* bound: partition leaders that fail

ASSUME AuditAssumption ==
  /\ MaxAttempts \in Nat \ {0}
  /\ MaxEmits \in Nat
  /\ MaxFailovers \in Nat

VARIABLES
  named,         \* facts whose events carry an id of their caller's
  pc, cur,       \* each caller: its control point and the event in its Emit
  ack,           \* what the Writer answered it: "none", "ok" or "error"
  tries, failures,  \* Emit calls for a fact, begun and failed
  acked,         \* facts an Emit returned nil for
  writer,        \* the Producer: "open", "closing" or "closed"
  queue,         \* for each partition, the messages the Writer has to write
  log,           \* the partition's log at its leader
  end,           \* how much of it is replicated and readable
  lost,          \* history: facts a failing leader took along
  failovers,
  attempted,     \* the offsets the sink's handler was given
  stored,        \* the event identities in the sink's collection
  refused        \* history: facts the sink failed to store

emitters == <<named, pc, cur, ack, tries, failures, acked>>
broker   == <<log, end, lost, failovers>>
sink     == <<attempted, stored, refused>>
vars == <<emitters, writer, queue, broker, sink>>

(* An event's identity is its fact and its event_id; the id is 0 when the  *)
(* caller chose it, and the number of the Emit that drew it otherwise.     *)
Events == [fact : Facts, id : Nat, try : Nat]
Entries == [event : Events, by : Callers, attempts : Nat]
Identity(e) == <<e.fact, e.id>>

TypeOK ==
  /\ named \subseteq Facts
  /\ pc \in [Callers -> {"idle", "publish", "wait"}]
  /\ cur \in [Callers -> Events]
  /\ ack \in [Callers -> {"none", "ok", "error"}]
  /\ tries \in [Facts -> Nat] /\ failures \in [Facts -> Nat]
  /\ acked \subseteq Facts
  /\ writer \in {"open", "closing", "closed"}
  /\ queue \in [Partitions -> Seq(Entries)]
  /\ log \in [Partitions -> Seq(Events)]
  /\ end \in [Partitions -> Nat] /\ \A p \in Partitions : end[p] <= Len(log[p])
  /\ lost \subseteq Facts /\ failovers \in Nat
  /\ attempted \in [Partitions -> SUBSET Nat]
  /\ stored \subseteq Facts \X Nat
  /\ refused \subseteq Facts

Sink == INSTANCE AtLeastOnce

Init ==
  /\ named \in SUBSET Facts
  /\ pc = [c \in Callers |-> "idle"]
  /\ cur \in [Callers -> {[fact |-> f, id |-> 0, try |-> 0] : f \in Facts}]
  /\ ack = [c \in Callers |-> "none"]
  /\ tries = [f \in Facts |-> 0] /\ failures = [f \in Facts |-> 0]
  /\ acked = {}
  /\ writer = "open"
  /\ queue = [p \in Partitions |-> <<>>]
  /\ log = [p \in Partitions |-> <<>>]
  /\ Sink!Init
  /\ lost = {} /\ failovers = 0
  /\ stored = {} /\ refused = {}

-----------------------------------------------------------------------------
(* KafkaEmitter.Emit and Producer.Publish.                                 *)

(* fill works on Emit's own copy: the caller's event stays without an id,  *)
(* and an Emit called again draws a new one.                               *)
(* Fault variant: fill does not look whether there is an id already.       *)
FilledAlways(f) == [fact |-> f, id |-> tries[f] + 1, try |-> tries[f] + 1]
Filled(f) == [fact |-> f, id |-> IF f \in named THEN 0 ELSE tries[f] + 1, try |-> tries[f] + 1]

(* A caller emits its fact, and may emit it again when that failed.        *)
Emit(c) == \E f \in Facts \ acked :
  /\ pc[c] = "idle" /\ tries[f] < MaxEmits
  /\ \A d \in Callers : pc[d] # "idle" => cur[d].fact # f
  /\ pc' = [pc EXCEPT ![c] = "publish"]
  /\ cur' = [cur EXCEPT ![c] = Filled(f)]
  /\ tries' = [tries EXCEPT ![f] = @ + 1]
  /\ UNCHANGED <<named, ack, failures, acked, writer, queue, broker, sink>>

Return(c, answer) ==
  /\ pc' = [pc EXCEPT ![c] = "idle"]
  /\ ack' = [ack EXCEPT ![c] = "none"]
  /\ IF answer = "ok"
       THEN acked' = acked \cup {cur[c].fact} /\ UNCHANGED failures
       ELSE failures' = [failures EXCEPT ![cur[c].fact] = @ + 1] /\ UNCHANGED acked

(* Fault variant: Publish tries again until its message is taken.          *)
NotTakenRetries(c) == FALSE /\ UNCHANGED vars

(* The event does not marshal, the Writer is closed, or the context ends   *)
(* or the topic's partitions cannot be read before the message is queued.  *)
NotTaken(c) ==
  /\ pc[c] = "publish"
  /\ Return(c, "error")
  /\ UNCHANGED <<named, cur, tries, writer, queue, broker, sink>>

Enqueue(c, p) == queue' = [queue EXCEPT ![p] =
  Append(@, [event |-> cur[c], by |-> c, attempts |-> 0])]

(* Fault variant: the Writer is asynchronous and Publish does not wait.    *)
TakenAsync(c) == \E p \in Partitions :
  /\ pc[c] = "publish" /\ writer = "open"
  /\ Enqueue(c, p)
  /\ Return(c, "ok")
  /\ UNCHANGED <<named, cur, tries, writer, broker, sink>>

(* LeastBytes takes the partition with the least bytes so far: in effect   *)
(* any, as it knows nothing of keys.                                       *)
Taken(c) == \E p \in Partitions :
  /\ pc[c] = "publish" /\ writer = "open"
  /\ Enqueue(c, p)
  /\ pc' = [pc EXCEPT ![c] = "wait"]
  /\ UNCHANGED <<named, cur, ack, tries, failures, acked, writer, broker, sink>>

Answered(c) ==
  /\ pc[c] = "wait" /\ ack[c] # "none"
  /\ Return(c, ack[c])
  /\ UNCHANGED <<named, cur, tries, writer, queue, broker, sink>>

(* The caller's context ends: Emit fails, the message stays queued.        *)
CtxEnds(c) ==
  /\ pc[c] = "wait"
  /\ Return(c, "error")
  /\ UNCHANGED <<named, cur, tries, writer, queue, broker, sink>>

(* Close refuses new messages and waits for those it has.                  *)
Close ==
  /\ writer = "open"
  /\ writer' = "closing"
  /\ UNCHANGED <<emitters, queue, broker, sink>>

CloseReturns ==
  /\ writer = "closing"
  /\ \A p \in Partitions : queue[p] = <<>>
  /\ \A c \in Callers : pc[c] # "wait"
  /\ writer' = "closed"
  /\ UNCHANGED <<emitters, queue, broker, sink>>

-----------------------------------------------------------------------------
(* The Writer's goroutine of one partition writes the messages one by one. *)

Settle(p, answer) ==
  LET entry == Head(queue[p])
  IN  /\ queue' = [queue EXCEPT ![p] = Tail(@)]
      /\ ack' = IF pc[entry.by] = "wait" /\ cur[entry.by] = entry.event
                  THEN [ack EXCEPT ![entry.by] = answer] ELSE ack

OnceMore(entry) == [entry EXCEPT !.attempts = @ + 1]

TryAgain(p) ==
  IF Head(queue[p]).attempts + 1 < MaxAttempts
    THEN /\ queue' = [queue EXCEPT ![p] = <<OnceMore(Head(@))>> \o Tail(@)]
         /\ UNCHANGED ack
    ELSE Settle(p, "error")

AppendToLog(p) == log' = [log EXCEPT ![p] = Append(@, Head(queue[p]).event)]

WriterFrame == UNCHANGED <<named, pc, cur, tries, failures, acked, writer, end, lost,
                           failovers, sink>>

(* Fault variant: RequireNone, the Writer does not wait for the leader.    *)
WriteUnconfirmed(p) ==
  /\ queue[p] # <<>>
  /\ Settle(p, "ok")
  /\ AppendToLog(p) \/ UNCHANGED log
  /\ WriterFrame

(* RequireOne: the leader has the message when it answers.                 *)
WriteAcked(p) ==
  /\ queue[p] # <<>>
  /\ AppendToLog(p) /\ Settle(p, "ok")
  /\ WriterFrame

(* The leader has it, its answer is lost: written again, twice in the log. *)
WriteUnanswered(p) ==
  /\ queue[p] # <<>>
  /\ AppendToLog(p) /\ TryAgain(p)
  /\ WriterFrame

WriteRejected(p) ==
  /\ queue[p] # <<>>
  /\ TryAgain(p) \/ Settle(p, "error")
  /\ UNCHANGED log
  /\ WriterFrame

-----------------------------------------------------------------------------
(* The brokers and the sink.                                               *)

Replicate(p) ==
  /\ end[p] < Len(log[p])
  /\ end' = [end EXCEPT ![p] = @ + 1]
  /\ UNCHANGED <<emitters, writer, queue, log, lost, failovers, sink>>

(* A leader fails before its followers have the last messages.             *)
LeaderFails(p) == \E n \in end[p]..Len(log[p]) :
  /\ n < Len(log[p]) /\ failovers < MaxFailovers
  /\ log' = [log EXCEPT ![p] = SubSeq(@, 1, n)]
  /\ lost' = lost \cup {log[p][i].fact : i \in (n + 1)..Len(log[p])}
  /\ failovers' = failovers + 1
  /\ UNCHANGED <<emitters, writer, queue, end, sink>>

(* Fault variant: the consumer passes a message its handler never had.     *)
StorePasses(p) == \E o \in 0..(end[p] - 1) :
  /\ Sink!Deliver(p, o)
  /\ UNCHANGED <<emitters, writer, queue, broker, stored, refused>>

(* The sink's handler stores the event under its id, or fails to; the      *)
(* consumer commits and goes on either way.                                *)
Store(p) == \E o \in 0..(end[p] - 1) :
  /\ Sink!Deliver(p, o)
  /\ \/ stored' = stored \cup {Identity(log[p][o + 1])} /\ UNCHANGED refused
     \/ refused' = refused \cup {log[p][o + 1].fact} /\ UNCHANGED stored
  /\ UNCHANGED <<emitters, writer, queue, broker>>

Caller(c) == NotTaken(c) \/ Taken(c) \/ Answered(c)
Writes(p) == WriteAcked(p) \/ WriteUnanswered(p) \/ WriteRejected(p)

Next ==
  \/ \E c \in Callers : Emit(c) \/ Caller(c) \/ CtxEnds(c)
  \/ Close \/ CloseReturns
  \/ \E p \in Partitions : Writes(p) \/ Replicate(p) \/ LeaderFails(p) \/ Store(p)

(* Goroutines run, the Writer's attempts end, followers follow and the     *)
(* sink's consumer drains.                                                 *)
Spec ==
  /\ Init /\ [][Next]_vars
  /\ \A c \in Callers : WF_vars(Caller(c))
  /\ \A p \in Partitions : WF_vars(Writes(p)) /\ WF_vars(Replicate(p)) /\ WF_vars(Store(p))

-----------------------------------------------------------------------------
(* Properties.                                                             *)

OnTopic(e) == \E p \in Partitions : \E i \in DOMAIN log[p] : log[p][i] = e
FactOnTopic(f) == \E p \in Partitions : \E i \in DOMAIN log[p] : log[p][i].fact = f

(* An Emit that returned nil put its event on the topic, whatever became   *)
(* of the context and of earlier attempts; only a leader that failed before *)
(* replicating it (RequireOne) can take it away.                           *)
AckedIsOnTopic == \A f \in acked : FactOnTopic(f) \/ f \in lost

(* None is dropped between the log and the collection: at every moment an  *)
(* acknowledged fact is recorded, or a leader failed with it, or the       *)
(* sink's handler failed on it, or it stands at an offset that the sink's  *)
(* consumer has yet to hand over.                                          *)
Ahead(f) == \E p \in Partitions : \E i \in DOMAIN log[p] :
  log[p][i].fact = f /\ i - 1 \notin attempted[p]
AckedIsAccountedFor ==
  \A f \in acked : f \in lost \cup refused \/ (\E e \in stored : e[1] = f) \/ Ahead(f)

(* A fact comes to the topic under two ids only if an Emit for it failed   *)
(* and was called again with the id left blank: the Writer's own retries   *)
(* repeat the id, and a caller that names its event never has two.         *)
TwoIdsNeedFailedEmit ==
  \A p, q \in Partitions : \A i \in DOMAIN log[p], j \in DOMAIN log[q] :
    log[p][i].fact = log[q][j].fact /\ log[p][i].id # log[q][j].id =>
      log[p][i].fact \notin named /\ failures[log[p][i].fact] > 0

(* From Emit to the collection: an acknowledged fact is recorded, unless   *)
(* a leader failed with it or the sink's handler failed on it.             *)
AckedIsRecorded ==
  \A f \in Facts : f \in acked ~> f \in lost \cup refused \/ \E i \in 0..MaxEmits : <<f, i>> \in stored

(* "Fire-and-forget": Emit comes back, also from a closed Producer and     *)
(* without a context that ends.                                            *)
EmitReturns == \A c \in Callers : pc[c] # "idle" ~> pc[c] = "idle"

(* kafka_emitter.go: "keyed by event_id so Kafka partitioning preserves    *)
(* per-event ordering": the messages of one event share a partition.       *)
PerEventOrder ==
  \A p, q \in Partitions : \A i \in DOMAIN log[p], j \in DOMAIN log[q] :
    Identity(log[p][i]) = Identity(log[q][j]) => p = q
=============================================================================
