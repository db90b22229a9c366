------------------------ MODULE AuditPipeline_proofs ------------------------
(***************************************************************************)
(* Theorems about AuditPipeline, for any callers, facts and partitions and *)
(* any number of attempts, retries and failovers.                          *)
(***************************************************************************)
EXTENDS AuditPipeline, TLAPS

-----------------------------------------------------------------------------
(* The Writer's bookkeeping keeps the queues queues of entries.            *)
QueueType == [Partitions -> Seq(Entries)]

LEMMA TailType ==
  ASSUME NEW s \in Seq(Entries), s # <<>>
  PROVE  Tail(s) \in Seq(Entries) /\ Head(s) \in Entries
  OBVIOUS

LEMMA OnceMoreType == ASSUME NEW e \in Entries PROVE OnceMore(e) \in Entries
  BY DEF Entries, OnceMore

LEMMA AgainType ==
  ASSUME NEW s \in Seq(Entries), s # <<>>
  PROVE  <<OnceMore(Head(s))>> \o Tail(s) \in Seq(Entries)
  BY TailType, OnceMoreType

LEMMA SettleType ==
  ASSUME TypeOK, NEW p \in Partitions, queue[p] # <<>>,
         NEW answer \in {"ok", "error"}, Settle(p, answer)
  PROVE  queue' \in QueueType /\ ack' \in [Callers -> {"none", "ok", "error"}]
<1>1. Tail(queue[p]) \in Seq(Entries) /\ Head(queue[p]).by \in Callers
  BY TailType DEF TypeOK, Entries
<1>2. QED
  BY <1>1 DEF TypeOK, Settle, QueueType

LEMMA TryAgainType ==
  ASSUME TypeOK, NEW p \in Partitions, queue[p] # <<>>, TryAgain(p)
  PROVE  queue' \in QueueType /\ ack' \in [Callers -> {"none", "ok", "error"}]
<1>1. CASE Settle(p, "error")
  BY <1>1, SettleType
<1>2. CASE ~Settle(p, "error")
  <2>1. /\ queue' = [queue EXCEPT ![p] = <<OnceMore(Head(queue[p]))>> \o Tail(queue[p])]
        /\ ack' = ack
    BY <1>2 DEF TryAgain
  <2>2. QED
    BY <2>1, AgainType DEF TypeOK, QueueType
<1>3. QED
  BY <1>1, <1>2

LEMMA AppendType ==
  ASSUME TypeOK, NEW p \in Partitions, queue[p] # <<>>, AppendToLog(p)
  PROVE  /\ log' \in [Partitions -> Seq(Events)]
         /\ \A q \in Partitions : end[q] <= Len(log'[q])
<1>1. Head(queue[p]).event \in Events
  BY TailType DEF TypeOK, Entries
<1>2. /\ Append(log[p], Head(queue[p]).event) \in Seq(Events)
      /\ Len(Append(log[p], Head(queue[p]).event)) = Len(log[p]) + 1
  BY <1>1 DEF TypeOK
<1>3. QED
  BY <1>2 DEF TypeOK, AppendToLog

LEMMA ReturnType ==
  ASSUME TypeOK, NEW c \in Callers, NEW answer, Return(c, answer)
  PROVE  /\ pc' \in [Callers -> {"idle", "publish", "wait"}]
         /\ ack' \in [Callers -> {"none", "ok", "error"}]
         /\ acked' \subseteq Facts /\ failures' \in [Facts -> Nat]
<1>1. cur[c].fact \in Facts
  BY DEF TypeOK, Events
<1>2. CASE answer = "ok"
  BY <1>1, <1>2 DEF TypeOK, Return
<1>3. CASE answer # "ok"
  BY <1>1, <1>3 DEF TypeOK, Return
<1>4. QED
  BY <1>2, <1>3

LEMMA FilledType == ASSUME TypeOK, NEW f \in Facts PROVE Filled(f) \in Events
  BY DEF TypeOK, Filled, Events

LEMMA InitType == Init => TypeOK
  BY AuditAssumption DEF Init, TypeOK, Sink!Init, Events

LEMMA StepType == TypeOK /\ [Next]_vars => TypeOK'
<1> SUFFICES ASSUME TypeOK, [Next]_vars PROVE TypeOK'
  OBVIOUS
<1> USE DEF TypeOK, emitters, broker, sink
<1>1. ASSUME NEW c \in Callers, Emit(c) PROVE TypeOK'
  BY <1>1, FilledType DEF Emit
<1>2. ASSUME NEW c \in Callers, Caller(c) \/ CtxEnds(c) PROVE TypeOK'
  <2>2. CASE NotTaken(c)
    BY <2>2, ReturnType DEF NotTaken
  <2>3. CASE Taken(c)
    <3>1. PICK p \in Partitions : Enqueue(c, p)
      BY <2>3 DEF Taken
    <3>2. [event |-> cur[c], by |-> c, attempts |-> 0] \in Entries
      BY DEF Entries
    <3>3. queue' \in QueueType
      BY <3>1, <3>2 DEF Enqueue, QueueType
    <3>4. QED
      BY <2>3, <3>3 DEF Taken, QueueType
  <2>4. CASE Answered(c)
    BY <2>4, ReturnType DEF Answered
  <2>5. CASE CtxEnds(c)
    BY <2>5, ReturnType DEF CtxEnds
  <2>6. QED
    BY <1>2, <2>2, <2>3, <2>4, <2>5 DEF Caller
<1>3. CASE Close \/ CloseReturns
  BY <1>3 DEF Close, CloseReturns
<1>4. ASSUME NEW p \in Partitions, Writes(p) PROVE TypeOK'
  <2>1. queue[p] # <<>> /\ WriterFrame
    BY <1>4 DEF Writes, WriteAcked, WriteUnanswered, WriteRejected
  <2>2. queue' \in QueueType /\ ack' \in [Callers -> {"none", "ok", "error"}]
    BY <1>4, <2>1, SettleType, TryAgainType DEF Writes, WriteAcked, WriteUnanswered, WriteRejected
  <2>3. /\ log' \in [Partitions -> Seq(Events)]
        /\ \A q \in Partitions : end[q] <= Len(log'[q])
    BY <1>4, <2>1, AppendType DEF Writes, WriteAcked, WriteUnanswered, WriteRejected
  <2>4. QED
    BY <2>1, <2>2, <2>3 DEF WriterFrame, QueueType
<1>5. ASSUME NEW p \in Partitions, Replicate(p) PROVE TypeOK'
  BY <1>5 DEF Replicate
<1>6. ASSUME NEW p \in Partitions, LeaderFails(p) PROVE TypeOK'
  <2>1. PICK n \in end[p]..Len(log[p]) :
          /\ log' = [log EXCEPT ![p] = SubSeq(log[p], 1, n)]
          /\ lost' = lost \cup {log[p][i].fact : i \in (n + 1)..Len(log[p])}
    BY <1>6 DEF LeaderFails
  <2>2. /\ Len(log[p]) \in Nat /\ n \in 0..Len(log[p]) /\ end[p] <= n
        /\ \A i \in (n + 1)..Len(log[p]) : log[p][i] \in Events
    OBVIOUS
  <2>3. SubSeq(log[p], 1, n) \in Seq(Events) /\ Len(SubSeq(log[p], 1, n)) = n
    BY <2>2
  <2>4. lost' \subseteq Facts
    BY <2>1, <2>2 DEF Events
  <2>5. QED
    BY <1>6, <2>1, <2>2, <2>3, <2>4 DEF LeaderFails
<1>7. ASSUME NEW p \in Partitions, Store(p) PROVE TypeOK'
  <2>1. PICK o \in 0..(end[p] - 1) :
          /\ Sink!Deliver(p, o)
          /\ \/ stored' = stored \cup {Identity(log[p][o + 1])} /\ UNCHANGED refused
             \/ refused' = refused \cup {log[p][o + 1].fact} /\ UNCHANGED stored
    BY <1>7 DEF Store
  <2>2. log[p][o + 1] \in Events
    <3>1. o + 1 \in 1..Len(log[p])
      OBVIOUS
    <3>2. QED
      BY <3>1
  <2>3. Identity(log[p][o + 1]) \in Facts \X Nat /\ log[p][o + 1].fact \in Facts
    BY <2>2 DEF Events, Identity
  <2>4. attempted' \in [Partitions -> SUBSET Nat]
    BY <2>1 DEF Sink!Deliver
  <2>5. QED
    BY <1>7, <2>1, <2>3, <2>4 DEF Store
<1>8. CASE UNCHANGED vars
  BY <1>8 DEF vars
<1>9. QED
  BY <1>1, <1>2, <1>3, <1>4, <1>5, <1>6, <1>7, <1>8 DEF Next

(* Type correctness of the pipeline; what is readable is in the log.       *)
THEOREM TypeCorrect == Spec => []TypeOK
  BY InitType, StepType, PTL DEF Spec

-----------------------------------------------------------------------------
(* Why an acknowledged fact is on the topic.  The Writer answers "ok" with *)
(* the append, and what is on a log leaves it for lost only.               *)
Safe(f) == FactOnTopic(f) \/ f \in lost

AckInv ==
  /\ AckedIsOnTopic
  /\ \A c \in Callers : pc[c] # "wait" => ack[c] = "none"
  /\ \A c \in Callers : ack[c] = "ok" => Safe(cur[c].fact)

LEMMA AppendKeeps ==
  ASSUME TypeOK, NEW p \in Partitions, queue[p] # <<>>, AppendToLog(p)
  PROVE  /\ \A f \in Facts : FactOnTopic(f) => FactOnTopic(f)'
         /\ \A f : f = Head(queue[p]).event.fact => FactOnTopic(f)'
<1> DEFINE e == Head(queue[p]).event
<1>1. /\ log' = [log EXCEPT ![p] = Append(log[p], e)]
      /\ log \in [Partitions -> Seq(Events)]
  BY DEF AppendToLog, TypeOK
<1>2. e \in Events
  BY TailType DEF TypeOK, Entries
<1> HIDE DEF e
<1>3. ASSUME NEW q \in Partitions, NEW i \in DOMAIN log[q]
      PROVE  i \in DOMAIN log'[q] /\ log'[q][i] = log[q][i]
  BY <1>1, <1>2
<1>4. \E i \in DOMAIN log'[p] : log'[p][i] = e
  <2>0. log'[p] = Append(log[p], e) /\ log[p] \in Seq(Events)
    BY <1>1
  <2>1. /\ Len(log[p]) + 1 \in DOMAIN log'[p]
        /\ log'[p][Len(log[p]) + 1] = e
    BY <1>2, <2>0
  <2>2. QED
    BY <2>1
<1>5. ASSUME NEW f, FactOnTopic(f) PROVE FactOnTopic(f)'
  <2>1. PICK q \in Partitions : \E i \in DOMAIN log[q] : log[q][i].fact = f
    BY <1>5 DEF FactOnTopic
  <2>2. \E i \in DOMAIN log'[q] : log'[q][i].fact = f
    BY <1>3, <2>1
  <2>3. QED
    BY <2>2 DEF FactOnTopic
<1>6. \A f : f = e.fact => FactOnTopic(f)'
  BY <1>4 DEF FactOnTopic
<1>7. QED
  BY <1>5, <1>6 DEF e

LEMMA CutGoesToLost ==
  ASSUME TypeOK, NEW p \in Partitions, LeaderFails(p), NEW f \in Facts, Safe(f)
  PROVE  Safe(f)'
<1>1. PICK n \in end[p]..Len(log[p]) :
        /\ log' = [log EXCEPT ![p] = SubSeq(log[p], 1, n)]
        /\ lost' = lost \cup {log[p][i].fact : i \in (n + 1)..Len(log[p])}
  BY DEF LeaderFails
<1>2. CASE f \in lost
  BY <1>1, <1>2 DEF Safe
<1>3. CASE f \notin lost
  <2>0. PICK q \in Partitions : \E i \in DOMAIN log[q] : log[q][i].fact = f
    BY <1>3 DEF Safe, FactOnTopic
  <2>1. PICK i \in DOMAIN log[q] : log[q][i].fact = f
    BY <2>0
  <2>2. log[q] \in Seq(Events) /\ log[p] \in Seq(Events) /\ n \in 0..Len(log[p])
    BY DEF TypeOK
  <2>3. CASE q # p
    <3>1. log'[q] = log[q]
      BY <1>1, <2>3 DEF TypeOK
    <3>2. QED
      BY <2>1, <3>1 DEF Safe, FactOnTopic
  <2>4. CASE q = p /\ i <= n
    <3>1. log'[p] = SubSeq(log[p], 1, n)
      BY <1>1 DEF TypeOK
    <3>2. i \in DOMAIN log'[p] /\ log'[p][i] = log[p][i]
      BY <2>2, <2>4, <3>1
    <3>3. QED
      BY <2>1, <2>4, <3>2 DEF Safe, FactOnTopic
  <2>5. CASE q = p /\ ~(i <= n)
    <3>1. i \in (n + 1)..Len(log[p])
      BY <2>2, <2>5
    <3>2. QED
      BY <1>1, <2>1, <2>5, <3>1 DEF Safe
  <2>6. QED
    BY <2>3, <2>4, <2>5
<1>4. QED
  BY <1>2, <1>3

LEMMA SafeStays == TypeOK /\ [Next]_vars => \A f \in Facts : Safe(f) => Safe(f)'
<1> SUFFICES ASSUME TypeOK, [Next]_vars, NEW f \in Facts, Safe(f) PROVE Safe(f)'
  OBVIOUS
<1>1. CASE UNCHANGED <<log, lost>>
  BY <1>1 DEF Safe, FactOnTopic
<1>2. ASSUME NEW p \in Partitions, Writes(p) PROVE Safe(f)'
  <2>1. queue[p] # <<>> /\ lost' = lost /\ (log' = log \/ AppendToLog(p))
    BY <1>2 DEF Writes, WriteAcked, WriteUnanswered, WriteRejected, WriterFrame
  <2>2. QED
    BY <1>1, <2>1, AppendKeeps DEF Safe
<1>3. ASSUME NEW p \in Partitions, LeaderFails(p) PROVE Safe(f)'
  BY <1>3, CutGoesToLost
<1>4. CASE /\ ~\E p \in Partitions : Writes(p) \/ LeaderFails(p)
  <2>1. UNCHANGED <<log, lost>>
    BY <1>4 DEF Next, vars, broker, Emit, Caller, NotTaken, Taken, Answered, CtxEnds, Close,
       CloseReturns, Replicate, Store
  <2>2. QED
    BY <1>1, <2>1
<1>5. QED
  BY <1>2, <1>3, <1>4

LEMMA InitAck == Init => AckInv
  BY DEF Init, AckInv, AckedIsOnTopic

LEMMA StepAck == TypeOK /\ AckInv /\ [Next]_vars => AckInv'
<1> SUFFICES ASSUME TypeOK, AckInv, [Next]_vars PROVE AckInv'
  OBVIOUS
<1>0. /\ \A f \in Facts : Safe(f) => Safe(f)'
      /\ acked \subseteq Facts /\ \A c \in Callers : cur[c].fact \in Facts
  BY SafeStays DEF TypeOK, Events
<1>1. CASE UNCHANGED <<pc, ack, cur, acked>>
  BY <1>0, <1>1 DEF AckInv, AckedIsOnTopic, Safe
<1>2. ASSUME NEW c \in Callers, Emit(c) PROVE AckInv'
  BY <1>0, <1>2 DEF Emit, AckInv, AckedIsOnTopic, Safe, TypeOK
<1>3. ASSUME NEW c \in Callers, Caller(c) \/ CtxEnds(c) PROVE AckInv'
  <2>1. CASE Taken(c)
    BY <1>0, <2>1 DEF Taken, AckInv, AckedIsOnTopic, Safe, TypeOK
  <2>2. ASSUME NEW answer \in {"ok", "error"}, Return(c, answer), cur' = cur,
               answer = "ok" => Safe(cur[c].fact)
        PROVE  AckInv'
    <3>1. /\ pc' = [pc EXCEPT ![c] = "idle"] /\ ack' = [ack EXCEPT ![c] = "none"]
          /\ \A f \in acked' : f \in acked \/ (answer = "ok" /\ f = cur[c].fact)
      BY <2>2 DEF Return
    <3>2. \A f \in acked' : Safe(f)'
      BY <1>0, <2>2, <3>1 DEF AckInv, AckedIsOnTopic, Safe
    <3>3. QED
      BY <1>0, <2>2, <3>1, <3>2 DEF AckInv, AckedIsOnTopic, Safe, TypeOK
  <2>3. CASE NotTaken(c) \/ CtxEnds(c)
    BY <2>2, <2>3 DEF NotTaken, CtxEnds
  <2>4. CASE Answered(c)
    <3>1. ack[c] \in {"ok", "error"} /\ Return(c, ack[c]) /\ cur' = cur
      BY <2>4 DEF Answered, TypeOK
    <3>2. QED
      BY <2>2, <3>1 DEF AckInv
  <2>5. QED
    BY <1>3, <2>1, <2>3, <2>4 DEF Caller
<1>4. ASSUME NEW p \in Partitions, Writes(p) PROVE AckInv'
  <2> DEFINE entry == Head(queue[p])
  <2>1. /\ queue[p] # <<>> /\ UNCHANGED <<pc, cur, acked>>
    BY <1>4 DEF Writes, WriteAcked, WriteUnanswered, WriteRejected, WriterFrame
  <2>2. ASSUME NEW answer \in {"ok", "error"}, Settle(p, answer),
               answer = "ok" => \A f : f = entry.event.fact => FactOnTopic(f)'
        PROVE  AckInv'
    <3>1. \/ ack' = ack
          \/ /\ pc[entry.by] = "wait" /\ cur[entry.by] = entry.event
             /\ ack' = [ack EXCEPT ![entry.by] = answer]
      BY <2>2 DEF Settle
    <3>2. CASE ack' = ack
      BY <1>1, <2>1, <3>2
    <3>3. CASE ack' # ack
      <4>1. /\ pc[entry.by] = "wait" /\ cur[entry.by] = entry.event
            /\ ack' = [ack EXCEPT ![entry.by] = answer]
        BY <3>1, <3>3
      <4>2. ASSUME NEW c \in Callers, c = entry.by, answer = "ok" PROVE Safe(cur[c].fact)'
        BY <2>1, <2>2, <4>1, <4>2 DEF Safe
      <4> HIDE DEF entry
      <4>3. \A c \in Callers : ack'[c] = "ok" => Safe(cur[c].fact)'
        <5>1. SUFFICES ASSUME NEW c \in Callers, ack'[c] = "ok" PROVE Safe(cur[c].fact)'
          OBVIOUS
        <5>2. CASE c = entry.by
          <6>1. answer = "ok"
            BY <4>1, <5>1, <5>2 DEF TypeOK
          <6>2. QED
            BY <4>2, <5>2, <6>1
        <5>3. CASE c # entry.by
          <6>1. ack[c] = "ok"
            BY <4>1, <5>1, <5>3 DEF TypeOK
          <6>2. Safe(cur[c].fact)
            BY <6>1 DEF AckInv
          <6>3. QED
            BY <1>0, <2>1, <6>2 DEF Safe
        <5>4. QED
          BY <5>2, <5>3
      <4>4. AckedIsOnTopic' /\ \A c \in Callers : pc'[c] # "wait" => ack'[c] = "none"
        <5>1. AckedIsOnTopic'
          BY <1>0, <2>1 DEF AckInv, AckedIsOnTopic, Safe
        <5>2. \A c \in Callers : pc'[c] # "wait" => ack'[c] = "none"
          BY <2>1, <4>1 DEF AckInv, TypeOK
        <5>3. QED
          BY <5>1, <5>2
      <4>5. QED
        BY <4>3, <4>4 DEF AckInv
    <3>4. QED
      BY <3>2, <3>3
  <2>3. CASE WriteAcked(p)
    BY <2>1, <2>2, <2>3, AppendKeeps DEF WriteAcked
  <2>4. CASE WriteUnanswered(p) \/ WriteRejected(p)
    <3>1. ack' = ack \/ Settle(p, "error")
      BY <2>4 DEF WriteUnanswered, WriteRejected, TryAgain
    <3>2. QED
      BY <1>1, <2>1, <2>2, <3>1
  <2>5. QED
    BY <1>4, <2>3, <2>4 DEF Writes
<1>5. CASE /\ ~\E c \in Callers : Emit(c) \/ Caller(c) \/ CtxEnds(c)
           /\ ~\E p \in Partitions : Writes(p)
  <2>1. UNCHANGED <<pc, ack, cur, acked>>
    BY <1>5 DEF Next, vars, emitters, Close, CloseReturns, Replicate, LeaderFails, Store
  <2>2. QED
    BY <1>1, <2>1
<1>6. QED
  BY <1>2, <1>3, <1>4, <1>5

(* Emit's nil means that the event is on the topic, failing leaders apart. *)
THEOREM AcknowledgedIsPublished == Spec => []AckedIsOnTopic
<1>1. AckInv => AckedIsOnTopic
  BY DEF AckInv
<1>2. QED
  BY <1>1, InitType, InitAck, StepType, StepAck, PTL DEF Spec

-----------------------------------------------------------------------------
(* Why no acknowledged fact is dropped on the way to the collection.  What *)
(* is readable stays as it is, so what the sink's handler was given is     *)
(* still there, and it was stored or refused.                              *)
Handled(e) == Identity(e) \in stored \/ e.fact \in refused
HandedInv == \A p \in Partitions : \A o \in attempted[p] : o < end[p] /\ Handled(log[p][o + 1])

LEMMA ReadableStays ==
  ASSUME TypeOK, [Next]_vars, NEW p \in Partitions
  PROVE  end'[p] \in Nat /\ end[p] <= end'[p] /\ \A i \in 1..end[p] : log'[p][i] = log[p][i]
<1>1. /\ log[p] \in Seq(Events) /\ Len(log[p]) \in Nat /\ end[p] \in Nat /\ end[p] <= Len(log[p])
      /\ DOMAIN log = Partitions /\ end'[p] \in Nat
  BY StepType DEF TypeOK
<1>2. CASE log' = log /\ end' = end
  BY <1>1, <1>2
<1>3. ASSUME NEW q \in Partitions, Writes(q) PROVE end' = end /\ \A i \in 1..end[p] : log'[p][i] = log[p][i]
  <2>1. queue[q] # <<>> /\ end' = end /\ (log' = log \/ AppendToLog(q))
    BY <1>3 DEF Writes, WriteAcked, WriteUnanswered, WriteRejected, WriterFrame
  <2>2. CASE AppendToLog(q)
    <3> DEFINE e == Head(queue[q]).event
    <3>1. e \in Events
      BY <2>1, TailType DEF TypeOK, Entries
    <3>2. log' = [log EXCEPT ![q] = Append(log[q], e)] /\ log[q] \in Seq(Events)
      BY <2>2 DEF AppendToLog, TypeOK
    <3> HIDE DEF e
    <3>3. \A i \in 1..Len(log[q]) : Append(log[q], e)[i] = log[q][i]
      BY <3>1, <3>2
    <3> QED BY <1>1, <2>1, <3>2, <3>3
  <2> QED BY <2>1, <2>2
<1>4. ASSUME NEW q \in Partitions, LeaderFails(q) PROVE end' = end /\ \A i \in 1..end[p] : log'[p][i] = log[p][i]
  <2>1. PICK n \in end[q]..Len(log[q]) : log' = [log EXCEPT ![q] = SubSeq(log[q], 1, n)]
    BY <1>4 DEF LeaderFails
  <2>2. log[q] \in Seq(Events) /\ end[q] \in Nat /\ n \in 0..Len(log[q]) /\ end[q] <= n
    BY DEF TypeOK
  <2>3. \A i \in 1..n : SubSeq(log[q], 1, n)[i] = log[q][i]
    BY <2>2
  <2>4. end' = end
    BY <1>4 DEF LeaderFails
  <2> QED BY <1>1, <2>1, <2>2, <2>3, <2>4
<1>5. ASSUME NEW q \in Partitions, Replicate(q) PROVE log' = log /\ end[p] <= end'[p]
  BY <1>1, <1>5 DEF Replicate, TypeOK
<1>6. CASE ~\E q \in Partitions : Writes(q) \/ LeaderFails(q) \/ Replicate(q)
  <2>1. log' = log /\ end' = end
    BY <1>6 DEF Next, vars, broker, Emit, Caller, NotTaken, Taken, Answered, CtxEnds, Close, CloseReturns, Store
  <2> QED BY <1>2, <2>1
<1> QED BY <1>1, <1>2, <1>3, <1>4, <1>5, <1>6

LEMMA InitHanded == Init => HandedInv
  BY DEF Init, Sink!Init, HandedInv

LEMMA StepHanded == TypeOK /\ HandedInv /\ [Next]_vars => HandedInv'
<1> SUFFICES ASSUME TypeOK, HandedInv, [Next]_vars, NEW p \in Partitions, NEW o \in attempted'[p]
             PROVE  o < end'[p] /\ Handled(log[p][o + 1])'
  BY DEF HandedInv
<1>1. /\ end'[p] \in Nat /\ end[p] \in Nat /\ end[p] <= end'[p] /\ \A i \in 1..end[p] : log'[p][i] = log[p][i]
      /\ attempted[p] \in SUBSET Nat
  BY ReadableStays DEF TypeOK
<1>2. stored \subseteq stored' /\ refused \subseteq refused'
  <2>1. CASE \E q \in Partitions : Store(q)
    BY <2>1 DEF Store
  <2>2. CASE ~\E q \in Partitions : Store(q)
    <3>1. UNCHANGED <<stored, refused>>
      BY <2>2 DEF Next, vars, sink, Emit, Caller, NotTaken, Taken, Answered, CtxEnds, Close, CloseReturns,
         Writes, WriteAcked, WriteUnanswered, WriteRejected, WriterFrame, Replicate, LeaderFails
    <3> QED BY <3>1
  <2> QED BY <2>1, <2>2
<1>3. CASE o \in attempted[p]
  <2>1. o \in Nat /\ o < end[p] /\ Handled(log[p][o + 1])
    BY <1>1, <1>3 DEF HandedInv
  <2>2. o + 1 \in 1..end[p]
    BY <1>1, <2>1
  <2> QED BY <1>1, <1>2, <2>1, <2>2 DEF Handled
<1>4. CASE o \notin attempted[p]
  <2>1. PICK q \in Partitions : Store(q)
    <3>1. attempted' # attempted
      BY <1>4
    <3> QED
      BY <3>1 DEF Next, vars, sink, Emit, Caller, NotTaken, Taken, Answered, CtxEnds, Close, CloseReturns,
         Writes, WriteAcked, WriteUnanswered, WriteRejected, WriterFrame, Replicate, LeaderFails
  <2>2. PICK x \in 0..(end[q] - 1) :
          /\ Sink!Deliver(q, x)
          /\ \/ stored' = stored \cup {Identity(log[q][x + 1])}
             \/ refused' = refused \cup {log[q][x + 1].fact}
    BY <2>1 DEF Store
  <2>3. p = q /\ o = x
    BY <1>4, <2>2 DEF Sink!Deliver, TypeOK
  <2>4. o < end[p] /\ o + 1 \in 1..end[p]
    BY <1>1, <2>2, <2>3
  <2> QED BY <1>1, <2>2, <2>3, <2>4 DEF Handled
<1> QED BY <1>3, <1>4

(* Between the log and the collection no acknowledged fact is dropped.     *)
THEOREM AcknowledgedIsAccountedFor == Spec => []AckedIsAccountedFor
<1>1. TypeOK /\ AckInv /\ HandedInv => AckedIsAccountedFor
  <2> SUFFICES ASSUME TypeOK, AckInv, HandedInv, NEW f \in acked, f \notin lost
               PROVE  f \in refused \/ (\E e \in stored : e[1] = f) \/ Ahead(f)
    BY DEF AckedIsAccountedFor
  <2>1. PICK p \in Partitions : \E i \in DOMAIN log[p] : log[p][i].fact = f
    BY DEF AckInv, AckedIsOnTopic, FactOnTopic
  <2>2. PICK i \in DOMAIN log[p] : log[p][i].fact = f
    BY <2>1
  <2>3. i \in Nat /\ i = (i - 1) + 1
    BY DEF TypeOK
  <2>4. CASE i - 1 \in attempted[p]
    <3>1. Handled(log[p][i])
      BY <2>3, <2>4 DEF HandedInv
    <3> QED BY <2>2, <3>1 DEF Handled, Identity
  <2>5. CASE i - 1 \notin attempted[p]
    BY <2>2, <2>5 DEF Ahead
  <2> QED BY <2>4, <2>5
<1>2. TypeOK /\ AckInv /\ HandedInv /\ [Next]_vars => (TypeOK /\ AckInv /\ HandedInv)'
  BY StepType, StepAck, StepHanded
<1>3. Init => TypeOK /\ AckInv /\ HandedInv
  BY InitType, InitAck, InitHanded
<1> QED BY <1>1, <1>2, <1>3, PTL DEF Spec

-----------------------------------------------------------------------------
(* The seam to kafka.Consumer: the pipeline asks no more of the sink's     *)
(* consumer than the abstract group promises, which KafkaConsumer keeps.   *)
LEMMA InitSink == Init => Sink!Init
  BY DEF Init, Sink!Init

LEMMA StepSink == TypeOK /\ [Next]_vars => [Sink!Next]_(Sink!vars)
<1> SUFFICES ASSUME TypeOK, [Next]_vars PROVE [Sink!Next]_(Sink!vars)
  OBVIOUS
<1>1. CASE \E p \in Partitions : Replicate(p)
  <2>1. PICK p \in Partitions : end' = [end EXCEPT ![p] = end[p] + 1] /\ attempted' = attempted
    BY <1>1 DEF Replicate, sink
  <2> QED BY <2>1 DEF Sink!Next, Sink!AppendTo
<1>2. CASE \E p \in Partitions : Store(p)
  <2>1. PICK p \in Partitions : (\E o \in 0..(end[p] - 1) : Sink!Deliver(p, o)) /\ end' = end
    BY <1>2 DEF Store, broker
  <2> QED BY <2>1 DEF Sink!Next, Sink!DeliverFrom
<1>3. CASE ~\E p \in Partitions : Replicate(p) \/ Store(p)
  <2>1. UNCHANGED <<end, attempted>>
    BY <1>3 DEF Next, vars, broker, sink, Emit, Caller, NotTaken, Taken, Answered, CtxEnds, Close, CloseReturns,
       Writes, WriteAcked, WriteUnanswered, WriteRejected, WriterFrame, LeaderFails
  <2> QED BY <2>1 DEF Sink!vars
<1> QED BY <1>1, <1>2, <1>3

THEOREM SinkIsAGroup == Spec => Sink!Spec
  BY InitSink, StepSink, TypeCorrect, PTL DEF Spec, Sink!Spec

(* What any group with the abstract promise gives its handler: messages    *)
(* that are readable, each partition's first deliveries in order.          *)
InOrder == \A p \in Partitions : \A o \in attempted[p] :
  o \in Nat /\ o < end[p] /\ \A q \in 0..(o - 1) : q \in attempted[p]
GroupOK == end \in [Partitions -> Nat] /\ attempted \in [Partitions -> SUBSET Nat] /\ InOrder

LEMMA StepInOrder == GroupOK /\ [Sink!Next]_(Sink!vars) => GroupOK'
<1> SUFFICES ASSUME GroupOK, [Sink!Next]_(Sink!vars) PROVE GroupOK'
  OBVIOUS
<1>1. ASSUME NEW p \in Partitions, Sink!AppendTo(p) PROVE GroupOK'
  BY <1>1 DEF GroupOK, InOrder, Sink!AppendTo
<1>2. ASSUME NEW p \in Partitions, Sink!DeliverFrom(p) PROVE GroupOK'
  <2>1. PICK o \in 0..(end[p] - 1) :
          /\ \A q \in 0..(o - 1) : q \in attempted[p]
          /\ attempted' = [attempted EXCEPT ![p] = attempted[p] \cup {o}]
    BY <1>2 DEF Sink!DeliverFrom, Sink!Deliver
  <2>2. o \in Nat /\ o < end[p] /\ end' = end
    BY <1>2, <2>1 DEF GroupOK, Sink!DeliverFrom
  <2>3. attempted' \in [Partitions -> SUBSET Nat]
    BY <2>1, <2>2 DEF GroupOK
  <2>4. ASSUME NEW r \in Partitions, NEW x \in attempted'[r]
        PROVE  x \in Nat /\ x < end[r] /\ \A q \in 0..(x - 1) : q \in attempted'[r]
    BY <2>1, <2>2, <2>4 DEF GroupOK, InOrder
  <2> QED BY <2>2, <2>3, <2>4 DEF GroupOK, InOrder
<1>3. CASE UNCHANGED Sink!vars
  BY <1>3 DEF Sink!vars, GroupOK, InOrder
<1> QED BY <1>1, <1>2, <1>3 DEF Sink!Next

LEMMA GroupsDeliverInOrder == Sink!Spec => []InOrder
<1>1. Sink!Init => GroupOK
  BY DEF Sink!Init, GroupOK, InOrder
<1>2. GroupOK => InOrder
  BY DEF GroupOK
<1> QED BY <1>1, <1>2, StepInOrder, PTL DEF Sink!Spec

(* So the sink's handler gets readable messages, in order the first time.  *)
THEOREM SinkDeliversInOrder == Spec => []InOrder
  BY SinkIsAGroup, GroupsDeliverInOrder, PTL

-----------------------------------------------------------------------------
(* Why two ids need a failed Emit.  Every event in flight or on a log      *)
(* carries its caller's id or the number of an Emit that has begun, and of *)
(* the Emits of a fact all but one have failed.                            *)
Sound(e) == IF e.fact \in named THEN e.id = 0 ELSE e.id \in 1..tries[e.fact]

EventsSound ==
  /\ \A c \in Callers : pc[c] # "idle" => Sound(cur[c])
  /\ \A p \in Partitions : \A i \in DOMAIN queue[p] : Sound(queue[p][i].event)
  /\ \A p \in Partitions : \A i \in DOMAIN log[p] : Sound(log[p][i])

Busy(f) == f \in acked \/ \E c \in Callers : pc[c] # "idle" /\ cur[c].fact = f

TriesBound == \A f \in Facts : /\ tries[f] <= failures[f] + 1
                               /\ ~Busy(f) => tries[f] <= failures[f]

IdInv == EventsSound /\ TriesBound

LEMMA InitId == Init => IdInv
  BY DEF Init, IdInv, EventsSound, TriesBound

LEMMA StepTries == TypeOK /\ TriesBound /\ [Next]_vars => TriesBound'
<1> SUFFICES ASSUME TypeOK, TriesBound, [Next]_vars PROVE TriesBound'
  OBVIOUS
<1> USE DEF TypeOK, TriesBound, Busy
<1>1. ASSUME NEW c \in Callers, Emit(c) PROVE TriesBound'
  <2>1. PICK f \in Facts \ acked :
          /\ pc[c] = "idle" /\ \A d \in Callers : pc[d] # "idle" => cur[d].fact # f
          /\ pc' = [pc EXCEPT ![c] = "publish"] /\ cur' = [cur EXCEPT ![c] = Filled(f)]
          /\ tries' = [tries EXCEPT ![f] = @ + 1] /\ UNCHANGED <<failures, acked>>
    BY <1>1 DEF Emit
  <2>2. tries[f] <= failures[f]
    BY <2>1
  <2>3. Busy(f)'
    BY <2>1 DEF Filled
  <2>4. \A g \in Facts : g # f /\ Busy(g) => Busy(g)'
    BY <2>1
  <2>5. QED
    BY <2>1, <2>2, <2>3, <2>4
<1>2. ASSUME NEW c \in Callers, NEW answer, Return(c, answer), UNCHANGED <<cur, tries>>
      PROVE  TriesBound'
  <2>1. cur[c].fact \in Facts /\ pc' = [pc EXCEPT ![c] = "idle"]
    BY <1>2 DEF Return, Events
  <2>2. CASE answer = "ok"
    BY <1>2, <2>1, <2>2 DEF Return
  <2>3. CASE answer # "ok"
    <3>1. /\ failures' = [failures EXCEPT ![cur[c].fact] = @ + 1]
          /\ UNCHANGED <<cur, tries, acked>>
      BY <1>2, <2>3 DEF Return
    <3>2. \A f \in Facts : f # cur[c].fact /\ Busy(f) => Busy(f)'
      BY <2>1, <3>1
    <3>3. \A f \in Facts : f # cur[c].fact => failures'[f] = failures[f]
      BY <3>1
    <3>4. failures'[cur[c].fact] = failures[cur[c].fact] + 1
      BY <2>1, <3>1
    <3>5. \A f \in Facts : f # cur[c].fact => /\ tries'[f] <= failures'[f] + 1
                                              /\ ~Busy(f)' => tries'[f] <= failures'[f]
      BY <3>1, <3>2, <3>3
    <3>6. tries'[cur[c].fact] <= failures'[cur[c].fact]
      BY <2>1, <3>1, <3>4
    <3>7. \A f \in Facts : failures'[f] \in Nat /\ tries'[f] \in Nat
      BY <3>1
    <3>8. QED
      BY <3>5, <3>6, <3>7
  <2>4. QED
    BY <2>2, <2>3
<1>3. ASSUME NEW c \in Callers, Caller(c) \/ CtxEnds(c) PROVE TriesBound'
  <2>1. CASE Taken(c)
    BY <2>1 DEF Taken
  <2>2. CASE ~Taken(c)
    <3>1. \E answer : Return(c, answer) /\ UNCHANGED <<cur, tries>>
      BY <1>3, <2>2 DEF Caller, NotTaken, Answered, CtxEnds
    <3>2. QED
      BY <1>2, <3>1
  <2>3. QED
    BY <2>1, <2>2
<1>4. CASE ~\E c \in Callers : Emit(c) \/ Caller(c) \/ CtxEnds(c)
  <2>1. UNCHANGED <<pc, cur, tries, failures, acked>>
    BY <1>4 DEF Next, vars, emitters, Close, CloseReturns, Writes, WriteAcked, WriteUnanswered,
       WriteRejected, WriterFrame, Replicate, LeaderFails, Store
  <2>2. QED
    BY <2>1
<1>5. QED
  BY <1>1, <1>3, <1>4

(* Numbers of Emits only grow, so a sound event stays sound.               *)
LEMMA SoundStays ==
  ASSUME TypeOK, [Next]_vars, NEW e \in Events, Sound(e)
  PROVE  Sound(e)'
<1>1. named' = named /\ \A f \in Facts : tries'[f] \in Nat /\ tries'[f] >= tries[f]
  <2>1. CASE \E c \in Callers : Emit(c)
    BY <2>1 DEF Emit, TypeOK
  <2>2. CASE ~\E c \in Callers : Emit(c)
    <3>1. UNCHANGED <<named, tries>>
      BY <2>2 DEF Next, vars, emitters, Caller, NotTaken, Taken, Answered, CtxEnds, Close,
         CloseReturns, Writes, WriteAcked, WriteUnanswered, WriteRejected, WriterFrame, Replicate,
         LeaderFails, Store
    <3>2. QED
      BY <3>1 DEF TypeOK
  <2>3. QED
    BY <2>1, <2>2
<1>2. e.fact \in Facts /\ e.id \in Nat /\ tries[e.fact] \in Nat
  BY DEF Events, TypeOK
<1>3. QED
  BY <1>1, <1>2 DEF Sound

(* What a Writer step does with sequences: it drops or repeats the head of *)
(* a queue and may append its event to the log.                            *)
LEMMA WriterMoves ==
  ASSUME TypeOK, NEW p \in Partitions, Writes(p)
  PROVE  /\ queue[p] # <<>> /\ UNCHANGED <<pc, cur>>
         /\ \A q \in Partitions : \A i \in DOMAIN queue'[q] :
              \E j \in DOMAIN queue[q] : queue'[q][i].event = queue[q][j].event
         /\ \A q \in Partitions : \A i \in DOMAIN log'[q] :
              \/ i \in DOMAIN log[q] /\ log'[q][i] = log[q][i]
              \/ \E j \in DOMAIN queue[p] : log'[q][i] = queue[p][j].event
<1>1. queue[p] # <<>> /\ UNCHANGED <<pc, cur>>
  BY DEF Writes, WriteAcked, WriteUnanswered, WriteRejected, WriterFrame
<1> DEFINE s == queue[p]
<1>2. /\ s \in Seq(Entries) /\ Len(s) \in Nat \ {0} /\ DOMAIN s = 1..Len(s) /\ Head(s) = s[1]
      /\ Tail(s) \in Seq(Entries) /\ Head(s) \in Entries
  <2>1. s \in Seq(Entries)
    BY DEF TypeOK
  <2>2. QED
    BY <1>1, <2>1
<1>3. \A i \in DOMAIN Tail(s) : i + 1 \in DOMAIN s /\ Tail(s)[i] = s[i + 1]
  BY <1>2
<1>4. \A q \in Partitions : \A i \in DOMAIN queue'[q] :
        \E j \in DOMAIN queue[q] : queue'[q][i].event = queue[q][j].event
  <2>1. CASE queue' = [queue EXCEPT ![p] = Tail(s)]
    BY <1>3, <2>1 DEF TypeOK
  <2>2. CASE queue' = [queue EXCEPT ![p] = <<OnceMore(Head(s))>> \o Tail(s)]
    <3>1. OnceMore(Head(s)).event = s[1].event /\ OnceMore(Head(s)) \in Entries
      BY <1>2, OnceMoreType DEF OnceMore, Entries
    <3> DEFINE h == OnceMore(Head(s))
               t == Tail(s)
    <3>2. h \in Entries /\ t \in Seq(Entries)
      BY <1>2, <3>1
    <3> HIDE DEF h, t
    <3>3. \A i \in DOMAIN (<<h>> \o t) : (i = 1 /\ (<<h>> \o t)[i] = h) \/ (i - 1 \in DOMAIN t /\ (<<h>> \o t)[i] = t[i - 1])
      BY <3>2
    <3>4. ASSUME NEW i \in DOMAIN (<<h>> \o t)
          PROVE  \E j \in DOMAIN s : (<<h>> \o t)[i].event = s[j].event
      <4>1. CASE i = 1 /\ (<<h>> \o t)[i] = h
        <5>1. 1 \in DOMAIN s
          BY <1>2
        <5>2. QED
          BY <3>1, <4>1, <5>1 DEF h
      <4>2. CASE i - 1 \in DOMAIN t /\ (<<h>> \o t)[i] = t[i - 1]
        BY <1>3, <4>2 DEF t
      <4>3. QED
        BY <3>3, <4>1, <4>2
    <3>5. queue'[p] = <<h>> \o t /\ \A q \in Partitions : q # p => queue'[q] = queue[q]
      BY <2>2 DEF h, t, TypeOK
    <3>6. SUFFICES ASSUME NEW q \in Partitions, NEW i \in DOMAIN queue'[q]
                   PROVE  \E j \in DOMAIN queue[q] : queue'[q][i].event = queue[q][j].event
      OBVIOUS
    <3>7. CASE q = p
      BY <3>4, <3>5, <3>7
    <3>8. CASE q # p
      BY <3>5, <3>8
    <3>9. QED
      BY <3>7, <3>8
  <2>3. QED
    BY <2>1, <2>2 DEF Writes, WriteAcked, WriteUnanswered, WriteRejected, TryAgain, Settle
<1>5. \A q \in Partitions : \A i \in DOMAIN log'[q] :
        \/ i \in DOMAIN log[q] /\ log'[q][i] = log[q][i]
        \/ \E j \in DOMAIN queue[p] : log'[q][i] = queue[p][j].event
  <2>1. CASE log' = log
    BY <2>1
  <2>2. CASE AppendToLog(p)
    <3>1. s[1].event \in Events /\ 1 \in DOMAIN s
      BY <1>2 DEF Entries
    <3>2. log' = [log EXCEPT ![p] = Append(log[p], s[1].event)] /\ log[p] \in Seq(Events)
      BY <1>2, <2>2 DEF AppendToLog, TypeOK
    <3> DEFINE e == s[1].event
    <3>3. \A i \in DOMAIN Append(log[p], e) :
            \/ i \in DOMAIN log[p] /\ Append(log[p], e)[i] = log[p][i]
            \/ Append(log[p], e)[i] = e
      <4> HIDE DEF e
      <4> QED
        BY <3>1, <3>2 DEF e
    <3>4. QED
      BY <3>1, <3>2, <3>3 DEF TypeOK
  <2>3. QED
    BY <2>1, <2>2 DEF Writes, WriteAcked, WriteUnanswered, WriteRejected
<1>6. QED
  BY <1>1, <1>4, <1>5

LEMMA StepSound == TypeOK /\ EventsSound /\ [Next]_vars => EventsSound'
<1> SUFFICES ASSUME TypeOK, EventsSound, [Next]_vars PROVE EventsSound'
  OBVIOUS
<1>0. /\ \A e \in Events : Sound(e) => Sound(e)'
      /\ \A c \in Callers : cur[c] \in Events
      /\ \A p \in Partitions : \A i \in DOMAIN queue[p] : queue[p][i].event \in Events
      /\ \A p \in Partitions : \A i \in DOMAIN log[p] : log[p][i] \in Events
  <2>1. \A p \in Partitions : \A i \in DOMAIN queue[p] : queue[p][i].event \in Events
    <3>1. \A p \in Partitions : queue[p] \in Seq(Entries)
      BY DEF TypeOK
    <3>2. \A p \in Partitions : \A i \in DOMAIN queue[p] : queue[p][i] \in Entries
      BY <3>1
    <3>3. QED
      BY <3>2 DEF Entries
  <2>2. \A p \in Partitions : \A i \in DOMAIN log[p] : log[p][i] \in Events
    <3>1. \A p \in Partitions : log[p] \in Seq(Events)
      BY DEF TypeOK
    <3>2. QED
      BY <3>1
  <2>3. QED
    BY <2>1, <2>2, SoundStays DEF TypeOK
<1>1. CASE UNCHANGED <<pc, cur, queue, log>>
  BY <1>0, <1>1 DEF EventsSound
<1>2. ASSUME NEW c \in Callers, Emit(c) PROVE EventsSound'
  <2>1. PICK f \in Facts :
          /\ pc' = [pc EXCEPT ![c] = "publish"] /\ cur' = [cur EXCEPT ![c] = Filled(f)]
          /\ tries' = [tries EXCEPT ![f] = @ + 1] /\ UNCHANGED <<named, queue, log>>
    BY <1>2 DEF Emit, broker
  <2>2. ASSUME NEW e, e = Filled(f) PROVE Sound(e)'
    BY <2>1, <2>2 DEF Sound, Filled, TypeOK
  <2>3. \A d \in Callers : pc'[d] # "idle" => Sound(cur[d])'
    <3>1. SUFFICES ASSUME NEW d \in Callers, pc'[d] # "idle" PROVE Sound(cur[d])'
      OBVIOUS
    <3>2. cur'[d] = Filled(f) \/ (d # c /\ cur'[d] = cur[d] /\ pc[d] # "idle")
      BY <2>1, <3>1 DEF TypeOK
    <3>3. CASE cur'[d] = Filled(f)
      BY <2>2, <3>3
    <3>4. CASE d # c /\ cur'[d] = cur[d] /\ pc[d] # "idle"
      BY <1>0, <3>4 DEF EventsSound, Sound
    <3>5. QED
      BY <3>2, <3>3, <3>4
  <2>4. QED
    BY <1>0, <2>1, <2>3 DEF EventsSound, Sound
<1>3. ASSUME NEW c \in Callers, Caller(c) \/ CtxEnds(c) PROVE EventsSound'
  <2>1. CASE Taken(c)
    <3>1. PICK p \in Partitions : Enqueue(c, p)
      BY <2>1 DEF Taken
    <3>2. /\ pc[c] = "publish" /\ pc' = [pc EXCEPT ![c] = "wait"] /\ UNCHANGED <<cur, log>>
      BY <2>1 DEF Taken, broker
    <3> DEFINE entry == [event |-> cur[c], by |-> c, attempts |-> 0]
    <3>3. entry \in Entries /\ entry.event = cur[c] /\ queue[p] \in Seq(Entries)
      BY <1>0 DEF Entries, TypeOK
    <3>4. queue' = [queue EXCEPT ![p] = Append(queue[p], entry)]
      BY <3>1 DEF Enqueue
    <3> HIDE DEF entry
    <3>5. ASSUME NEW q \in Partitions, NEW i \in DOMAIN queue'[q]
          PROVE  \/ i \in DOMAIN queue[q] /\ queue'[q][i] = queue[q][i]
                 \/ queue'[q][i].event = cur[c]
      BY <3>3, <3>4, <3>5 DEF TypeOK
    <3>6. \A q \in Partitions : \A i \in DOMAIN queue'[q] : Sound(queue[q][i].event)'
      BY <1>0, <3>2, <3>5 DEF EventsSound, Sound
    <3>7. QED
      BY <1>0, <3>2, <3>6 DEF EventsSound, Sound, TypeOK
  <2>2. CASE ~Taken(c)
    <3>1. pc' = [pc EXCEPT ![c] = "idle"] /\ UNCHANGED <<cur, queue, log>>
      BY <1>3, <2>2 DEF Caller, NotTaken, Answered, CtxEnds, Return, broker
    <3>2. QED
      BY <1>0, <3>1 DEF EventsSound, Sound, TypeOK
  <2>3. QED
    BY <2>1, <2>2
<1>4. ASSUME NEW p \in Partitions, Writes(p) PROVE EventsSound'
  <2>1. \A q \in Partitions : \A i \in DOMAIN queue'[q] : Sound(queue[q][i].event)'
    BY <1>0, <1>4, WriterMoves DEF EventsSound, Sound
  <2>2. \A q \in Partitions : \A i \in DOMAIN log'[q] : Sound(log[q][i])'
    BY <1>0, <1>4, WriterMoves DEF EventsSound, Sound
  <2>3. QED
    BY <1>0, <1>4, <2>1, <2>2, WriterMoves DEF EventsSound, Sound
<1>5. ASSUME NEW p \in Partitions, LeaderFails(p) PROVE EventsSound'
  <2>1. PICK n \in end[p]..Len(log[p]) : log' = [log EXCEPT ![p] = SubSeq(log[p], 1, n)]
    BY <1>5 DEF LeaderFails
  <2>2. log[p] \in Seq(Events) /\ n \in 0..Len(log[p])
    BY DEF TypeOK
  <2>3. \A i \in DOMAIN SubSeq(log[p], 1, n) :
          i \in DOMAIN log[p] /\ SubSeq(log[p], 1, n)[i] = log[p][i]
    BY <2>2
  <2>4. \A q \in Partitions : \A i \in DOMAIN log'[q] :
          i \in DOMAIN log[q] /\ log'[q][i] = log[q][i]
    BY <2>1, <2>3 DEF TypeOK
  <2>5. UNCHANGED <<pc, cur, queue>>
    BY <1>5 DEF LeaderFails, emitters
  <2>6. QED
    BY <1>0, <2>4, <2>5 DEF EventsSound, Sound
<1>6. CASE /\ ~\E c \in Callers : Emit(c) \/ Caller(c) \/ CtxEnds(c)
           /\ ~\E p \in Partitions : Writes(p) \/ LeaderFails(p)
  <2>1. UNCHANGED <<pc, cur, queue, log>>
    BY <1>6 DEF Next, vars, emitters, broker, Close, CloseReturns, Replicate, Store
  <2>2. QED
    BY <1>1, <2>1
<1>7. QED
  BY <1>2, <1>3, <1>4, <1>5, <1>6

(* Two ids of one fact on the topic need an Emit that failed and a caller  *)
(* that left the id to Emit.                                               *)
THEOREM IdsAreStable == Spec => []TwoIdsNeedFailedEmit
<1>1. TypeOK /\ IdInv => TwoIdsNeedFailedEmit
  <2>1. SUFFICES ASSUME TypeOK, IdInv, NEW p \in Partitions, NEW q \in Partitions,
                        NEW i \in DOMAIN log[p], NEW j \in DOMAIN log[q],
                        log[p][i].fact = log[q][j].fact, log[p][i].id # log[q][j].id
                 PROVE  log[p][i].fact \notin named /\ failures[log[p][i].fact] > 0
    BY DEF TwoIdsNeedFailedEmit
  <2> DEFINE f == log[p][i].fact
  <2>2. Sound(log[p][i]) /\ Sound(log[q][j])
    BY <2>1 DEF IdInv, EventsSound
  <2>3. log[p][i] \in Events
    <3>1. log[p] \in Seq(Events)
      BY <2>1 DEF TypeOK
    <3>2. QED
      BY <2>1, <3>1
  <2>4. f \in Facts
    BY <2>3 DEF Events
  <2>5. f \notin named /\ log[p][i].id \in 1..tries[f] /\ log[q][j].id \in 1..tries[f]
    BY <2>1, <2>2 DEF Sound
  <2>6. tries[f] \in Nat /\ failures[f] \in Nat /\ tries[f] <= failures[f] + 1
    BY <2>1, <2>4 DEF TypeOK, IdInv, TriesBound
  <2>7. QED
    BY <2>1, <2>5, <2>6
<1>2. TypeOK /\ IdInv /\ [Next]_vars => IdInv'
  BY StepTries, StepSound DEF IdInv
<1>3. QED
  BY <1>1, <1>2, InitType, InitId, StepType, PTL DEF Spec
=============================================================================
