---------------------------- MODULE KafkaConsumer ----------------------------
(***************************************************************************)
(* kafka.Consumer: the loop of Start over a kafka-go group Reader.  Fetch, *)
(* handle, commit, one message at a time, whatever the handler or the      *)
(* commit answered; the loop ends when a fetch fails on a cancelled        *)
(* context.  The Reader is a member of its group from NewConsumer to       *)
(* Close, independently of the loop; at every rebalance all partitions     *)
(* are dealt again and resume at their committed offset.                   *)
(***************************************************************************)
EXTENDS Naturals

CONSTANTS
  Consumers,
  Partitions,
  Nobody,          \* the owner of a partition no member holds
  MaxOffset,       \* bound: messages per partition
  MaxDisturbances  \* bound: crashes, relaunches, unforced rebalances, failed commits

ASSUME ConsumerAssumption ==
  /\ Nobody \notin Consumers
  /\ MaxOffset \in Nat /\ MaxDisturbances \in Nat

VARIABLES
  end,             \* log end offset of each partition
  committed,       \* the group's committed offset: next to read
  owner, pos,      \* who reads each partition, and the next offset it fetches
  pc,              \* each Start loop: "down", "fetch", "handle" or "commit"
  cur,             \* the message in its hands: partition and offset
  cancelled,       \* has the context given to Start been cancelled?
  reader,          \* its Reader: "none", "open" or "closed"
  attempted,       \* history: the offsets a handler was given and returned from
  overtaken,       \* history: loops that hold a message from before the last rebalance
  stale,           \* history: partitions that took the commit of such a message
  disturbances

group == <<committed, owner, pos>>
history == <<attempted, overtaken, stale>>
vars == <<end, group, pc, cur, cancelled, reader, history, disturbances>>

Offsets == 0..(MaxOffset - 1)
Messages == [part : Partitions, off : Nat]

TypeOK ==
  /\ end \in [Partitions -> Nat]
  /\ committed \in [Partitions -> Nat]
  /\ owner \in [Partitions -> Consumers \cup {Nobody}]
  /\ pos \in [Partitions -> Nat]
  /\ pc \in [Consumers -> {"down", "fetch", "handle", "commit"}]
  /\ cur \in [Consumers -> Messages]
  /\ cancelled \in [Consumers -> BOOLEAN]
  /\ reader \in [Consumers -> {"none", "open", "closed"}]
  /\ attempted \in [Partitions -> SUBSET Nat]
  /\ overtaken \subseteq Consumers
  /\ stale \subseteq Partitions
  /\ disturbances \in Nat
  /\ \A p \in Partitions : committed[p] <= end[p] /\ pos[p] <= end[p]

Init ==
  /\ end = [p \in Partitions |-> 0]
  /\ committed = [p \in Partitions |-> 0]
  /\ owner = [p \in Partitions |-> Nobody]
  /\ pos = [p \in Partitions |-> 0]
  /\ pc = [c \in Consumers |-> "fetch"]
  /\ cur \in [Consumers -> {[part |-> p, off |-> 0] : p \in Partitions}]
  /\ cancelled = [c \in Consumers |-> FALSE]
  /\ reader = [c \in Consumers |-> "open"]
  /\ attempted = [p \in Partitions |-> {}]
  /\ overtaken = {}
  /\ stale = {}
  /\ disturbances = 0

Members == {c \in Consumers : reader[c] = "open"}

Disturb == disturbances < MaxDisturbances /\ disturbances' = disturbances + 1

-----------------------------------------------------------------------------
(* The topic and the group.                                                *)

Produce(p) ==
  /\ end[p] < MaxOffset
  /\ end' = [end EXCEPT ![p] = @ + 1]
  /\ UNCHANGED <<group, pc, cur, cancelled, reader, history, disturbances>>

(* NewConsumer leaves StartOffset at its default: without a commit a group *)
(* starts at the first message.  Fault variant: it starts at the end.      *)
ResumeAtEnd == [p \in Partitions |-> IF committed[p] = 0 THEN end[p] ELSE committed[p]]
Resume == committed

Deal ==
  /\ owner' \in [Partitions -> IF Members = {} THEN {Nobody} ELSE Members]
  /\ pos' = Resume
  /\ overtaken' = {c \in Consumers : pc[c] \in {"handle", "commit"}}
  /\ UNCHANGED <<end, committed, pc, cur, cancelled, reader, attempted, stale>>

OwnerLess == \E p \in Partitions : owner[p] \notin Members /\ (Members # {} \/ owner[p] # Nobody)

(* A member left, or the first one came.                                   *)
Rebalance == OwnerLess /\ Deal /\ UNCHANGED disturbances

(* A member was slow, or came, or the partitions changed.                  *)
UnforcedRebalance == ~OwnerLess /\ Members # {} /\ Deal /\ Disturb

-----------------------------------------------------------------------------
(* The loop of Start.                                                      *)

(* Fault variants: ReadMessage, which commits as it reads, in place of     *)
(* FetchMessage; and several loops that share one Reader.                  *)
FetchAutoCommits(c) == \E p \in Partitions :
  /\ pc[c] = "fetch"
  /\ owner[p] = c /\ pos[p] < end[p]
  /\ pc' = [pc EXCEPT ![c] = "handle"]
  /\ cur' = [cur EXCEPT ![c] = [part |-> p, off |-> pos[p]]]
  /\ pos' = [pos EXCEPT ![p] = @ + 1]
  /\ overtaken' = overtaken \ {c}
  /\ committed' = [committed EXCEPT ![p] = pos[p] + 1]
  /\ UNCHANGED <<end, owner, cancelled, reader, attempted, stale, disturbances>>
FetchShared(c) == \E p \in Partitions :
  /\ pc[c] = "fetch"
  /\ owner[p] \in Members /\ pos[p] < end[p]
  /\ pc' = [pc EXCEPT ![c] = "handle"]
  /\ cur' = [cur EXCEPT ![c] = [part |-> p, off |-> pos[p]]]
  /\ pos' = [pos EXCEPT ![p] = @ + 1]
  /\ overtaken' = overtaken \ {c}
  /\ UNCHANGED <<end, committed, owner, cancelled, reader, attempted, stale, disturbances>>

(* FetchMessage delivers the next message of a partition this member owns. *)
(* It may do so although the context is cancelled, its select takes either, *)
(* and after Close, when messages were prefetched.                         *)
Fetch(c) == \E p \in Partitions :
  /\ pc[c] = "fetch"
  /\ owner[p] = c /\ pos[p] < end[p]
  /\ pc' = [pc EXCEPT ![c] = "handle"]
  /\ cur' = [cur EXCEPT ![c] = [part |-> p, off |-> pos[p]]]
  /\ pos' = [pos EXCEPT ![p] = @ + 1]
  /\ overtaken' = overtaken \ {c}
  /\ UNCHANGED <<end, committed, owner, cancelled, reader, attempted, stale, disturbances>>

(* Fault variant: the loop logs every fetch error and never returns.       *)
FetchNeverStops(c) == FALSE /\ UNCHANGED vars

(* A fetch that fails on a cancelled context ends the loop.                *)
FetchStopped(c) ==
  /\ pc[c] = "fetch" /\ cancelled[c]
  /\ pc' = [pc EXCEPT ![c] = "down"]
  /\ UNCHANGED <<end, group, cur, cancelled, reader, history, disturbances>>

(* Any other failure, io.EOF of a closed Reader too: log and try again.    *)
FetchFails(c) == pc[c] = "fetch" /\ ~cancelled[c] /\ UNCHANGED vars

(* Fault variant: a message whose handler failed is tried again in place,  *)
(* and the handler fails on the first message of every partition.          *)
HandleRetries(c) ==
  /\ pc[c] = "handle"
  /\ pc' = IF cur[c].off = 0 THEN pc ELSE [pc EXCEPT ![c] = "commit"]
  /\ attempted' = [attempted EXCEPT ![cur[c].part] = @ \cup {cur[c].off}]
  /\ UNCHANGED <<end, group, cur, cancelled, reader, overtaken, stale, disturbances>>

(* The handler returns nil or an error; both lead to CommitMessages.       *)
Handle(c) ==
  /\ pc[c] = "handle"
  /\ pc' = [pc EXCEPT ![c] = "commit"]
  /\ attempted' = [attempted EXCEPT ![cur[c].part] = @ \cup {cur[c].off}]
  /\ UNCHANGED <<end, group, cur, cancelled, reader, overtaken, stale, disturbances>>

(* Fault variant: the caller adds the one that the Reader adds by itself.  *)
CommitTwiceIncremented(c) ==
  /\ pc[c] = "commit" /\ reader[c] = "open"
  /\ pc' = [pc EXCEPT ![c] = "fetch"]
  /\ committed' = [committed EXCEPT ![cur[c].part] = cur[c].off + 2]
  /\ UNCHANGED <<end, owner, pos, cur, cancelled, reader, history, disturbances>>

(* The broker accepts the commit of any member of the current generation,  *)
(* also for a partition that was dealt to another in the meantime; it does *)
(* not compare it with the offset it holds.                                *)
CommitApplied(c) ==
  /\ pc[c] = "commit" /\ reader[c] = "open"
  /\ pc' = [pc EXCEPT ![c] = "fetch"]
  /\ committed' = [committed EXCEPT ![cur[c].part] = cur[c].off + 1]
  /\ stale' = stale \cup (IF c \in overtaken THEN {cur[c].part} ELSE {})
  /\ UNCHANGED <<end, owner, pos, cur, cancelled, reader, attempted, overtaken, disturbances>>

(* The commit does not take effect: the error is logged, nothing else.     *)
CommitFails(c) ==
  /\ pc[c] = "commit"
  /\ \/ (cancelled[c] \/ reader[c] # "open") /\ UNCHANGED disturbances
     \/ Disturb
  /\ pc' = [pc EXCEPT ![c] = "fetch"]
  /\ UNCHANGED <<end, group, cur, cancelled, reader, history>>

-----------------------------------------------------------------------------
(* The service around it.                                                  *)

Cancel(c) ==
  /\ pc[c] # "down" /\ ~cancelled[c]
  /\ cancelled' = [cancelled EXCEPT ![c] = TRUE]
  /\ UNCHANGED <<end, group, pc, cur, reader, history, disturbances>>

(* Close leaves the group, whether or not the loop still runs.             *)
Close(c) ==
  /\ reader[c] = "open"
  /\ reader' = [reader EXCEPT ![c] = "closed"]
  /\ UNCHANGED <<end, group, pc, cur, cancelled, history, disturbances>>

Crash(c) ==
  /\ reader[c] # "none" /\ Disturb
  /\ pc' = [pc EXCEPT ![c] = "down"]
  /\ reader' = [reader EXCEPT ![c] = "none"]
  /\ UNCHANGED <<end, group, cur, cancelled, history>>

(* A new process: NewConsumer and Start.  Its Reader is a new member, which *)
(* holds nothing before the group is dealt again.                          *)
Launch(c) ==
  /\ pc[c] = "down" /\ reader[c] # "open" /\ Disturb
  /\ pc' = [pc EXCEPT ![c] = "fetch"]
  /\ reader' = [reader EXCEPT ![c] = "open"]
  /\ cancelled' = [cancelled EXCEPT ![c] = FALSE]
  /\ owner' = [p \in Partitions |-> IF owner[p] = c THEN Nobody ELSE owner[p]]
  /\ UNCHANGED <<end, committed, pos, cur, history>>

Loop(c) == Fetch(c) \/ FetchStopped(c) \/ Handle(c) \/ CommitApplied(c) \/ CommitFails(c)

Service(c) == Cancel(c) \/ Close(c) \/ Crash(c) \/ Launch(c)

Next ==
  \/ \E p \in Partitions : Produce(p)
  \/ Rebalance \/ UnforcedRebalance
  \/ \E c \in Consumers : Loop(c) \/ FetchFails(c) \/ Service(c)

(* Goroutines run, handlers return and a group without an owner for a      *)
(* partition rebalances.                                                   *)
Spec ==
  /\ Init /\ [][Next]_vars
  /\ WF_vars(Rebalance)
  /\ \A c \in Consumers : WF_vars(Loop(c))

-----------------------------------------------------------------------------
(* Properties.                                                             *)

(* At least once: every message below the committed offset was given to a  *)
(* handler, through crashes, failed commits and rebalances; the commit     *)
(* comes after the handler in Start.                                       *)
NoSkip == \A p \in Partitions : \A o \in 0..(committed[p] - 1) : o \in attempted[p]

(* First deliveries follow the order of the partition: no message reaches  *)
(* a handler before its predecessors did, whoever reads the partition.     *)
AttemptedIsPrefix ==
  \A p \in Partitions : \A o \in attempted[p] : \A q \in 0..o : q \in attempted[p]

(* The committed offset goes back, and handled messages come again, only   *)
(* on a partition that was dealt again while a handler held a message of   *)
(* it: Start commits that message whoever owns the partition by then.      *)
RewindNeedsStaleCommit ==
  [][\A p \in Partitions : committed'[p] < committed[p] => p \in stale']_vars

(* Every member of the group runs a loop that was not told to stop.        *)
Serving == Members # {} /\ \A c \in Members : pc[c] # "down" /\ ~cancelled[c]

(* No message waits for ever while the members serve: a handler that fails *)
(* does not hold up its partition.                                         *)
Drains ==
  <>[]Serving =>
    \A p \in Partitions : \A o \in Offsets : end[p] > o ~> o \in attempted[p]

(* What handlers may rely on, without offsets, commits and owners: first   *)
(* deliveries in order, repetitions of what was delivered before.          *)
Delivery == INSTANCE AtLeastOnce
ImplementsAtLeastOnce == Delivery!Spec

(* "Cancel the context to stop": the loop ends.                            *)
StopReturns == \A c \in Consumers : cancelled[c] ~> pc[c] = "down"
=============================================================================
