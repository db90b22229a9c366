------------------------ MODULE KafkaConsumer_proofs ------------------------
(***************************************************************************)
(* Theorems about KafkaConsumer, for any number of consumers, partitions,  *)
(* messages and disturbances.                                              *)
(***************************************************************************)
EXTENDS KafkaConsumer, TLAPS

(* TypeOK is inductive except for committed <= end: a commit writes the    *)
(* offset of the message in hand, which lies below the end of its log.     *)
InHand(c) == pc[c] \in {"handle", "commit"}
HeldBelowEnd == \A c \in Consumers : InHand(c) => cur[c].off < end[cur[c].part]
TypeInv == TypeOK /\ HeldBelowEnd

LEMMA InitType == Init => TypeInv
  BY ConsumerAssumption DEF Init, TypeInv, TypeOK, HeldBelowEnd, InHand, Messages

LEMMA StepType == TypeInv /\ [Next]_vars => TypeInv'
<1> SUFFICES ASSUME TypeInv, [Next]_vars PROVE TypeInv'
  OBVIOUS
<1> USE ConsumerAssumption DEF TypeInv, TypeOK, HeldBelowEnd, InHand, Messages, group, history
<1>1. ASSUME NEW p \in Partitions, Produce(p) PROVE TypeInv'
  BY <1>1 DEF Produce
<1>2. CASE Rebalance \/ UnforcedRebalance
  BY <1>2 DEF Rebalance, UnforcedRebalance, Deal, Disturb, Members, Resume
<1>3. ASSUME NEW c \in Consumers, Fetch(c) PROVE TypeInv'
  BY <1>3 DEF Fetch
<1>4. ASSUME NEW c \in Consumers, FetchStopped(c) PROVE TypeInv'
  BY <1>4 DEF FetchStopped
<1>5. ASSUME NEW c \in Consumers, Handle(c) PROVE TypeInv'
  BY <1>5 DEF Handle
<1>6. ASSUME NEW c \in Consumers, CommitApplied(c) PROVE TypeInv'
  BY <1>6 DEF CommitApplied
<1>7. ASSUME NEW c \in Consumers, CommitFails(c) PROVE TypeInv'
  BY <1>7 DEF CommitFails, Disturb
<1>8. ASSUME NEW c \in Consumers, Service(c) PROVE TypeInv'
  <2>1. CASE Cancel(c)
    BY <2>1 DEF Cancel
  <2>2. CASE Close(c)
    BY <2>2 DEF Close
  <2>3. CASE Crash(c)
    BY <2>3 DEF Crash, Disturb
  <2>4. CASE Launch(c)
    BY <2>4 DEF Launch, Disturb
  <2>5. QED
    BY <1>8, <2>1, <2>2, <2>3, <2>4 DEF Service
<1>9. CASE UNCHANGED vars
  BY <1>9 DEF vars
<1>10. QED
  BY <1>1, <1>2, <1>3, <1>4, <1>5, <1>6, <1>7, <1>8, <1>9 DEF Next, Loop, FetchFails

(* Type correctness of the consumer, committed offsets within the log.     *)
THEOREM TypeCorrect == Spec => []TypeOK
<1>1. TypeInv => TypeOK
  BY DEF TypeInv
<1>2. QED
  BY <1>1, InitType, StepType, PTL DEF Spec

-----------------------------------------------------------------------------
(* Why no message is skipped.  What lies below a position, or below a      *)
(* message in hand, was attempted, the message in the owner's own hands    *)
(* excepted; and a message is committed only once it was attempted.        *)
HeldAfterAttempted ==
  \A c \in Consumers : InHand(c) =>
    /\ \A o \in 0..(cur[c].off - 1) : o \in attempted[cur[c].part]
    /\ pc[c] = "commit" => cur[c].off \in attempted[cur[c].part]

PosAfterAttempted ==
  \A p \in Partitions : owner[p] \in Consumers /\ pc[owner[p]] # "down" =>
    \A o \in 0..(pos[p] - 1) :
      \/ o \in attempted[p]
      \/ pc[owner[p]] = "handle" /\ cur[owner[p]] = [part |-> p, off |-> o]

IInv == NoSkip /\ AttemptedIsPrefix /\ HeldAfterAttempted /\ PosAfterAttempted

LEMMA InitInductive == Init => IInv
  BY ConsumerAssumption DEF Init, IInv, NoSkip, AttemptedIsPrefix, HeldAfterAttempted, PosAfterAttempted, InHand

LEMMA StepInductive == TypeInv /\ IInv /\ [Next]_vars => IInv'
<1> SUFFICES ASSUME TypeInv, IInv, [Next]_vars PROVE IInv'
  OBVIOUS
<1> USE ConsumerAssumption DEF TypeInv, TypeOK, HeldBelowEnd, InHand, Messages, group, history,
      IInv, NoSkip, AttemptedIsPrefix, HeldAfterAttempted, PosAfterAttempted
<1>1. ASSUME NEW p \in Partitions, Produce(p) PROVE IInv'
  BY <1>1 DEF Produce
<1>2. CASE Rebalance \/ UnforcedRebalance
  BY <1>2 DEF Rebalance, UnforcedRebalance, Deal, Disturb, Members, Resume
<1>3. ASSUME NEW c \in Consumers, Fetch(c) PROVE IInv'
  <2> PICK p \in Partitions :
        /\ pc[c] = "fetch" /\ owner[p] = c /\ pos[p] < end[p]
        /\ pc' = [pc EXCEPT ![c] = "handle"]
        /\ cur' = [cur EXCEPT ![c] = [part |-> p, off |-> pos[p]]]
        /\ pos' = [pos EXCEPT ![p] = @ + 1]
        /\ UNCHANGED <<end, committed, owner, cancelled, reader, attempted>>
    BY <1>3 DEF Fetch
  <2>1. NoSkip' /\ AttemptedIsPrefix'
    OBVIOUS
  <2>2. HeldAfterAttempted'
    OBVIOUS
  <2>3. PosAfterAttempted'
    <3> SUFFICES ASSUME NEW q \in Partitions, owner[q] \in Consumers, pc'[owner[q]] # "down",
                        NEW o \in 0..(pos'[q] - 1), o \notin attempted[q]
                 PROVE  pc'[owner[q]] = "handle" /\ cur'[owner[q]] = [part |-> q, off |-> o]
      OBVIOUS
    <3>1. CASE q = p
      <4>1. \A i \in 0..(pos[p] - 1) : i \in attempted[p]
        OBVIOUS
      <4>2. pos[p] \in Nat /\ pos'[p] = pos[p] + 1
        OBVIOUS
      <4>3. o = pos[p]
        BY ONLY <3>1, <4>1, <4>2, o \in 0..(pos'[q] - 1), o \notin attempted[q]
      <4>4. cur'[c] = [part |-> p, off |-> pos[p]] /\ pc'[c] = "handle"
        OBVIOUS
      <4>5. QED
        BY <3>1, <4>3, <4>4
    <3>2. CASE q # p
      BY <3>2
    <3>3. QED
      BY <3>1, <3>2
  <2>4. QED
    BY <2>1, <2>2, <2>3
<1>4. ASSUME NEW c \in Consumers, FetchStopped(c) PROVE IInv'
  BY <1>4 DEF FetchStopped
<1>5. ASSUME NEW c \in Consumers, Handle(c) PROVE IInv'
  BY <1>5 DEF Handle
<1>6. ASSUME NEW c \in Consumers, CommitApplied(c) PROVE IInv'
  BY <1>6 DEF CommitApplied
<1>7. ASSUME NEW c \in Consumers, CommitFails(c) PROVE IInv'
  BY <1>7 DEF CommitFails, Disturb
<1>8. ASSUME NEW c \in Consumers, Service(c) PROVE IInv'
  <2>1. CASE Cancel(c)
    BY <2>1 DEF Cancel
  <2>2. CASE Close(c)
    BY <2>2 DEF Close
  <2>3. CASE Crash(c)
    BY <2>3 DEF Crash, Disturb
  <2>4. CASE Launch(c)
    BY <2>4 DEF Launch, Disturb
  <2>5. QED
    BY <1>8, <2>1, <2>2, <2>3, <2>4 DEF Service
<1>9. CASE UNCHANGED vars
  BY <1>9 DEF vars
<1>10. QED
  BY <1>1, <1>2, <1>3, <1>4, <1>5, <1>6, <1>7, <1>8, <1>9 DEF Next, Loop, FetchFails

LEMMA Inductive == Spec => [](TypeInv /\ IInv)
  BY InitType, InitInductive, StepType, StepInductive, PTL DEF Spec

(* At least once: below the committed offset everything was handled.       *)
THEOREM NothingSkipped == Spec => []NoSkip
<1>1. IInv => NoSkip
  BY DEF IInv
<1>2. QED
  BY <1>1, Inductive, PTL

(* First deliveries follow the order of each partition.                    *)
THEOREM FirstDeliveriesInOrder == Spec => []AttemptedIsPrefix
<1>1. IInv => AttemptedIsPrefix
  BY DEF IInv
<1>2. QED
  BY <1>1, Inductive, PTL

(* A handler is given what lies below, or just at, the end of the prefix   *)
(* it was given: the group is the AtLeastOnce that its users are promised. *)
LEMMA StepDelivery == TypeInv /\ IInv /\ [Next]_vars => [Delivery!Next]_(Delivery!vars)
<1> SUFFICES ASSUME TypeInv, IInv, [Next]_vars
             PROVE  Delivery!Next \/ UNCHANGED <<end, attempted>>
  BY DEF Delivery!vars
<1>1. ASSUME NEW p \in Partitions, Produce(p) PROVE Delivery!Next
  BY <1>1 DEF Produce, Delivery!Next, Delivery!AppendTo, history
<1>2. ASSUME NEW c \in Consumers, Handle(c) PROVE Delivery!Next
  <2> DEFINE p == cur[c].part
             o == cur[c].off
  <2>1. p \in Partitions /\ o \in Nat /\ o < end[p] /\ end[p] \in Nat
    BY <1>2 DEF Handle, TypeInv, TypeOK, HeldBelowEnd, InHand, Messages
  <2>2. o \in 0..(end[p] - 1)
    BY <2>1
  <2>3. \A q \in 0..(o - 1) : q \in attempted[p]
    BY <1>2 DEF Handle, IInv, HeldAfterAttempted, InHand
  <2>4. attempted' = [attempted EXCEPT ![p] = @ \cup {o}] /\ UNCHANGED end
    BY <1>2 DEF Handle
  <2>5. Delivery!DeliverFrom(p)
    BY <2>2, <2>3, <2>4 DEF Delivery!DeliverFrom, Delivery!Deliver
  <2>6. QED
    BY <2>1, <2>5 DEF Delivery!Next
<1>3. CASE /\ ~\E p \in Partitions : Produce(p)
           /\ ~\E c \in Consumers : Handle(c)
  BY <1>3 DEF Next, vars, history, Rebalance, UnforcedRebalance, Deal, Loop, Fetch, FetchStopped,
     FetchFails, CommitApplied, CommitFails, Service, Cancel, Close, Crash, Launch
<1>4. QED
  BY <1>1, <1>2, <1>3

(* The consumers of a group implement AtLeastOnce.                         *)
THEOREM GroupImplementsAtLeastOnce == Spec => ImplementsAtLeastOnce
<1>1. Init => Delivery!Init
  BY DEF Init, Delivery!Init
<1>2. QED
  BY <1>1, StepDelivery, Inductive, PTL DEF Spec, ImplementsAtLeastOnce, Delivery!Spec

-----------------------------------------------------------------------------
(* Why the committed offset goes back only after a stale commit.  A message *)
(* fetched since the last rebalance is its owner's, behind the owner's     *)
(* position, and not yet passed by the committed offset.                   *)
FreshHeld ==
  \A c \in Consumers : InHand(c) /\ c \notin overtaken =>
    /\ owner[cur[c].part] = c
    /\ cur[c].off < pos[cur[c].part]
    /\ cur[c].part \notin stale => committed[cur[c].part] <= cur[c].off

FreshPos ==
  \A p \in Partitions \ stale :
    owner[p] \in Consumers /\ pc[owner[p]] # "down" => committed[p] <= pos[p]

FInv == FreshHeld /\ FreshPos

LEMMA InitFresh == Init => FInv
  BY ConsumerAssumption DEF Init, FInv, FreshHeld, FreshPos, InHand

LEMMA StepFresh == TypeInv /\ FInv /\ [Next]_vars => FInv'
<1> SUFFICES ASSUME TypeInv, FInv, [Next]_vars PROVE FInv'
  OBVIOUS
<1> USE ConsumerAssumption DEF TypeInv, TypeOK, HeldBelowEnd, InHand, Messages, group, history,
      FInv, FreshHeld, FreshPos
<1>1. ASSUME NEW p \in Partitions, Produce(p) PROVE FInv'
  BY <1>1 DEF Produce
<1>2. CASE Rebalance \/ UnforcedRebalance
  BY <1>2 DEF Rebalance, UnforcedRebalance, Deal, Disturb, Members, Resume
<1>3. ASSUME NEW c \in Consumers, Fetch(c) PROVE FInv'
  BY <1>3 DEF Fetch
<1>4. ASSUME NEW c \in Consumers, FetchStopped(c) PROVE FInv'
  BY <1>4 DEF FetchStopped
<1>5. ASSUME NEW c \in Consumers, Handle(c) PROVE FInv'
  BY <1>5 DEF Handle
<1>6. ASSUME NEW c \in Consumers, CommitApplied(c) PROVE FInv'
  BY <1>6 DEF CommitApplied
<1>7. ASSUME NEW c \in Consumers, CommitFails(c) PROVE FInv'
  BY <1>7 DEF CommitFails, Disturb
<1>8. ASSUME NEW c \in Consumers, Service(c) PROVE FInv'
  <2>1. CASE Cancel(c)
    BY <2>1 DEF Cancel
  <2>2. CASE Close(c)
    BY <2>2 DEF Close
  <2>3. CASE Crash(c)
    BY <2>3 DEF Crash, Disturb
  <2>4. CASE Launch(c)
    BY <2>4 DEF Launch, Disturb
  <2>5. QED
    BY <1>8, <2>1, <2>2, <2>3, <2>4 DEF Service
<1>9. CASE UNCHANGED vars
  BY <1>9 DEF vars
<1>10. QED
  BY <1>1, <1>2, <1>3, <1>4, <1>5, <1>6, <1>7, <1>8, <1>9 DEF Next, Loop, FetchFails

(* Only a commit moves the committed offset, and a fresh one moves it up.  *)
LEMMA StepRewind ==
  TypeInv /\ FInv /\ [Next]_vars =>
    \A p \in Partitions : committed'[p] < committed[p] => p \in stale'
<1> SUFFICES ASSUME TypeInv, FInv, [Next]_vars,
                    NEW p \in Partitions, committed'[p] < committed[p]
             PROVE  p \in stale'
  OBVIOUS
<1> USE DEF TypeInv, TypeOK, FInv, FreshHeld, InHand, Messages, group
<1>1. CASE \E c \in Consumers : CommitApplied(c)
  BY <1>1 DEF CommitApplied
<1>2. CASE ~\E c \in Consumers : CommitApplied(c)
  <2>1. committed' = committed
    BY <1>2 DEF Next, vars, Produce, Rebalance, UnforcedRebalance, Deal, Loop, Fetch, FetchStopped,
       FetchFails, Handle, CommitFails, Service, Cancel, Close, Crash, Launch
  <2>2. QED
    BY <2>1
<1>3. QED
  BY <1>1, <1>2

(* A rewind is the work of a commit that a rebalance overtook.             *)
THEOREM RewindsAreStaleCommits == Spec => RewindNeedsStaleCommit
<1>1. Spec => [](TypeInv /\ FInv)
  BY InitType, InitFresh, StepType, StepFresh, PTL DEF Spec
<1>2. TypeInv /\ FInv /\ [Next]_vars =>
        [\A p \in Partitions : committed'[p] < committed[p] => p \in stale']_vars
  BY StepRewind
<1>3. QED
  BY <1>1, <1>2, PTL DEF Spec, RewindNeedsStaleCommit
=============================================================================
