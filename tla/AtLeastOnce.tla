----------------------------- MODULE AtLeastOnce -----------------------------
(***************************************************************************)
(* What a consumer group promises its handlers, without consumers, offsets *)
(* or commits: messages are appended to partitions, and a handler is given *)
(* messages of a partition in order, any of them perhaps again later.      *)
(***************************************************************************)
EXTENDS Naturals

CONSTANT Partitions

VARIABLES
  end,        \* messages readable in each partition: offsets 0..end-1
  attempted   \* the offsets a handler was given

vars == <<end, attempted>>

Init ==
  /\ end = [p \in Partitions |-> 0]
  /\ attempted = [p \in Partitions |-> {}]

AppendTo(p) == end' = [end EXCEPT ![p] = @ + 1] /\ UNCHANGED attempted

(* A first delivery comes after all of its predecessors.                   *)
Deliver(p, o) ==
  /\ \A q \in 0..(o - 1) : q \in attempted[p]
  /\ attempted' = [attempted EXCEPT ![p] = @ \cup {o}]

DeliverFrom(p) == (\E o \in 0..(end[p] - 1) : Deliver(p, o)) /\ UNCHANGED end

Next == \E p \in Partitions : AppendTo(p) \/ DeliverFrom(p)

Spec == Init /\ [][Next]_vars
=============================================================================
