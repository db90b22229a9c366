----------------------------- MODULE Connection -----------------------------
(***************************************************************************)
(* What a shared, lazily connected client promises those that ask it for a *)
(* connection, without the Once, the pool or the cluster: one verdict for  *)
(* everybody and for good, and a usable connection may be closed.          *)
(***************************************************************************)
CONSTANT Procs

VARIABLES
  state,      \* "unsettled", then "usable" or "refused"; "closed" in the end
  told        \* what each of Procs was last told: "none", "ok" or "error"

vars == <<state, told>>

Init ==
  /\ state = "unsettled"
  /\ told = [p \in Procs |-> "none"]

Settle ==
  /\ state = "unsettled"
  /\ state' \in {"usable", "refused", "closed"}
  /\ UNCHANGED told

(* Also a closed connection is handed out: its user finds out.             *)
Tell(p) ==
  /\ state # "unsettled"
  /\ told' = [told EXCEPT ![p] = IF state = "refused" THEN "error" ELSE "ok"]
  /\ UNCHANGED state

Close ==
  /\ state = "usable"
  /\ state' = "closed"
  /\ UNCHANGED told

Next == Settle \/ Close \/ \E p \in Procs : Tell(p)

Spec == Init /\ [][Next]_vars
=============================================================================
