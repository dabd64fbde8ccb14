------------------------------ MODULE VolumeLease ------------------------------
(***************************************************************************)
(* What attaching promises, whatever API calls it takes: a volume is a     *)
(* lease that one node holds at a time. The orchestrator is told who holds *)
(* it; the lease is not withdrawn while it believes that, except together  *)
(* with the holder, and a volume is deleted only when nobody holds it.     *)
(***************************************************************************)
CONSTANTS Volumes, Nodes, Nobody

VARIABLES
  holder,    \* holder[v]: the node whose Machine lists v, or Nobody
  told,      \* told[v]: the node the orchestrator believes v attached to
  lost,      \* nodes whose Machine is gone
  deleted    \* volumes that are gone

leaseVars == <<holder, told, lost, deleted>>

Init ==
  /\ holder = [v \in Volumes |-> Nobody]
  /\ told = [v \in Volumes |-> Nobody]
  /\ lost = {}
  /\ deleted = {}

\* The lease passes from one node to another only through Nobody.
Acquire(v, n) ==
  /\ v \notin deleted
  /\ n \notin lost
  /\ holder[v] = Nobody
  /\ told[v] = Nobody
  /\ holder' = [holder EXCEPT ![v] = n]
  /\ UNCHANGED <<told, lost, deleted>>

\* The orchestrator is told only what is true, or what a lost node ended.
Tell(v, n) ==
  /\ told[v] = Nobody
  /\ holder[v] = n \/ n \in lost
  /\ told' = [told EXCEPT ![v] = n]
  /\ UNCHANGED <<holder, lost, deleted>>

Recall(v) ==
  /\ told' = [told EXCEPT ![v] = Nobody]
  /\ UNCHANGED <<holder, lost, deleted>>

Release(v) ==
  /\ told[v] = Nobody
  /\ holder' = [holder EXCEPT ![v] = Nobody]
  /\ UNCHANGED <<told, lost, deleted>>

Lose(n) ==
  /\ lost' = lost \cup {n}
  /\ holder' = [v \in Volumes |-> IF holder[v] = n THEN Nobody ELSE holder[v]]
  /\ UNCHANGED <<told, deleted>>

Delete(v) ==
  /\ holder[v] = Nobody
  /\ told[v] = Nobody
  /\ deleted' = deleted \cup {v}
  /\ UNCHANGED <<holder, told, lost>>

Next ==
  \/ \E v \in Volumes : Recall(v) \/ Release(v) \/ Delete(v)
  \/ \E v \in Volumes, n \in Nodes : Acquire(v, n) \/ Tell(v, n)
  \/ \E n \in Nodes : Lose(n)

Spec == Init /\ [][Next]_leaseVars

=============================================================================
