------------------------------ MODULE NodeMount ------------------------------
(***************************************************************************)
(* What the node service promises, whatever calls on the file system it    *)
(* takes: a volume is mounted only between the orchestrator's wish to use  *)
(* it there and the answer that it is not used any more, only through its  *)
(* device, and the orchestrator is told of the mount, and of its end, when *)
(* they are true. The promise ends where a call to mount and a call to     *)
(* unmount the volume run together, one of them given up: no lock keeps    *)
(* them apart, and until the node boots anew the volume may be mounted     *)
(* after the answer that it is not, or unmounted while it is used.         *)
(***************************************************************************)
CONSTANT Places   \* where a volume may be mounted: a volume on a node

VARIABLES
  dev,       \* places whose device is there
  mounted,   \* places where the volume is mounted
  phase,     \* phase[p]: what the orchestrator wants of p, and was told
  crossed    \* places where a call to mount and a call to unmount ran at the
             \* same time since the node booted

mountVars == <<dev, mounted, phase, crossed>>

Phase == {"unstaged", "staging", "staged", "unstaging"}

Init ==
  /\ dev = {}
  /\ mounted = {}
  /\ phase = [p \in Places |-> "unstaged"]
  /\ crossed = {}

Move(p, from, to) == phase[p] \in from /\ phase' = [phase EXCEPT ![p] = to]

Want(p) == Move(p, {"unstaged"}, "staging") /\ UNCHANGED <<dev, mounted, crossed>>

\* A call the orchestrator has given up may mount while it tears down.
Mount(p) ==
  /\ phase[p] \in {"staging", "unstaging"}
  /\ p \in dev \ mounted
  /\ mounted' = mounted \cup {p}
  /\ UNCHANGED phase \/ Move(p, {"staging"}, "staged")
  /\ UNCHANGED <<dev, crossed>>

Tell(p) == p \in mounted /\ Move(p, {"staging"}, "staged") /\ UNCHANGED <<dev, mounted, crossed>>

Release(p) == Move(p, {"staging", "staged"}, "unstaging") /\ UNCHANGED <<dev, mounted, crossed>>

Unmount(p) ==
  /\ phase[p] = "unstaging" \/ p \in crossed
  /\ mounted' = mounted \ {p}
  /\ UNCHANGED <<dev, phase, crossed>>

\* A call to mount and a call to unmount run at the same time, one of them
\* given up by the orchestrator: the node promises nothing until it reboots.
Cross(p) ==
  /\ phase[p] \in {"staging", "unstaging"}
  /\ crossed' = crossed \cup {p}
  /\ UNCHANGED <<dev, mounted, phase>>

\* The call that was given up may mount at any time, through a device it was
\* told of in another phase.
StrayMount(p) ==
  /\ p \in crossed \ mounted
  /\ mounted' = mounted \cup {p}
  /\ UNCHANGED <<dev, phase, crossed>>

\* Faulty: the answer does not depend on the unmount.
FaultyFinish(p) == Move(p, {"unstaging"}, "unstaged") /\ UNCHANGED <<dev, mounted, crossed>>

Finish(p) ==
  /\ p \notin mounted \/ p \in crossed
  /\ Move(p, {"unstaging"}, "unstaged")
  /\ UNCHANGED <<dev, mounted, crossed>>

Appear(p) ==
  /\ phase[p] # "unstaged"
  /\ dev' = dev \cup {p}
  /\ UNCHANGED <<mounted, phase, crossed>>

\* What the controller owes the node: a device goes only when it is not used.
Vanish(p) ==
  /\ phase[p] = "unstaged"
  /\ dev' = dev \ {p}
  /\ UNCHANGED <<mounted, phase, crossed>>

\* A reboot takes mounts and devices of a node's places P away; what was in
\* use is wanted again.
Reboot(P) ==
  /\ dev' = dev \ P
  /\ mounted' = mounted \ P
  /\ crossed' = crossed \ P
  /\ phase' = [p \in Places |->
                 IF p \in P /\ phase[p] = "staged" THEN "staging" ELSE phase[p]]

Next ==
  \/ \E p \in Places : \/ Want(p) \/ Mount(p) \/ Tell(p) \/ Release(p)
                       \/ Unmount(p) \/ Finish(p) \/ Appear(p) \/ Vanish(p)
                       \/ Cross(p) \/ StrayMount(p)
  \/ \E P \in SUBSET Places : Reboot(P)

Spec == Init /\ [][Next]_mountVars

=============================================================================
