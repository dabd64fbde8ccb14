-------------------------------- MODULE System --------------------------------
(***************************************************************************)
(* The two halves of the driver together: the controller service's attach  *)
(* and detach path (Attachment), the node service's promise on every node  *)
(* (NodeMount, which NodeVolume implements), the hypervisor that plugs the *)
(* disks a Machine lists, some time later, and the CO that puts them in    *)
(* order: attach, stage, unstage, detach. On top of Attachment's faults a  *)
(* patch whose call was given up may reach the API server at any later     *)
(* time, and so may a NodeStageVolume or NodeUnstageVolume that was given  *)
(* up reach the file system: no lock keeps the two apart.                  *)
(***************************************************************************)
EXTENDS Attachment, DeviceNames

CONSTANTS
  Eligible,   \* <<v, n>>: the scheduler may place v on n
  Ready,      \* states of a Volume in which the CO asks for an attachment
  Mortal      \* bound: Machines that may be deleted

VARIABLES
  plugged,   \* plugged[n][v]: device under which disk v is plugged into n
  shown,     \* shown[p]: the volume mounted at place p = <<v, n>>
  phase,     \* phase[p]: what the CO wants of the node service, and was told
  crossed,   \* places where a stage and an unstage handler ran together
  late,      \* patches of given-up calls that are still under way
  struck     \* places whose entry such a patch has removed

Places  == Volumes \X Nodes
Nothing == "nothing"

ASSUME SystemAssumption ==
  /\ DOMAIN Name = Devices /\ DOMAIN Handle = Volumes
  /\ Eligible \subseteq Places
  /\ Ready \subseteq VolumeStatus \ {"pending"}
  /\ Nothing \notin Volumes

mountingVars == <<plugged, shown, phase, crossed>>
lateVars     == <<late, struck>>
sysVars      == <<vars, mountingVars, lateVars>>

On(n) == {p \in Places : p[2] = n}
Late  == [op : {"add", "delete"}, vol : Volumes, node : Nodes, fault : 1..MaxFaults]

\* The disks that node p[2] finds under the path of device d for p[1].
FoundUnder(d, p) ==
  {u \in Volumes :
     /\ plugged[p[2]][u] \in Devices /\ d \in Devices
     /\ DevicePath(plugged[p[2]][u], u) = DevicePath(d, p[1])}

\* The disks under the path the CO was given.
Found(p) == FoundUnder(pubctx[p[1]], p)

Mounts == INSTANCE NodeMount WITH
  dev     <- {p \in Places : Found(p) # {}},
  mounted <- {p \in Places : shown[p] # Nothing}

SysInit ==
  /\ Init
  /\ plugged = [n \in Nodes |-> NoSlots]
  /\ shown = [p \in Places |-> Nothing]
  /\ phase = [p \in Places |-> "unstaged"]
  /\ crossed = {} /\ late = {} /\ struck = {}

------------------------------------------------------------------------------
(* The controller's side: a step of Attachment.                            *)

\* The CO attaches a volume that was provisioned, where the scheduler may
\* place it, and detaches it when the node is done with it.
InOrder ==
  \A p \in Places :
    LET v == p[1] n == p[2] IN
    /\ va[v][n] = "none" /\ va'[v][n] = "attach" =>
         p \in Eligible /\ volume[v] \in Ready
    /\ va[v][n] # "detach" /\ va'[v][n] = "detach" => phase[p] = "unstaged"

\* With a Machine goes everything on it.
OnMachines ==
  /\ plugged' = [n \in Nodes |-> IF n \in machines' THEN plugged[n] ELSE NoSlots]
  /\ shown' = [p \in Places |-> IF p[2] \in machines' THEN shown[p] ELSE Nothing]
  /\ phase' = [p \in Places |-> IF p[2] \in machines' THEN phase[p] ELSE "unstaged"]
  /\ crossed' = {p \in crossed : p[2] \in machines'}

ControllerStep ==
  /\ Next /\ InOrder
  /\ Nodes \ machines' \subseteq Mortal
  /\ OnMachines
  /\ UNCHANGED lateVars

------------------------------------------------------------------------------
(* Late patches.                                                           *)

\* The context of a call ends while its patch is under way: the handler
\* returns an error.
PatchDelayed(c) ==
  /\ c.pc \in {"PubPatch", "UnpPatch"}
  /\ Fault
  /\ ReturnError(c)
  /\ late' = late \cup
       {[op |-> IF c.pc = "PubPatch" THEN "add" ELSE "delete",
         vol |-> c.vol, node |-> c.node, fault |-> faults + 1]}
  /\ UNCHANGED <<apiVars, spec, mountingVars, struck>>

\* The patch of a Machine that is gone changes nothing.
PatchArrives(w) ==
  /\ w.node \in machines
  /\ late' = late \ {w}
  /\ IF w.op = "add"
     THEN /\ \E slots \in MergeAdd(spec[w.node], spec[w.node], w.vol) :
               spec' = [spec EXCEPT ![w.node] = slots]
          /\ UNCHANGED struck
     ELSE /\ spec' = [spec EXCEPT
                        ![w.node] = MergeDelete(spec[w.node], spec[w.node], w.vol)]
          /\ struck' = struck \cup {<<w.vol, w.node>>}
  /\ UNCHANGED <<apiVars, coVars, calls, faults, mountingVars>>

------------------------------------------------------------------------------
(* The hypervisor.                                                         *)

\* A device is free again when the disk that had it is unplugged.
Plug(n, v) ==
  /\ plugged[n][v] = Absent /\ spec[n][v] \in Devices
  /\ \A u \in Volumes : plugged[n][u] # spec[n][v]
  /\ plugged' = [plugged EXCEPT ![n][v] = spec[n][v]]
  /\ UNCHANGED <<vars, shown, phase, crossed, lateVars>>

Unplug(n, v) ==
  /\ plugged[n][v] \notin {Absent, spec[n][v]}
  /\ plugged' = [plugged EXCEPT ![n][v] = Absent]
  /\ UNCHANGED <<vars, shown, phase, crossed, lateVars>>

------------------------------------------------------------------------------
(* The node's side: a step of NodeMount, when the CO was told of the       *)
(* attachment.                                                             *)

Frame == UNCHANGED <<vars, plugged, lateVars>>

NodeWant(p) ==
  /\ va[p[1]][p[2]] = "attached" /\ p[2] \in machines /\ phase[p] = "unstaged"
  /\ Frame /\ UNCHANGED shown
  /\ Mounts!Want(p)

NodeMounts(p) ==
  /\ phase[p] # "unstaged" /\ shown[p] = Nothing
  /\ \E u \in Found(p) : /\ Frame
                         /\ shown' = [shown EXCEPT ![p] = u]
                         /\ Mounts!Mount(p)

NodeUnmounts(p) ==
  /\ phase[p] = "unstaging" \/ p \in crossed
  /\ shown[p] # Nothing
  /\ Frame /\ shown' = [shown EXCEPT ![p] = Nothing]
  /\ Mounts!Unmount(p)

NodeTells(p) ==
  /\ phase[p] # "unstaged"
  /\ Frame /\ UNCHANGED shown
  /\ Mounts!Tell(p) \/ Mounts!Release(p) \/ Mounts!Finish(p)

\* The CO gives a call up and makes the opposite one (or a new process
\* starts) while the handler of the first still runs.
NodeCrosses(p) ==
  /\ phase[p] \in {"staging", "unstaging"} /\ p \notin crossed /\ Fault
  /\ UNCHANGED <<apiVars, spec, coVars, calls, plugged, shown, lateVars>>
  /\ Mounts!Cross(p)

\* A stage handler that was given up mounts what it finds under the path of
\* the publish context it was called with, maybe that of an earlier attachment.
NodeStrays(p) ==
  /\ p \in crossed /\ shown[p] = Nothing
  /\ \E d \in Devices : \E u \in FoundUnder(d, p) :
       /\ Frame
       /\ shown' = [shown EXCEPT ![p] = u]
       /\ Mounts!StrayMount(p)

NodeReboots(n) ==
  /\ n \in machines /\ Fault
  /\ plugged' = [plugged EXCEPT ![n] = NoSlots]
  /\ shown' = [p \in Places |-> IF p \in On(n) THEN Nothing ELSE shown[p]]
  /\ UNCHANGED <<apiVars, spec, coVars, calls, lateVars>>
  /\ Mounts!Reboot(On(n))

\* A step of the node service at one place.
NodeStep(p) == NodeWant(p) \/ NodeMounts(p) \/ NodeUnmounts(p) \/ NodeTells(p) \/ NodeStrays(p)

------------------------------------------------------------------------------
SysNext ==
  \/ ControllerStep
  \/ \E c \in calls : PatchDelayed(c)
  \/ \E w \in late : PatchArrives(w)
  \/ \E n \in Nodes, v \in Volumes : Plug(n, v) \/ Unplug(n, v)
  \/ \E p \in Places : NodeStep(p) \/ NodeCrosses(p)
  \/ \E n \in Nodes : NodeReboots(n)

SysSpec == SysInit /\ [][SysNext]_sysVars

------------------------------------------------------------------------------
(* Properties.                                                             *)

\* Every variable has its type.
SysTypeOK ==
  /\ TypeOK
  /\ plugged \in [Nodes -> [Volumes -> Devices \cup {Absent}]]
  /\ shown \in [Places -> Volumes \cup {Nothing}]
  /\ phase \in [Places -> Mounts!Phase]
  /\ crossed \subseteq Places
  /\ late \subseteq Late
  /\ struck \subseteq Places

\* A volume is never mounted on two nodes (controller.go:32-34, "attached to
\* a single node at any given time"), not even when a late patch lists it on
\* two Machines and the hypervisor plugs it into both: two nodes have it
\* mounted only when on one of them a stage and an unstage handler of it ran
\* together, one of them given up, since that node booted.
MountedOnOneNode ==
  \A v \in Volumes : \A m, n \in Nodes :
    shown[<<v, m>>] # Nothing /\ shown[<<v, n>>] # Nothing =>
      m = n \/ <<v, m>> \in crossed \/ <<v, n>> \in crossed

\* What NodeStageVolume mounts for a volume is that volume, although a device
\* name is given to another volume before the disk that had it is unplugged,
\* and although the publish context may be out of date, that of a handler that
\* was given up even by several attachments: the path it stats and
\* mounts names the volume, too.
RightVolume == \A p \in Places : shown[p] \in {p[1], Nothing}

\* A volume is never deleted while it is mounted, although the controller
\* service knows nothing of mounts and a late patch may list a volume again,
\* except by a stage handler that an unstage handler did not wait for.
DeletedUnused ==
  \A p \in Places : volume[p[1]] = "gone" => shown[p] = Nothing \/ p \in crossed

\* What the controller owes the node (NodeMount's Vanish): as long as a volume
\* is in use, the path the node was given leads to a disk, once it did, unless
\* the Machine goes, the node reboots, or a patch of an earlier detach arrived
\* late and struck the entry.
DeviceHeld ==
  [][\A p \in Places :
       phase[p] # "unstaged" /\ Found(p) # {} =>
         \/ Found(p)' # {}
         \/ p[2] \notin machines'
         \/ faults' # faults
         \/ p \in struck]_sysVars

=============================================================================
