------------------------------ MODULE Attachment ------------------------------
(***************************************************************************)
(* The controller service's attach and detach path (pkg/driver/            *)
(* controller.go): ControllerPublishVolume, ControllerUnpublishVolume and  *)
(* DeleteVolume as the handlers run them, one action per API call, against *)
(* the ironcore API (Machines and Volumes), the target cluster (Nodes) and *)
(* the container orchestrator (CO) whose VolumeAttachments ask for them.   *)
(*                                                                         *)
(* The driver keeps no state of its own: whatever a handler read lives in  *)
(* the handler's own call record, and may be stale when it is used.        *)
(***************************************************************************)
EXTENDS Naturals

CONSTANTS
  Volumes,               \* volume ids
  Nodes,                 \* node ids; a node and its Machine share the name
  Devices,               \* device names ironcore hands out on a Machine
  MaxFaults,             \* bound on API errors, lost replies and crashes
  NodesOutliveMachines   \* TRUE: a Node is removed only after its Machine

Absent     == "absent"       \* no entry <volume>-attachment in spec.volumes
Unassigned == "unassigned"   \* an entry whose device is still nil
Slot       == Devices \cup {Absent, Unassigned}

ASSUME ConstantsAssumption ==
  /\ Absent \notin Devices
  /\ Unassigned \notin Devices
  /\ "nobody" \notin Nodes
  /\ MaxFaults \in Nat
  /\ NodesOutliveMachines \in BOOLEAN

VARIABLES
  machines,   \* the Machine objects that exist
  nodes,      \* the Node objects that exist in the target cluster
  spec,       \* spec[n][v]: entry of volume v in spec.volumes of Machine n
  volume,     \* volume[v]: status of the ironcore Volume v
  va,         \* va[v][n]: the CO's VolumeAttachment of v to n
  pubctx,     \* pubctx[v]: device in the publish context the CO holds
  calls,      \* the RPC handlers in flight
  faults      \* faults so far

apiVars == <<machines, nodes, volume>>
coVars  == <<va, pubctx>>
vars    == <<machines, nodes, spec, volume, va, pubctx, calls, faults>>

(***************************************************************************)
(* Volume status: "pending" stands for every State other than Available,   *)
(* "available" has no Status.Access yet, "accessible" has Access with its  *)
(* VolumeAttributes, "gone" is a deleted object.                           *)
(***************************************************************************)
VolumeStatus == {"pending", "available", "accessible", "gone"}
VAState      == {"none", "attach", "attached", "detach"}
NoSlots      == [v \in Volumes |-> Absent]

PublishPC   == {"PubGetMachine", "PubPatch", "PubGetVolume"}
UnpublishPC == {"UnpNodeExists", "UnpGetMachine", "UnpPatch"}

\* A handler: the API call it makes next, what it read, and whether its
\* caller still waits for the reply.
Call == [vol : Volumes, node : Nodes, pc : PublishPC \cup UnpublishPC,
         seen : [Volumes -> Slot], live : BOOLEAN]

Init ==
  /\ machines = Nodes
  /\ nodes = Nodes
  /\ spec = [n \in Nodes |-> NoSlots]
  /\ volume = [v \in Volumes |-> "pending"]
  /\ va = [v \in Volumes |-> [n \in Nodes |-> "none"]]
  /\ pubctx = [v \in Volumes |-> Absent]
  /\ calls = {}
  /\ faults = 0

------------------------------------------------------------------------------
(* Helpers of the handlers. An operator whose name starts with Faulty is    *)
(* the next one with a plausible bug in it; nothing uses it but the tests   *)
(* of the properties' strength listed in PROJECT.json.                      *)

\* volumeAttachmentIndex(...) >= 0
Listed(slots, v) == slots[v] # Absent

\* Faulty: the environment variable that enables the lock is not set.
FaultySerialVolAccess(v) == TRUE

\* gocsi serialises the calls that name one volume; a call that finds the
\* volume busy is answered Aborted and changes nothing.
SerialVolAccess(v) == \A c \in calls : c.vol # v

\* Faulty: a JSON merge patch replaces spec.volumes by what the handler read.
FaultyMergeAdd(current, seen, v) ==
  {[seen EXCEPT ![v] = s] :
     s \in {Unassigned} \cup (Devices \ {seen[u] : u \in Volumes})}

FaultyMergeDelete(current, seen, v) == [seen EXCEPT ![v] = Absent]

\* Server side of Patch with StrategicMergeFrom: spec.volumes merges by
\* name, so only the named entry changes, whatever the handler had read. A
\* new entry gets a free device, now or later.
MergeAdd(current, seen, v) ==
  IF Listed(current, v)
  THEN {current}
  ELSE {[current EXCEPT ![v] = s] :
          s \in {Unassigned} \cup (Devices \ {current[u] : u \in Volumes})}

MergeDelete(current, seen, v) == [current EXCEPT ![v] = Absent]

\* Faulty: an entry without a device is not skipped.
FaultyDeviceValid(slots, v) == volume[v] = "accessible"

\* validateDeviceName, after the check of the volume's state
DeviceValid(slots, v) == volume[v] = "accessible" /\ slots[v] \in Devices

Continue(c, pc, seen) ==
  calls' = (calls \ {c}) \cup {[c EXCEPT !.pc = pc, !.seen = seen]}

\* The handler returns an error: the caller, if it waits, tries again.
ReturnError(c) == calls' = calls \ {c} /\ UNCHANGED coVars

\* ControllerUnpublishVolumeResponse: the CO drops the VolumeAttachment and
\* the publish context kept in it.
ReturnUnpublished(c) ==
  /\ calls' = calls \ {c}
  /\ va' = IF c.live THEN [va EXCEPT ![c.vol][c.node] = "none"] ELSE va
  /\ pubctx' = IF c.live THEN [pubctx EXCEPT ![c.vol] = Absent] ELSE pubctx

\* ControllerPublishVolumeResponse: the CO records the publish context,
\* unless it has meanwhile decided to detach.
ReturnPublished(c) ==
  LET heard == c.live /\ va[c.vol][c.node] = "attach" IN
  /\ calls' = calls \ {c}
  /\ va' = IF heard THEN [va EXCEPT ![c.vol][c.node] = "attached"] ELSE va
  /\ pubctx' = IF heard THEN [pubctx EXCEPT ![c.vol] = c.seen[c.vol]] ELSE pubctx

------------------------------------------------------------------------------
(* ControllerPublishVolume.                                                *)

\* Faulty: an entry left by an earlier call is an error, not a success.
FaultyPublishGetMachine(c) ==
  /\ c.pc = "PubGetMachine"
  /\ IF c.node \in machines /\ ~Listed(spec[c.node], c.vol)
     THEN Continue(c, "PubPatch", spec[c.node]) /\ UNCHANGED coVars
     ELSE ReturnError(c)
  /\ UNCHANGED <<apiVars, spec, faults>>

PublishGetMachine(c) ==
  /\ c.pc = "PubGetMachine"
  /\ IF c.node \in machines
     THEN /\ Continue(c, IF Listed(spec[c.node], c.vol) THEN "PubGetVolume"
                                                         ELSE "PubPatch",
                      spec[c.node])
          /\ UNCHANGED coVars
     ELSE ReturnError(c)
  /\ UNCHANGED <<apiVars, spec, faults>>

\* The reply to the patch, devices included, replaces what was read.
PublishPatch(c) ==
  /\ c.pc = "PubPatch"
  /\ IF c.node \in machines
     THEN \E slots \in MergeAdd(spec[c.node], c.seen, c.vol) :
            /\ spec' = [spec EXCEPT ![c.node] = slots]
            /\ Continue(c, "PubGetVolume", slots)
            /\ UNCHANGED coVars
     ELSE ReturnError(c) /\ UNCHANGED spec
  /\ UNCHANGED <<apiVars, faults>>

\* The volume is looked at last: by now the Machine lists it, and an error
\* here leaves it listed.
PublishGetVolume(c) ==
  /\ c.pc = "PubGetVolume"
  /\ IF DeviceValid(c.seen, c.vol) THEN ReturnPublished(c) ELSE ReturnError(c)
  /\ UNCHANGED <<apiVars, spec, faults>>

------------------------------------------------------------------------------
(* ControllerUnpublishVolume.                                              *)

\* Faulty: a missing Node is an error.
FaultyUnpublishNodeExists(c) ==
  /\ c.pc = "UnpNodeExists"
  /\ IF c.node \in nodes
     THEN Continue(c, "UnpGetMachine", c.seen) /\ UNCHANGED coVars
     ELSE ReturnError(c)
  /\ UNCHANGED <<apiVars, spec, faults>>

UnpublishNodeExists(c) ==
  /\ c.pc = "UnpNodeExists"
  /\ IF c.node \in nodes
     THEN Continue(c, "UnpGetMachine", c.seen) /\ UNCHANGED coVars
     ELSE ReturnUnpublished(c)
  /\ UNCHANGED <<apiVars, spec, faults>>

\* Faulty: idx > 0 instead of idx >= 0 (a lone entry has index 0).
FaultyUnpublishGetMachine(c) ==
  /\ c.pc = "UnpGetMachine"
  /\ CASE c.node \notin machines -> ReturnError(c)
       [] c.node \in machines /\ Listed(spec[c.node], c.vol)
            /\ (\E u \in Volumes \ {c.vol} : Listed(spec[c.node], u)) ->
            Continue(c, "UnpPatch", spec[c.node]) /\ UNCHANGED coVars
       [] OTHER -> ReturnUnpublished(c)
  /\ UNCHANGED <<apiVars, spec, faults>>

UnpublishGetMachine(c) ==
  /\ c.pc = "UnpGetMachine"
  /\ CASE c.node \notin machines -> ReturnError(c)
       [] c.node \in machines /\ Listed(spec[c.node], c.vol) ->
            Continue(c, "UnpPatch", spec[c.node]) /\ UNCHANGED coVars
       [] OTHER -> ReturnUnpublished(c)
  /\ UNCHANGED <<apiVars, spec, faults>>

UnpublishPatch(c) ==
  /\ c.pc = "UnpPatch"
  /\ IF c.node \in machines
     THEN /\ spec' = [spec EXCEPT
                        ![c.node] = MergeDelete(spec[c.node], c.seen, c.vol)]
          /\ ReturnUnpublished(c)
     ELSE ReturnError(c) /\ UNCHANGED spec
  /\ UNCHANGED <<apiVars, faults>>

HandlerStep(c) ==
  \/ PublishGetMachine(c) \/ PublishPatch(c) \/ PublishGetVolume(c)
  \/ UnpublishNodeExists(c) \/ UnpublishGetMachine(c) \/ UnpublishPatch(c)

------------------------------------------------------------------------------
(* The CO: VolumeAttachments, the attacher's calls for them, and volume    *)
(* deletion. A volume has one VolumeAttachment at a time, and a             *)
(* VolumeAttachment one call that its caller waits for.                     *)

Attach(v, n) ==
  /\ n \in nodes
  /\ volume[v] # "gone"
  /\ \A m \in Nodes : va[v][m] = "none"
  /\ va' = [va EXCEPT ![v][n] = "attach"]
  /\ UNCHANGED <<apiVars, spec, pubctx, calls, faults>>

Detach(v, n) ==
  /\ va[v][n] \in {"attach", "attached"}
  /\ va' = [va EXCEPT ![v][n] = "detach"]
  /\ UNCHANGED <<apiVars, spec, pubctx, calls, faults>>

Begin(v, n, pc) ==
  /\ SerialVolAccess(v)
  /\ \A c \in calls : ~(c.live /\ c.vol = v /\ c.node = n)
  /\ calls' = calls \cup {[vol |-> v, node |-> n, pc |-> pc,
                           seen |-> NoSlots, live |-> TRUE]}
  /\ UNCHANGED <<apiVars, spec, coVars, faults>>

BeginPublish(v, n)   == va[v][n] = "attach" /\ Begin(v, n, "PubGetMachine")
BeginUnpublish(v, n) == va[v][n] = "detach" /\ Begin(v, n, "UnpNodeExists")

\* DeleteVolume is one API call; a volume already deleted is a success. The
\* CO asks for it once no VolumeAttachment is left.
DeleteVolume(v) ==
  /\ \A n \in Nodes : va[v][n] = "none"
  /\ SerialVolAccess(v)
  /\ volume' = [volume EXCEPT ![v] = "gone"]
  /\ UNCHANGED <<machines, nodes, spec, coVars, calls, faults>>

------------------------------------------------------------------------------
(* ironcore and the target cluster.                                        *)

VolumeProgresses(v) ==
  /\ volume[v] \in {"pending", "available"}
  /\ volume' = [volume EXCEPT ![v] = IF @ = "pending" THEN "available"
                                                      ELSE "accessible"]
  /\ UNCHANGED <<machines, nodes, spec, coVars, calls, faults>>

AssignDevice(n, v) ==
  /\ spec[n][v] = Unassigned
  /\ \E d \in Devices \ {spec[n][u] : u \in Volumes} :
       spec' = [spec EXCEPT ![n][v] = d]
  /\ UNCHANGED <<apiVars, coVars, calls, faults>>

DeleteMachine(n) ==
  /\ n \in machines
  /\ machines' = machines \ {n}
  /\ spec' = [spec EXCEPT ![n] = NoSlots]
  /\ UNCHANGED <<nodes, volume, coVars, calls, faults>>

DeleteNode(n) ==
  /\ n \in nodes
  /\ NodesOutliveMachines => n \notin machines
  /\ nodes' = nodes \ {n}
  /\ UNCHANGED <<machines, volume, spec, coVars, calls, faults>>

------------------------------------------------------------------------------
(* Faults, MaxFaults of them.                                              *)

Fault == faults < MaxFaults /\ faults' = faults + 1

\* The API call a handler makes next fails: the handler returns the error.
ApiError(c) == Fault /\ ReturnError(c) /\ UNCHANGED <<apiVars, spec>>

\* The caller gives up (deadline, lost reply): the handler runs on unheard.
Abandon(c) ==
  /\ c.live
  /\ Fault
  /\ calls' = (calls \ {c}) \cup {[c EXCEPT !.live = FALSE]}
  /\ UNCHANGED <<apiVars, spec, coVars>>

\* The controller restarts: its handlers and the serialising locks are gone.
Crash ==
  /\ calls # {}
  /\ Fault
  /\ calls' = {}
  /\ UNCHANGED <<apiVars, spec, coVars>>

\* The Volume leaves state Available again (Error, Pending).
VolumeDegrades(v) ==
  /\ volume[v] \in {"available", "accessible"}
  /\ Fault
  /\ volume' = [volume EXCEPT ![v] = "pending"]
  /\ UNCHANGED <<machines, nodes, spec, coVars, calls>>

------------------------------------------------------------------------------
Next ==
  \/ \E c \in calls : HandlerStep(c) \/ ApiError(c) \/ Abandon(c)
  \/ \E v \in Volumes, n \in Nodes :
       \/ Attach(v, n) \/ Detach(v, n)
       \/ BeginPublish(v, n) \/ BeginUnpublish(v, n)
       \/ AssignDevice(n, v)
  \/ \E v \in Volumes :
       DeleteVolume(v) \/ VolumeProgresses(v) \/ VolumeDegrades(v)
  \/ \E n \in Nodes : DeleteMachine(n) \/ DeleteNode(n)
  \/ Crash

Spec == Init /\ [][Next]_vars

\* A handler keeps running; the attacher keeps retrying; ironcore brings its
\* volumes up and assigns devices; the cloud provider removes the Node of a
\* Machine that is gone. Nothing else is promised.
Fairness ==
  /\ \A v \in Volumes :
       /\ WF_vars(\E c \in calls : c.vol = v /\ HandlerStep(c))
       /\ WF_vars(VolumeProgresses(v))
  /\ \A v \in Volumes, n \in Nodes :
       /\ WF_vars(BeginPublish(v, n))
       /\ WF_vars(BeginUnpublish(v, n))
       /\ WF_vars(AssignDevice(n, v))
  /\ \A n \in Nodes : WF_vars(n \notin machines /\ DeleteNode(n))

FairSpec == Spec /\ Fairness

------------------------------------------------------------------------------
(* Properties.                                                             *)

\* Every variable has the shape the API objects and the handlers give it.
TypeOK ==
  /\ machines \subseteq Nodes
  /\ nodes \subseteq Nodes
  /\ spec \in [Nodes -> [Volumes -> Slot]]
  /\ volume \in [Volumes -> VolumeStatus]
  /\ va \in [Volumes -> [Nodes -> VAState]]
  /\ pubctx \in [Volumes -> Devices \cup {Absent}]
  /\ calls \subseteq Call
  /\ faults \in 0..MaxFaults

\* A volume is listed by one Machine at most, whatever handlers were
\* abandoned, failed half-way or were cut off by a restart
\* (controller.go:32-34, "attached to a single node at any given time").
SingleAttach ==
  \A v \in Volumes : \A m, n \in Nodes :
    Listed(spec[m], v) /\ Listed(spec[n], v) => m = n

\* What ControllerPublishVolume answered stays true until the CO asks for
\* the detach: the Machine still lists the volume, under the device the
\* publish context names.
PublishContextHolds ==
  \A v \in Volumes, n \in Nodes :
    va[v][n] = "attached" /\ n \in machines =>
      spec[n][v] = pubctx[v] /\ pubctx[v] \in Devices

\* Two volumes published on a node never share a device name, so the
\* device paths NodeStageVolume formats and mounts are distinct.
DistinctDevices ==
  \A u, v \in Volumes, n \in Nodes :
    u # v /\ va[u][n] = "attached" /\ va[v][n] = "attached" /\ n \in machines
      => pubctx[u] # pubctx[v]

\* A volume is never deleted under a Machine that still lists it, although
\* ControllerPublishVolume lists a volume before it looks at it.
NoDanglingAttachment ==
  \A v \in Volumes : volume[v] = "gone" => \A n \in Nodes : ~Listed(spec[n], v)

\* An entry leaves spec.volumes of a living Machine only when the CO is
\* detaching that very volume from that node: no patch made for another
\* volume, and no handler of an earlier detach, removes it.
DetachOnlyRequested ==
  [][\A v \in Volumes, n \in Nodes :
       Listed(spec[n], v) /\ ~Listed(spec'[n], v) =>
         va[v][n] = "detach" \/ n \notin machines']_vars

\* Attaching implements VolumeLease: the Machines' lists, seen as one holder
\* per volume, change hands only through nobody, never under an
\* orchestrator that was told otherwise, and never after the deletion.
Holder(v) ==
  IF \E n \in Nodes : Listed(spec[n], v)
  THEN CHOOSE n \in Nodes : Listed(spec[n], v)
  ELSE "nobody"

Told(v) ==
  IF \E n \in Nodes : va[v][n] = "attached"
  THEN CHOOSE n \in Nodes : va[v][n] = "attached"
  ELSE "nobody"

Lease == INSTANCE VolumeLease WITH
  Nobody  <- "nobody",
  holder  <- [v \in Volumes |-> Holder(v)],
  told    <- [v \in Volumes |-> Told(v)],
  lost    <- Nodes \ machines,
  deleted <- {v \in Volumes : volume[v] = "gone"}

ImplementsLease == Lease!Spec

\* Every detach ends, also when the Machine or the Node disappears under
\* the handler that is working on it.
DetachCompletes ==
  \A v \in Volumes, n \in Nodes : va[v][n] = "detach" ~> va[v][n] = "none"

\* Every attach ends: published, given up by the CO, or without a Machine.
AttachCompletes ==
  \A v \in Volumes, n \in Nodes :
    va[v][n] = "attach" ~> va[v][n] # "attach" \/ n \notin machines

=============================================================================
