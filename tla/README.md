# ironcore-csi-driver in TLA+

A verification development for the CSI driver that gives ironcore volumes to a
Kubernetes cluster. Paths such as `controller.go:240` are below
`src/pkg/driver/` unless they say otherwise. `PROJECT.json` maps every
definition to the lines it models and lists runs, mutants, findings, hazards
and theorems.

## 1. The system

The driver is one binary (`src/cmd/main.go`) with two roles: a controller
(a Deployment beside the sidecars external-provisioner, -attacher, -resizer,
-snapshotter) and a node plugin (a DaemonSet, called by the kubelet). It keeps
no state of its own. Its state is elsewhere and shared:

| where | what | who else writes it |
|---|---|---|
| ironcore API | `Volume`, `VolumeSnapshot`, `Machine.spec.volumes`, `VolumePool`, `VolumeClass` | ironcore's controllers, other handlers |
| target cluster | `Node`, PV/PVC, `VolumeAttachment` | Kubernetes, cloud provider, sidecars |
| node | device paths, staging and target directories, mount table, file systems | udev, kubelet, other handlers |
| memory | gocsi's lock per volume (`main.go:84-89`), for some of the calls (section 5) | lost at a restart |

Every handler is a sequence of remote or system calls. What it read may be
stale at its next call; its caller may be gone, and may call again; the process
may die between any two calls.

| component | operations | what makes it correct |
|---|---|---|
| attach and detach | `ControllerPublishVolume`, `ControllerUnpublishVolume` | one Machine per volume; the publish context stays true; entries leave only on request; every attach and detach ends |
| provisioning | `CreateVolume`, `waitForVolumeAvailability`, `DeleteVolume`, `getVolSizeBytes`, `getAZFromTopology`, `NodeGetInfo`'s zone | a bound claim has its Volume where, and as large as, it was told and asked for; retries change nothing; no Volume is left behind |
| expansion | `ControllerExpandVolume`, `NodeExpandVolume`, `RoundUpBytes` | never smaller; as large as answered; the request is eventually usable |
| stage and publish | `NodeStageVolume`, `NodePublishVolume`, `NodeUnpublishVolume`, `NodeUnstageVolume` | no data is deleted; pods see their volume; nothing stays mounted; set-up ends, tear-down takes effect |
| snapshots | `CreateSnapshot`, `waitForVolumeSnapshotReady`, `DeleteSnapshot` | what was reported ready is ready and of a moment after it was asked for; creation and deletion take effect |
| controller and nodes together | the handlers above, `validateDeviceName`, the hypervisor, the CO's order | a volume is mounted on one node at a time, and a node mounts the volume it was asked to |
| sizes | `RoundUpBytes`, `roundUpSize` | whole units, never smaller than asked; what wraps around near the largest int64 is no positive size |
| queries, identity, startup, wrappers, mocks | constant answers, reads, thin calls | section 6 |

The hard behaviours: handlers of several volumes on one Machine; a deadline that
passes while a handler runs on; lost replies and retries of what was already
done; restarts and reboots between two calls; Machines and Nodes that disappear;
a device that appears or grows late; a recursive `RemoveAll` on a path that may
be a mount point; a stage and an unstage handler of one volume at work together;
a patch that arrives after its call was given up; a device name
that is reused before the old disk is unplugged. `PROJECT.json` lists them as hazards, at their lines.

## 2. Modules

| module | models | proofs |
|---|---|---|
| `Attachment` | attach, detach, with `VolumeAttachment`s, Machines, Nodes | `AttachmentProofs`, `AttachmentLeaseProofs` |
| `VolumeLease` | the abstract promise of attaching | |
| `NodeVolume` | the four mount handlers on one node | `NodeVolumeProofs` |
| `NodeMount` | the abstract promise of the node service | `NodeVolumeProofs` (that it is kept) |
| `System` | `Attachment` with a `NodeMount` per node, hypervisor and CO | `SystemProofs` |
| `DeviceNames` | the device path and its cut (used by `System`) | `SystemProofs` |
| `Provisioning` | create, wait, delete for one claim | `ProvisioningProofs` |
| `Sizes` | rounding in wrapping int64 (used by `Provisioning`, `Expansion`) | `SizesProofs` |
| `Topology` | zones of nodes and of requests (used by `Provisioning`) | `ProvisioningProofs` |
| `Expansion` | controller and node expansion of one volume | `ExpansionProofs` |
| `Snapshots` | create, wait, delete of one snapshot | `SnapshotsProofs` |
| `MC*` | instances for TLC (model values, requests, symmetry sets) | |

The modules of handlers have one shape. `calls` is the set of handlers in
flight; a handler is a record with its next call (`pc`), what it has read, and
`live`: does its caller still wait. Each action is one API, mount or file system
call together with the code up to the next one. `ReturnError` and the other
`Return...` operators end a handler and let the container orchestrator (CO) take
note. `Begin...` are the CO's calls; `ApiError`/`CallFails`, `...ReplyLost`,
`Abandon`, `Crash`/`Restart` and `Reboot` are faults, counted and bounded.
Operators named `Faulty...` are deliberate bugs, used by the mutants in
`PROJECT.json` to show that each property can fail.

### Attachment

`spec[n][v]` is the entry of volume v in Machine n's `spec.volumes`: `Absent`,
`Unassigned` (no device yet) or a device. `PublishGetMachine`, `PublishPatch`,
`PublishGetVolume` are the three API calls of `ControllerPublishVolume`;
`UnpublishNodeExists`, `UnpublishGetMachine`, `UnpublishPatch` those of
`ControllerUnpublishVolume`. `MergeAdd` and `MergeDelete` are the server side of
a strategic merge patch: `spec.volumes` merges by name, so a stale handler
changes its own entry only. An abandoned handler runs on, which is more than the
code can do (its context ends), so what is shown holds for it too.

`VolumeLease` says what this amounts to: a volume is held by one node at a time,
changes hands only through nobody, is not withdrawn while the CO believes it
attached (unless the Machine itself is gone), and is deleted only when free.
`ImplementsLease` maps the Machines' lists to the holder.

### NodeVolume

State is the node's: devices, staging directories and mounts, target
directories and mounts (`tmnt[v][p]` is the stack of mounts at a target path, so
mounting twice is visible), and `wiped`, the volumes whose files a `RemoveAll`
has deleted. A bind mount shows what the staging path showed when it was made:
the volume, or the node's root file system. `LikelyMountPoint` is
`IsLikelyNotMountPoint`, which does not see a bind mount within one file system.
Handlers here ignore their context: an abandoned one really runs on. The CO is
the kubelet: it stages, publishes, unpublishes and unstages in CSI's order, one
call per volume that it waits for, and with `TeardownUncertain` also tears down
what it failed to set up.

The lock (`Serialised`) covers publish and unpublish calls only. A stage handler
that was given up may therefore work against an unstage handler, or the other way
round. `crossed` is a history variable: the volumes of which this has happened
since the node booted (`Crosses`, in `Begin`). It does not guard any action; it
is there so that properties can say that what goes wrong goes wrong only then.

`NodeMount` says what this amounts to, without directories, pods or calls: a
volume is mounted only between the CO's wish and the answer that it is unstaged,
only through a device that is there, and both answers are true when given. The
promise ends for a place where the two kinds of handlers have crossed (`Cross`):
there the volume may be mounted at any time, after the answer "unstaged" too
(`StrayMount`), unmounted while it is used (`Unmount`), and reported unstaged
while it is mounted (`Finish`), until the node reboots. Its `Vanish` is what the
node service expects of the controller: a device goes only when it is not used.
`ImplementsNodeMount` maps to it the volumes mounted at a staging or a target path.

### System

`System` extends `Attachment` and runs `NodeMount` for every volume on every
node. `ControllerStep` is any step of `Attachment` the CO's order allows
(`InOrder`: attach what is provisioned, where the scheduler may place it; detach
when the node answered "unstaged"). `Plug` and `Unplug` are the hypervisor, which
follows `spec.volumes` some time later; a device is handed out again as soon as
the *entry* is gone, while the old disk may still be plugged in under it.
`Found(p)` is what `NodeStageVolume` finds under the path in its publish context:
every plugged disk whose path, made of device and handle and cut to `MaxName`
characters, is the same. `NodeCrosses` is the one fault of the node service that
its promise does not cover; `NodeStrays` is the mount of a handler that was given
up, maybe with the publish context of an earlier attachment.

`PatchDelayed` and `PatchArrives` add what `Attachment` leaves out: a patch that
was sent when its call's context ended, and that the API server carries out at
any later time, with the lock long free. Under it `SingleAttach` of `Attachment`
does fail: a late attach lists a volume on a second Machine, and the hypervisor
plugs it in there. What `System` shows is that this does no harm, because a node
mounts only what the CO was told is attached to it, unless handlers crossed on
one of the two nodes (without that exception both `MountedOnOneNode` and
`DeletedUnused` fail in the instance of the run). The other direction, a late
detach, does take the disk from a node that uses it; `struck` marks the places
where that happened, and `DeviceHeld` says that nothing else does it: it is the
obligation that `NodeMount`'s `Vanish` puts on the controller. `DeletedUnused`
says that a volume is not deleted under a mount, with the same exception.

### Provisioning, Sizes, Topology

One claim: volumes share nothing here. A request is what the decisions of
`CreateVolume` depend on: class given or not, pool named or not, the preferred
and requisite topologies, each as the node it was made up from, and the capacity
range; named pools and zones may or may not exist. `Topology` gives a node's zone
(`NodeGetInfo`, the deprecated label first) and the zone of a request; `Sizes`
computes in int64 of a small width, with Go's wrap-around and division, so that
rounding near the largest size does go negative. `getVolSizeBytes` does not refuse
that: such a claim is bound to a Volume of no size, which `CapacityAsAsked`
states. `Applied` is
server-side apply: a pool that the request leaves out keeps what the scheduler
set. `WaitForVolumeAvailability` is one poll; the code makes `waitActiveSteps` =
5. Every API call takes the call's context, so a handler whose caller is gone
does nothing more (`ContextDone`). The CO is external-provisioner v5.3: it takes
error codes such as Internal or Unknown as final and forgets a deleted claim
then; after a deadline or an unavailable driver it goes on (`background`).

### Expansion

One volume with three sizes: the Volume's `spec`, the device (`dev`), the file
system (`fs`); and what the CO wants (`want`), was told by the controller
(`capacity`) and by the node (`usable`). A merge patch carries the difference to
what was read, none if the size is the same (`Patched`). `ResizeList`,
`ResizeFs`, `ResizeSeek` are `NodeExpandVolume`'s look into the mount table, its
resize, and its measurement of the block device. No lock is assumed. The user
may ask for less than before while an expansion is pending. Sizes go up to the
largest int64, where rounding wraps around and the comparison with the present
size refuses the result.

### Snapshots

One snapshot of one volume. `data` counts the writes to the source, `taken` is
the count the snapshot holds, and `window`, a history variable, the counts when
the CO asked for it and when it was told that it is ready. Every retry of
`CreateSnapshot` looks the source up again (`CreateGetSource`), applies the same
object (`Applied`) and polls (`WaitForVolumeSnapshotReady`). A call that is given
up may leave its write under way (`late`), to arrive at any time (`LateWrite`).
The CO is the external-snapshotter: it keeps the source while a snapshot is not
ready, forgets a deleted one after a final error, and repeats a failing
`DeleteSnapshot` for ever.

## 3. Runs

| run | result | shows |
|---|---|---|
| `attachment_safety` | pass, 1.09 M states | `SingleAttach`, `PublishContextHolds`, `DistinctDevices`, `NoDanglingAttachment`, `DetachOnlyRequested`, `ImplementsLease` |
| `attachment_liveness` | pass | `AttachCompletes`, `DetachCompletes` |
| `attachment_node_first` | violation | finding 1 |
| `node` | pass, 0.17 M states | `NoDataLoss`, `PublishedSeesVolume`, `CleanAfterUnstage`, `SetupCompletes`, `TeardownTakesEffect`, `ImplementsNodeMount` |
| `node_teardown` | violation | findings 2 and 3 |
| `node_crossing` | violation | finding 6 |
| `provisioning` | pass, 93 k states | `BoundVolumeUsable`, `CapacityAsAsked`, `TopologyHolds`, `PoolKept`, `CreateCompletes`, `DeleteCompletes` |
| `provisioning_orphan` | violation | finding 4 |
| `expansion` | pass, 0.56 M states | `VolumeAsTold`, `DeviceAsTold`, `NoShrink`, `AnswerCovers`, `ExpandCompletes` |
| `expansion_device_race` | violation | finding 5 |
| `snapshots` | pass, 25 k states | `ReadySnapshotUsable`, `SnapshotOfItsTime`, `CreateCompletes`, `DeleteTakesEffect` |
| `system` | pass, 0.90 M states | `MountedOnOneNode`, `RightVolume`, `DeletedUnused`, `DeviceHeld` |

Every passing run but `attachment_liveness` also checks its type invariant.
Deadlock checking is off everywhere: a system in which nothing is asked for any
more may stop.

**Bounds.** Two volumes, two nodes and two devices give every conflict of
`Attachment`: two volumes on one Machine, one volume on two, the last free
device. On the node one volume and two pods do (lock and staging path are per
volume, so volumes share nothing there); three failing calls and two losses
reach a retry of a retry, and two handlers given up beside the one that is waited
for. `Provisioning` has three pool names, one of which does
not exist, four nodes (both labels, one, none, a zone without a pool), and
capacities below, at and above a unit, at the limit, and at the largest int64;
the number of polls, there and in `Snapshots`, is the code's. `Expansion` has
units of 2 and int64 up to 7: four sizes of the Volume, requests that need
rounding, and one that wraps around. `Snapshots` has four faults: a late apply
and a late delete besides two lost calls; two writes tell three moments apart.
`System` has one device, so that every second volume on a Machine reuses it, one
fault (a delayed patch, a lost reply, an abandoned call, a crossing or a reboot)
and one
Machine that may be deleted (`Mortal`); one volume may go to both nodes, the other
competes with it on the first, and the CO asks for an attachment once a volume is
accessible (`Ready`). Names there
have one character, handles two, of which one is kept. The safety properties are
also proved for every bound.

**Fairness.** Handlers go on (weak fairness per volume: every call they make
returns). The CO repeats its calls: sidecars and the kubelet retry with back-off
without end. On the node this is strong fairness, because calls for two pods of
one volume take turns with the lock and a back-off never skips a free lock for
ever; the fairness is on the pair of opposite calls (`BeginStage` or
`BeginUnstage`, `BeginPublish` or `BeginUnpublish`), of which the CO's state
enables one at a time. ironcore schedules, provisions, assigns, grows and takes snapshots; devices of
attached volumes appear; the cloud provider removes the Node of a Machine that is gone.
No fairness is put on users, on faults, on detaching, or on the removal of a
Machine.

**Findings.**

1. `ControllerUnpublishVolume` takes a missing Node for a missing Machine
   (`controller.go:278`). If the Machine lives, the volume can be listed on a
   second one, against the comment at `controller.go:33`.
2. A lost reply of `NodeUnpublishVolume` makes every retry fail: the target path
   is gone, which is an error (`node.go:198`).
3. A failed `RemoveAll` in `NodeUnstageVolume`, or a lost reply, makes every retry
   fail: the path is no longer mounted, which is an error (`node.go:172`). In both
   cases `TeardownTakesEffect` shows that the mounts do go; the CO is never told.
   `TeardownCompletes` fails for both reasons; TLC prints the trace of finding 2,
   and, with `MaxLosses = 0`, that of finding 3.
4. `CreateVolume` answers a wait that runs out with a final error
   (`controller.go:150`); a claim deleted then leaves its Volume in ironcore.
5. `NodeExpandVolume` measures the block device after resizing the file system
   (`node.go:275`); if the device grows in between, the file system is smaller
   than the answer, and nobody asks again.
6. Stage and unstage handlers of one volume are not kept apart (`node.go:35`,
   `node.go:179`, `main.go:88`). One stage call that exceeds its deadline, formatting
   a large disk, say, is enough: its retry succeeds, the volume is used and unstaged,
   and the first handler mounts it again between unmount and `RemoveAll`, which
   deletes the volume's files. Or it mounts after the answer, and the volume is
   attached elsewhere, or deleted, while it is mounted here. Or a late unstage
   handler unmounts and removes the staging path of a staged volume: a pod is given
   the node's root file system, which `NodeUnpublishVolume` does not even see, so
   that tearing down gets stuck, or publishing fails for ever (hence the exceptions
   in `SetupCompletes` and `TeardownTakesEffect`). The theorems on the node show
   that nothing but such a crossing has these effects.

## 4. Proofs

Checked by TLAPS for every value of the constants, without bounds on volumes,
nodes, pods, pools, sizes or faults.

| theorem | statement | assumes |
|---|---|---|
| `AttachmentProofs!TypeCorrect` | `[]TypeOK` | |
| `AttachmentProofs!ContextSafe` | `PublishContextHolds`, `DistinctDevices` | |
| `AttachmentProofs!AttachmentSafe` | `SingleAttach`, `NoDanglingAttachment` | `NodesOutliveMachines` |
| `AttachmentLeaseProofs!AttachmentImplementsLease` | `ImplementsLease` | `NodesOutliveMachines` |
| `AttachmentLeaseProofs!DetachRequested` | `DetachOnlyRequested` | |
| `NodeVolumeProofs!TypeCorrect`, `NodeSafe` | `TypeOK`, `PublishedSeesVolume`, `CleanAfterUnstage` | |
| `NodeVolumeProofs!FilesKept` | `NoDataLoss` | |
| `NodeVolumeProofs!NodeImplementsMount` | `ImplementsNodeMount` | |
| `SystemProofs!NeverMountedTwice`, `NeverWrongVolume`, `SystemTypes` | `MountedOnOneNode`, `RightVolume`, `SysTypeOK` | |
| `SystemProofs!NeverDeletedInUse`, `InUseStaysPlugged` | `DeletedUnused`, `DeviceHeld` | |
| `SystemProofs!PathsDiffer` | equal paths are of one volume and one device | `NamesAssumption` |
| `ProvisioningProofs!AnswerHolds`, `PoolNeverChanges`, `ProvisioningTypes` | `BoundVolumeUsable`, `PoolKept`, `TypeOK` | |
| `ProvisioningProofs!CapacityHonoured`, `TopologyHonoured` | `CapacityAsAsked`, `TopologyHolds` | |
| `ProvisioningProofs!OrphansAreWithdrawn` | which steps falsify `NoOrphan` (`LeftBehind`) | |
| `SizesProofs!RoundUpBytesRounds`, `WrappedIsNoSize` | what `RoundUpBytes` returns; that nothing which wraps around passes for a size | |
| `ExpansionProofs!SizesKeepType`, `NodeAnswerHolds`, `ControllerAnswerHolds`, `NeverShrinks`, `AnswerNeverTooSmall` | `TypeOK`, `DeviceAsTold`, `VolumeAsTold`, `NoShrink`, `AnswerCovers` | |
| `ExpansionProofs!OnlyDeviceRace` | `CapacityBacked` | `SteadyDevice` |
| `SnapshotsProofs!SnapshotTypes`, `ReadySnapshotSafe`, `SnapshotTimely` | `TypeOK`, `ReadySnapshotUsable`, `SnapshotOfItsTime` | |

`ContextSafe`, `AttachmentSafe` and `NodeSafe` are listed once for each of the
invariants they state.

Four findings have a theorem that says how far they reach. `AttachmentSafe` holds
when Nodes go after their Machines, and `NeverMountedTwice` holds either way: the
second listing of finding 1 mounts nothing twice. `OrphansAreWithdrawn` names the
steps that leave a Volume behind: a claim is deleted when its Volume is there and no
call is under way or of unknown outcome (the trace of finding 4: an earlier call
ended in an error the CO took as final), or a call ends in such an error for a claim
that was deleted before. A claim that was bound or released leaves none.
`OnlyDeviceRace` is about the behaviours in which the device does not grow between a
handler's resizing and its measuring: `CapacityBacked` holds in them, so finding 5 has
no other cause. The properties of the node speak of the volumes that are not in
`crossed`, and `NoDataLoss` says that a step that deletes files is of one that is:
finding 6 has no other cause.

The arguments:

- *Attachment.* The invariant has layers, because they need different things.
  `VAInv` is about the CO and the lock only: a volume has at most one
  `VolumeAttachment`, every handler works for one (`CallTracked`), and a volume
  has one handler at a time, abandoned ones included (`OneCallPerVolume`).
  `FreshAt` ties that to a Machine: a device once read, or told, stays the
  Machine's as long as it lives. These, with distinct devices on a Machine, give
  the publish context. `SingleAttach` needs the converse, that every listed entry
  has its `VolumeAttachment` (`AttachmentOwned`), and this is where Nodes that go
  first do harm: the answer to a detach then proves nothing about the Machine.
  Hence the assumption, and finding 1.
- *NodeVolume.* The invariant has two layers. `Control` is about the CO and the
  handlers only, and holds of every volume: at most one handler is waited for
  (`OneLive`), at most one holds the lock (`OneLocked`), a stage and an unstage
  handler are together in flight only if the volume is in `crossed` (`Apart`), the
  CO's state accounts for every handler in flight, given up or not, but for the
  stage and unstage handlers left over in a crossed volume (`Tracked`), and a volume
  that is unstaged or being unstaged is used by no pod (`Idle`).
  `Table` relates that to directories and mounts, for the volumes not in `crossed`
  (`Clean`): the mounts agree with what the CO knows and with where the handlers
  in flight stand (`StagingAgrees`, `PublishingAgrees`), and what a handler checked
  is still true when it acts (`Checked`). Publish and unpublish handlers need the
  lock for that; for stage and unstage handlers it is enough that all in flight are
  of one kind, since two of a kind do each other no harm: the kernel refuses a
  second mount, and an unmount of what is not mounted fails. So a `RemoveAll`
  finds its path unmounted.
- *NodeMount.* A target shows the volume only if the staging path did when the
  bind mount was made, and for uncrossed volumes only while it does; every step of
  a crossed volume is one that `NodeMount` allows there.
- *System.* The invariant (`SInv`) says nothing about the Machines' lists, which
  late patches make unreliable, but for the places no patch has struck, where
  `FreshAt` still holds (`Unstruck`). It says that a volume has one
  `VolumeAttachment` at a time (`VAInv`), none once it is deleted
  (`GoneUnattached`), and that what a node uses, or shows, belongs to one that
  is attached (`InUse`), but for crossed places, which may show a volume that is not;
  a detach begins when the phase is "unstaged", and that answer is given when
  nothing is mounted, or after a crossing. `RightVolume` rests on `PathsDiffer`:
  a device path names the volume, not only the device. `DeviceHeld` follows from
  `Unstruck`: while a place is in use, its entry is the device the path was made
  of, so the hypervisor has no reason to unplug it.
- *Provisioning.* At most one handler; the pool it is about to apply is either
  none or the request's, and a Volume's pool is never another one than the
  request's when that exists (`Placed`, `Tracked`). For sizes and zones
  (`Answered`): a Volume that is there has the request's size, whichever retry
  applied it, and only an admissible request has handlers beyond the lookup.
  `RoundUpBytesRounds` gives the arithmetic, `PreferredZone` and `ZoneOfNode` the
  search (the first node with a zone exists because a set of numbers has a least
  element, `LeastElement`, from the library's well-founded relations). What wraps
  around is a size of zero or less (`WrappedIsNoSize`). A claim that is gone has no
  handler left, so only the step that drops a claim can leave a Volume behind.
- *Expansion.* Of all handlers only one may still write, and what it read is the
  present size (`OneWriter`, `Fresh`), because ironcore does not change the
  spec and a handler whose caller is gone stops. The node's answer needs only
  that devices do not shrink. That sizes stay whole units comes from `Sizes`, and
  so does `AnswerCovers`: what wraps around is not above zero, and the Volume is
  (`Asked`). For the file system, a handler that is about to measure has just made
  it as large as the device (`Backed`).
- *Snapshots.* A delete is sent, or under way, only after the snapshot was
  released, and a handler that deletes works for a released one; so what was
  reported ready is not deleted. An apply, whenever it arrives, leaves a snapshot
  that is there as it is, and none arrives before the CO wants the snapshot; so it
  is taken once, after the request and before the answer (`Timed`).

Only model-checked: everything with fairness (`AttachCompletes`,
`DetachCompletes`, `SetupCompletes`, `TeardownTakesEffect`, `CreateCompletes`,
`DeleteCompletes`, `DeleteTakesEffect`, `ExpandCompletes`), which is out of this
prover's reach. Every invariant and every action property of a passing run is
also a theorem.

## 5. Assumptions and limits

- *The lock.* `main.go` switches on gocsi's serial volume access. Its source is
  not in the repository; its documentation names the calls that create, delete,
  publish and unpublish volumes, on the controller and on the node. So
  `Attachment` and `Provisioning` assume it for all their calls, `NodeVolume` for
  publish and unpublish (`Serialised`), `Expansion` and `Snapshots` not at all. If
  a version of gocsi locked stage and unstage calls too, nothing could cross,
  `crossed` would stay empty, and finding 6 would not exist; every theorem about
  the node holds in that case as well, since such a lock only removes behaviours.
- *One controller.* The lock is in memory; two active replicas are not modelled.
- *Late writes.* A request that reaches the API server after its handler has
  returned is modelled where two nodes or a retry could suffer from it (`System`,
  `Snapshots`). In `Provisioning` and `Expansion` a handler whose caller is gone
  writes nothing more: a late apply may create a deleted Volume again, and what
  the API server makes of a late, smaller size is not in the repository.
- *Pools* do not come or go while a claim is provisioned.
- *Names.* `NamesAssumption`: device names are distinct, short (`oda`, `odb`, ...)
  and have no dash, and the handles of two volumes differ in a character that
  survives the cut at 20. The repository does not say how ironcore makes handles.
- *The CO* attaches a volume that was provisioned, and detaches it only when the
  node answered that it is unstaged (`InOrder`); forced detaches are not
  modelled.
- *The kernel* refuses to mount a file system twice at one place.
- *ironcore* assigns distinct devices on a Machine, and grows a device, never
  shrinks it; the hypervisor plugs a device in once.
- *Labels.* An empty label and a missing one are the same.
- Left out as data: mount options, file system types, error texts (their codes
  matter in `Provisioning` and `Snapshots` only), and the characters of names
  other than those of `DeviceNames`.

## 6. Not modelled

- *Mount and mkfs options* (`node.go:67-84`, `115-133`): lists of strings handed
  to `mount` and `mkfs`. No decision of the driver depends on them, and which of
  two contradicting flags wins is decided there.
- *Statistics* (`NodeGetVolumeStats`), *capabilities*, *identity*: they read or
  answer constants, change nothing, and nothing in the driver uses the answer.
  Of `NodeGetInfo` only the zone matters; it is in `Topology`.
- *Startup* (`main.go`, `driver.go`, options): runs once before any call. The lock
  it switches on is in `Attachment`, `Provisioning` and `NodeVolume`.
- *OS and mount wrappers*: modelled by their effects where handlers call them.
  *Mocks* are generated and used by the tests only.
- `RoundUpGiB`, `BytesToGiB`, `GiBToBytes`: called by nobody.
- *Restoring a snapshot*: `CreateVolume` answers the content source it was asked
  for, but applies nothing that names it; there is no behaviour to model.

## 7. Plan

Done, in this order: `Attachment` with `VolumeLease`, `NodeVolume`,
`Provisioning`, `Expansion`, `Snapshots`, `NodeMount` and its refinement,
`System` with `DeviceNames`, `Sizes`, `Topology`, each with its runs and proofs.
Left:

1. A theorem that in behaviours without late patches and lost Machines `System`
   implements `NodeMount` for all places, with `DeviceHeld` as the case for
   `Vanish`. `NodeMount` must then let a device appear before the CO wants it,
   which `System`'s hypervisor does.
2. `VolumePool`s that come and go between two retries, and late writes in
   `Provisioning` and `Expansion`, once the API server's rules for changing a
   pool reference or shrinking a Volume are settled.
