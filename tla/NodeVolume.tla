------------------------------ MODULE NodeVolume ------------------------------
(***************************************************************************)
(* The node service's mount path (pkg/driver/node.go): NodeStageVolume,    *)
(* NodePublishVolume, NodeUnpublishVolume and NodeUnstageVolume on one     *)
(* node, one action per call on the file system or the mount table, under  *)
(* a container orchestrator (CO, here the kubelet) that follows the order  *)
(* of calls CSI prescribes, retries what fails, and may lose a reply.      *)
(*                                                                         *)
(* The driver keeps no state: what a handler knows it reads from the file  *)
(* system and the mount table, which other handlers change meanwhile.      *)
(***************************************************************************)
EXTENDS Naturals, Sequences

CONSTANTS
  Volumes,            \* volume ids
  Pods,               \* pods of this node; one target path per volume and pod
  TeardownUncertain,  \* TRUE: the CO may tear down what it failed to set up
  MaxErrors,          \* bound on failing file system and mount calls
  MaxLosses           \* bound on lost replies, driver restarts and reboots

RPC == {"stage", "publish", "unpublish", "unstage"}

\* The calls of the node service that gocsi's serial volume access locks per
\* volume. Nothing keeps two handlers of the other calls apart.
Serialised == {"publish", "unpublish"}

ASSUME NodeConstantsAssumption ==
  /\ "none" \notin Pods
  /\ TeardownUncertain \in BOOLEAN
  /\ MaxErrors \in Nat
  /\ MaxLosses \in Nat

VARIABLES
  dev,      \* volumes whose device path exists
  sdir,     \* volumes whose staging directory exists
  smnt,     \* volumes mounted at their staging path
  tdir,     \* tdir[v]: pods whose target directory for v exists
  tmnt,     \* tmnt[v][p]: the mounts at p's target path for v, top one first
  wiped,    \* volumes whose files a RemoveAll has deleted
  kstage,   \* kstage[v]: how far the CO is with staging v
  kpub,     \* kpub[v][p]: how far the CO is with publishing v to p
  calls,    \* the RPC handlers in flight
  crossed,  \* history: volumes of which a stage and an unstage handler were
            \* in flight together since the node booted
  errors, losses

fsVars == <<dev, sdir, smnt, tdir, tmnt, wiped>>
coVars == <<kstage, kpub>>
vars   == <<dev, sdir, smnt, tdir, tmnt, wiped, kstage, kpub, calls,
            crossed, errors, losses>>

\* A bind mount shows what its source showed when it was made: the volume,
\* or the root file system if nothing was mounted at the staging path.
MountView  == {"volume", "rootfs"}
MountStack == {<<>>, <<"volume">>, <<"rootfs">>}

StageState   == {"unstaged", "staging", "staged", "unstaging"}
PublishState == {"none", "publishing", "published", "unpublishing"}

StagePC     == {"StageStat", "StageCheck", "StageMkdir", "StageMount"}
PublishPC   == {"PublishCheck", "PublishMkdir", "PublishMount"}
UnpublishPC == {"UnpublishStat", "UnpublishCheck", "UnpublishUnmount",
                "UnpublishRemove"}
UnstagePC   == {"UnstageList", "UnstageUnmount", "UnstageRemove"}
PC          == StagePC \cup PublishPC \cup UnpublishPC \cup UnstagePC

\* A handler, and whether its caller still waits; lost is the number of the
\* loss that took its caller away. Stage and unstage calls name no pod.
NoPod == "none"
Call  == [rpc : RPC, vol : Volumes, pod : Pods \cup {NoPod}, pc : PC,
          live : BOOLEAN, lost : 0..MaxLosses]

Init ==
  /\ dev = {} /\ sdir = {} /\ smnt = {} /\ wiped = {}
  /\ tdir = [v \in Volumes |-> {}]
  /\ tmnt = [v \in Volumes |-> [p \in Pods |-> <<>>]]
  /\ kstage = [v \in Volumes |-> "unstaged"]
  /\ kpub = [v \in Volumes |-> [p \in Pods |-> "none"]]
  /\ calls = {} /\ crossed = {}
  /\ errors = 0 /\ losses = 0

------------------------------------------------------------------------------
(* Helpers. An operator whose name starts with Faulty is the next one with *)
(* a plausible bug in it; nothing uses it but the tests of the properties' *)
(* strength listed in PROJECT.json.                                        *)

\* Faulty: the lock is not enabled.
FaultySerialVolAccess(v, rpc) == TRUE

SerialVolAccess(v, rpc) ==
  rpc \in Serialised => \A c \in calls : ~(c.vol = v /\ c.rpc \in Serialised)

\* IsLikelyNotMountPoint compares device numbers with the parent directory's:
\* it does not see a bind mount within the root file system.
LikelyMountPoint(stack) == stack # <<>> /\ Head(stack) = "volume"

Goto(c, pc) == calls' = (calls \ {c}) \cup {[c EXCEPT !.pc = pc]} /\ UNCHANGED coVars

ReturnError(c) == calls' = calls \ {c} /\ UNCHANGED coVars

\* The handler returns success; the CO, if it still waits, takes note.
ReturnStage(c, state) ==
  /\ calls' = calls \ {c}
  /\ kstage' = IF c.live THEN [kstage EXCEPT ![c.vol] = state] ELSE kstage
  /\ UNCHANGED kpub

ReturnPublish(c, state) ==
  /\ calls' = calls \ {c}
  /\ kpub' = IF c.live THEN [kpub EXCEPT ![c.vol][c.pod] = state] ELSE kpub
  /\ UNCHANGED kstage

------------------------------------------------------------------------------
(* NodeStageVolume.                                                        *)

\* The device path may not be there yet: Unavailable, the CO tries again.
StageStat(c) ==
  /\ c.pc = "StageStat"
  /\ IF c.vol \in dev THEN Goto(c, "StageCheck") ELSE ReturnError(c)
  /\ UNCHANGED fsVars

\* Faulty: the directory's existence is taken for the mount's.
FaultyStageCheck(c) ==
  /\ c.pc = "StageCheck"
  /\ IF c.vol \in sdir THEN ReturnStage(c, "staged") ELSE Goto(c, "StageMkdir")
  /\ UNCHANGED fsVars

\* Faulty: a volume that is already mounted is an error.
FaultyStageCheckError(c) ==
  /\ c.pc = "StageCheck"
  /\ IF c.vol \in smnt THEN ReturnError(c) ELSE Goto(c, "StageMkdir")
  /\ UNCHANGED fsVars

StageCheck(c) ==
  /\ c.pc = "StageCheck"
  /\ IF c.vol \in smnt THEN ReturnStage(c, "staged") ELSE Goto(c, "StageMkdir")
  /\ UNCHANGED fsVars

StageMkdir(c) ==
  /\ c.pc = "StageMkdir"
  /\ sdir' = sdir \cup {c.vol}
  /\ Goto(c, "StageMount")
  /\ UNCHANGED <<dev, smnt, tdir, tmnt, wiped>>

\* FormatAndMount. The kernel refuses to mount a file system twice at the
\* same place.
StageMount(c) ==
  /\ c.pc = "StageMount"
  /\ IF c.vol \in (dev \cap sdir) \ smnt
     THEN smnt' = smnt \cup {c.vol} /\ ReturnStage(c, "staged")
     ELSE ReturnError(c) /\ UNCHANGED smnt
  /\ UNCHANGED <<dev, sdir, tdir, tmnt, wiped>>

------------------------------------------------------------------------------
(* NodePublishVolume.                                                      *)

\* Faulty: the check for an existing mount is missing.
FaultyPublishCheck(c) ==
  /\ c.pc = "PublishCheck"
  /\ Goto(c, IF c.pod \in tdir[c.vol] THEN "PublishMount" ELSE "PublishMkdir")
  /\ UNCHANGED fsVars

PublishCheck(c) ==
  /\ c.pc = "PublishCheck"
  /\ IF LikelyMountPoint(tmnt[c.vol][c.pod])
     THEN ReturnPublish(c, "published")
     ELSE Goto(c, IF c.pod \in tdir[c.vol] THEN "PublishMount" ELSE "PublishMkdir")
  /\ UNCHANGED fsVars

PublishMkdir(c) ==
  /\ c.pc = "PublishMkdir"
  /\ tdir' = [tdir EXCEPT ![c.vol] = @ \cup {c.pod}]
  /\ Goto(c, "PublishMount")
  /\ UNCHANGED <<dev, sdir, smnt, tmnt, wiped>>

\* mount --bind of the staging path, whatever it shows.
PublishMount(c) ==
  /\ c.pc = "PublishMount"
  /\ IF c.vol \in sdir /\ c.pod \in tdir[c.vol]
     THEN /\ tmnt' = [tmnt EXCEPT ![c.vol][c.pod] =
                        <<IF c.vol \in smnt THEN "volume" ELSE "rootfs">> \o @]
          /\ ReturnPublish(c, "published")
     ELSE ReturnError(c) /\ UNCHANGED tmnt
  /\ UNCHANGED <<dev, sdir, smnt, tdir, wiped>>

------------------------------------------------------------------------------
(* NodeUnpublishVolume.                                                    *)

\* A target directory that is gone is an error, not a success.
UnpublishStat(c) ==
  /\ c.pc = "UnpublishStat"
  /\ IF c.pod \in tdir[c.vol] THEN Goto(c, "UnpublishCheck") ELSE ReturnError(c)
  /\ UNCHANGED fsVars

\* Faulty: the directory is removed without unmounting it.
FaultyUnpublishCheck(c) ==
  /\ c.pc = "UnpublishCheck"
  /\ Goto(c, "UnpublishRemove")
  /\ UNCHANGED fsVars

\* Faulty: a target that is not mounted is an error.
FaultyUnpublishCheckError(c) ==
  /\ c.pc = "UnpublishCheck"
  /\ IF LikelyMountPoint(tmnt[c.vol][c.pod])
     THEN Goto(c, "UnpublishUnmount")
     ELSE ReturnError(c)
  /\ UNCHANGED fsVars

UnpublishCheck(c) ==
  /\ c.pc = "UnpublishCheck"
  /\ Goto(c, IF LikelyMountPoint(tmnt[c.vol][c.pod])
             THEN "UnpublishUnmount" ELSE "UnpublishRemove")
  /\ UNCHANGED fsVars

\* Unmount takes the top mount off.
UnpublishUnmount(c) ==
  /\ c.pc = "UnpublishUnmount"
  /\ IF tmnt[c.vol][c.pod] # <<>>
     THEN /\ tmnt' = [tmnt EXCEPT ![c.vol][c.pod] = Tail(@)]
          /\ Goto(c, "UnpublishRemove")
     ELSE ReturnError(c) /\ UNCHANGED tmnt
  /\ UNCHANGED <<dev, sdir, smnt, tdir, wiped>>

\* RemoveAll of a path that is still mounted deletes the files it shows and
\* then fails.
UnpublishRemove(c) ==
  /\ c.pc = "UnpublishRemove"
  /\ IF tmnt[c.vol][c.pod] = <<>>
     THEN /\ tdir' = [tdir EXCEPT ![c.vol] = @ \ {c.pod}]
          /\ ReturnPublish(c, "none")
          /\ UNCHANGED wiped
     ELSE /\ wiped' = IF LikelyMountPoint(tmnt[c.vol][c.pod])
                      THEN wiped \cup {c.vol} ELSE wiped
          /\ ReturnError(c)
          /\ UNCHANGED tdir
  /\ UNCHANGED <<dev, sdir, smnt, tmnt>>

------------------------------------------------------------------------------
(* NodeUnstageVolume.                                                      *)

\* getMountDeviceName: a staging path that is not in the mount table has no
\* device, which is an error ("Device path not set").
UnstageList(c) ==
  /\ c.pc = "UnstageList"
  /\ IF c.vol \in smnt THEN Goto(c, "UnstageUnmount") ELSE ReturnError(c)
  /\ UNCHANGED fsVars

UnstageUnmount(c) ==
  /\ c.pc = "UnstageUnmount"
  /\ IF c.vol \in smnt
     THEN smnt' = smnt \ {c.vol} /\ Goto(c, "UnstageRemove")
     ELSE ReturnError(c) /\ UNCHANGED smnt
  /\ UNCHANGED <<dev, sdir, tdir, tmnt, wiped>>

UnstageRemove(c) ==
  /\ c.pc = "UnstageRemove"
  /\ IF c.vol \notin smnt
     THEN /\ sdir' = sdir \ {c.vol}
          /\ ReturnStage(c, "unstaged")
          /\ UNCHANGED wiped
     ELSE wiped' = wiped \cup {c.vol} /\ ReturnError(c) /\ UNCHANGED sdir
  /\ UNCHANGED <<dev, smnt, tdir, tmnt>>

HandlerStep(c) ==
  /\ \/ StageStat(c) \/ StageCheck(c) \/ StageMkdir(c) \/ StageMount(c)
     \/ PublishCheck(c) \/ PublishMkdir(c) \/ PublishMount(c)
     \/ UnpublishStat(c) \/ UnpublishCheck(c)
     \/ UnpublishUnmount(c) \/ UnpublishRemove(c)
     \/ UnstageList(c) \/ UnstageUnmount(c) \/ UnstageRemove(c)
  /\ UNCHANGED <<crossed, errors, losses>>

------------------------------------------------------------------------------
(* The CO: stage, publish to pods, unpublish, unstage, one call at a time  *)
(* that it waits for per volume.                                           *)

Waiting(v) == \E c \in calls : c.vol = v /\ c.live
Unused(v)  == \A p \in Pods : kpub[v][p] = "none"

WantStage(v) ==
  /\ kstage[v] = "unstaged"
  /\ kstage' = [kstage EXCEPT ![v] = "staging"]
  /\ UNCHANGED <<fsVars, kpub, calls, crossed, errors, losses>>

WantUnstage(v) ==
  /\ kstage[v] = "staged" \/ (kstage[v] = "staging" /\ TeardownUncertain)
  /\ Unused(v) /\ ~Waiting(v)
  /\ kstage' = [kstage EXCEPT ![v] = "unstaging"]
  /\ UNCHANGED <<fsVars, kpub, calls, crossed, errors, losses>>

WantPublish(v, p) ==
  /\ kstage[v] = "staged" /\ kpub[v][p] = "none"
  /\ kpub' = [kpub EXCEPT ![v][p] = "publishing"]
  /\ UNCHANGED <<fsVars, kstage, calls, crossed, errors, losses>>

WantUnpublish(v, p) ==
  /\ kpub[v][p] = "published" \/ (kpub[v][p] = "publishing" /\ TeardownUncertain)
  /\ ~Waiting(v)
  /\ kpub' = [kpub EXCEPT ![v][p] = "unpublishing"]
  /\ UNCHANGED <<fsVars, kstage, calls, crossed, errors, losses>>

\* A handler of c's volume, which the CO has given up, works against rpc.
Crosses(c, v, rpc) == c.vol = v /\ {c.rpc, rpc} = {"stage", "unstage"}

Begin(v, p, rpc, pc) ==
  /\ ~Waiting(v)
  /\ SerialVolAccess(v, rpc)
  /\ calls' = calls \cup
       {[rpc |-> rpc, vol |-> v, pod |-> p, pc |-> pc, live |-> TRUE, lost |-> 0]}
  /\ crossed' = IF \E c \in calls : Crosses(c, v, rpc)
                THEN crossed \cup {v} ELSE crossed
  /\ UNCHANGED <<fsVars, coVars, errors, losses>>

BeginStage(v) ==
  kstage[v] = "staging" /\ Begin(v, NoPod, "stage", "StageStat")
BeginPublish(v, p) ==
  /\ kstage[v] = "staged" /\ kpub[v][p] = "publishing"
  /\ Begin(v, p, "publish", "PublishCheck")
BeginUnpublish(v, p) ==
  kpub[v][p] = "unpublishing" /\ Begin(v, p, "unpublish", "UnpublishStat")
BeginUnstage(v) ==
  kstage[v] = "unstaging" /\ Begin(v, NoPod, "unstage", "UnstageList")

------------------------------------------------------------------------------
(* The node and its faults.                                                *)

\* The volume was attached: its device shows up, some time after the
\* controller's answer, and goes when the unstaged volume is detached.
DeviceAppears(v) ==
  /\ v \notin dev
  /\ kstage[v] # "unstaged"
  /\ dev' = dev \cup {v}
  /\ UNCHANGED <<sdir, smnt, tdir, tmnt, wiped, coVars, calls, crossed, errors, losses>>

DeviceVanishes(v) ==
  /\ v \in dev
  /\ kstage[v] = "unstaged"
  /\ dev' = dev \ {v}
  /\ UNCHANGED <<sdir, smnt, tdir, tmnt, wiped, coVars, calls, crossed, errors, losses>>

\* The call a handler makes next fails, and the handler returns the error.
CallFails(c) ==
  /\ errors < MaxErrors /\ errors' = errors + 1
  /\ ReturnError(c)
  /\ UNCHANGED <<fsVars, crossed, losses>>

Loss == losses < MaxLosses /\ losses' = losses + 1 /\ UNCHANGED errors

\* The CO's deadline passes; the handler, which ignores its context, runs on.
Abandon(c) ==
  /\ c.live
  /\ Loss
  /\ calls' = (calls \ {c}) \cup {[c EXCEPT !.live = FALSE, !.lost = losses + 1]}
  /\ UNCHANGED <<fsVars, coVars, crossed>>

Restart ==
  /\ calls # {}
  /\ Loss
  /\ calls' = {}
  /\ UNCHANGED <<fsVars, coVars, crossed>>

\* Mounts do not survive a reboot, directories do; the CO sets up again what
\* its pods still use.
Reboot ==
  /\ Loss
  /\ calls' = {} /\ crossed' = {} /\ dev' = {} /\ smnt' = {}
  /\ tmnt' = [v \in Volumes |-> [p \in Pods |-> <<>>]]
  /\ kstage' = [v \in Volumes |->
                  IF kstage[v] = "staged" THEN "staging" ELSE kstage[v]]
  /\ kpub' = [v \in Volumes |-> [p \in Pods |->
                IF kpub[v][p] = "published" THEN "publishing" ELSE kpub[v][p]]]
  /\ UNCHANGED <<sdir, tdir, wiped>>

------------------------------------------------------------------------------
Next ==
  \/ \E c \in calls : HandlerStep(c) \/ CallFails(c) \/ Abandon(c)
  \/ \E v \in Volumes :
       \/ WantStage(v) \/ WantUnstage(v)
       \/ BeginStage(v) \/ BeginUnstage(v)
       \/ DeviceAppears(v) \/ DeviceVanishes(v)
  \/ \E v \in Volumes, p \in Pods :
       \/ WantPublish(v, p) \/ WantUnpublish(v, p)
       \/ BeginPublish(v, p) \/ BeginUnpublish(v, p)
  \/ Restart
  \/ Reboot

Spec == Init /\ [][Next]_vars

\* Handlers run on, devices of attached volumes show up, and the CO's calls
\* get their turn: it retries with back-off, so the lock does not stay with
\* another call of the same volume.
Fairness ==
  \A v \in Volumes :
    /\ WF_vars(\E c \in calls : c.vol = v /\ HandlerStep(c))
    /\ WF_vars(DeviceAppears(v))
    /\ SF_vars(BeginStage(v) \/ BeginUnstage(v))
    /\ \A p \in Pods : SF_vars(BeginPublish(v, p) \/ BeginUnpublish(v, p))

FairSpec == Spec /\ Fairness

------------------------------------------------------------------------------
(* Properties.                                                             *)

\* Every variable has its type, and nothing is mounted twice at a target path,
\* where one Unmount would not be enough, unless a stage and an unstage
\* handler of the volume crossed.
TypeOK ==
  /\ dev \subseteq Volumes /\ sdir \subseteq Volumes
  /\ smnt \subseteq Volumes /\ wiped \subseteq Volumes
  /\ tdir \in [Volumes -> SUBSET Pods]
  /\ tmnt \in [Volumes -> [Pods -> Seq(MountView)]]
  /\ \A v \in Volumes \ crossed, p \in Pods : tmnt[v][p] \in MountStack
  /\ kstage \in [Volumes -> StageState]
  /\ kpub \in [Volumes -> [Pods -> PublishState]]
  /\ calls \subseteq Call
  /\ crossed \subseteq Volumes
  /\ errors \in 0..MaxErrors /\ losses \in 0..MaxLosses

\* The RemoveAll that ends NodeUnpublishVolume and NodeUnstageVolume does not
\* run on a path where the volume is still, or again, mounted, where it would
\* delete the volume's files: whatever calls fail, are given up and run on, or
\* are repeated, it takes a stage and an unstage handler that cross.
NoDataLoss == [][wiped' \ wiped \subseteq crossed]_vars

\* A pod that the CO was told it may start sees the volume at its target
\* path, not the node's root file system behind an unmounted staging path,
\* unless a stage and an unstage handler crossed.
PublishedSeesVolume ==
  \A v \in Volumes \ crossed, p \in Pods :
    kpub[v][p] = "published" => tmnt[v][p] = <<"volume">>

\* When the CO was told that a volume is unstaged, and may have it detached,
\* no mount of it is left on the node, and no handler it has given up makes
\* one, unless a stage and an unstage handler crossed.
CleanAfterUnstage ==
  \A v \in Volumes \ crossed :
    kstage[v] = "unstaged" =>
      v \notin smnt /\ \A p \in Pods : tmnt[v][p] = <<>>

\* Staging and publishing end, whatever failed, was lost or was rebooted
\* meanwhile, unless the CO gives up: every retry picks up what is there.
\* Only a publish to a pod may be stuck, and only after a crossing, when a
\* late unstage handler has removed the staging path under a staged volume.
SetupCompletes ==
  \A v \in Volumes :
    /\ kstage[v] = "staging" ~> kstage[v] # "staging"
    /\ \A p \in Pods :
         kpub[v][p] = "publishing" ~> kpub[v][p] # "publishing" \/ v \in crossed

\* Tearing down takes effect whatever fails, is lost or is rebooted: the
\* volume is unmounted from its staging path, crossed or not, and the target
\* path goes, even if the CO is never told, unless a crossing left the root
\* file system mounted there, which NodeUnpublishVolume does not see.
TeardownTakesEffect ==
  \A v \in Volumes :
    /\ kstage[v] = "unstaging" ~> v \notin smnt
    /\ \A p \in Pods :
         kpub[v][p] = "unpublishing" ~>
           kpub[v][p] = "none" \/ p \notin tdir[v] \/ v \in crossed

\* Staging implements NodeMount: a volume is mounted, at its staging path or at
\* a pod's, only between the CO's wish and the answer that it is unstaged,
\* only through its device, and every answer of NodeStageVolume and
\* NodeUnstageVolume is true, whatever handlers the CO has given up, as long
\* as a stage and an unstage handler do not cross.
Shows(stack, view) == \E i \in DOMAIN stack : stack[i] = view

Mounted ==
  smnt \cup {v \in Volumes : \E p \in Pods : Shows(tmnt[v][p], "volume")}

Mounting == INSTANCE NodeMount WITH
  Places <- Volumes, dev <- dev, mounted <- Mounted, phase <- kstage, crossed <- crossed

ImplementsNodeMount == Mounting!Spec

\* Tearing down ends (docs/usage/basic.md:59, "delete the `Pod` that is using
\* the volume and finally, delete the `PVC`"): the CO is told that the target
\* path is gone, and that it may have the volume detached, although a reply
\* is lost or the removal of a directory fails.
TeardownCompletes ==
  \A v \in Volumes :
    /\ kstage[v] = "unstaging" ~> kstage[v] = "unstaged"
    /\ \A p \in Pods : kpub[v][p] = "unpublishing" ~> kpub[v][p] = "none"

\* The directories are removed "after unmount" (node.go:178, node.go:214): no
\* RemoveAll runs where the volume is mounted, and deletes the volume's files.
RemovedAfterUnmount == wiped = {}

=============================================================================
