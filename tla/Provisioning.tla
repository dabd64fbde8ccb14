----------------------------- MODULE Provisioning -----------------------------
(***************************************************************************)
(* The controller service's CreateVolume and DeleteVolume (pkg/driver/     *)
(* controller.go) for one claim, one action per API call, with ironcore's  *)
(* volume controller and the container orchestrator (CO, here the          *)
(* external-provisioner) that retries, gives up and reclaims. Claims share *)
(* nothing: each handler touches the one Volume its request names.         *)
(***************************************************************************)
EXTENDS Sizes, Topology

CONSTANTS
  Pools,           \* names a request may give for a pool or a zone
  ExistingPools,   \* the VolumePools that exist
  Requests,        \* the requests the CO may make for the claim
  WaitSteps,       \* polls of one call (waitActiveSteps)
  MaxFaults        \* bound on API errors, lost replies, restarts, degradations

\* What CreateVolume decides on: is a volume class given, which pool does
\* the StorageClass name, which topology and which capacity are asked for.
Request == [type     : BOOLEAN,
            pool     : Pools \cup {NoPool},
            topology : [given : BOOLEAN, preferred : Seq(Nodes), requisite : Seq(Nodes)],
            range    : [given : BOOLEAN, required : 0..MaxInt64, limit : 0..MaxInt64]]

ASSUME ProvisioningConstants ==
  /\ ExistingPools \subseteq Pools /\ ExistingPools # {}
  /\ NoPool \notin Pools
  /\ Requests \subseteq Request
  /\ Labels \in [Nodes -> [beta : Pools \cup {NoPool}, stable : Pools \cup {NoPool}]]
  /\ 10 * GiB <= MaxInt64
  /\ WaitSteps \in Nat \ {0}
  /\ MaxFaults \in Nat

VARIABLES
  state,       \* the ironcore Volume: "absent", "pending" or "available"
  pool,        \* its spec.volumePoolRef
  size,        \* its spec.resources, in bytes
  claim,       \* how far the CO is with the claim
  req,         \* the request the CO makes for it
  told,        \* what the PersistentVolume says of pool, zone and capacity
  background,  \* the CO does not know what became of its last call
  calls,       \* the RPC handlers in flight
  faults

apiVars == <<state, pool, size>>
coVars  == <<claim, req, told, background>>
vars    == <<state, pool, size, claim, req, told, background, calls, faults>>

\* "withdrawn": deleted by the user while the CO may not drop it yet.
ClaimState == {"none", "wanted", "withdrawn", "bound", "released", "gone"}

CreatePC == {"GetPool", "Apply", "Wait"}
Call == [pc : CreatePC \cup {"Delete"}, pool : Pools \cup {NoPool},
         polls : 0..(WaitSteps - 1), live : BOOLEAN]

Init ==
  /\ state = "absent" /\ pool = NoPool /\ size = 0
  /\ claim = "none" /\ background = FALSE
  /\ told = [pool |-> NoPool, zone |-> NoPool, size |-> 0]
  /\ req \in Requests
  /\ calls = {}
  /\ faults = 0

------------------------------------------------------------------------------
(* Helpers. An operator whose name starts with Faulty is the next one with *)
(* a plausible bug in it; nothing uses it but the tests of the properties' *)
(* strength listed in PROJECT.json.                                        *)

DefaultVolumeSize == 10 * GiB

VolSizeBytes(range) ==
  IF range.given THEN RoundUpBytes(range.required) ELSE DefaultVolumeSize

\* Faulty: the limit is compared with the size before it is rounded.
FaultyExceedsLimit(range) ==
  range.given /\ range.limit > 0 /\ range.limit < range.required

\* The error of getVolSizeBytes.
ExceedsLimit(range) ==
  range.given /\ range.limit > 0 /\ range.limit < VolSizeBytes(range)

\* The zone that is looked for, if the StorageClass names no pool.
Zone(r) ==
  IF r.pool = NoPool /\ r.topology.given THEN GetAZFromTopology(r.topology) ELSE NoPool

\* The pool named by the StorageClass, else the zone.
PoolName(r) == IF r.pool # NoPool THEN r.pool ELSE Zone(r)

\* The size is within the limit, a class is given, and a name to look up. An
\* empty zone passes the driver's own checks, but the API client refuses to
\* get an object without a name.
Admissible(r) == ~ExceedsLimit(r.range) /\ r.type /\ PoolName(r) \in Pools

Continue(c, d) == calls' = (calls \ {c}) \cup {d} /\ UNCHANGED coVars

\* Errors carry the codes Internal, InvalidArgument or none at all
\* (Unknown): the CO takes them as final and forgets a withdrawn claim.
ReturnError(c) ==
  /\ calls' = calls \ {c}
  /\ claim' = IF claim = "withdrawn" THEN "gone" ELSE claim
  /\ background' = FALSE
  /\ UNCHANGED <<req, told>>

\* The CO creates the PersistentVolume, for a withdrawn claim to delete it.
ReturnCreated(c) ==
  /\ calls' = calls \ {c}
  /\ claim' = IF claim = "withdrawn" THEN "released" ELSE "bound"
  /\ told' = [pool |-> c.pool, zone |-> Zone(req), size |-> VolSizeBytes(req.range)]
  /\ background' = FALSE
  /\ UNCHANGED req

------------------------------------------------------------------------------
(* CreateVolume.                                                           *)

\* Faulty: the name of a pool that does not exist is kept.
FaultyCreateGetPool(c) ==
  /\ c.pc = "GetPool"
  /\ IF Admissible(req)
     THEN Continue(c, [c EXCEPT !.pc = "Apply", !.pool = PoolName(req)])
     ELSE ReturnError(c)
  /\ UNCHANGED <<apiVars, faults>>

\* A pool that does not exist is left for ironcore's scheduler to choose.
CreateGetPool(c) ==
  /\ c.pc = "GetPool"
  /\ IF Admissible(req)
     THEN Continue(c, [c EXCEPT !.pc = "Apply",
                                !.pool = IF PoolName(req) \in ExistingPools
                                         THEN PoolName(req) ELSE NoPool])
     ELSE ReturnError(c)
  /\ UNCHANGED <<apiVars, faults>>

\* Faulty: the object is replaced, not applied.
FaultyApplied(c) ==
  state' = "pending" /\ pool' = c.pool /\ size' = VolSizeBytes(req.range)

\* Server-side apply: fields the request leaves out keep what others set.
Applied(c) ==
  /\ state' = IF state = "absent" THEN "pending" ELSE state
  /\ pool' = IF c.pool = NoPool THEN pool ELSE c.pool
  /\ size' = VolSizeBytes(req.range)

\* Faulty: the object is created, and an existing one is an error.
FaultyCreateApply(c) ==
  /\ c.pc = "Apply"
  /\ IF state = "absent"
     THEN Applied(c) /\ Continue(c, [c EXCEPT !.pc = "Wait"])
     ELSE ReturnError(c) /\ UNCHANGED apiVars
  /\ UNCHANGED faults

CreateApply(c) ==
  /\ c.pc = "Apply"
  /\ Applied(c)
  /\ Continue(c, [c EXCEPT !.pc = "Wait"])
  /\ UNCHANGED faults

\* Faulty: running out of polls is not an error.
FaultyWaitForVolumeAvailability(c) ==
  /\ c.pc = "Wait"
  /\ IF state = "available" \/ c.polls = WaitSteps - 1
     THEN ReturnCreated(c)
     ELSE Continue(c, [c EXCEPT !.polls = @ + 1])
  /\ UNCHANGED <<apiVars, faults>>

\* One poll. A Volume that is not there is an error at once, one that is not
\* available after the last poll an error too.
WaitForVolumeAvailability(c) ==
  /\ c.pc = "Wait"
  /\ CASE state = "available" -> ReturnCreated(c)
       [] state = "absent" \/ (state = "pending" /\ c.polls = WaitSteps - 1) ->
            ReturnError(c)
       [] state = "pending" /\ c.polls < WaitSteps - 1 ->
            Continue(c, [c EXCEPT !.polls = @ + 1])
  /\ UNCHANGED <<apiVars, faults>>

------------------------------------------------------------------------------
(* DeleteVolume.                                                           *)

\* Faulty: a Volume that is already gone is an error.
FaultyDeleteVolume(c) ==
  /\ c.pc = "Delete"
  /\ IF state # "absent"
     THEN claim' = "gone" /\ UNCHANGED <<req, told, background>>
     ELSE UNCHANGED coVars
  /\ calls' = calls \ {c}
  /\ state' = "absent" /\ pool' = NoPool /\ size' = 0
  /\ UNCHANGED faults

DeleteVolume(c) ==
  /\ c.pc = "Delete"
  /\ state' = "absent" /\ pool' = NoPool /\ size' = 0
  /\ calls' = calls \ {c}
  /\ claim' = "gone"
  /\ UNCHANGED <<req, told, background, faults>>

\* Every API call takes the call's context: once the caller is gone they
\* all fail, so only a handler that is waited for goes on.
HandlerStep(c) ==
  /\ c.live
  /\ CreateGetPool(c) \/ CreateApply(c) \/ WaitForVolumeAvailability(c) \/ DeleteVolume(c)

ContextDone(c) ==
  /\ ~c.live
  /\ calls' = calls \ {c}
  /\ UNCHANGED <<apiVars, coVars, faults>>

------------------------------------------------------------------------------
(* The CO. It waits for one call at a time; a call that finds the volume   *)
(* locked by another is answered Aborted and changes nothing.              *)

Claim ==
  /\ claim = "none"
  /\ claim' = "wanted"
  /\ UNCHANGED <<apiVars, req, told, background, calls, faults>>

\* The user deletes a claim that is not bound yet. The CO forgets it, unless
\* a call is under way or ended in an unknown state.
Withdraw ==
  /\ claim = "wanted"
  /\ claim' = IF background \/ calls # {} THEN "withdrawn" ELSE "gone"
  /\ UNCHANGED <<apiVars, req, told, background, calls, faults>>

Release ==
  /\ claim = "bound"
  /\ claim' = "released"
  /\ UNCHANGED <<apiVars, req, told, background, calls, faults>>

Begin(pc) ==
  /\ calls = {}
  /\ calls' = {[pc |-> pc, pool |-> NoPool, polls |-> 0, live |-> TRUE]}
  /\ UNCHANGED <<apiVars, coVars, faults>>

BeginCreate == claim \in {"wanted", "withdrawn"} /\ Begin("GetPool")
BeginDelete == claim = "released" /\ Begin("Delete")

------------------------------------------------------------------------------
(* ironcore.                                                               *)

\* The scheduler picks a pool for a Volume that has none.
Schedule ==
  /\ state = "pending" /\ pool = NoPool
  /\ pool' \in ExistingPools
  /\ UNCHANGED <<state, size, coVars, calls, faults>>

Provision ==
  /\ state = "pending" /\ pool # NoPool
  /\ state' = "available"
  /\ UNCHANGED <<pool, size, coVars, calls, faults>>

------------------------------------------------------------------------------
(* Faults.                                                                 *)

Fault == faults < MaxFaults /\ faults' = faults + 1

\* The API call a handler makes next fails.
ApiError(c) == c.live /\ Fault /\ ReturnError(c) /\ UNCHANGED apiVars

\* Apply is carried out, but its reply does not arrive.
ApplyReplyLost(c) == c.live /\ c.pc = "Apply" /\ Fault /\ Applied(c) /\ ReturnError(c)

\* The Volume is deleted, but the reply does not arrive.
DeleteReplyLost(c) ==
  /\ c.live /\ c.pc = "Delete"
  /\ Fault
  /\ state' = "absent" /\ pool' = NoPool /\ size' = 0
  /\ ReturnError(c)

\* The CO's deadline passes.
Abandon(c) ==
  /\ c.live
  /\ Fault
  /\ calls' = (calls \ {c}) \cup {[c EXCEPT !.live = FALSE]}
  /\ background' = TRUE
  /\ UNCHANGED <<apiVars, claim, req, told>>

\* The driver restarts: the CO's call is answered Unavailable.
Restart ==
  /\ \E c \in calls : c.live
  /\ Fault
  /\ calls' = {}
  /\ background' = TRUE
  /\ UNCHANGED <<apiVars, claim, req, told>>

\* The Volume leaves state Available (Error, Pending).
Degrade ==
  /\ state = "available"
  /\ Fault
  /\ state' = "pending"
  /\ UNCHANGED <<pool, size, coVars, calls>>

------------------------------------------------------------------------------
Next ==
  \/ \E c \in calls : \/ HandlerStep(c) \/ ContextDone(c)
                      \/ ApiError(c) \/ ApplyReplyLost(c) \/ DeleteReplyLost(c)
                      \/ Abandon(c)
  \/ Claim \/ Withdraw \/ Release \/ BeginCreate \/ BeginDelete
  \/ Schedule \/ Provision
  \/ Restart \/ Degrade

Spec == Init /\ [][Next]_vars

\* Handlers run on, the CO keeps retrying, ironcore schedules and provisions.
Fairness ==
  /\ WF_vars(\E c \in calls : HandlerStep(c) \/ ContextDone(c))
  /\ WF_vars(BeginCreate) /\ WF_vars(BeginDelete)
  /\ WF_vars(Schedule) /\ WF_vars(Provision)

FairSpec == Spec /\ Fairness

------------------------------------------------------------------------------
(* Properties.                                                             *)

\* Every variable has its type.
TypeOK ==
  /\ state \in {"absent", "pending", "available"}
  /\ pool \in ExistingPools \cup {NoPool}
  /\ claim \in ClaimState
  /\ size \in Int64
  /\ req \in Requests
  /\ told.pool \in ExistingPools \cup {NoPool} /\ told.zone \in Pools \cup {NoPool}
  /\ told.size \in Int64
  /\ background \in BOOLEAN
  /\ calls \subseteq Call
  /\ faults \in 0..MaxFaults

\* What CreateVolume answered is true as long as the CO holds the volume,
\* whichever of its retries answered: the Volume is there, it is in a pool,
\* and in the pool the answer named.
BoundVolumeUsable ==
  claim = "bound" =>
    /\ state # "absent"
    /\ pool # NoPool
    /\ told.pool # NoPool => pool = told.pool

\* The Volume has the capacity the CO was told, a whole number of units no
\* smaller than required, less than a unit larger and within the limit,
\* although the limit is checked after rounding and each retry applies the
\* size anew. A size that cannot be rounded up within int64 wraps around, and
\* is not refused (controller.go:525-527 knows only sizes that are too large):
\* the claim is bound to a Volume of no size, zero or less, and never to one
\* of a positive size below what is required.
CapacityAsAsked ==
  claim = "bound" =>
    LET range == req.range IN
    /\ told.size = size
    /\ range.given =>
         IF Fits(range.required)
         THEN size % GiB = 0 /\ size >= range.required /\ size < range.required + GiB
         ELSE size <= 0
    /\ range.given /\ range.limit > 0 => size <= range.limit

\* Without a pool in the StorageClass the zone the CO is told, to which it
\* ties the pods of the claim, is that of a node it asked for, and, if that
\* zone has a pool, the one the Volume is in; it is the zone of the node the
\* CO likes most, if that has one with a pool. (A zone without a pool is told,
\* too, wherever the scheduler puts the Volume.)
TopologyHolds ==
  claim = "bound" /\ req.pool = NoPool =>
    LET likes == req.topology.preferred
        needs == req.topology.requisite IN
    /\ \/ \E i \in DOMAIN likes : told.zone = GetZoneFromNode(likes[i])
       \/ \E i \in DOMAIN needs : told.zone = GetZoneFromNode(needs[i])
    /\ told.zone \in ExistingPools => pool = told.zone
    /\ likes # <<>> /\ GetZoneFromNode(Head(likes)) \in ExistingPools =>
         pool = GetZoneFromNode(Head(likes))

\* A Volume never loses or changes its pool: a retry of CreateVolume does not
\* undo what the scheduler or an earlier call decided.
PoolKept ==
  [][pool # NoPool /\ state' # "absent" => pool' = pool]_vars

\* An admissible claim is provisioned however long ironcore takes: the calls
\* give up after WaitSteps polls, and each retry finds what there is.
CreateCompletes == claim = "wanted" /\ Admissible(req) ~> claim # "wanted"

\* A released volume is deleted, although replies are lost.
DeleteCompletes == claim = "released" ~> claim = "gone" /\ state = "absent"

\* A claim the CO has done with leaves no Volume behind.
NoOrphan == claim = "gone" => state = "absent"

=============================================================================
