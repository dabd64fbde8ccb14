-------------------------- MODULE ProvisioningProofs --------------------------
(***************************************************************************)
(* Proofs about Provisioning, for every set of pools, every number of      *)
(* polls and every bound on the faults.                                    *)
(***************************************************************************)
EXTENDS Provisioning, SizesProofs, WellFoundedInduction

\* The type invariant, as far as the pools need it.
BaseOK ==
  /\ state \in {"absent", "pending", "available"}
  /\ pool \in ExistingPools \cup {NoPool}
  /\ claim \in ClaimState
  /\ req \in Requests
  /\ told.pool \in ExistingPools \cup {NoPool}
  /\ background \in BOOLEAN
  /\ calls \subseteq Call
  /\ faults \in 0..MaxFaults

\* The pool every call for the claim applies: the one asked for, if it exists.
AppliedPool == IF PoolName(req) \in ExistingPools THEN PoolName(req) ELSE NoPool

\* The CO and the lock let one handler run at a time, and it is one the
\* claim still accounts for.
Tracked(c) ==
  /\ c.pc \in CreatePC => claim \in {"wanted", "withdrawn"}
  /\ c.pc = "Delete" => claim = "released"
  /\ c.pc \in {"Apply", "Wait"} => c.pool = AppliedPool
  /\ c.pc = "Wait" => state # "absent"

\* A Volume that is there has the pool its claim asks for, if that exists.
Placed ==
  /\ state = "absent" => pool = NoPool
  /\ state = "available" => pool # NoPool
  /\ state # "absent" /\ AppliedPool # NoPool => pool = AppliedPool

IInv ==
  /\ BaseOK
  /\ \A c, d \in calls : c = d
  /\ \A c \in calls : Tracked(c)
  /\ Placed
  /\ BoundVolumeUsable

\* The inductive invariant holds initially.
LEMMA InvInit == Init => IInv
<1> SUFFICES ASSUME Init PROVE IInv
  OBVIOUS
<1>1. BaseOK
  <2>1. claim \in ClaimState /\ calls \subseteq Call /\ background \in BOOLEAN
    BY DEF Init, ClaimState
  <2>2. faults \in 0..MaxFaults
    BY ProvisioningConstants DEF Init
  <2> QED BY <2>1, <2>2 DEF Init, BaseOK
<1>2. Placed /\ BoundVolumeUsable
  BY DEF Init, Placed, BoundVolumeUsable
<1> QED BY <1>1, <1>2 DEF Init, IInv

\* A handler that drops out, whatever the CO makes of it.
LEMMA DroppedKeeps ==
  ASSUME IInv, calls' = {}, UNCHANGED req, state' = state \/ state' = "pending",
         state = "absent" => state' = "absent", pool' = pool,
         claim' \in ClaimState, claim' = "bound" => claim = "bound",
         told' = told, background' \in BOOLEAN, faults' \in 0..MaxFaults
  PROVE  IInv'
<1>1. BaseOK'
  BY DEF IInv, BaseOK
<1>2. Placed'
  BY DEF IInv, Placed, AppliedPool
<1>3. BoundVolumeUsable'
  BY DEF IInv, BoundVolumeUsable
<1> QED BY <1>1, <1>2, <1>3 DEF IInv

\* The only handler returns an error.
LEMMA ErrorKeeps ==
  ASSUME IInv, NEW c \in calls, ReturnError(c), UNCHANGED apiVars,
         faults' \in 0..MaxFaults
  PROVE  IInv'
<1>1. calls' = {}
  BY DEF IInv, ReturnError
<1> QED
  BY <1>1, DroppedKeeps DEF ReturnError, apiVars, IInv, BaseOK, ClaimState

\* The only handler goes on as d.
LEMMA ContinueKeeps ==
  ASSUME IInv, NEW c \in calls, NEW d \in Call, calls' = (calls \ {c}) \cup {d},
         BaseOK', Tracked(d)', Placed', BoundVolumeUsable'
  PROVE  IInv'
<1>1. calls' = {d}
  BY DEF IInv
<1> QED BY <1>1 DEF IInv

\* Applying gives a Volume without a pool the one asked for, and leaves any
\* other alone.
LEMMA AppliedPlaces ==
  ASSUME IInv, NEW c \in calls, c.pc = "Apply", Applied(c), UNCHANGED req
  PROVE  /\ Placed' /\ state' # "absent" /\ state' \in {"pending", "available"}
         /\ pool' \in ExistingPools \cup {NoPool}
         /\ pool # NoPool => pool' = pool
         /\ claim \in {"wanted", "withdrawn"}
<1>1. c.pool = AppliedPool /\ claim \in {"wanted", "withdrawn"}
  BY DEF IInv, Tracked, CreatePC
<1>2. AppliedPool \in ExistingPools \cup {NoPool} /\ AppliedPool' = AppliedPool
  BY DEF AppliedPool
<1>3. state \in {"absent", "pending", "available"} /\ pool \in ExistingPools \cup {NoPool}
  BY DEF IInv, BaseOK
<1> QED BY <1>1, <1>2, <1>3 DEF IInv, Placed, Applied

\* A handler step preserves the inductive invariant.
LEMMA HandlerKeeps ==
  ASSUME IInv, NEW c \in calls, HandlerStep(c)
  PROVE  IInv'
<1>0. /\ faults \in 0..MaxFaults /\ c \in Call /\ calls \subseteq Call
      /\ \A e \in calls : e = c
  BY DEF IInv, BaseOK
<1>1. CASE CreateGetPool(c)
  <2>1. CASE ~Admissible(req)
    BY <1>0, <1>1, <2>1, ErrorKeeps DEF CreateGetPool
  <2>2. CASE Admissible(req)
    <3>1. PICK p : p = AppliedPool
      OBVIOUS
    <3> DEFINE d == [c EXCEPT !.pc = "Apply", !.pool = p]
    <3>2. /\ calls' = (calls \ {c}) \cup {d}
          /\ UNCHANGED <<state, pool, claim, req, told, background, faults>>
      BY <1>1, <2>2, <3>1 DEF CreateGetPool, Continue, AppliedPool, apiVars, coVars
    <3>3. d \in Call /\ d.pc = "Apply" /\ d.pool = p
      BY <1>0, <3>1, ProvisioningConstants DEF Call, CreatePC, AppliedPool
    <3> HIDE DEF d
    <3>4. BaseOK'
      BY <1>0, <3>2, <3>3 DEF IInv, BaseOK
    <3>5. claim \in {"wanted", "withdrawn"}
      BY <1>1 DEF IInv, Tracked, CreateGetPool, CreatePC
    <3>6. Tracked(d)' /\ Placed' /\ BoundVolumeUsable'
      BY <3>1, <3>2, <3>3, <3>5
      DEF Tracked, IInv, Placed, BoundVolumeUsable, AppliedPool
    <3> QED BY <3>2, <3>3, <3>4, <3>6, ContinueKeeps
  <2> QED BY <2>1, <2>2
<1>2. CASE CreateApply(c)
  <2> DEFINE d == [c EXCEPT !.pc = "Wait"]
  <2>1. calls' = (calls \ {c}) \cup {d} /\ UNCHANGED <<coVars, faults>>
    BY <1>2 DEF CreateApply, Continue
  <2>2. d \in Call /\ d.pc = "Wait" /\ d.pool = c.pool /\ c.pool = AppliedPool
    BY <1>0, <1>2 DEF Call, CreatePC, CreateApply, IInv, Tracked
  <2> HIDE DEF d
  <2>3. UNCHANGED req /\ AppliedPool' = AppliedPool /\ claim' = claim
    BY <2>1 DEF coVars, AppliedPool
  <2>4. /\ Placed' /\ state' # "absent" /\ state' \in {"pending", "available"}
        /\ pool' \in ExistingPools \cup {NoPool}
        /\ claim \in {"wanted", "withdrawn"}
    BY <1>2, <2>3, AppliedPlaces DEF CreateApply
  <2>5. BaseOK'
    BY <1>0, <2>1, <2>2, <2>4 DEF IInv, BaseOK, coVars
  <2>6. Tracked(d)' /\ BoundVolumeUsable'
    BY <2>2, <2>3, <2>4 DEF Tracked, BoundVolumeUsable
  <2> QED BY <2>1, <2>2, <2>4, <2>5, <2>6, ContinueKeeps
<1>3. CASE WaitForVolumeAvailability(c)
  <2>1. CASE ReturnError(c)
    BY <1>0, <1>3, <2>1, ErrorKeeps DEF WaitForVolumeAvailability
  <2>2. CASE c.polls < WaitSteps - 1 /\ Continue(c, [c EXCEPT !.polls = @ + 1])
    <3> DEFINE d == [c EXCEPT !.polls = @ + 1]
    <3>1. /\ calls' = (calls \ {c}) \cup {d}
          /\ UNCHANGED <<state, pool, claim, req, told, background, faults>>
      BY <1>3, <2>2 DEF WaitForVolumeAvailability, Continue, apiVars, coVars
    <3>2. d \in Call /\ d.pc = c.pc /\ d.pool = c.pool
      BY <1>0, <2>2, ProvisioningConstants DEF Call
    <3> HIDE DEF d
    <3>3. BaseOK'
      BY <1>0, <3>1, <3>2 DEF IInv, BaseOK
    <3>4. Tracked(d)' /\ Placed' /\ BoundVolumeUsable'
      BY <3>1, <3>2 DEF IInv, Tracked, Placed, BoundVolumeUsable, AppliedPool
    <3> QED BY <3>1, <3>2, <3>3, <3>4, ContinueKeeps
  <2>3. CASE state = "available" /\ ReturnCreated(c)
    <3>1. /\ calls' = {} /\ UNCHANGED <<state, pool, req, faults>>
          /\ claim' \in {"released", "bound"} /\ told'.pool = c.pool /\ background' = FALSE
      BY <1>0, <1>3, <2>3 DEF WaitForVolumeAvailability, ReturnCreated, apiVars
    <3>2. c.pool = AppliedPool
      BY <1>3 DEF IInv, Tracked, WaitForVolumeAvailability
    <3>3. BaseOK'
      BY <3>1, <3>2 DEF IInv, BaseOK, ClaimState, AppliedPool
    <3>4. Placed' /\ BoundVolumeUsable'
      BY <2>3, <3>1, <3>2 DEF IInv, Placed, BoundVolumeUsable, AppliedPool
    <3> QED BY <3>1, <3>3, <3>4 DEF IInv
  <2>4. /\ state \in {"absent", "pending", "available"}
        /\ c.polls = WaitSteps - 1 \/ c.polls < WaitSteps - 1
    BY <1>0, ProvisioningConstants DEF IInv, BaseOK, Call
  <2> QED BY <1>3, <2>1, <2>2, <2>3, <2>4 DEF WaitForVolumeAvailability
<1>4. CASE DeleteVolume(c)
  <2>1. /\ calls' = {} /\ state' = "absent" /\ pool' = NoPool /\ claim' = "gone"
        /\ UNCHANGED <<req, told, background, faults>>
    BY <1>0, <1>4 DEF DeleteVolume
  <2>2. BaseOK'
    BY <2>1 DEF IInv, BaseOK, ClaimState
  <2> QED BY <2>1, <2>2 DEF IInv, Placed, BoundVolumeUsable
<1> QED BY <1>1, <1>2, <1>3, <1>4 DEF HandlerStep

\* A fault stays within the bound.
LEMMA FaultBound ==
  ASSUME IInv, Fault PROVE faults' \in 0..MaxFaults
BY ProvisioningConstants DEF IInv, BaseOK, Fault

\* Failing calls, lost replies, deadlines, restarts and degradations.
LEMMA FaultKeeps ==
  ASSUME IInv,
         \/ \E c \in calls : \/ ContextDone(c) \/ ApiError(c) \/ ApplyReplyLost(c)
                            \/ DeleteReplyLost(c) \/ Abandon(c)
         \/ Restart \/ Degrade
  PROVE  IInv'
<1>1. ASSUME NEW c \in calls, ContextDone(c) PROVE IInv'
  <2>1. calls' = {}
    BY <1>1 DEF IInv, ContextDone
  <2> QED BY <1>1, <2>1, DroppedKeeps DEF ContextDone, apiVars, coVars, IInv, BaseOK
<1>2. ASSUME NEW c \in calls, ApiError(c) PROVE IInv'
  BY <1>2, FaultBound, ErrorKeeps DEF ApiError
<1>3. ASSUME NEW c \in calls, ApplyReplyLost(c) PROVE IInv'
  <2>1. /\ calls' = {} /\ UNCHANGED <<req, told>> /\ background' = FALSE
        /\ claim' = IF claim = "withdrawn" THEN "gone" ELSE claim
    BY <1>3 DEF ApplyReplyLost, ReturnError, IInv
  <2>2. /\ Placed' /\ state' \in {"pending", "available"}
        /\ pool' \in ExistingPools \cup {NoPool}
        /\ claim \in {"wanted", "withdrawn"}
    BY <1>3, <2>1, AppliedPlaces DEF ApplyReplyLost
  <2>3. faults' \in 0..MaxFaults
    BY <1>3, FaultBound DEF ApplyReplyLost
  <2>4. BaseOK'
    BY <2>1, <2>2, <2>3 DEF IInv, BaseOK, ClaimState
  <2>5. BoundVolumeUsable'
    BY <2>1, <2>2 DEF BoundVolumeUsable
  <2> QED BY <2>1, <2>2, <2>4, <2>5 DEF IInv
<1>4. ASSUME NEW c \in calls, DeleteReplyLost(c) PROVE IInv'
  <2>1. claim = "released"
    BY <1>4 DEF DeleteReplyLost, IInv, Tracked
  <2>2. /\ calls' = {} /\ state' = "absent" /\ pool' = NoPool /\ claim' = claim
        /\ UNCHANGED <<req, told>> /\ background' = FALSE
    BY <1>4, <2>1 DEF DeleteReplyLost, ReturnError, IInv
  <2>3. faults' \in 0..MaxFaults
    BY <1>4, FaultBound DEF DeleteReplyLost
  <2>4. BaseOK'
    BY <2>2, <2>3 DEF IInv, BaseOK
  <2> QED BY <2>1, <2>2, <2>4 DEF IInv, Placed, BoundVolumeUsable
<1>5. ASSUME NEW c \in calls, Abandon(c) PROVE IInv'
  <2> DEFINE d == [c EXCEPT !.live = FALSE]
  <2>1. /\ calls' = (calls \ {c}) \cup {d} /\ background' = TRUE
        /\ UNCHANGED <<state, pool, claim, req, told>>
    BY <1>5 DEF Abandon, apiVars
  <2>2. d \in Call /\ d.pc = c.pc /\ d.pool = c.pool
    BY DEF IInv, BaseOK, Call
  <2> HIDE DEF d
  <2>3. faults' \in 0..MaxFaults
    BY <1>5, FaultBound DEF Abandon
  <2>4. BaseOK'
    BY <2>1, <2>2, <2>3 DEF IInv, BaseOK
  <2>5. Tracked(d)' /\ Placed' /\ BoundVolumeUsable'
    BY <2>1, <2>2 DEF IInv, Tracked, Placed, BoundVolumeUsable, AppliedPool
  <2> QED BY <2>1, <2>2, <2>4, <2>5, ContinueKeeps
<1>6. CASE Restart
  BY <1>6, FaultBound, DroppedKeeps DEF Restart, apiVars, IInv, BaseOK
<1>7. CASE Degrade
  <2>1. /\ state = "available" /\ state' = "pending"
        /\ UNCHANGED <<pool, claim, req, told, background, calls>>
    BY <1>7 DEF Degrade, coVars
  <2>2. faults' \in 0..MaxFaults
    BY <1>7, FaultBound DEF Degrade
  <2>3. BaseOK'
    BY <2>1, <2>2 DEF IInv, BaseOK
  <2>4. \A c \in calls' : Tracked(c)'
    BY <2>1 DEF IInv, Tracked, AppliedPool
  <2>5. Placed' /\ BoundVolumeUsable'
    BY <2>1 DEF IInv, Placed, BoundVolumeUsable, AppliedPool
  <2> QED BY <2>1, <2>3, <2>4, <2>5 DEF IInv
<1> QED BY <1>1, <1>2, <1>3, <1>4, <1>5, <1>6, <1>7

\* The CO and ironcore.
LEMMA EnvironmentKeeps ==
  ASSUME IInv,
         \/ Claim \/ Withdraw \/ Release \/ BeginCreate \/ BeginDelete
         \/ Schedule \/ Provision
  PROVE  IInv'
<1>1. CASE Claim \/ Withdraw \/ Release
  <2>1. /\ UNCHANGED <<state, pool, req, told, background, calls, faults>>
        /\ claim' \in ClaimState \ {"bound"}
        /\ claim = "wanted" /\ calls # {} => claim' = "withdrawn"
        /\ claim \in {"none", "wanted", "bound"}
    BY <1>1 DEF Claim, Withdraw, Release, apiVars, ClaimState
  <2>2. BaseOK' /\ Placed' /\ BoundVolumeUsable'
    BY <2>1 DEF IInv, BaseOK, Placed, BoundVolumeUsable, AppliedPool
  <2>3. \A c \in calls' : Tracked(c)'
    <3> SUFFICES ASSUME NEW c \in calls PROVE Tracked(c)'
      BY <2>1
    <3>1. Tracked(c)
      BY DEF IInv
    <3> QED BY <2>1, <3>1 DEF Tracked, AppliedPool
  <2> QED BY <2>1, <2>2, <2>3 DEF IInv
<1>2. CASE BeginCreate \/ BeginDelete
  <2>1. PICK pc \in {"GetPool", "Delete"} :
          /\ Begin(pc)
          /\ pc = "GetPool" => claim \in {"wanted", "withdrawn"}
          /\ pc = "Delete" => claim = "released"
    BY <1>2 DEF BeginCreate, BeginDelete
  <2> DEFINE d == [pc |-> pc, pool |-> NoPool, polls |-> 0, live |-> TRUE]
  <2>2. /\ calls' = {d}
        /\ UNCHANGED <<state, pool, claim, req, told, background, faults>>
    BY <2>1 DEF Begin, apiVars, coVars
  <2>3. d \in Call /\ d.pc = pc
    BY <2>1, ProvisioningConstants DEF Call, CreatePC
  <2> HIDE DEF d
  <2>4. BaseOK' /\ Placed' /\ BoundVolumeUsable'
    BY <2>2, <2>3 DEF IInv, BaseOK, Placed, BoundVolumeUsable, AppliedPool
  <2>5. Tracked(d)'
    BY <2>1, <2>2, <2>3 DEF Tracked, CreatePC
  <2> QED BY <2>2, <2>4, <2>5 DEF IInv
<1>3. CASE Schedule \/ Provision
  <2>1. /\ state = "pending" /\ state' \in {"pending", "available"}
        /\ pool' \in ExistingPools \cup {NoPool}
        /\ pool # NoPool => pool' = pool
        /\ state' = "available" => pool' # NoPool
        /\ UNCHANGED <<claim, req, told, background, calls, faults>>
    BY <1>3, ProvisioningConstants DEF Schedule, Provision, coVars, IInv, BaseOK
  <2>2. BaseOK'
    BY <2>1 DEF IInv, BaseOK
  <2>3. Placed' /\ BoundVolumeUsable'
    BY <2>1 DEF IInv, Placed, BoundVolumeUsable, AppliedPool
  <2>4. \A c \in calls' : Tracked(c)'
    BY <2>1 DEF IInv, Tracked, AppliedPool
  <2> QED BY <2>1, <2>2, <2>3, <2>4 DEF IInv
<1> QED BY <1>1, <1>2, <1>3

\* Every step preserves the inductive invariant.
LEMMA InvStep ==
  ASSUME IInv, [Next]_vars PROVE IInv'
<1>1. CASE UNCHANGED vars
  BY <1>1 DEF vars, IInv, BaseOK, Tracked, Placed, BoundVolumeUsable, AppliedPool
<1>2. CASE Next
  BY <1>2, HandlerKeeps, FaultKeeps, EnvironmentKeeps DEF Next
<1> QED BY <1>1, <1>2

\* What CreateVolume answered stays true while the CO holds the volume,
\* however many calls it took.
THEOREM AnswerHolds == Spec => []BoundVolumeUsable
<1>1. IInv /\ [Next]_vars => IInv'
  BY InvStep
<1>2. IInv => BoundVolumeUsable
  BY DEF IInv
<1> QED BY <1>1, <1>2, InvInit, PTL DEF Spec

\* No step takes a Volume out of the pool it is in.
LEMMA StepKeepsPool ==
  ASSUME IInv, [Next]_vars, pool # NoPool, state' # "absent" PROVE pool' = pool
<1>1. CASE UNCHANGED vars
  BY <1>1 DEF vars
<1>2. ASSUME NEW c \in calls, CreateApply(c) \/ ApplyReplyLost(c) PROVE pool' = pool
  BY <1>2, AppliedPlaces DEF CreateApply, ApplyReplyLost, Continue, ReturnError, coVars
<1>3. CASE Next
  BY <1>2, <1>3
  DEF Next, HandlerStep, CreateGetPool, WaitForVolumeAvailability, DeleteVolume,
      ContextDone, ApiError, DeleteReplyLost, Abandon, Claim, Withdraw, Release,
      BeginCreate, BeginDelete, Begin, Schedule, Provision, Restart, Degrade, apiVars
<1> QED BY <1>1, <1>3

\* A retry of CreateVolume never moves a Volume to another pool.
THEOREM PoolNeverChanges == Spec => PoolKept
<1>1. IInv /\ [Next]_vars => IInv'
  BY InvStep
<1>2. IInv /\ [Next]_vars => [pool # NoPool /\ state' # "absent" => pool' = pool]_vars
  BY StepKeepsPool
<1> QED BY <1>1, <1>2, InvInit, PTL DEF Spec, PoolKept

------------------------------------------------------------------------------
(* Sizes and zones.                                                        *)

\* A set of numbers has a least one.
LEMMA LeastElement ==
  ASSUME NEW S, S \subseteq Nat, S # {}
  PROVE  \E i \in S : \A j \in S : i <= j
<1>1. PICK i \in S : \A j \in S : <<j, i>> \notin OpToRel(<, Nat)
  BY NatLessThanWellFounded, WFMin, Zenon
<1>2. \A j \in S : ~(j < i)
  BY <1>1 DEF OpToRel
<1> QED BY <1>2

\* getAZFromTopology finds no zone, or that of a node it was given.
LEMMA ZoneOfNode ==
  ASSUME NEW p \in Seq(Nodes), NEW r \in Seq(Nodes), FirstZone(p \o r) # NoPool
  PROVE  \/ \E i \in DOMAIN p : FirstZone(p \o r) = GetZoneFromNode(p[i])
         \/ \E i \in DOMAIN r : FirstZone(p \o r) = GetZoneFromNode(r[i])
<1> DEFINE all == p \o r
           zoned == {i \in 1..Len(all) : NodeGetInfo(all[i]) # {}}
           first == CHOOSE i \in zoned : \A j \in zoned : i <= j
<1>1. zoned # {} /\ FirstZone(all) = GetZoneFromNode(all[first])
  BY DEF FirstZone
<1>2. first \in zoned
  <2>1. zoned \subseteq Nat
    OBVIOUS
  <2> HIDE DEF zoned
  <2> QED BY <1>1, <2>1, LeastElement
<1>3. first \in 1..Len(all)
  BY <1>2
<1> HIDE DEF first
<1>4. CASE first <= Len(p)
  <2>1. first \in DOMAIN p /\ all[first] = p[first]
    BY <1>3, <1>4
  <2> QED BY <1>1, <2>1
<1>5. CASE ~(first <= Len(p))
  <2>1. first - Len(p) \in DOMAIN r /\ all[first] = r[first - Len(p)]
    BY <1>3, <1>5
  <2> QED BY <1>1, <2>1
<1> QED BY <1>4, <1>5

\* getAZFromTopology takes the zone of the first topology that is preferred,
\* if that has one.
LEMMA PreferredZone ==
  ASSUME NEW t, t.preferred \in Seq(Nodes), t.requisite \in Seq(Nodes),
         t.preferred # <<>>, GetZoneFromNode(Head(t.preferred)) # NoPool
  PROVE  GetAZFromTopology(t) = GetZoneFromNode(Head(t.preferred))
<1> DEFINE all == t.preferred \o t.requisite
           zoned == {i \in 1..Len(all) : NodeGetInfo(all[i]) # {}}
           first == CHOOSE i \in zoned : \A j \in zoned : i <= j
<1>1. Len(all) \in Nat /\ Len(all) >= 1 /\ all[1] = Head(t.preferred)
  <2>1. ASSUME NEW p \in Seq(Nodes), NEW r \in Seq(Nodes), p # <<>>
        PROVE  Len(p \o r) \in Nat /\ Len(p \o r) >= 1 /\ (p \o r)[1] = Head(p)
    <3>1. Len(p) \in Nat /\ Len(p) >= 1 /\ Len(r) \in Nat /\ Head(p) = p[1]
      BY <2>1
    <3> QED BY <2>1, <3>1
  <2> QED BY <2>1
<1>2. GetAZFromTopology(t) = IF zoned = {} THEN NoPool ELSE GetZoneFromNode(all[first])
  BY DEF GetAZFromTopology, FirstZone
<1> HIDE DEF all
<1>3. 1 \in zoned /\ \A j \in zoned : 1 <= j
  BY <1>1 DEF NodeGetInfo
<1>4. first \in zoned /\ \A j \in zoned : first <= j
  BY <1>3
<1>5. first = 1
  BY <1>1, <1>3, <1>4
<1> QED BY <1>1, <1>2, <1>3, <1>5

\* The zone that is looked for is a name.
LEMMA ZoneType ==
  ASSUME NEW r \in Requests PROVE Zone(r) \in Pools \cup {NoPool}
<1> DEFINE p == r.topology.preferred
           q == r.topology.requisite
<1>1. p \in Seq(Nodes) /\ q \in Seq(Nodes)
  BY ProvisioningConstants DEF Request
<1>2. \A n \in Nodes : GetZoneFromNode(n) \in Pools \cup {NoPool}
  BY ProvisioningConstants DEF GetZoneFromNode
<1>3. (\A i \in DOMAIN p : p[i] \in Nodes) /\ \A i \in DOMAIN q : q[i] \in Nodes
  BY <1>1
<1>4. Zone(r) \in {NoPool, FirstZone(p \o q)}
  BY DEF Zone, GetAZFromTopology
<1> HIDE DEF p, q
<1> QED BY <1>1, <1>2, <1>3, <1>4, ZoneOfNode

\* Sizes asked for are int64.
LEMMA SizeType ==
  ASSUME BaseOK
  PROVE  VolSizeBytes(req.range) \in Int64 /\ 0 \in Int64
<1>1. req.range.required \in Nat
  BY ProvisioningConstants, SizesAssumption DEF BaseOK, Request
<1>2. 10 * GiB \in Int64 /\ 0 \in Int64
  BY ProvisioningConstants, SizesAssumption DEF Int64
<1> QED BY <1>1, <1>2, RoundUpBytesRounds DEF VolSizeBytes, DefaultVolumeSize

\* What the Volume and the CO have of the request's size and zone, and that
\* nothing is made for a request that is refused.
Answered ==
  /\ size = IF state = "absent" THEN 0 ELSE VolSizeBytes(req.range)
  /\ told.zone \in {NoPool, Zone(req)} /\ told.size \in {0, VolSizeBytes(req.range)}
  /\ claim = "bound" =>
       /\ Admissible(req)
       /\ told.zone = Zone(req) /\ told.size = VolSizeBytes(req.range)
  /\ \A c \in calls : c.pc \in {"Apply", "Wait"} => Admissible(req)

AInv == IInv /\ Answered

LEMMA AnsweredInit == Init => AInv
BY InvInit DEF Init, AInv, Answered

\* Steps that leave the Volume's size and the CO's knowledge alone.
LEMMA SameAnswer ==
  ASSUME Answered, UNCHANGED <<size, req, told>>, state' = "absent" <=> state = "absent",
         claim' = "bound" => claim = "bound",
         \A d \in calls' : d.pc \in {"Apply", "Wait"} => Admissible(req)
  PROVE  Answered'
BY DEF Answered

\* Every step keeps the answers.
LEMMA AnsweredStep == ASSUME AInv, [Next]_vars PROVE Answered'
<1>0. IInv /\ BaseOK /\ Answered
  BY DEF AInv, IInv
<1>1. CASE UNCHANGED vars
  BY <1>0, <1>1 DEF vars, Answered
<1>2. ASSUME NEW c \in calls, CreateGetPool(c) PROVE Answered'
  <2>1. c \in Call
    BY <1>0 DEF BaseOK
  <2>2. \/ calls' = calls \ {c}
        \/ Admissible(req)
    BY <1>2 DEF CreateGetPool, ReturnError
  <2>3. /\ UNCHANGED <<state, size, req, told>>
        /\ claim' = "bound" => claim = "bound"
    BY <1>2 DEF CreateGetPool, ReturnError, Continue, apiVars, coVars
  <2> QED BY <1>0, <2>2, <2>3 DEF Answered
<1>3. ASSUME NEW c \in calls, CreateApply(c) \/ ApplyReplyLost(c) PROVE Answered'
  <2>1. Admissible(req) /\ state' # "absent" /\ size' = VolSizeBytes(req.range)
    BY <1>0, <1>3 DEF CreateApply, ApplyReplyLost, Applied, Answered, IInv, BaseOK
  <2>2. /\ UNCHANGED <<req, told>>
        /\ claim' = "bound" => claim = "bound"
        /\ \A d \in calls' : d.pc \in {"Apply", "Wait"} => Admissible(req)
    BY <1>3, <2>1 DEF CreateApply, ApplyReplyLost, Continue, ReturnError, coVars
  <2> QED BY <1>0, <2>1, <2>2 DEF Answered
<1>4. ASSUME NEW c \in calls, WaitForVolumeAvailability(c) PROVE Answered'
  <2>0. \/ ReturnCreated(c) \/ ReturnError(c)
        \/ Continue(c, [c EXCEPT !.polls = @ + 1])
    <3>1. /\ state \in {"absent", "pending", "available"}
          /\ c.polls = WaitSteps - 1 \/ c.polls < WaitSteps - 1
      BY <1>0, ProvisioningConstants DEF BaseOK, Call
    <3> QED BY <1>4, <3>1 DEF WaitForVolumeAvailability
  <2>1. UNCHANGED <<state, size, req>> /\ Admissible(req)
    BY <1>0, <1>4, <2>0
    DEF WaitForVolumeAvailability, ReturnCreated, ReturnError, Continue, apiVars, coVars,
        Answered
  <2>2. \/ told' = told /\ (claim' = "bound" => claim = "bound")
        \/ told' = [pool |-> c.pool, zone |-> Zone(req), size |-> VolSizeBytes(req.range)]
    BY <2>0 DEF ReturnCreated, ReturnError, Continue, coVars
  <2> QED BY <1>0, <2>1, <2>2 DEF Answered
<1>5. ASSUME NEW c \in calls, DeleteVolume(c) \/ DeleteReplyLost(c) PROVE Answered'
  <2>1. state' = "absent" /\ size' = 0 /\ UNCHANGED <<req, told>> /\ calls' \subseteq calls
    BY <1>5 DEF DeleteVolume, DeleteReplyLost, ReturnError
  <2>2. claim' # "bound"
    BY <1>0, <1>5 DEF DeleteVolume, DeleteReplyLost, ReturnError, IInv, Tracked
  <2> QED BY <1>0, <2>1, <2>2 DEF Answered
<1>6. ASSUME NEW c \in calls, Abandon(c) PROVE Answered'
  <2> DEFINE d == [c EXCEPT !.live = FALSE]
  <2>1. d.pc = c.pc /\ calls' = (calls \ {c}) \cup {d}
    BY <1>0, <1>6 DEF BaseOK, Call, Abandon
  <2> HIDE DEF d
  <2> QED BY <1>0, <1>6, <2>1, SameAnswer DEF Abandon, apiVars, Answered
<1>7. ASSUME NEW c \in calls, ContextDone(c) \/ ApiError(c) PROVE Answered'
  <2>1. calls' \subseteq calls
    BY <1>7 DEF ContextDone, ApiError, ReturnError
  <2> QED BY <1>0, <1>7, <2>1, SameAnswer
          DEF ContextDone, ApiError, ReturnError, apiVars, coVars, Answered
<1>8. CASE BeginCreate \/ BeginDelete
  <2>1. PICK pc \in {"GetPool", "Delete"} : Begin(pc)
    BY <1>8 DEF BeginCreate, BeginDelete
  <2>2. \A d \in calls' : d.pc = pc
    BY <2>1 DEF Begin
  <2> QED BY <1>0, <2>1, <2>2, SameAnswer DEF Begin, apiVars, coVars
<1>9. CASE Claim \/ Withdraw \/ Release \/ Schedule \/ Provision \/ Restart \/ Degrade
  <2>1. /\ calls' \subseteq calls /\ UNCHANGED <<size, req, told>>
        /\ state' = "absent" <=> state = "absent"
        /\ claim' = "bound" => claim = "bound"
    BY <1>9 DEF Claim, Withdraw, Release, Schedule, Provision, Restart, Degrade, apiVars, coVars
  <2> QED BY <1>0, <2>1, SameAnswer DEF Answered
<1> QED
  BY <1>1, <1>2, <1>3, <1>4, <1>5, <1>6, <1>7, <1>8, <1>9 DEF Next, HandlerStep

LEMMA AInvStep == AInv /\ [Next]_vars => AInv'
BY InvStep, AnsweredStep DEF AInv

\* The answers imply what was asked for.
LEMMA AnsweredType == AInv => TypeOK
<1> SUFFICES ASSUME AInv PROVE TypeOK
  OBVIOUS
<1>1. VolSizeBytes(req.range) \in Int64 /\ 0 \in Int64
  BY SizeType DEF AInv, IInv
<1>2. Zone(req) \in Pools \cup {NoPool}
  BY ZoneType DEF AInv, IInv, BaseOK
<1> QED BY <1>1, <1>2 DEF AInv, IInv, BaseOK, Answered, TypeOK

LEMMA AnsweredCapacity == AInv => CapacityAsAsked
<1> SUFFICES ASSUME AInv, claim = "bound" PROVE CapacityAsAsked
  BY DEF CapacityAsAsked
<1> DEFINE range == req.range
<1>1. told.size = size /\ size = VolSizeBytes(range) /\ ~ExceedsLimit(range)
  BY DEF AInv, IInv, BoundVolumeUsable, Answered, Admissible
<1>2. range.required \in 0..MaxInt64 /\ range.required \in Nat /\ range.limit \in Nat
  BY ProvisioningConstants, SizesAssumption DEF AInv, IInv, BaseOK, Request
<1>3. size \in Int /\ GiB \in Nat
  BY <1>1, SizeType, SizesAssumption DEF AInv, IInv, Int64
<1>4. range.given => size = RoundUpBytes(range.required)
  BY <1>1 DEF VolSizeBytes
<1> HIDE DEF range
<1>5. range.given /\ Fits(range.required) =>
        size % GiB = 0 /\ size >= range.required /\ size < range.required + GiB
  BY <1>2, <1>3, <1>4, RoundUpBytesRounds
<1>7. range.given /\ ~Fits(range.required) => size <= 0
  BY <1>2, <1>4, WrappedIsNoSize
<1>6. range.given /\ range.limit > 0 => size <= range.limit
  BY <1>1, <1>2, <1>3 DEF ExceedsLimit
<1> QED BY <1>1, <1>5, <1>6, <1>7 DEF CapacityAsAsked, range

LEMMA AnsweredTopology == AInv => TopologyHolds
<1> SUFFICES ASSUME AInv, claim = "bound", req.pool = NoPool PROVE TopologyHolds
  BY DEF TopologyHolds
<1> DEFINE t == req.topology
           likes == t.preferred
<1>1. /\ told.zone = Zone(req) /\ PoolName(req) = Zone(req) /\ Zone(req) \in Pools
      /\ state # "absent" /\ NoPool \notin Pools
  BY ProvisioningConstants
  DEF AInv, Answered, Admissible, PoolName, IInv, BoundVolumeUsable
<1>2. Zone(req) \in ExistingPools => pool = Zone(req)
  BY <1>1, ProvisioningConstants DEF AInv, IInv, Placed, AppliedPool
<1>3. t.preferred \in Seq(Nodes) /\ t.requisite \in Seq(Nodes)
  BY ProvisioningConstants DEF AInv, IInv, BaseOK, Request
<1>4. Zone(req) = GetAZFromTopology(t)
  BY <1>1 DEF Zone
<1> HIDE DEF t
<1>5. likes # <<>> /\ GetZoneFromNode(Head(likes)) \in ExistingPools =>
        Zone(req) = GetZoneFromNode(Head(likes))
  BY <1>1, <1>3, <1>4, PreferredZone, ProvisioningConstants
<1>6. Zone(req) = FirstZone(t.preferred \o t.requisite)
  BY <1>4 DEF GetAZFromTopology
<1>7. \/ \E i \in DOMAIN t.preferred : Zone(req) = GetZoneFromNode(t.preferred[i])
      \/ \E i \in DOMAIN t.requisite : Zone(req) = GetZoneFromNode(t.requisite[i])
  BY <1>1, <1>3, <1>6, ZoneOfNode, Zenon
<1> QED BY <1>1, <1>2, <1>5, <1>7 DEF TopologyHolds, t

\* For every request, every unit and every width of the integers, however many
\* calls it took, the Volume has the capacity it was told to have, which is the
\* one asked for, or, exactly if that wraps around, no size at all.
THEOREM CapacityHonoured == Spec => []CapacityAsAsked
BY AnsweredInit, AInvStep, AnsweredCapacity, PTL DEF Spec

\* The Volume is in the zone asked for and told, for every topology.
THEOREM TopologyHonoured == Spec => []TopologyHolds
BY AnsweredInit, AInvStep, AnsweredTopology, PTL DEF Spec

\* The Volume, the CO and the handlers keep their types.
THEOREM ProvisioningTypes == Spec => []TypeOK
BY AnsweredInit, AInvStep, AnsweredType, PTL DEF Spec

------------------------------------------------------------------------------
(* Volumes that are left behind. NoOrphan does not hold of Spec; these are *)
(* the steps that break it.                                                *)

\* The CO drops a claim that is deleted when no call is under way and none is
\* of unknown outcome, although earlier calls, which ended in errors, made the
\* Volume; or a call for a claim that was deleted meanwhile ends in an error.
LeftBehind ==
  \/ Withdraw /\ state # "absent" /\ calls = {} /\ ~background
  \/ claim = "withdrawn" /\ \E c \in calls : c.pc \in CreatePC /\ ReturnError(c)

\* The steps after which a claim is gone and its Volume is not.
LEMMA OrphanStep ==
  ASSUME IInv, Next, NoOrphan, ~NoOrphan'
  PROVE  LeftBehind
<1>1. claim' = "gone" /\ state' # "absent"
  BY DEF NoOrphan
<1>2. claim # "gone" \/ (state = "absent" /\ calls = {})
  BY DEF NoOrphan, IInv, Tracked, BaseOK, Call
<1>3. ASSUME NEW c \in calls, ReturnError(c) PROVE LeftBehind
  BY <1>1, <1>2, <1>3 DEF ReturnError, LeftBehind, IInv, Tracked, BaseOK, Call
<1>4. ASSUME NEW c \in calls, claim' = claim PROVE FALSE
  BY <1>1, <1>2, <1>4
<1>5. ASSUME NEW c \in calls, HandlerStep(c) PROVE LeftBehind
  <2>1. CASE CreateGetPool(c)
    BY <1>3, <1>4, <2>1 DEF CreateGetPool, Continue, coVars
  <2>2. CASE CreateApply(c)
    BY <1>4, <2>2 DEF CreateApply, Continue, coVars
  <2>3. CASE WaitForVolumeAvailability(c)
    <3>1. /\ state \in {"absent", "pending", "available"}
          /\ c.polls = WaitSteps - 1 \/ c.polls < WaitSteps - 1
      BY ProvisioningConstants DEF IInv, BaseOK, Call
    <3>2. \/ ReturnCreated(c) \/ ReturnError(c)
          \/ Continue(c, [c EXCEPT !.polls = @ + 1])
      BY <2>3, <3>1 DEF WaitForVolumeAvailability
    <3> QED BY <1>1, <1>3, <1>4, <3>2 DEF ReturnCreated, Continue, coVars
  <2>4. CASE DeleteVolume(c)
    BY <1>1, <2>4 DEF DeleteVolume
  <2> QED BY <1>5, <2>1, <2>2, <2>3, <2>4 DEF HandlerStep
<1>6. ASSUME NEW c \in calls,
             \/ ContextDone(c) \/ ApiError(c) \/ ApplyReplyLost(c) \/ DeleteReplyLost(c)
             \/ Abandon(c)
      PROVE  LeftBehind
  BY <1>3, <1>4, <1>6
     DEF ContextDone, ApiError, ApplyReplyLost, DeleteReplyLost, Abandon, coVars
<1>7. CASE Withdraw
  BY <1>1, <1>7 DEF Withdraw, LeftBehind, apiVars
<1>8. CASE Claim \/ Release \/ BeginCreate \/ BeginDelete
  BY <1>1, <1>2, <1>8 DEF Claim, Release, BeginCreate, BeginDelete, Begin, apiVars, coVars
<1>9. CASE Schedule \/ Provision \/ Restart \/ Degrade
  BY <1>1, <1>2, <1>9 DEF Schedule, Provision, Restart, Degrade, apiVars, coVars
<1> QED BY <1>5, <1>6, <1>7, <1>8, <1>9 DEF Next

\* A Volume is left behind only by a claim that no CreateVolume has answered:
\* either the user deletes the claim after an error the CO took as final, when
\* the Volume is there, or such an error ends the call for a claim that was
\* deleted before. No claim that was bound or released leaves one.
THEOREM OrphansAreWithdrawn == Spec => [][NoOrphan /\ ~NoOrphan' => LeftBehind]_vars
<1>1. IInv /\ [Next]_vars => IInv'
  BY InvStep
<1>2. IInv /\ [Next]_vars => [NoOrphan /\ ~NoOrphan' => LeftBehind]_vars
  BY OrphanStep
<1> QED BY <1>1, <1>2, InvInit, PTL DEF Spec

=============================================================================
