------------------------- MODULE AttachmentLeaseProofs -------------------------
(***************************************************************************)
(* Attachment implements VolumeLease: every step of a handler, the CO, the *)
(* API servers or a fault is a step of the lease or leaves it alone.       *)
(***************************************************************************)
EXTENDS AttachmentProofs

\* The mapping is a function of the Machines' lists: the one Machine that
\* lists the volume is its holder.
LEMMA HolderIs ==
  ASSUME NodesOutliveMachines, IInv, NEW v \in Volumes
  PROVE  /\ \A n \in Nodes : Listed(spec[n], v) => Holder(v) = n
         /\ (\A n \in Nodes : ~Listed(spec[n], v)) => Holder(v) = "nobody"
<1>1. \A m, n \in Nodes : Listed(spec[m], v) /\ Listed(spec[n], v) => m = n
  BY InvImplies DEF SingleAttach
<1> QED BY <1>1 DEF Holder

\* And the one node the CO takes the volume for attached to is the one told.
LEMMA ToldIs ==
  ASSUME NodesOutliveMachines, IInv, NEW v \in Volumes
  PROVE  /\ \A n \in Nodes : va[v][n] = "attached" => Told(v) = n
         /\ (\A n \in Nodes : va[v][n] # "attached") => Told(v) = "nobody"
<1>1. \A m, n \in Nodes : va[v][m] = "attached" /\ va[v][n] = "attached" => m = n
  BY DEF IInv, VAInv, OneVolumeAttachment
<1> QED BY <1>1 DEF Told

\* While a handler runs for a volume, the CO has been told nothing of it.
LEMMA CallUntold ==
  ASSUME NodesOutliveMachines, IInv, NEW c \in calls
  PROVE  /\ c.vol \in Volumes /\ c.node \in Nodes
         /\ Told(c.vol) = "nobody"
         /\ volume[c.vol] # "gone"
         /\ \A n \in Nodes : n # c.node => ~Listed(spec[n], c.vol)
<1>1. c.vol \in Volumes /\ c.node \in Nodes
  BY DEF IInv, VAInv, TypeOK, Call
<1>2. va[c.vol][c.node] \in {"attach", "detach"}
  BY DEF IInv, VAInv, CallTracked
<1>3. \A n \in Nodes : n # c.node => va[c.vol][n] = "none"
  BY <1>1, <1>2 DEF IInv, VAInv, OneVolumeAttachment
<1>4. Told(c.vol) = "nobody"
  BY <1>1, <1>2, <1>3, ToldIs
<1>5. volume[c.vol] # "gone"
  BY <1>1, <1>2 DEF IInv, GoneUnattached
<1>6. \A n \in Nodes : n # c.node => ~Listed(spec[n], c.vol)
  BY <1>1, <1>3 DEF IInv, AttachmentOwned
<1> QED BY <1>1, <1>4, <1>5, <1>6

\* The holder changes only where what is listed changes.
LEMMA HolderSame ==
  ASSUME NodesOutliveMachines, IInv, NEW v \in Volumes,
         \A n \in Nodes : Listed(spec'[n], v) <=> Listed(spec[n], v)
  PROVE  Holder(v)' = Holder(v)
<1>1. CASE \E n \in Nodes : Listed(spec[n], v)
  <2>1. PICK n \in Nodes : Listed(spec[n], v)
    BY <1>1
  <2>2. Holder(v) = n
    BY <2>1, HolderIs
  <2>3. Holder(v)' = n
    <3>1. \A k, m \in Nodes : Listed(spec'[k], v) /\ Listed(spec'[m], v) => k = m
      BY InvImplies DEF SingleAttach
    <3> QED BY <2>1, <3>1 DEF Holder
  <2> QED BY <2>2, <2>3
<1>2. CASE \A n \in Nodes : ~Listed(spec[n], v)
  BY <1>2 DEF Holder
<1> QED BY <1>1, <1>2

\* What the CO was told changes only where an attachment is completed or
\* given up.
LEMMA ToldSame ==
  ASSUME NodesOutliveMachines, IInv, NEW v \in Volumes,
         \A n \in Nodes : va'[v][n] = "attached" <=> va[v][n] = "attached"
  PROVE  Told(v)' = Told(v)
<1>1. CASE \E n \in Nodes : va[v][n] = "attached"
  <2>1. PICK n \in Nodes : va[v][n] = "attached"
    BY <1>1
  <2>2. Told(v) = n
    BY <2>1, ToldIs
  <2>3. Told(v)' = n
    <3>1. \A k, m \in Nodes : va[v][k] = "attached" /\ va[v][m] = "attached" => k = m
      BY DEF IInv, VAInv, OneVolumeAttachment
    <3> QED BY <2>1, <3>1 DEF Told
  <2> QED BY <2>2, <2>3
<1>2. CASE \A n \in Nodes : va[v][n] # "attached"
  BY <1>2 DEF Told
<1> QED BY <1>1, <1>2

\* A step that lists, tells, loses and deletes nothing leaves the lease alone.
LEMMA LeaseStutter ==
  ASSUME NodesOutliveMachines, IInv, UNCHANGED <<machines, spec>>,
         \A v \in Volumes : volume'[v] = "gone" <=> volume[v] = "gone",
         \A v \in Volumes, n \in Nodes :
           va'[v][n] = "attached" <=> va[v][n] = "attached"
  PROVE  UNCHANGED Lease!leaseVars
<1>1. \A v \in Volumes : Holder(v)' = Holder(v)
  BY DEF Holder
<1>2. \A v \in Volumes : Told(v)' = Told(v)
  BY ToldSame
<1>3. {v \in Volumes : volume[v] = "gone"}' = {v \in Volumes : volume[v] = "gone"}
  OBVIOUS
<1> QED BY <1>1, <1>2, <1>3 DEF Lease!leaseVars

\* A detach that is reported takes nothing from the CO it had been told.
LEMMA UnpublishedUntold ==
  ASSUME NodesOutliveMachines, IInv, NEW c \in calls, c.pc \in UnpublishPC, ReturnUnpublished(c)
  PROVE  \A v \in Volumes, n \in Nodes :
           va'[v][n] = "attached" <=> va[v][n] = "attached"
<1>1. c.vol \in Volumes /\ c.node \in Nodes /\ va[c.vol][c.node] = "detach"
  BY DEF IInv, VAInv, TypeOK, Call, CallTracked
<1> QED BY <1>1 DEF ReturnUnpublished, IInv, VAInv, TypeOK

\* The publish patch acquires the lease, or finds it acquired.
LEMMA PublishPatchLease ==
  ASSUME NodesOutliveMachines, IInv, NEW c \in calls, PublishPatch(c)
  PROVE  Lease!Acquire(c.vol, c.node) \/ UNCHANGED Lease!leaseVars
<1>1. UNCHANGED <<machines, volume, va>>
  BY DEF PublishPatch, ReturnError, apiVars, coVars
<1>2. CASE c.node \notin machines
  BY <1>1, <1>2, LeaseStutter DEF PublishPatch
<1>3. CASE c.node \in machines
  <2>1. PICK slots \in MergeAdd(spec[c.node], c.seen, c.vol) :
          spec' = [spec EXCEPT ![c.node] = slots]
    BY <1>3 DEF PublishPatch
  <2>2. /\ c.vol \in Volumes /\ c.node \in Nodes
        /\ Told(c.vol) = "nobody" /\ volume[c.vol] # "gone"
        /\ \A n \in Nodes : n # c.node => ~Listed(spec[n], c.vol)
    BY CallUntold
  <2>3. /\ spec[c.node] \in [Volumes -> Slot] /\ spec'[c.node] = slots
        /\ \A n \in Nodes : n # c.node => spec'[n] = spec[n]
    BY <2>1, <2>2 DEF IInv, VAInv, TypeOK
  <2>4. /\ \A u \in Volumes : u # c.vol => slots[u] = spec[c.node][u]
        /\ Listed(slots, c.vol)
    BY <2>2, <2>3, MergeAddEntry
  <2>5. \A u \in Volumes : Told(u)' = Told(u)
    BY <1>1 DEF Told
  <2>6. \A u \in Volumes : u # c.vol => Holder(u)' = Holder(u)
    <3> SUFFICES ASSUME NEW u \in Volumes, u # c.vol PROVE Holder(u)' = Holder(u)
      OBVIOUS
    <3>1. \A n \in Nodes : Listed(spec'[n], u) <=> Listed(spec[n], u)
      BY <2>3, <2>4 DEF Listed
    <3> QED BY <3>1, HolderSame
  <2>7. Holder(c.vol)' = c.node
    <3>1. \A n \in Nodes : Listed(spec'[n], c.vol) <=> n = c.node
      BY <2>2, <2>3, <2>4 DEF Listed
    <3> QED BY <2>2, <3>1 DEF Holder
  <2>8. CASE Listed(spec[c.node], c.vol)
    <3>1. Holder(c.vol) = c.node
      BY <2>2, <2>8, HolderIs
    <3>2. \A u \in Volumes : Holder(u)' = Holder(u)
      BY <2>6, <2>7, <3>1
    <3> QED BY <1>1, <2>5, <3>2 DEF Lease!leaseVars
  <2>9. CASE ~Listed(spec[c.node], c.vol)
    <3>1. Holder(c.vol) = "nobody"
      BY <2>2, <2>9, HolderIs
    <3>2. [u \in Volumes |-> Holder(u)]' =
            [[u \in Volumes |-> Holder(u)] EXCEPT ![c.vol] = c.node]
      BY <2>2, <2>6, <2>7
    <3>3. [u \in Volumes |-> Told(u)]' = [u \in Volumes |-> Told(u)]
      BY <2>5
    <3> QED BY <1>1, <1>3, <2>2, <3>1, <3>2, <3>3 DEF Lease!Acquire
  <2> QED BY <2>8, <2>9
<1> QED BY <1>2, <1>3

\* The answer of ControllerPublishVolume tells what is true, or what a
\* Machine lost on the way has ended.
LEMMA PublishGetVolumeLease ==
  ASSUME NodesOutliveMachines, IInv, NEW c \in calls, PublishGetVolume(c)
  PROVE  Lease!Tell(c.vol, c.node) \/ UNCHANGED Lease!leaseVars
<1>1. UNCHANGED <<machines, spec, volume>> /\ c.pc = "PubGetVolume"
  BY DEF PublishGetVolume, apiVars
<1>2. CASE va' = va
  BY <1>1, <1>2, LeaseStutter
<1>3. CASE va' # va
  <2>1. /\ c.seen[c.vol] \in Devices
        /\ va' = [va EXCEPT ![c.vol][c.node] = "attached"]
    BY <1>3 DEF PublishGetVolume, DeviceValid, ReturnPublished, ReturnError, coVars
  <2>2. c.vol \in Volumes /\ c.node \in Nodes /\ Told(c.vol) = "nobody"
    BY CallUntold
  <2>3. Holder(c.vol) = c.node \/ c.node \in Nodes \ machines
    <3>1. CASE c.node \in machines
      <4>1. Listed(spec[c.node], c.vol)
        <5>1. FreshAt(c.vol, c.node)
          BY <2>2 DEF IInv, Fresh
        <5>2. spec[c.node][c.vol] = c.seen[c.vol]
          BY <1>1, <2>1, <3>1, <5>1 DEF FreshAt
        <5> QED BY <2>1, <5>2, ConstantsAssumption DEF Listed
      <4> QED BY <2>2, <4>1, HolderIs
    <3> QED BY <2>2, <3>1
  <2>4. \A u \in Volumes : Holder(u)' = Holder(u)
    BY <1>1 DEF Holder
  <2>5. Told(c.vol)' = c.node
    <3>1. \A n \in Nodes : va[c.vol][n] # "attached"
      BY <2>2, ToldIs, ConstantsAssumption
    <3>2. \A n \in Nodes : va'[c.vol][n] = "attached" <=> n = c.node
      BY <2>1, <2>2, <3>1 DEF IInv, VAInv, TypeOK
    <3> QED BY <2>2, <3>2 DEF Told
  <2>6. \A u \in Volumes : u # c.vol => Told(u)' = Told(u)
    <3>1. \A u \in Volumes, n \in Nodes : u # c.vol => va'[u][n] = va[u][n]
      BY <2>1, <2>2 DEF IInv, VAInv, TypeOK
    <3> QED BY <3>1, ToldSame
  <2>7. [u \in Volumes |-> Told(u)]' =
          [[u \in Volumes |-> Told(u)] EXCEPT ![c.vol] = c.node]
    BY <2>2, <2>5, <2>6
  <2> QED BY <1>1, <2>2, <2>3, <2>4, <2>7 DEF Lease!Tell
<1> QED BY <1>2, <1>3

\* The unpublish patch releases the lease.
LEMMA UnpublishPatchLease ==
  ASSUME NodesOutliveMachines, IInv, NEW c \in calls, UnpublishPatch(c)
  PROVE  Lease!Release(c.vol) \/ UNCHANGED Lease!leaseVars
<1>1. UNCHANGED <<machines, volume>> /\ c.pc \in UnpublishPC
  BY DEF UnpublishPatch, apiVars, UnpublishPC
<1>2. CASE c.node \notin machines
  BY <1>1, <1>2, LeaseStutter DEF UnpublishPatch, ReturnError, coVars
<1>3. CASE c.node \in machines
  <2>1. /\ spec' = [spec EXCEPT ![c.node][c.vol] = Absent]
        /\ ReturnUnpublished(c)
    BY <1>3 DEF UnpublishPatch, MergeDelete
  <2>2. /\ c.vol \in Volumes /\ c.node \in Nodes /\ Told(c.vol) = "nobody"
        /\ \A n \in Nodes : n # c.node => ~Listed(spec[n], c.vol)
    BY CallUntold
  <2>3. \A u \in Volumes : Told(u)' = Told(u)
    BY <1>1, <2>1, UnpublishedUntold, ToldSame
  <2>4. \A u \in Volumes, n \in Nodes :
          spec'[n][u] = IF u = c.vol /\ n = c.node THEN Absent ELSE spec[n][u]
    BY <2>1, <2>2 DEF IInv, VAInv, TypeOK
  <2>5. Holder(c.vol)' = "nobody"
    <3>1. \A n \in Nodes : ~Listed(spec'[n], c.vol)
      BY <2>2, <2>4 DEF Listed
    <3> QED BY <3>1 DEF Holder
  <2>6. \A u \in Volumes : u # c.vol => Holder(u)' = Holder(u)
    BY <2>4, HolderSame DEF Listed
  <2>7. [u \in Volumes |-> Holder(u)]' =
          [[u \in Volumes |-> Holder(u)] EXCEPT ![c.vol] = "nobody"]
    BY <2>2, <2>5, <2>6
  <2> QED BY <1>1, <2>2, <2>3, <2>7 DEF Lease!Release
<1> QED BY <1>2, <1>3

\* A Machine that goes loses what it holds.
LEMMA DeleteMachineLease ==
  ASSUME NodesOutliveMachines, IInv, NEW n \in Nodes, DeleteMachine(n)
  PROVE  Lease!Lose(n)
<1>1. /\ UNCHANGED <<volume, va>> /\ machines' = machines \ {n}
      /\ \A m \in Nodes : spec'[m] = IF m = n THEN NoSlots ELSE spec[m]
  BY DEF DeleteMachine, coVars, IInv, VAInv, TypeOK
<1>2. \A u \in Volumes : Told(u)' = Told(u)
  BY <1>1 DEF Told
<1>3. ASSUME NEW u \in Volumes
      PROVE  Holder(u)' = IF Holder(u) = n THEN "nobody" ELSE Holder(u)
  <2>1. CASE Listed(spec[n], u)
    <3>1. Holder(u) = n /\ \A m \in Nodes : m # n => ~Listed(spec[m], u)
      BY <2>1, HolderIs, InvImplies DEF SingleAttach
    <3>2. \A m \in Nodes : ~Listed(spec'[m], u)
      BY <1>1, <3>1 DEF Listed, NoSlots
    <3> QED BY <3>1, <3>2 DEF Holder
  <2>2. CASE ~Listed(spec[n], u)
    <3>1. Holder(u)' = Holder(u)
      BY <1>1, <2>2, HolderSame DEF Listed, NoSlots
    <3>2. Holder(u) # n
      BY <2>2, ConstantsAssumption DEF Holder
    <3> QED BY <3>1, <3>2
  <2> QED BY <2>1, <2>2
<1>4. Nodes \ machines' = (Nodes \ machines) \cup {n}
  BY <1>1
<1> QED BY <1>1, <1>2, <1>3, <1>4 DEF Lease!Lose

\* The CO's decision to detach recalls what it was told.
LEMMA DetachLease ==
  ASSUME NodesOutliveMachines, IInv, NEW v \in Volumes, NEW n \in Nodes, Detach(v, n)
  PROVE  Lease!Recall(v)
<1>1. /\ UNCHANGED <<machines, spec, volume>> /\ va[v][n] # "none"
      /\ \A u \in Volumes, m \in Nodes :
           va'[u][m] = IF u = v /\ m = n THEN "detach" ELSE va[u][m]
  BY DEF Detach, apiVars, IInv, VAInv, TypeOK
<1>2. \A u \in Volumes : Holder(u)' = Holder(u)
  BY <1>1 DEF Holder
<1>3. \A u \in Volumes : u # v => Told(u)' = Told(u)
  BY <1>1, ToldSame
<1>4. Told(v)' = "nobody"
  <2>1. \A m \in Nodes : va'[v][m] # "attached"
    BY <1>1 DEF IInv, VAInv, OneVolumeAttachment
  <2> QED BY <2>1 DEF Told
<1>5. [u \in Volumes |-> Told(u)]' =
        [[u \in Volumes |-> Told(u)] EXCEPT ![v] = "nobody"]
  BY <1>3, <1>4
<1> QED BY <1>1, <1>2, <1>5 DEF Lease!Recall

\* A volume is deleted when nobody holds it.
LEMMA DeleteVolumeLease ==
  ASSUME NodesOutliveMachines, IInv, NEW v \in Volumes, DeleteVolume(v)
  PROVE  Lease!Delete(v)
<1>1. /\ UNCHANGED <<machines, spec, va>>
      /\ \A n \in Nodes : va[v][n] = "none"
      /\ volume' = [volume EXCEPT ![v] = "gone"]
  BY DEF DeleteVolume, coVars
<1>2. Holder(v) = "nobody" /\ Told(v) = "nobody"
  BY <1>1, HolderIs, ToldIs DEF IInv, AttachmentOwned
<1>3. \A u \in Volumes : Holder(u)' = Holder(u) /\ Told(u)' = Told(u)
  BY <1>1 DEF Holder, Told
<1>4. {u \in Volumes : volume'[u] = "gone"} =
        {u \in Volumes : volume[u] = "gone"} \cup {v}
  BY <1>1 DEF IInv, VAInv, TypeOK
<1> QED BY <1>1, <1>2, <1>3, <1>4 DEF Lease!Delete

\* Every step is a step of the lease.
LEMMA LeaseStep ==
  ASSUME NodesOutliveMachines, IInv, [Next]_vars
  PROVE  [Lease!Next]_Lease!leaseVars
<1> DEFINE Stutter == UNCHANGED Lease!leaseVars
<1>1. ASSUME NEW c \in calls, HandlerStep(c) PROVE Lease!Next \/ Stutter
  <2>1. c.vol \in Volumes /\ c.node \in Nodes
    BY CallUntold
  <2>2. CASE PublishGetMachine(c)
    BY <2>2, LeaseStutter DEF PublishGetMachine, ReturnError, apiVars, coVars
  <2>3. CASE PublishPatch(c)
    BY <2>1, <2>3, PublishPatchLease DEF Lease!Next
  <2>4. CASE PublishGetVolume(c)
    BY <2>1, <2>4, PublishGetVolumeLease DEF Lease!Next
  <2>5. CASE UnpublishNodeExists(c)
    <3>1. c.pc \in UnpublishPC /\ UNCHANGED <<machines, spec, volume>>
      BY <2>5 DEF UnpublishNodeExists, apiVars, UnpublishPC
    <3>2. \/ UNCHANGED va
          \/ ReturnUnpublished(c)
      BY <2>5 DEF UnpublishNodeExists, coVars
    <3> QED BY <3>1, <3>2, UnpublishedUntold, LeaseStutter
  <2>6. CASE UnpublishGetMachine(c)
    <3>1. c.pc \in UnpublishPC /\ UNCHANGED <<machines, spec, volume>>
      BY <2>6 DEF UnpublishGetMachine, apiVars, UnpublishPC
    <3>2. \/ UNCHANGED va
          \/ ReturnUnpublished(c)
      BY <2>6 DEF UnpublishGetMachine, ReturnError, coVars
    <3> QED BY <3>1, <3>2, UnpublishedUntold, LeaseStutter
  <2>7. CASE UnpublishPatch(c)
    BY <2>1, <2>7, UnpublishPatchLease DEF Lease!Next
  <2> QED BY <1>1, <2>2, <2>3, <2>4, <2>5, <2>6, <2>7 DEF HandlerStep
<1>2. ASSUME NEW c \in calls, ApiError(c) \/ Abandon(c) PROVE Stutter
  BY <1>2, LeaseStutter DEF ApiError, Abandon, ReturnError, apiVars, coVars
<1>3. ASSUME NEW v \in Volumes, NEW n \in Nodes, Attach(v, n) PROVE Stutter
  <2>1. \A u \in Volumes, m \in Nodes :
          va'[u][m] = "attached" <=> va[u][m] = "attached"
    BY <1>3 DEF Attach, IInv, VAInv, TypeOK
  <2> QED BY <1>3, <2>1, LeaseStutter DEF Attach, apiVars
<1>4. ASSUME NEW v \in Volumes, NEW n \in Nodes, Detach(v, n) PROVE Lease!Next
  BY <1>4, DetachLease DEF Lease!Next
<1>5. ASSUME NEW v \in Volumes, NEW n \in Nodes,
             BeginPublish(v, n) \/ BeginUnpublish(v, n)
      PROVE  Stutter
  BY <1>5, LeaseStutter DEF BeginPublish, BeginUnpublish, Begin, apiVars, coVars
<1>6. ASSUME NEW v \in Volumes, NEW n \in Nodes, AssignDevice(n, v) PROVE Stutter
  <2>1. /\ UNCHANGED <<machines, volume, va>>
        /\ \A m \in Nodes, u \in Volumes :
             Listed(spec'[m], u) <=> Listed(spec[m], u)
    BY <1>6, ConstantsAssumption
    DEF AssignDevice, apiVars, coVars, IInv, VAInv, TypeOK, Listed, Absent, Unassigned
  <2>2. \A u \in Volumes : Holder(u)' = Holder(u) /\ Told(u)' = Told(u)
    BY <2>1, HolderSame DEF Told
  <2> QED BY <2>1, <2>2 DEF Lease!leaseVars
<1>7. ASSUME NEW v \in Volumes, DeleteVolume(v) PROVE Lease!Next
  BY <1>7, DeleteVolumeLease DEF Lease!Next
<1>8. ASSUME NEW v \in Volumes, VolumeProgresses(v) \/ VolumeDegrades(v)
      PROVE  Stutter
  <2>1. /\ UNCHANGED <<machines, spec, va>>
        /\ \A u \in Volumes : volume'[u] = "gone" <=> volume[u] = "gone"
    BY <1>8 DEF VolumeProgresses, VolumeDegrades, coVars, IInv, VAInv, TypeOK
  <2> QED BY <2>1, LeaseStutter
<1>9. ASSUME NEW n \in Nodes, DeleteMachine(n) PROVE Lease!Next
  BY <1>9, DeleteMachineLease DEF Lease!Next
<1>10. ASSUME NEW n \in Nodes, DeleteNode(n) PROVE Stutter
  BY <1>10, LeaseStutter DEF DeleteNode, coVars
<1>11. CASE Crash
  BY <1>11, LeaseStutter DEF Crash, apiVars, coVars
<1>12. CASE UNCHANGED vars
  BY <1>12, LeaseStutter DEF vars
<1> QED
  BY <1>1, <1>2, <1>3, <1>4, <1>5, <1>6, <1>7, <1>8, <1>9, <1>10, <1>11,
     <1>12 DEF Next

\* Attaching implements the lease, for every volume, node, device and number
\* of faults, as long as a Node is removed only after its Machine.
THEOREM AttachmentImplementsLease ==
  ASSUME NodesOutliveMachines
  PROVE  Spec => ImplementsLease
<1>1. Init => Lease!Init
  <2> SUFFICES ASSUME Init PROVE Lease!Init
    OBVIOUS
  <2>1. \A v \in Volumes : Holder(v) = "nobody" /\ Told(v) = "nobody"
    BY InvInit, HolderIs, ToldIs DEF Init, Listed, NoSlots
  <2> QED BY <2>1 DEF Init, Lease!Init
<1>2. IInv /\ [Next]_vars => [Lease!Next]_Lease!leaseVars
  BY LeaseStep
<1> QED BY InvInit, InvStep, <1>1, <1>2, PTL DEF Spec, ImplementsLease, Lease!Spec

\* An entry leaves the list of a living Machine only through a detach the CO
\* asked for, of that volume from that node, in whatever order Nodes and
\* Machines are removed.
THEOREM DetachRequested == Spec => DetachOnlyRequested
<1> DEFINE Requested ==
      \A v \in Volumes, n \in Nodes :
        Listed(spec[n], v) /\ ~Listed(spec'[n], v) =>
          va[v][n] = "detach" \/ n \notin machines'
<1>1. IInv /\ [Next]_vars => [Requested]_vars
  <2> SUFFICES ASSUME IInv, Next PROVE Requested
    OBVIOUS
  <2>0. /\ TypeOK /\ spec \in [Nodes -> [Volumes -> Slot]]
        /\ \A c \in calls : c.vol \in Volumes /\ c.node \in Nodes
    BY DEF IInv, VAInv, TypeOK, Call
  <2>1. CASE UNCHANGED <<spec, machines>>
    BY <2>1
  <2>2. ASSUME NEW n \in Nodes, DeleteMachine(n) PROVE Requested
    BY <2>0, <2>2 DEF DeleteMachine
  <2>3. ASSUME NEW n \in Nodes, NEW v \in Volumes, NEW s \in Slot \ {Absent},
               Entry(n, v, s)
        PROVE  Requested
    BY <2>0, <2>3 DEF Entry, Listed
  <2>4. ASSUME NEW v \in Volumes, NEW n \in Nodes, AssignDevice(n, v) PROVE Requested
    BY <2>3, <2>4, AssignEntry, ConstantsAssumption DEF Slot
  <2>5. ASSUME NEW c \in calls, UnpublishPatch(c), Entry(c.node, c.vol, Absent)
        PROVE  Requested
    <3>1. va[c.vol][c.node] = "detach"
      BY <2>5 DEF IInv, VAInv, CallTracked, UnpublishPatch, UnpublishPC
    <3>2. \A u \in Volumes, n \in Nodes :
            u # c.vol \/ n # c.node => spec'[n][u] = spec[n][u]
      BY <2>0, <2>5 DEF Entry
    <3> QED BY <3>1, <3>2 DEF Listed
  <2> QED BY <2>0, <2>1, <2>2, <2>3, <2>4, <2>5, SpecStep
<1> QED BY InvInit, InvStep, <1>1, PTL DEF Spec, DetachOnlyRequested

=============================================================================
