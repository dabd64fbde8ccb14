--------------------------- MODULE AttachmentProofs ---------------------------
(***************************************************************************)
(* Proofs about Attachment, for every set of volumes, nodes and devices    *)
(* and every bound on the faults. The invariant comes in layers: the types,*)
(* the VolumeAttachments and the handlers working for them, what the CO    *)
(* was told or is about to be told of one place, and the Machines' lists.  *)
(* The lower layers know nothing of the others, so that they also hold     *)
(* where the lists change behind the handlers' backs (SystemProofs).       *)
(***************************************************************************)
EXTENDS Attachment, TLAPS

\* The lock admits one handler per volume, abandoned ones included.
OneCallPerVolume == \A c, d \in calls : c.vol = d.vol => c = d

\* Every handler in flight works for a VolumeAttachment that still exists,
\* and the CO does not take a volume for attached while one runs.
CallTracked ==
  \A c \in calls :
    /\ va[c.vol][c.node] \in {"attach", "detach"}
    /\ c.pc \in UnpublishPC => va[c.vol][c.node] = "detach"

\* A volume has one VolumeAttachment at most.
OneVolumeAttachment ==
  \A v \in Volumes : \A m, n \in Nodes :
    va[v][m] # "none" /\ va[v][n] # "none" => m = n

VAInv == TypeOK /\ OneCallPerVolume /\ CallTracked /\ OneVolumeAttachment

\* What the CO was told of v on n is the Machine's entry, and so is the device
\* a publish handler is about to answer.
FreshAt(v, n) ==
  n \in machines =>
    /\ va[v][n] = "attached" => spec[n][v] = pubctx[v] /\ pubctx[v] \in Devices
    /\ \A c \in calls :
         c.vol = v /\ c.node = n /\ c.pc = "PubGetVolume" /\ c.seen[v] \in Devices
           => spec[n][v] = c.seen[v]

Fresh == \A v \in Volumes, n \in Nodes : FreshAt(v, n)

\* A Machine that is gone lists nothing, and its Node may be gone only then.
MachineGone ==
  /\ \A n \in Nodes : n \notin machines => spec[n] = NoSlots
  /\ NodesOutliveMachines => machines \subseteq nodes

\* A Machine's devices are distinct.
DevicesDistinct ==
  \A n \in Nodes : \A u, v \in Volumes :
    spec[n][u] \in Devices /\ spec[n][u] = spec[n][v] => u = v

\* A deleted volume has no VolumeAttachment.
GoneUnattached ==
  \A v \in Volumes, n \in Nodes : volume[v] = "gone" => va[v][n] = "none"

\* If a Node goes only after its Machine, the CO has a VolumeAttachment for
\* whatever a Machine lists: nothing is left behind when the former goes.
AttachmentOwned ==
  NodesOutliveMachines =>
    \A v \in Volumes, n \in Nodes : Listed(spec[n], v) => va[v][n] # "none"

IInv ==
  /\ VAInv
  /\ Fresh
  /\ MachineGone
  /\ DevicesDistinct
  /\ GoneUnattached
  /\ AttachmentOwned

------------------------------------------------------------------------------
(* Types.                                                                  *)

\* A handler that moves on stays a handler.
LEMMA ContinueType ==
  ASSUME calls \subseteq Call, NEW c \in calls,
         NEW pc \in PublishPC \cup UnpublishPC,
         NEW seen \in [Volumes -> Slot],
         Continue(c, pc, seen)
  PROVE  calls' \subseteq Call
BY DEF Continue, Call

\* What the server does to a Machine's list leaves it a list.
LEMMA MergeType ==
  ASSUME NEW current \in [Volumes -> Slot], NEW seen, NEW v \in Volumes
  PROVE  /\ MergeAdd(current, seen, v) \subseteq [Volumes -> Slot]
         /\ MergeDelete(current, seen, v) \in [Volumes -> Slot]
BY DEF MergeAdd, MergeDelete, Slot

\* The type invariant holds initially.
LEMMA TypeInit == Init => TypeOK
BY ConstantsAssumption DEF Init, TypeOK, NoSlots, Slot, VolumeStatus, VAState

\* The steps of a handler keep the types.
LEMMA TypeHandler ==
  ASSUME TypeOK, NEW c \in calls, HandlerStep(c)
  PROVE  TypeOK'
<1>1. /\ c \in Call /\ c.vol \in Volumes /\ c.node \in Nodes
      /\ c.seen \in [Volumes -> Slot] /\ c.live \in BOOLEAN
      /\ spec[c.node] \in [Volumes -> Slot]
  BY DEF TypeOK, Call
<1>2. ReturnError(c) => (calls' \subseteq Call /\ UNCHANGED coVars)
  BY DEF TypeOK, ReturnError
<1>3. ReturnUnpublished(c) =>
        /\ calls' \subseteq Call
        /\ va' \in [Volumes -> [Nodes -> VAState]]
        /\ pubctx' \in [Volumes -> Devices \cup {Absent}]
  BY <1>1 DEF TypeOK, ReturnUnpublished, VAState
<1>4. (c.seen[c.vol] \in Devices /\ ReturnPublished(c)) =>
        /\ calls' \subseteq Call
        /\ va' \in [Volumes -> [Nodes -> VAState]]
        /\ pubctx' \in [Volumes -> Devices \cup {Absent}]
  BY <1>1 DEF TypeOK, ReturnPublished, VAState
<1>5. CASE PublishGetMachine(c)
  <2>1. calls' \subseteq Call /\ UNCHANGED coVars
    BY <1>1, <1>2, <1>5, ContinueType DEF PublishGetMachine, TypeOK, PublishPC
  <2> QED BY <1>5, <2>1 DEF PublishGetMachine, TypeOK, apiVars, coVars
<1>6. CASE PublishPatch(c)
  <2>1. CASE c.node \in machines
    <3>1. PICK slots \in MergeAdd(spec[c.node], c.seen, c.vol) :
            /\ spec' = [spec EXCEPT ![c.node] = slots]
            /\ Continue(c, "PubGetVolume", slots)
            /\ UNCHANGED coVars
      BY <1>6, <2>1 DEF PublishPatch
    <3>2. slots \in [Volumes -> Slot]
      BY <1>1, <3>1, MergeType
    <3>3. calls' \subseteq Call
      BY <3>1, <3>2, ContinueType DEF TypeOK, PublishPC
    <3> QED BY <1>6, <3>1, <3>2, <3>3 DEF PublishPatch, TypeOK, apiVars, coVars
  <2>2. CASE c.node \notin machines
    BY <1>2, <1>6, <2>2 DEF PublishPatch, TypeOK, apiVars, coVars
  <2> QED BY <2>1, <2>2
<1>7. CASE PublishGetVolume(c)
  <2>1. /\ calls' \subseteq Call
        /\ va' \in [Volumes -> [Nodes -> VAState]]
        /\ pubctx' \in [Volumes -> Devices \cup {Absent}]
    BY <1>2, <1>4, <1>7 DEF PublishGetVolume, DeviceValid, TypeOK, coVars
  <2> QED BY <1>7, <2>1 DEF PublishGetVolume, TypeOK, apiVars
<1>8. CASE UnpublishNodeExists(c)
  <2>1. /\ calls' \subseteq Call
        /\ va' \in [Volumes -> [Nodes -> VAState]]
        /\ pubctx' \in [Volumes -> Devices \cup {Absent}]
    BY <1>1, <1>3, <1>8, ContinueType
    DEF UnpublishNodeExists, TypeOK, coVars, UnpublishPC
  <2> QED BY <1>8, <2>1 DEF UnpublishNodeExists, TypeOK, apiVars
<1>9. CASE UnpublishGetMachine(c)
  <2>1. /\ calls' \subseteq Call
        /\ va' \in [Volumes -> [Nodes -> VAState]]
        /\ pubctx' \in [Volumes -> Devices \cup {Absent}]
    BY <1>1, <1>2, <1>3, <1>9, ContinueType
    DEF UnpublishGetMachine, TypeOK, coVars, UnpublishPC
  <2> QED BY <1>9, <2>1 DEF UnpublishGetMachine, TypeOK, apiVars
<1>10. CASE UnpublishPatch(c)
  <2>1. /\ calls' \subseteq Call
        /\ va' \in [Volumes -> [Nodes -> VAState]]
        /\ pubctx' \in [Volumes -> Devices \cup {Absent}]
    BY <1>2, <1>3, <1>10 DEF UnpublishPatch, TypeOK, coVars
  <2>2. spec' \in [Nodes -> [Volumes -> Slot]]
    BY <1>1, <1>10, MergeType DEF UnpublishPatch, TypeOK
  <2> QED BY <1>10, <2>1, <2>2 DEF UnpublishPatch, TypeOK, apiVars
<1> QED
  BY <1>5, <1>6, <1>7, <1>8, <1>9, <1>10 DEF HandlerStep

\* So does every step.
LEMMA TypeStep == TypeOK /\ [Next]_vars => TypeOK'
<1> SUFFICES ASSUME TypeOK, [Next]_vars PROVE TypeOK'
  OBVIOUS
<1> USE ConstantsAssumption
<1>1. ASSUME NEW c \in calls, HandlerStep(c) PROVE TypeOK'
  BY <1>1, TypeHandler
<1>2. ASSUME NEW c \in calls, ApiError(c) PROVE TypeOK'
  BY <1>2 DEF ApiError, Fault, ReturnError, TypeOK, apiVars, coVars
<1>3. ASSUME NEW c \in calls, Abandon(c) PROVE TypeOK'
  <2>1. [c EXCEPT !.live = FALSE] \in Call
    BY DEF TypeOK, Call
  <2>2. calls' \subseteq Call
    BY <1>3, <2>1 DEF Abandon, TypeOK
  <2>3. UNCHANGED <<apiVars, spec, coVars>> /\ faults' \in 0..MaxFaults
    BY <1>3 DEF Abandon, Fault, TypeOK
  <2> QED BY <2>2, <2>3 DEF TypeOK, apiVars, coVars
<1>4. ASSUME NEW v \in Volumes, NEW n \in Nodes, Attach(v, n) PROVE TypeOK'
  BY <1>4 DEF Attach, TypeOK, apiVars, VAState
<1>5. ASSUME NEW v \in Volumes, NEW n \in Nodes, Detach(v, n) PROVE TypeOK'
  BY <1>5 DEF Detach, TypeOK, apiVars, VAState
<1>6. ASSUME NEW v \in Volumes, NEW n \in Nodes,
             NEW pc \in PublishPC \cup UnpublishPC, Begin(v, n, pc)
      PROVE  TypeOK'
  <2>1. [vol |-> v, node |-> n, pc |-> pc, seen |-> NoSlots, live |-> TRUE]
          \in Call
    BY DEF Call, NoSlots, Slot
  <2> QED BY <1>6, <2>1 DEF Begin, TypeOK, apiVars, coVars
<1>7. ASSUME NEW v \in Volumes, NEW n \in Nodes,
             BeginPublish(v, n) \/ BeginUnpublish(v, n)
      PROVE  TypeOK'
  BY <1>6, <1>7 DEF BeginPublish, BeginUnpublish, PublishPC, UnpublishPC
<1>8. ASSUME NEW v \in Volumes, NEW n \in Nodes, AssignDevice(n, v) PROVE TypeOK'
  BY <1>8 DEF AssignDevice, TypeOK, apiVars, coVars, Slot
<1>9. ASSUME NEW v \in Volumes, DeleteVolume(v) PROVE TypeOK'
  BY <1>9 DEF DeleteVolume, TypeOK, coVars, VolumeStatus
<1>10. ASSUME NEW v \in Volumes, VolumeProgresses(v) PROVE TypeOK'
  BY <1>10 DEF VolumeProgresses, TypeOK, coVars, VolumeStatus
<1>11. ASSUME NEW v \in Volumes, VolumeDegrades(v) PROVE TypeOK'
  BY <1>11 DEF VolumeDegrades, Fault, TypeOK, coVars, VolumeStatus
<1>12. ASSUME NEW n \in Nodes, DeleteMachine(n) PROVE TypeOK'
  BY <1>12 DEF DeleteMachine, TypeOK, coVars, NoSlots, Slot
<1>13. ASSUME NEW n \in Nodes, DeleteNode(n) PROVE TypeOK'
  BY <1>13 DEF DeleteNode, TypeOK, coVars
<1>14. CASE Crash
  BY <1>14 DEF Crash, Fault, TypeOK, apiVars, coVars
<1>15. CASE UNCHANGED vars
  BY <1>15 DEF vars, TypeOK
<1> QED
  BY <1>1, <1>2, <1>3, <1>4, <1>5, <1>7, <1>8, <1>9, <1>10, <1>11, <1>12,
     <1>13, <1>14, <1>15 DEF Next

\* Type correctness: the handlers, the CO, the API servers and the faults
\* keep every variable in its type.
THEOREM TypeCorrect == Spec => []TypeOK
BY TypeInit, TypeStep, PTL DEF Spec

------------------------------------------------------------------------------
(* The VolumeAttachments and the handlers, whatever the Machines list.     *)

\* The CO never stops believing in an attachment but by asking for a detach,
\* and is told nothing new of it.
BeliefKept ==
  \A v \in Volumes, n \in Nodes :
    va[v][n] = "attached" =>
      va'[v][n] \in {"attached", "detach"} /\ pubctx'[v] = pubctx[v]

\* A handler goes on.
LEMMA ContinueVA ==
  ASSUME VAInv, NEW c \in calls, NEW pc, NEW seen, Continue(c, pc, seen),
         UNCHANGED coVars, pc \in UnpublishPC => c.pc \in UnpublishPC
  PROVE  OneCallPerVolume' /\ CallTracked' /\ OneVolumeAttachment' /\ BeliefKept
<1> DEFINE e == [c EXCEPT !.pc = pc, !.seen = seen]
<1>1. e.vol = c.vol /\ e.node = c.node /\ e.pc = pc
  BY DEF VAInv, TypeOK, Call
<1>2. calls' = (calls \ {c}) \cup {e} /\ UNCHANGED <<va, pubctx>>
  BY DEF Continue, coVars
<1> HIDE DEF e
<1>3. OneCallPerVolume'
  BY <1>1, <1>2 DEF VAInv, OneCallPerVolume
<1>4. CallTracked'
  BY <1>1, <1>2 DEF VAInv, CallTracked
<1> QED BY <1>2, <1>3, <1>4 DEF VAInv, OneVolumeAttachment, BeliefKept

\* A handler returns: what it changes of the VolumeAttachments is its own.
LEMMA ReturnVA ==
  ASSUME VAInv, NEW c \in calls,
         \/ ReturnError(c) \/ ReturnPublished(c)
         \/ ReturnUnpublished(c) /\ c.pc \in UnpublishPC
  PROVE  OneCallPerVolume' /\ CallTracked' /\ OneVolumeAttachment' /\ BeliefKept
<1>1. /\ calls' = calls \ {c} /\ c.vol \in Volumes /\ c.node \in Nodes
      /\ \A d \in calls' : d.vol # c.vol /\ d.vol \in Volumes /\ d.node \in Nodes
      /\ va[c.vol][c.node] \in {"attach", "detach"}
  <2>1. calls' = calls \ {c}
    BY DEF ReturnError, ReturnPublished, ReturnUnpublished
  <2>2. \A d \in calls : d.vol \in Volumes /\ d.node \in Nodes
    BY DEF VAInv, TypeOK, Call
  <2> QED BY <2>1, <2>2 DEF VAInv, OneCallPerVolume, CallTracked
<1>2. \/ va' = va
      \/ \E x \in {"none", "attached"} : va' = [va EXCEPT ![c.vol][c.node] = x]
  BY DEF ReturnError, ReturnPublished, ReturnUnpublished, coVars
<1>3. \/ va' = va
      \/ \E x \in {"none", "attached"} : \A u \in Volumes, m \in Nodes :
           va'[u][m] = IF u = c.vol /\ m = c.node THEN x ELSE va[u][m]
  <2>1. ASSUME NEW x \in {"none", "attached"}, va' = [va EXCEPT ![c.vol][c.node] = x]
        PROVE  \A u \in Volumes, m \in Nodes :
                 va'[u][m] = IF u = c.vol /\ m = c.node THEN x ELSE va[u][m]
    BY <1>1, <2>1 DEF VAInv, TypeOK
  <2> QED BY <1>2, <2>1
<1>4. OneCallPerVolume'
  BY <1>1 DEF VAInv, OneCallPerVolume
<1>5. CallTracked'
  BY <1>1, <1>3 DEF VAInv, CallTracked
<1>6. OneVolumeAttachment'
  BY <1>1, <1>3 DEF VAInv, OneVolumeAttachment
<1>7. BeliefKept
  <2>1. \A u \in Volumes : u # c.vol => pubctx'[u] = pubctx[u]
    BY DEF ReturnError, ReturnPublished, ReturnUnpublished, coVars, VAInv, TypeOK
  <2>2. \A m \in Nodes : va[c.vol][m] # "attached"
    BY <1>1 DEF VAInv, OneVolumeAttachment
  <2> QED BY <1>1, <1>3, <2>1, <2>2 DEF BeliefKept
<1> QED BY <1>4, <1>5, <1>6, <1>7

\* A handler's step.
LEMMA HandlerVA ==
  ASSUME VAInv, NEW c \in calls, HandlerStep(c)
  PROVE  OneCallPerVolume' /\ CallTracked' /\ OneVolumeAttachment' /\ BeliefKept
<1>1. CASE PublishGetMachine(c) \/ PublishGetVolume(c)
  <2>1. \/ ReturnError(c) \/ ReturnPublished(c)
        \/ \E pc \in PublishPC : Continue(c, pc, spec[c.node]) /\ UNCHANGED coVars
    BY <1>1 DEF PublishGetMachine, PublishGetVolume, PublishPC
  <2>2. \A pc \in PublishPC : pc \notin UnpublishPC
    BY DEF PublishPC, UnpublishPC
  <2> QED BY <2>1, <2>2, ContinueVA, ReturnVA
<1>2. CASE PublishPatch(c)
  <2>1. \/ ReturnError(c)
        \/ \E seen : Continue(c, "PubGetVolume", seen) /\ UNCHANGED coVars
    BY <1>2 DEF PublishPatch
  <2>2. "PubGetVolume" \notin UnpublishPC
    BY DEF UnpublishPC
  <2> QED BY <2>1, <2>2, ContinueVA, ReturnVA
<1>3. CASE UnpublishNodeExists(c) \/ UnpublishGetMachine(c) \/ UnpublishPatch(c)
  <2>1. /\ c.pc \in UnpublishPC
        /\ \/ ReturnError(c) \/ ReturnUnpublished(c)
           \/ \E pc \in UnpublishPC :
                /\ Continue(c, pc, c.seen) \/ Continue(c, pc, spec[c.node])
                /\ UNCHANGED coVars
    <3>1. CASE UnpublishNodeExists(c)
      BY <3>1 DEF UnpublishNodeExists, UnpublishPC
    <3>2. CASE UnpublishGetMachine(c)
      BY <3>2 DEF UnpublishGetMachine, UnpublishPC
    <3>3. CASE UnpublishPatch(c)
      BY <3>3 DEF UnpublishPatch, UnpublishPC
    <3> QED BY <1>3, <3>1, <3>2, <3>3
  <2> QED BY <2>1, ContinueVA, ReturnVA
<1> QED BY <1>1, <1>2, <1>3 DEF HandlerStep

\* The CO's steps.
LEMMA OrchestratorVA ==
  ASSUME VAInv, NEW v \in Volumes, NEW n \in Nodes,
         Attach(v, n) \/ Detach(v, n) \/ BeginPublish(v, n) \/ BeginUnpublish(v, n)
  PROVE  OneCallPerVolume' /\ CallTracked' /\ OneVolumeAttachment' /\ BeliefKept
<1>0. \A d \in calls : d.vol \in Volumes /\ d.node \in Nodes
  BY DEF VAInv, TypeOK, Call
<1>1. CASE Attach(v, n)
  <2>1. /\ UNCHANGED <<calls, pubctx>> /\ \A m \in Nodes : va[v][m] = "none"
        /\ \A u \in Volumes, m \in Nodes :
             va'[u][m] = IF u = v /\ m = n THEN "attach" ELSE va[u][m]
    BY <1>1 DEF Attach, VAInv, TypeOK
  <2> QED BY <1>0, <2>1 DEF VAInv, OneCallPerVolume, CallTracked, OneVolumeAttachment,
                            BeliefKept
<1>2. CASE Detach(v, n)
  <2>1. /\ UNCHANGED <<calls, pubctx>> /\ va[v][n] \in {"attach", "attached"}
        /\ \A u \in Volumes, m \in Nodes :
             va'[u][m] = IF u = v /\ m = n THEN "detach" ELSE va[u][m]
    BY <1>2 DEF Detach, VAInv, TypeOK
  <2> QED BY <1>0, <2>1 DEF VAInv, OneCallPerVolume, CallTracked, OneVolumeAttachment,
                            BeliefKept
<1>3. ASSUME NEW pc \in {"PubGetMachine", "UnpNodeExists"},
             va[v][n] = IF pc = "PubGetMachine" THEN "attach" ELSE "detach",
             Begin(v, n, pc)
      PROVE  OneCallPerVolume' /\ CallTracked' /\ OneVolumeAttachment' /\ BeliefKept
  <2> DEFINE e == [vol |-> v, node |-> n, pc |-> pc, seen |-> NoSlots, live |-> TRUE]
  <2>1. /\ calls' = calls \cup {e} /\ e.vol = v /\ e.node = n /\ e.pc = pc
        /\ UNCHANGED <<va, pubctx>> /\ \A d \in calls : d.vol # v
    BY <1>3 DEF Begin, SerialVolAccess, coVars
  <2> HIDE DEF e
  <2>2. OneCallPerVolume'
    BY <2>1 DEF VAInv, OneCallPerVolume
  <2>3. CallTracked'
    BY <1>3, <2>1 DEF VAInv, CallTracked, UnpublishPC
  <2> QED BY <2>1, <2>2, <2>3 DEF VAInv, OneVolumeAttachment, BeliefKept
<1> QED BY <1>1, <1>2, <1>3 DEF BeginPublish, BeginUnpublish

\* Fewer handlers and the same VolumeAttachments.
LEMMA DroppedVA ==
  ASSUME VAInv, calls' \subseteq calls, UNCHANGED coVars
  PROVE  OneCallPerVolume' /\ CallTracked' /\ OneVolumeAttachment' /\ BeliefKept
BY DEF coVars, VAInv, OneCallPerVolume, CallTracked, OneVolumeAttachment, BeliefKept

\* Every step of Attachment.
LEMMA StepVA == ASSUME VAInv, Next PROVE VAInv' /\ BeliefKept
<1>0. TypeOK'
  BY TypeStep DEF VAInv
<1>1. ASSUME NEW c \in calls, ApiError(c)
      PROVE  OneCallPerVolume' /\ CallTracked' /\ OneVolumeAttachment' /\ BeliefKept
  BY <1>1, ReturnVA DEF ApiError
<1>2. ASSUME NEW c \in calls, Abandon(c)
      PROVE  OneCallPerVolume' /\ CallTracked' /\ OneVolumeAttachment' /\ BeliefKept
  <2> DEFINE e == [c EXCEPT !.live = FALSE]
  <2>1. e.vol = c.vol /\ e.node = c.node /\ e.pc = c.pc
    BY DEF VAInv, TypeOK, Call
  <2>2. calls' = (calls \ {c}) \cup {e} /\ UNCHANGED <<va, pubctx>>
    BY <1>2 DEF Abandon, coVars
  <2> HIDE DEF e
  <2> QED BY <2>1, <2>2 DEF VAInv, OneCallPerVolume, CallTracked, OneVolumeAttachment,
                            BeliefKept
<1>3. ASSUME \/ Crash
             \/ \E v \in Volumes : \/ DeleteVolume(v) \/ VolumeProgresses(v)
                                   \/ VolumeDegrades(v)
             \/ \E v \in Volumes, n \in Nodes : AssignDevice(n, v)
             \/ \E n \in Nodes : DeleteMachine(n) \/ DeleteNode(n)
      PROVE  OneCallPerVolume' /\ CallTracked' /\ OneVolumeAttachment' /\ BeliefKept
  BY <1>3, DroppedVA DEF Crash, DeleteVolume, VolumeProgresses, VolumeDegrades,
                         AssignDevice, DeleteMachine, DeleteNode, coVars
<1> QED BY <1>0, <1>1, <1>2, <1>3, HandlerVA, OrchestratorVA DEF Next, VAInv

------------------------------------------------------------------------------
(* How a step changes what a Machine lists.                                *)

\* What the server makes of an added entry: no other entry changes, the new
\* one is listed, and its device, if it has one yet, was free.
LEMMA MergeAddEntry ==
  ASSUME NEW current \in [Volumes -> Slot], NEW seen, NEW v \in Volumes,
         NEW slots \in MergeAdd(current, seen, v)
  PROVE  /\ \A u \in Volumes : u # v => slots[u] = current[u]
         /\ Listed(current, v) => slots[v] = current[v]
         /\ ~Listed(current, v) /\ slots[v] \in Devices =>
              \A u \in Volumes : current[u] # slots[v]
         /\ Listed(slots, v)
<1>1. CASE Listed(current, v)
  BY <1>1 DEF MergeAdd
<1>2. CASE ~Listed(current, v)
  <2>1. PICK s \in {Unassigned} \cup (Devices \ {current[u] : u \in Volumes}) :
          slots = [current EXCEPT ![v] = s]
    BY <1>2 DEF MergeAdd
  <2>2. slots[v] = s /\ \A u \in Volumes : u # v => slots[u] = current[u]
    BY <2>1
  <2>3. s # Absent
    BY ConstantsAssumption DEF Absent, Unassigned
  <2>4. s \in Devices => \A u \in Volumes : current[u] # s
    BY <2>1, ConstantsAssumption
  <2> QED BY <1>2, <2>2, <2>3, <2>4 DEF Listed
<1> QED BY <1>1, <1>2

\* One entry of one Machine at a time: n lists v under s.
Entry(n, v, s) ==
  /\ spec' = [spec EXCEPT ![n][v] = s]
  /\ UNCHANGED <<machines, nodes, volume>>
  /\ s \in Devices => \A u \in Volumes : spec[n][u] # s

\* The patch of ControllerPublishVolume adds its own entry, or finds it.
LEMMA PublishPatchEntry ==
  ASSUME TypeOK, NEW c \in calls, PublishPatch(c)
  PROVE  \/ UNCHANGED spec
         \/ /\ c.node \in machines /\ spec[c.node][c.vol] = Absent
            /\ \E s \in Slot \ {Absent} : Entry(c.node, c.vol, s)
<1>1. /\ c.vol \in Volumes /\ c.node \in Nodes
      /\ spec \in [Nodes -> [Volumes -> Slot]] /\ spec[c.node] \in [Volumes -> Slot]
      /\ UNCHANGED <<machines, nodes, volume>>
  BY DEF TypeOK, Call, PublishPatch, apiVars
<1>2. CASE c.node \notin machines
  BY <1>2 DEF PublishPatch
<1>3. CASE c.node \in machines
  <2>1. PICK slots \in MergeAdd(spec[c.node], c.seen, c.vol) :
          spec' = [spec EXCEPT ![c.node] = slots]
    BY <1>3 DEF PublishPatch
  <2>2. CASE Listed(spec[c.node], c.vol)
    BY <1>1, <2>1, <2>2 DEF MergeAdd
  <2>3. CASE ~Listed(spec[c.node], c.vol)
    <3>1. PICK s \in {Unassigned} \cup (Devices \ {spec[c.node][u] : u \in Volumes}) :
            slots = [spec[c.node] EXCEPT ![c.vol] = s]
      BY <2>1, <2>3 DEF MergeAdd
    <3>2. spec' = [spec EXCEPT ![c.node][c.vol] = s]
      BY <1>1, <2>1, <3>1
    <3>3. s \in Slot \ {Absent} /\ (s \in Devices => \A u \in Volumes : spec[c.node][u] # s)
      BY <3>1, ConstantsAssumption DEF Slot, Absent, Unassigned
    <3> QED BY <1>1, <1>3, <2>3, <3>2, <3>3 DEF Entry, Listed
  <2> QED BY <2>2, <2>3
<1> QED BY <1>2, <1>3

\* The patch of ControllerUnpublishVolume removes its own.
LEMMA UnpublishPatchEntry ==
  ASSUME TypeOK, NEW c \in calls, UnpublishPatch(c)
  PROVE  \/ UNCHANGED spec /\ ReturnError(c)
         \/ c.node \in machines /\ Entry(c.node, c.vol, Absent) /\ ReturnUnpublished(c)
BY ConstantsAssumption DEF UnpublishPatch, MergeDelete, Entry, apiVars

\* ironcore gives an entry a device.
LEMMA AssignEntry ==
  ASSUME NEW v \in Volumes, NEW n \in Nodes, AssignDevice(n, v)
  PROVE  spec[n][v] = Unassigned /\ \E d \in Devices : Entry(n, v, d)
BY DEF AssignDevice, Entry, apiVars

\* All that changes what the Machines list.
LEMMA SpecStep ==
  ASSUME TypeOK, Next
  PROVE  \/ UNCHANGED <<spec, machines>>
         \/ \E n \in Nodes : DeleteMachine(n)
         \/ \E v \in Volumes, n \in Nodes : AssignDevice(n, v)
         \/ \E c \in calls :
              /\ c.node \in machines
              /\ \/ /\ PublishPatch(c) /\ spec[c.node][c.vol] = Absent
                    /\ \E s \in Slot \ {Absent} : Entry(c.node, c.vol, s)
                 \/ /\ UnpublishPatch(c) /\ ReturnUnpublished(c)
                    /\ Entry(c.node, c.vol, Absent)
<1>1. ASSUME NEW c \in calls, HandlerStep(c)
      PROVE  \/ UNCHANGED <<spec, machines>>
             \/ /\ c.node \in machines
                /\ \/ /\ PublishPatch(c) /\ spec[c.node][c.vol] = Absent
                      /\ \E s \in Slot \ {Absent} : Entry(c.node, c.vol, s)
                   \/ /\ UnpublishPatch(c) /\ ReturnUnpublished(c)
                      /\ Entry(c.node, c.vol, Absent)
  <2>1. UNCHANGED machines
    BY <1>1 DEF HandlerStep, PublishGetMachine, PublishPatch, PublishGetVolume,
                UnpublishNodeExists, UnpublishGetMachine, UnpublishPatch, apiVars
  <2>2. CASE PublishPatch(c)
    BY <2>1, <2>2, PublishPatchEntry
  <2>3. CASE UnpublishPatch(c)
    BY <2>1, <2>3, UnpublishPatchEntry
  <2>4. CASE \/ PublishGetMachine(c) \/ PublishGetVolume(c)
             \/ UnpublishNodeExists(c) \/ UnpublishGetMachine(c)
    BY <2>1, <2>4 DEF PublishGetMachine, PublishGetVolume, UnpublishNodeExists,
                      UnpublishGetMachine
  <2> QED BY <1>1, <2>2, <2>3, <2>4 DEF HandlerStep
<1>2. ASSUME \/ \E c \in calls : ApiError(c) \/ Abandon(c)
             \/ \E v \in Volumes, n \in Nodes : \/ Attach(v, n) \/ Detach(v, n)
                                                \/ BeginPublish(v, n) \/ BeginUnpublish(v, n)
             \/ \E v \in Volumes : DeleteVolume(v) \/ VolumeProgresses(v) \/ VolumeDegrades(v)
             \/ \E n \in Nodes : DeleteNode(n)
             \/ Crash
      PROVE  UNCHANGED <<spec, machines>>
  BY <1>2 DEF ApiError, Abandon, Attach, Detach, BeginPublish, BeginUnpublish, Begin,
              DeleteVolume, VolumeProgresses, VolumeDegrades, DeleteNode, Crash, apiVars
<1> QED BY <1>1, <1>2 DEF Next

------------------------------------------------------------------------------
(* What the CO was told.                                                   *)

\* What is known of a place stays true as long as its device, once it has
\* one, does not change, and the CO and the handlers learn only what is so.
LEMMA FreshKept ==
  ASSUME NEW v \in Volumes, NEW n \in Nodes, FreshAt(v, n),
         machines' \subseteq machines,
         spec[n][v] \in Devices => spec'[n][v] = spec[n][v],
         va'[v][n] = "attached" => va[v][n] = "attached" /\ pubctx'[v] = pubctx[v],
         \A d \in calls' : d.vol = v /\ d.node = n /\ d.pc = "PubGetVolume" =>
           \/ d.seen[v] = spec'[n][v]
           \/ \E c \in calls : /\ c.vol = v /\ c.node = n
                               /\ c.pc = "PubGetVolume" /\ c.seen = d.seen
  PROVE  FreshAt(v, n)'
BY DEF FreshAt

\* So it does when nobody is told anything and handlers only disappear.
LEMMA FreshQuiet ==
  ASSUME NEW v \in Volumes, NEW n \in Nodes, FreshAt(v, n),
         machines' \subseteq machines, calls' \subseteq calls, pubctx' = pubctx,
         spec[n][v] \in Devices => spec'[n][v] = spec[n][v],
         va'[v][n] = "attached" => va[v][n] = "attached"
  PROVE  FreshAt(v, n)'
BY DEF FreshAt

\* A handler goes on: what it takes to its answer is the Machine's entry.
LEMMA FreshContinue ==
  ASSUME VAInv, NEW v \in Volumes, NEW n \in Nodes, FreshAt(v, n),
         NEW c \in calls, NEW pc, NEW seen, Continue(c, pc, seen),
         UNCHANGED <<machines, coVars>>,
         spec[n][v] \in Devices => spec'[n][v] = spec[n][v],
         pc = "PubGetVolume" => seen[c.vol] = spec'[c.node][c.vol]
  PROVE  FreshAt(v, n)'
<1> DEFINE e == [c EXCEPT !.pc = pc, !.seen = seen]
<1>1. e.vol = c.vol /\ e.node = c.node /\ e.pc = pc /\ e.seen = seen
  BY DEF VAInv, TypeOK, Call
<1>2. calls' = (calls \ {c}) \cup {e}
  BY DEF Continue
<1> HIDE DEF e
<1> QED BY <1>1, <1>2, FreshKept DEF coVars

\* A detach is answered: nobody relies on the place any more, and nothing is
\* said of the others.
LEMMA FreshUnpublished ==
  ASSUME VAInv, NEW v \in Volumes, NEW n \in Nodes, FreshAt(v, n),
         NEW c \in calls, c.pc \in UnpublishPC, ReturnUnpublished(c),
         machines' = machines,
         v # c.vol \/ n # c.node => spec'[n][v] = spec[n][v]
  PROVE  FreshAt(v, n)'
<1>1. /\ c.vol \in Volumes /\ c.node \in Nodes /\ calls' = calls \ {c}
      /\ va[c.vol][c.node] = "detach"
      /\ \A d \in calls' : d \in calls /\ d.vol # c.vol
  BY DEF VAInv, TypeOK, Call, CallTracked, OneCallPerVolume, ReturnUnpublished
<1>2. CASE v = c.vol
  <2>1. va'[v][n] # "attached"
    <3>1. va[v][n] # "attached"
      BY <1>1, <1>2 DEF VAInv, OneVolumeAttachment
    <3> QED BY <1>1, <1>2, <3>1 DEF ReturnUnpublished, VAInv, TypeOK
  <2> QED BY <1>1, <1>2, <2>1 DEF FreshAt
<1>3. CASE v # c.vol
  <2>1. va'[v][n] = va[v][n] /\ pubctx'[v] = pubctx[v]
    BY <1>1, <1>3 DEF ReturnUnpublished, VAInv, TypeOK
  <2> QED BY <1>1, <1>3, <2>1, FreshKept
<1> QED BY <1>2, <1>3

\* An attachment is answered: the device it names was read, and has not
\* changed since.
LEMMA FreshPublished ==
  ASSUME VAInv, NEW v \in Volumes, NEW n \in Nodes, FreshAt(v, n),
         NEW c \in calls, PublishGetVolume(c)
  PROVE  FreshAt(v, n)'
<1>0. UNCHANGED <<machines, spec>> /\ c.pc = "PubGetVolume" /\ calls' = calls \ {c}
  BY DEF PublishGetVolume, ReturnPublished, ReturnError, apiVars
<1>1. CASE UNCHANGED coVars
  BY <1>0, <1>1, FreshQuiet DEF coVars
<1>2. CASE ~UNCHANGED coVars
  <2>1. /\ c.seen[c.vol] \in Devices
        /\ va' = [va EXCEPT ![c.vol][c.node] = "attached"]
        /\ pubctx' = [pubctx EXCEPT ![c.vol] = c.seen[c.vol]]
    BY <1>2 DEF PublishGetVolume, DeviceValid, ReturnPublished, ReturnError, coVars
  <2>2. /\ c.vol \in Volumes /\ c.node \in Nodes
        /\ va[c.vol][c.node] \in {"attach", "detach"}
    BY DEF VAInv, TypeOK, Call, CallTracked
  <2>3. CASE v # c.vol
    BY <1>0, <2>1, <2>2, <2>3, FreshKept DEF VAInv, TypeOK
  <2>4. CASE v = c.vol /\ n = c.node
    <3>1. va'[v][n] = "attached" /\ pubctx'[v] = c.seen[v]
      BY <2>1, <2>2, <2>4 DEF VAInv, TypeOK
    <3>2. n \in machines => spec[n][v] = c.seen[v]
      BY <1>0, <2>1, <2>4 DEF FreshAt
    <3> QED BY <1>0, <2>1, <2>4, <3>1, <3>2 DEF FreshAt
  <2>5. CASE v = c.vol /\ n # c.node
    <3>1. va'[v][n] = va[v][n] /\ va[v][n] # "attached"
      BY <2>1, <2>2, <2>5 DEF VAInv, TypeOK, OneVolumeAttachment
    <3> QED BY <1>0, <3>1 DEF FreshAt
  <2> QED BY <2>3, <2>4, <2>5
<1> QED BY <1>1, <1>2

\* Every step of Attachment keeps a place fresh.
LEMMA FreshStep ==
  ASSUME VAInv, Next, NEW v \in Volumes, NEW n \in Nodes, FreshAt(v, n)
  PROVE  FreshAt(v, n)'
<1>0. spec \in [Nodes -> [Volumes -> Slot]] /\ TypeOK
  BY DEF VAInv, TypeOK
<1>1. ASSUME NEW c \in calls, PublishGetMachine(c) PROVE FreshAt(v, n)'
  <2>1. UNCHANGED <<machines, spec, coVars>>
    BY <1>1 DEF PublishGetMachine, ReturnError, apiVars
  <2>2. \/ calls' = calls \ {c}
        \/ \E pc \in PublishPC : Continue(c, pc, spec[c.node])
    BY <1>1 DEF PublishGetMachine, ReturnError, PublishPC
  <2> QED BY <2>1, <2>2, FreshQuiet, FreshContinue DEF coVars
<1>2. ASSUME NEW c \in calls, PublishPatch(c) PROVE FreshAt(v, n)'
  <2>1. UNCHANGED <<machines, coVars>> /\ c.vol \in Volumes /\ c.node \in Nodes
    BY <1>0, <1>2 DEF PublishPatch, ReturnError, apiVars, TypeOK, Call
  <2>2. spec[n][v] \in Devices => spec'[n][v] = spec[n][v]
    <3>1. \/ UNCHANGED spec
          \/ spec[c.node][c.vol] = Absent /\ \E s \in Slot : Entry(c.node, c.vol, s)
      BY <1>0, <1>2, PublishPatchEntry
    <3>2. v = c.vol /\ n = c.node /\ spec[c.node][c.vol] = Absent =>
            spec[n][v] \notin Devices
      BY ConstantsAssumption
    <3>3. ASSUME NEW s, Entry(c.node, c.vol, s), v # c.vol \/ n # c.node
          PROVE  spec'[n][v] = spec[n][v]
      BY <1>0, <2>1, <3>3 DEF Entry
    <3> QED BY <3>1, <3>2, <3>3
  <2>3. \/ calls' = calls \ {c}
        \/ \E slots : spec'[c.node] = slots /\ Continue(c, "PubGetVolume", slots)
    BY <1>0, <1>2, <2>1 DEF PublishPatch, ReturnError
  <2> QED BY <2>1, <2>2, <2>3, FreshQuiet, FreshContinue DEF coVars
<1>3. ASSUME NEW c \in calls, UnpublishNodeExists(c) \/ UnpublishGetMachine(c)
      PROVE  FreshAt(v, n)'
  <2>1. c.pc \in UnpublishPC /\ UNCHANGED <<machines, spec>>
    BY <1>3 DEF UnpublishNodeExists, UnpublishGetMachine, UnpublishPC, apiVars
  <2>2. \/ ReturnUnpublished(c)
        \/ UNCHANGED coVars /\ calls' = calls \ {c}
        \/ /\ UNCHANGED coVars
           /\ \E pc \in UnpublishPC, seen \in {c.seen, spec[c.node]} : Continue(c, pc, seen)
    BY <1>3 DEF UnpublishNodeExists, UnpublishGetMachine, ReturnError, UnpublishPC
  <2>3. \A pc \in UnpublishPC : pc # "PubGetVolume"
    BY DEF UnpublishPC
  <2> QED BY <2>1, <2>2, <2>3, FreshQuiet, FreshContinue, FreshUnpublished DEF coVars
<1>4. ASSUME NEW c \in calls, UnpublishPatch(c) PROVE FreshAt(v, n)'
  <2>1. c.pc \in UnpublishPC /\ machines' = machines /\ c.vol \in Volumes /\ c.node \in Nodes
    BY <1>0, <1>4 DEF UnpublishPatch, UnpublishPC, apiVars, TypeOK, Call
  <2>2. CASE ReturnError(c) /\ UNCHANGED spec
    BY <2>1, <2>2, FreshQuiet DEF ReturnError, coVars
  <2>3. CASE ReturnUnpublished(c) /\ Entry(c.node, c.vol, Absent)
    <3>1. v # c.vol \/ n # c.node => spec'[n][v] = spec[n][v]
      BY <1>0, <2>1, <2>3 DEF Entry
    <3> QED BY <2>1, <2>3, <3>1, FreshUnpublished
  <2> QED BY <1>0, <1>4, <2>2, <2>3, UnpublishPatchEntry
<1>5. ASSUME NEW c \in calls, ApiError(c) PROVE FreshAt(v, n)'
  BY <1>5, FreshQuiet DEF ApiError, ReturnError, apiVars, coVars
<1>6. ASSUME NEW c \in calls, Abandon(c) PROVE FreshAt(v, n)'
  <2> DEFINE e == [c EXCEPT !.live = FALSE]
  <2>1. e.vol = c.vol /\ e.node = c.node /\ e.pc = c.pc /\ e.seen = c.seen
    BY <1>0 DEF TypeOK, Call
  <2>2. calls' = (calls \ {c}) \cup {e} /\ UNCHANGED <<machines, spec, va, pubctx>>
    BY <1>6 DEF Abandon, apiVars, coVars
  <2> HIDE DEF e
  <2> QED BY <2>1, <2>2, FreshKept
<1>7. ASSUME NEW u \in Volumes, NEW m \in Nodes, Attach(u, m) \/ Detach(u, m)
      PROVE  FreshAt(v, n)'
  <2>1. UNCHANGED <<machines, spec, pubctx, calls>>
    BY <1>7 DEF Attach, Detach, apiVars
  <2>2. va'[v][n] = "attached" => va[v][n] = "attached"
    BY <1>0, <1>7 DEF Attach, Detach, TypeOK
  <2> QED BY <2>1, <2>2, FreshQuiet
<1>8. ASSUME NEW u \in Volumes, NEW m \in Nodes, BeginPublish(u, m) \/ BeginUnpublish(u, m)
      PROVE  FreshAt(v, n)'
  <2>1. /\ UNCHANGED <<machines, spec, va, pubctx>>
        /\ \E pc \in {"PubGetMachine", "UnpNodeExists"} :
             calls' = calls \cup {[vol |-> u, node |-> m, pc |-> pc,
                                   seen |-> NoSlots, live |-> TRUE]}
    BY <1>8 DEF BeginPublish, BeginUnpublish, Begin, apiVars, coVars
  <2>2. \A d \in calls' : d \in calls \/ d.pc # "PubGetVolume"
    BY <2>1
  <2> QED BY <2>1, <2>2, FreshKept
<1>9. ASSUME NEW u \in Volumes, NEW m \in Nodes, AssignDevice(m, u) PROVE FreshAt(v, n)'
  <2>1. UNCHANGED <<machines, va, pubctx, calls>>
    BY <1>9 DEF AssignDevice, apiVars, coVars
  <2>2. spec[n][v] \in Devices => spec'[n][v] = spec[n][v]
    BY <1>0, <1>9, ConstantsAssumption DEF AssignDevice
  <2> QED BY <2>1, <2>2, FreshQuiet
<1>10. ASSUME NEW m \in Nodes, DeleteMachine(m) PROVE FreshAt(v, n)'
  <2>1. machines' = machines \ {m} /\ UNCHANGED <<va, pubctx, calls>>
    BY <1>10 DEF DeleteMachine, coVars
  <2>2. n # m => spec'[n] = spec[n]
    BY <1>0, <1>10 DEF DeleteMachine
  <2> QED BY <2>1, <2>2 DEF FreshAt
<1>11. ASSUME \/ \E u \in Volumes : \/ DeleteVolume(u) \/ VolumeProgresses(u)
                                    \/ VolumeDegrades(u)
              \/ \E m \in Nodes : DeleteNode(m)
              \/ Crash
       PROVE  FreshAt(v, n)'
  BY <1>11, FreshQuiet DEF DeleteVolume, VolumeProgresses, VolumeDegrades, DeleteNode,
                           Crash, apiVars, coVars
<1> QED
  BY <1>1, <1>2, <1>3, <1>4, <1>5, <1>6, <1>7, <1>8, <1>9, <1>10, <1>11, FreshPublished
  DEF Next, HandlerStep

------------------------------------------------------------------------------
(* The Machines and the volumes.                                           *)

\* How a VolumeAttachment ends: by the answer of its own detach, given with
\* the Node gone, the volume not listed, or its entry removed.
LEMMA AttachmentEnds ==
  ASSUME VAInv, Next, NEW v \in Volumes, NEW n \in Nodes,
         va[v][n] # "none", va'[v][n] = "none"
  PROVE  \/ n \notin nodes /\ UNCHANGED spec
         \/ ~Listed(spec[n], v) /\ UNCHANGED spec
         \/ Entry(n, v, Absent)
<1>0. va \in [Volumes -> [Nodes -> VAState]] /\ TypeOK
  BY DEF VAInv, TypeOK
<1>1. ASSUME NEW c \in calls, HandlerStep(c)
      PROVE  \/ n \notin nodes /\ UNCHANGED spec
             \/ ~Listed(spec[n], v) /\ UNCHANGED spec
             \/ Entry(n, v, Absent)
  <2>0. c.vol \in Volumes /\ c.node \in Nodes
    BY <1>0 DEF TypeOK, Call
  <2>1. ReturnUnpublished(c) => v = c.vol /\ n = c.node
    BY <1>0, <2>0 DEF ReturnUnpublished
  <2>2. ~ReturnPublished(c) /\ ~UNCHANGED coVars
    BY <1>0, <2>0 DEF ReturnPublished, coVars
  <2>3. CASE PublishGetMachine(c) \/ PublishPatch(c) \/ PublishGetVolume(c)
    BY <2>2, <2>3 DEF PublishGetMachine, PublishPatch, PublishGetVolume, ReturnError
  <2>4. CASE UnpublishNodeExists(c)
    BY <2>1, <2>2, <2>4 DEF UnpublishNodeExists
  <2>5. CASE UnpublishGetMachine(c)
    BY <2>1, <2>2, <2>5 DEF UnpublishGetMachine, ReturnError
  <2>6. CASE UnpublishPatch(c)
    BY <1>0, <2>1, <2>2, <2>6, UnpublishPatchEntry DEF ReturnError
  <2> QED BY <1>1, <2>3, <2>4, <2>5, <2>6 DEF HandlerStep
<1>2. ASSUME NEW u \in Volumes, NEW m \in Nodes, Attach(u, m) \/ Detach(u, m)
      PROVE  FALSE
  BY <1>0, <1>2 DEF Attach, Detach
<1>3. va' # va
  OBVIOUS
<1> QED
  BY <1>1, <1>2, <1>3
  DEF Next, ApiError, ReturnError, Abandon, BeginPublish, BeginUnpublish, Begin,
      AssignDevice, DeleteVolume, VolumeProgresses, VolumeDegrades, DeleteMachine,
      DeleteNode, Crash, coVars

\* If a Node goes only after its Machine, nothing is left listed.
LEMMA OwnedStep ==
  ASSUME VAInv, MachineGone, AttachmentOwned, Next
  PROVE  AttachmentOwned'
<1> SUFFICES ASSUME NodesOutliveMachines, NEW v \in Volumes, NEW n \in Nodes,
                    Listed(spec'[n], v), va'[v][n] = "none"
             PROVE  FALSE
  BY DEF AttachmentOwned
<1>0. spec \in [Nodes -> [Volumes -> Slot]] /\ TypeOK
  BY DEF VAInv, TypeOK
<1>1. CASE Listed(spec[n], v)
  <2>1. va[v][n] # "none"
    BY <1>1 DEF AttachmentOwned
  <2>2. n \in nodes
    BY <1>1 DEF MachineGone, Listed, NoSlots
  <2>3. ~Entry(n, v, Absent)
    BY <1>0 DEF Entry, Listed
  <2> QED BY <1>1, <2>1, <2>2, <2>3, AttachmentEnds
<1>2. CASE ~Listed(spec[n], v)
  <2>1. PICK c \in calls : PublishPatch(c) /\ c.vol = v /\ c.node = n
    <3>1. ASSUME NEW m \in Nodes, DeleteMachine(m) PROVE FALSE
      BY <1>0, <1>2, <3>1 DEF DeleteMachine, Listed, NoSlots
    <3>2. ASSUME NEW u \in Volumes, NEW m \in Nodes, AssignDevice(m, u) PROVE FALSE
      BY <1>0, <1>2, <3>2 DEF AssignDevice, Listed, Absent, Unassigned
    <3>3. ASSUME NEW c \in calls, NEW s \in Slot, Entry(c.node, c.vol, s),
                 c.vol # v \/ c.node # n \/ s = Absent
          PROVE  FALSE
      <4>1. c.vol \in Volumes /\ c.node \in Nodes
        BY <1>0 DEF TypeOK, Call
      <4> QED BY <1>0, <1>2, <3>3, <4>1 DEF Entry, Listed
    <3>4. Absent \in Slot
      BY DEF Slot
    <3> QED BY <1>0, <1>2, <3>1, <3>2, <3>3, <3>4, SpecStep
  <2>2. va'[v][n] = va[v][n] /\ va[v][n] # "none"
    BY <2>1 DEF PublishPatch, ReturnError, coVars, VAInv, CallTracked
  <2> QED BY <2>2
<1> QED BY <1>1, <1>2

\* A Machine that is gone stays empty, and devices are given once.
LEMMA ListsStep ==
  ASSUME TypeOK, MachineGone, DevicesDistinct, Next
  PROVE  MachineGone' /\ DevicesDistinct'
<1>0. spec \in [Nodes -> [Volumes -> Slot]]
  BY DEF TypeOK
<1>1. ASSUME NEW n \in Nodes, NEW v \in Volumes, NEW s \in Slot, n \in machines,
             Entry(n, v, s)
      PROVE  /\ \A m \in Nodes : m \notin machines' => spec'[m] = NoSlots
             /\ DevicesDistinct'
  <2>1. \A m \in Nodes : m \notin machines' => spec'[m] = NoSlots
    BY <1>0, <1>1 DEF Entry, MachineGone
  <2>2. DevicesDistinct'
    <3>1. \A m \in Nodes, u \in Volumes :
            spec'[m][u] = IF m = n /\ u = v THEN s ELSE spec[m][u]
      BY <1>0, <1>1 DEF Entry
    <3> QED BY <1>1, <3>1 DEF Entry, DevicesDistinct
  <2> QED BY <2>1, <2>2
<1>2. /\ \A m \in Nodes : m \notin machines' => spec'[m] = NoSlots
      /\ DevicesDistinct'
  <2>1. CASE UNCHANGED <<spec, machines>>
    BY <2>1 DEF MachineGone, DevicesDistinct
  <2>2. ASSUME NEW n \in Nodes, DeleteMachine(n)
        PROVE  /\ \A m \in Nodes : m \notin machines' => spec'[m] = NoSlots
               /\ DevicesDistinct'
    <3>1. \A m \in Nodes : spec'[m] = IF m = n THEN NoSlots ELSE spec[m]
      BY <1>0, <2>2 DEF DeleteMachine
    <3>2. machines' = machines \ {n}
      BY <2>2 DEF DeleteMachine
    <3> QED BY <3>1, <3>2, ConstantsAssumption DEF MachineGone, DevicesDistinct, NoSlots
  <2>3. ASSUME NEW v \in Volumes, NEW n \in Nodes, AssignDevice(n, v)
        PROVE  /\ \A m \in Nodes : m \notin machines' => spec'[m] = NoSlots
               /\ DevicesDistinct'
    <3>1. n \in machines
      BY <2>3, AssignEntry DEF MachineGone, NoSlots, Absent, Unassigned
    <3> QED BY <1>1, <2>3, <3>1, AssignEntry DEF Slot
  <2>4. ASSUME NEW c \in calls, NEW s \in Slot, c.node \in machines,
               Entry(c.node, c.vol, s)
        PROVE  /\ \A m \in Nodes : m \notin machines' => spec'[m] = NoSlots
               /\ DevicesDistinct'
    <3>1. c.vol \in Volumes /\ c.node \in Nodes
      BY DEF TypeOK, Call
    <3> QED BY <1>1, <2>4, <3>1
  <2>5. Absent \in Slot
    BY DEF Slot
  <2> QED BY <2>1, <2>2, <2>3, <2>4, <2>5, SpecStep
<1>3. NodesOutliveMachines => machines' \subseteq nodes'
  <2>1. \/ UNCHANGED nodes /\ machines' \subseteq machines
        \/ /\ UNCHANGED machines
           /\ \E n \in Nodes : /\ nodes' = nodes \ {n}
                               /\ NodesOutliveMachines => n \notin machines
    BY DEF Next, HandlerStep, PublishGetMachine, PublishPatch, PublishGetVolume,
           UnpublishNodeExists, UnpublishGetMachine, UnpublishPatch, ApiError, Abandon,
           Attach, Detach, BeginPublish, BeginUnpublish, Begin, AssignDevice,
           DeleteVolume, VolumeProgresses, VolumeDegrades, DeleteMachine, DeleteNode,
           Crash, apiVars
  <2> QED BY <2>1 DEF MachineGone
<1> QED BY <1>2, <1>3 DEF MachineGone

\* A volume is deleted without a VolumeAttachment, and gets none afterwards.
LEMMA GoneStep ==
  ASSUME VAInv, GoneUnattached, Next
  PROVE  GoneUnattached'
<1> SUFFICES ASSUME NEW v \in Volumes, NEW n \in Nodes, volume'[v] = "gone"
             PROVE  va'[v][n] = "none"
  BY DEF GoneUnattached
<1>0. /\ va \in [Volumes -> [Nodes -> VAState]] /\ volume \in [Volumes -> VolumeStatus]
      /\ \A d \in calls : d.vol \in Volumes /\ d.node \in Nodes
  BY DEF VAInv, TypeOK, Call
<1>1. ASSUME NEW c \in calls, HandlerStep(c) PROVE va'[v][n] = "none"
  <2>1. volume' = volume
    BY <1>1 DEF HandlerStep, PublishGetMachine, PublishPatch, PublishGetVolume,
                UnpublishNodeExists, UnpublishGetMachine, UnpublishPatch, apiVars
  <2>2. va[v][n] = "none" /\ (v = c.vol => n # c.node)
    BY <1>0, <2>1 DEF GoneUnattached, VAInv, CallTracked
  <2>3. ReturnPublished(c) \/ ReturnUnpublished(c) => va'[v][n] = "none"
    BY <1>0, <2>2 DEF ReturnPublished, ReturnUnpublished
  <2> QED
    BY <1>1, <2>2, <2>3
    DEF HandlerStep, PublishGetMachine, PublishPatch, PublishGetVolume,
        UnpublishNodeExists, UnpublishGetMachine, UnpublishPatch, ReturnError, coVars
<1>2. ASSUME NEW u \in Volumes, NEW m \in Nodes, Attach(u, m) \/ Detach(u, m)
      PROVE  va'[v][n] = "none"
  BY <1>0, <1>2 DEF Attach, Detach, apiVars, GoneUnattached
<1>3. ASSUME NEW u \in Volumes, DeleteVolume(u) \/ VolumeProgresses(u) \/ VolumeDegrades(u)
      PROVE  va'[v][n] = "none"
  BY <1>0, <1>3 DEF DeleteVolume, VolumeProgresses, VolumeDegrades, coVars, GoneUnattached
<1>4. UNCHANGED <<va, volume>> => va'[v][n] = "none"
  BY DEF GoneUnattached
<1> QED
  BY <1>1, <1>2, <1>3, <1>4
  DEF Next, ApiError, ReturnError, Abandon, BeginPublish, BeginUnpublish, Begin,
      AssignDevice, DeleteMachine, DeleteNode, Crash, apiVars, coVars

------------------------------------------------------------------------------
(* The inductive invariant.                                                *)

\* The VolumeAttachments and the handlers, initially.
LEMMA VAInit == Init => VAInv
BY TypeInit DEF Init, VAInv, OneCallPerVolume, CallTracked, OneVolumeAttachment

\* The inductive invariant holds initially.
LEMMA InvInit == Init => IInv
<1> SUFFICES ASSUME Init PROVE IInv
  OBVIOUS
<1>1. MachineGone /\ DevicesDistinct /\ GoneUnattached /\ AttachmentOwned
  BY ConstantsAssumption DEF Init, MachineGone, DevicesDistinct, GoneUnattached,
                             AttachmentOwned, Listed, NoSlots
<1>2. Fresh
  BY DEF Init, Fresh, FreshAt
<1> QED BY <1>1, <1>2, VAInit DEF IInv

\* Every step preserves it.
LEMMA InvStep == IInv /\ [Next]_vars => IInv'
<1> SUFFICES ASSUME IInv, [Next]_vars PROVE IInv'
  OBVIOUS
<1>1. CASE Next
  <2>1. VAInv'
    BY <1>1, StepVA DEF IInv
  <2>2. Fresh'
    BY <1>1, FreshStep DEF IInv, Fresh
  <2>3. MachineGone' /\ DevicesDistinct'
    BY <1>1, ListsStep DEF IInv, VAInv
  <2>4. GoneUnattached' /\ AttachmentOwned'
    BY <1>1, GoneStep, OwnedStep DEF IInv
  <2> QED BY <2>1, <2>2, <2>3, <2>4 DEF IInv
<1>2. CASE UNCHANGED vars
  <2>1. VAInv'
    BY <1>2 DEF vars, IInv, VAInv, TypeOK, OneCallPerVolume, CallTracked,
                OneVolumeAttachment
  <2>2. Fresh' /\ MachineGone' /\ DevicesDistinct' /\ GoneUnattached' /\ AttachmentOwned'
    BY <1>2 DEF vars, IInv, Fresh, FreshAt, MachineGone, DevicesDistinct,
                GoneUnattached, AttachmentOwned
  <2> QED BY <2>1, <2>2 DEF IInv
<1> QED BY <1>1, <1>2

\* What the invariant is for.
LEMMA InvContext == IInv => PublishContextHolds /\ DistinctDevices
<1> SUFFICES ASSUME IInv PROVE PublishContextHolds /\ DistinctDevices
  OBVIOUS
<1>1. PublishContextHolds
  BY DEF IInv, Fresh, FreshAt, PublishContextHolds
<1>2. DistinctDevices
  <2> SUFFICES ASSUME NEW u \in Volumes, NEW v \in Volumes, NEW n \in Nodes,
                      va[u][n] = "attached", va[v][n] = "attached",
                      n \in machines, pubctx[u] = pubctx[v]
               PROVE  u = v
    BY DEF DistinctDevices
  <2>1. spec[n][u] = pubctx[u] /\ spec[n][v] = pubctx[v] /\ pubctx[u] \in Devices
    BY <1>1 DEF PublishContextHolds
  <2> QED BY <2>1 DEF IInv, DevicesDistinct
<1> QED BY <1>1, <1>2

LEMMA InvImplies ==
  ASSUME NodesOutliveMachines, IInv
  PROVE  SingleAttach /\ NoDanglingAttachment
<1>1. SingleAttach
  BY DEF IInv, VAInv, AttachmentOwned, OneVolumeAttachment, SingleAttach
<1>2. NoDanglingAttachment
  BY DEF IInv, AttachmentOwned, GoneUnattached, NoDanglingAttachment
<1> QED BY <1>1, <1>2

\* What ControllerPublishVolume told the CO stays true, and the devices it
\* named on one node are distinct, for any number of volumes, nodes, devices
\* and faults, and in whatever order Nodes and Machines are removed.
THEOREM ContextSafe == Spec => [](PublishContextHolds /\ DistinctDevices)
BY InvInit, InvStep, InvContext, PTL DEF Spec

\* As long as a Node is removed only after its Machine, the controller keeps
\* every volume on one Machine at most, and lets no volume be deleted under a
\* Machine. (Without that order a detach is reported with the entry still
\* there: the run that removes the Node first shows it.)
THEOREM AttachmentSafe ==
  ASSUME NodesOutliveMachines
  PROVE  Spec => [](SingleAttach /\ NoDanglingAttachment)
<1>1. IInv => SingleAttach /\ NoDanglingAttachment
  BY InvImplies
<1> QED BY InvInit, InvStep, <1>1, PTL DEF Spec

=============================================================================
