----------------------------- MODULE SystemProofs -----------------------------
(***************************************************************************)
(* Proofs about System, for every set of volumes, nodes and devices and    *)
(* every bound on the faults: patches may arrive arbitrarily late.         *)
(***************************************************************************)
EXTENDS System, AttachmentProofs

------------------------------------------------------------------------------
(* Device paths.                                                           *)

\* The characters of a device path, as far as they are not cut off.
LEMMA PathSpelled ==
  ASSUME NEW d \in Devices, NEW v \in Volumes
  PROVE  /\ \A i \in 1..Len(Name[d]) :
              i <= MaxName => DevicePath(d, v)[i] = Name[d][i]
         /\ Len(Name[d]) + 1 <= MaxName => DevicePath(d, v)[Len(Name[d]) + 1] = Dash
         /\ \A k \in 1..Len(Handle[v]) :
              Len(Name[d]) + 1 + k <= MaxName =>
                DevicePath(d, v)[Len(Name[d]) + 1 + k] = Handle[v][k]
<1> DEFINE S == Char \cup {Dash}
           n == Name[d]
           h == Handle[v]
           a == n \o <<Dash>>
           s == a \o h
<1>1. n \in Seq(Char) /\ h \in Seq(Char) /\ MaxName \in Nat
  BY NamesAssumption, SystemAssumption
<1>2. n \in Seq(S) /\ h \in Seq(S) /\ <<Dash>> \in Seq(S)
  BY <1>1
<1> HIDE DEF n, h
<1>3. /\ a \in Seq(S) /\ Len(a) = Len(n) + 1 /\ a[Len(n) + 1] = Dash
      /\ \A i \in 1..Len(n) : a[i] = n[i]
  BY <1>2
<1> HIDE DEF a
<1>4. /\ s \in Seq(S) /\ Len(s) = Len(a) + Len(h)
      /\ \A i \in 1..Len(a) : s[i] = a[i]
      /\ \A k \in 1..Len(h) : s[Len(a) + k] = h[k]
  BY <1>2, <1>3
<1> HIDE DEF s
<1>5. Len(n) \in Nat /\ Len(h) \in Nat /\ Len(s) \in Nat
  BY <1>2, <1>4
<1>6. \A i \in 1..Len(s) : i <= MaxName => Cut(s)[i] = s[i]
  BY <1>1, <1>4, <1>5 DEF Cut
<1>7. DevicePath(d, v) = Cut(s)
  BY DEF DevicePath, s, a, n, h
<1>8. \A i \in 1..Len(n) : i <= MaxName => DevicePath(d, v)[i] = n[i]
  BY <1>3, <1>4, <1>5, <1>6, <1>7
<1>9. Len(n) + 1 <= MaxName => DevicePath(d, v)[Len(n) + 1] = Dash
  BY <1>3, <1>4, <1>5, <1>6, <1>7
<1>10. \A k \in 1..Len(h) :
         Len(n) + 1 + k <= MaxName => DevicePath(d, v)[Len(n) + 1 + k] = h[k]
  BY <1>1, <1>3, <1>4, <1>5, <1>6, <1>7
<1> QED BY <1>8, <1>9, <1>10 DEF n, h

\* The device is in the path: the first dash ends it.
LEMMA DeviceInPath ==
  ASSUME NEW d \in Devices, NEW e \in Devices, NEW u \in Volumes, NEW v \in Volumes,
         DevicePath(d, u) = DevicePath(e, v)
  PROVE  d = e
<1>1. \A f \in Devices : /\ Name[f] \in Seq(Char) /\ Len(Name[f]) \in Nat
                         /\ MaxName \in Nat /\ Len(Name[f]) < MaxName
                         /\ \A j \in 1..Len(Name[f]) : Name[f][j] # Dash
  BY NamesAssumption, SystemAssumption
<1>2. ASSUME NEW f \in Devices, NEW g \in Devices, NEW x \in Volumes, NEW y \in Volumes,
             DevicePath(f, x) = DevicePath(g, y), Len(Name[f]) < Len(Name[g])
      PROVE  FALSE
  <2> DEFINE i == Len(Name[f]) + 1
  <2>1. i \in 1..Len(Name[g]) /\ i <= MaxName
    BY <1>1, <1>2
  <2>2. DevicePath(f, x)[i] = Dash
    BY <2>1, PathSpelled
  <2>3. DevicePath(g, y)[i] = Name[g][i]
    BY <2>1, PathSpelled
  <2> QED BY <1>1, <1>2, <2>1, <2>2, <2>3
<1>3. Len(Name[d]) = Len(Name[e])
  BY <1>1, <1>2
<1>4. \A i \in 1..Len(Name[d]) : Name[d][i] = Name[e][i]
  <2>1. \A i \in 1..Len(Name[d]) : i <= MaxName /\ i \in 1..Len(Name[e])
    BY <1>1, <1>3
  <2> QED BY <2>1, PathSpelled
<1>5. Name[d] = Name[e]
  BY <1>1, <1>3, <1>4
<1> QED BY <1>5, NamesAssumption, SystemAssumption

\* The paths validateDeviceName makes for two volumes, or for two devices,
\* differ, on whatever Machines, although they are cut off: it is enough that
\* the handles differ before the cut and that device names have no dash.
THEOREM PathsDiffer ==
  ASSUME NEW d \in Devices, NEW e \in Devices, NEW u \in Volumes, NEW v \in Volumes,
         DevicePath(d, u) = DevicePath(e, v)
  PROVE  u = v /\ d = e
<1>0. d = e
  BY DeviceInPath
<1> SUFFICES ASSUME u # v PROVE FALSE
  BY <1>0
<1>1. PICK k \in 1..Len(Handle[u]) :
        /\ k <= Len(Handle[v])
        /\ Handle[u][k] # Handle[v][k]
        /\ \A f \in Devices : Len(Name[f]) + 1 + k <= MaxName
  BY NamesAssumption, SystemAssumption
<1>2. Len(Handle[u]) \in Nat /\ Len(Handle[v]) \in Nat
  BY NamesAssumption, SystemAssumption
<1>3. k \in 1..Len(Handle[u]) /\ k \in 1..Len(Handle[v])
  BY <1>1, <1>2
<1>4. /\ DevicePath(d, u)[Len(Name[d]) + 1 + k] = Handle[u][k]
      /\ DevicePath(d, v)[Len(Name[d]) + 1 + k] = Handle[v][k]
  BY <1>1, <1>3, PathSpelled
<1> QED BY <1>0, <1>1, <1>4

------------------------------------------------------------------------------
(* The inductive invariant of the system.                                  *)

\* A node uses only what the CO was told is attached there, and mounts only
\* what the CO wants used, unless a stage and an unstage handler crossed.
InUse ==
  \A p \in Places :
    /\ phase[p] # "unstaged" => va[p[1]][p[2]] = "attached"
    /\ shown[p] # Nothing => phase[p] # "unstaged" \/ p \in crossed

\* Unless a late patch has struck the entry, the CO was told, and is about to
\* be told, what the Machine lists.
Unstruck == \A p \in Places : p \notin struck => FreshAt(p[1], p[2])

SInv == SysTypeOK /\ VAInv /\ GoneUnattached /\ InUse /\ RightVolume /\ Unstruck

\* The state of the nodes has its type.
NodeTypeOK ==
  /\ plugged \in [Nodes -> [Volumes -> Devices \cup {Absent}]]
  /\ shown \in [Places -> Volumes \cup {Nothing}]
  /\ phase \in [Places -> Mounts!Phase]
  /\ crossed \subseteq Places

\* The late patches have their type.
LateTypeOK == late \subseteq Late /\ struck \subseteq Places

LEMMA SysTypeParts == SysTypeOK <=> TypeOK /\ NodeTypeOK /\ LateTypeOK
BY DEF SysTypeOK, NodeTypeOK, LateTypeOK

\* A place is a volume on a node.
LEMMA PlaceType ==
  ASSUME NEW p \in Places
  PROVE  p[1] \in Volumes /\ p[2] \in Nodes
BY DEF Places

LEMMA SysInitInv == SysInit => SInv
<1> SUFFICES ASSUME SysInit PROVE SInv
  OBVIOUS
<1>1. TypeOK
  BY TypeInit DEF SysInit
<1>2. NodeTypeOK /\ LateTypeOK
  BY DEF SysInit, NodeTypeOK, LateTypeOK, NoSlots, Mounts!Phase
<1>3. VAInv
  BY VAInit DEF SysInit
<1>4. InUse /\ RightVolume
  BY DEF SysInit, InUse, RightVolume
<1>5. Unstruck /\ GoneUnattached
  BY InvInit, PlaceType DEF SysInit, Unstruck, IInv, Fresh
<1> QED BY <1>1, <1>2, <1>3, <1>4, <1>5, SysTypeParts DEF SInv

\* A step of the controller's side.
LEMMA ControllerKeeps == ASSUME SInv, ControllerStep PROVE SInv'
<1>1. VAInv' /\ BeliefKept /\ TypeOK'
  BY StepVA DEF SInv, ControllerStep, VAInv
<1>2. NodeTypeOK /\ LateTypeOK /\ TypeOK
  BY SysTypeParts DEF SInv
<1>3. NodeTypeOK'
  BY <1>2 DEF ControllerStep, OnMachines, NodeTypeOK, NoSlots, Places, Mounts!Phase
<1>4. LateTypeOK'
  BY <1>2 DEF ControllerStep, lateVars, LateTypeOK
<1>5. SysTypeOK'
  BY <1>1, <1>3, <1>4 DEF SysTypeOK, NodeTypeOK, LateTypeOK
<1>6. ASSUME NEW p \in Places
      PROVE  /\ shown'[p] \in {shown[p], Nothing}
             /\ phase'[p] # "unstaged" => phase'[p] = phase[p] /\ va'[p[1]][p[2]] = "attached"
             /\ shown'[p] # Nothing => phase'[p] # "unstaged" \/ p \in crossed'
  <2>1. /\ p \in crossed' <=> p \in crossed /\ p[2] \in machines'
        /\ shown'[p] = (IF p[2] \in machines' THEN shown[p] ELSE Nothing)
        /\ phase'[p] = (IF p[2] \in machines' THEN phase[p] ELSE "unstaged")
    BY DEF ControllerStep, OnMachines
  <2>2. phase[p] # "unstaged" => va'[p[1]][p[2]] \in {"attached", "detach"}
    BY <1>1, PlaceType DEF SInv, InUse, BeliefKept
  <2>3. phase[p] # "unstaged" => va'[p[1]][p[2]] # "detach"
    BY DEF SInv, InUse, ControllerStep, InOrder
  <2> QED BY <2>1, <2>2, <2>3 DEF SInv, InUse
<1>7. InUse'
  BY <1>6 DEF InUse
<1>8. RightVolume'
  BY <1>6 DEF SInv, RightVolume
<1>9. Unstruck' /\ GoneUnattached'
  BY FreshStep, GoneStep, PlaceType DEF SInv, Unstruck, ControllerStep, lateVars
<1> QED BY <1>1, <1>5, <1>7, <1>8, <1>9 DEF SInv

\* A step that leaves the volumes, the VolumeAttachments and the nodes alone.
LEMMA NodesAlone ==
  ASSUME SInv, UNCHANGED <<volume, va, shown, phase, crossed>>
  PROVE  GoneUnattached' /\ InUse' /\ RightVolume'
BY DEF SInv, GoneUnattached, InUse, RightVolume

LEMMA PatchDelayedKeeps ==
  ASSUME SInv, NEW c \in calls, PatchDelayed(c)
  PROVE  SInv'
<1>1. NodeTypeOK /\ LateTypeOK /\ TypeOK /\ VAInv
  BY SysTypeParts DEF SInv
<1>2. TypeOK'
  BY <1>1, ConstantsAssumption
     DEF PatchDelayed, Fault, ReturnError, apiVars, coVars, TypeOK
<1>3. NodeTypeOK'
  BY <1>1 DEF PatchDelayed, mountingVars, NodeTypeOK
<1>4. LateTypeOK'
  <2>1. faults + 1 \in 1..MaxFaults
    BY <1>1, ConstantsAssumption DEF PatchDelayed, Fault, TypeOK
  <2>2. c.vol \in Volumes /\ c.node \in Nodes
    BY <1>1 DEF TypeOK, Call
  <2> QED BY <1>1, <2>1, <2>2 DEF PatchDelayed, LateTypeOK, Late
<1>5. OneCallPerVolume' /\ CallTracked' /\ OneVolumeAttachment'
  BY <1>1, DroppedVA DEF PatchDelayed, ReturnError, coVars
<1>6. GoneUnattached' /\ InUse' /\ RightVolume'
  BY NodesAlone DEF PatchDelayed, ReturnError, apiVars, coVars, mountingVars
<1>7. Unstruck'
  BY FreshQuiet, PlaceType DEF SInv, Unstruck, PatchDelayed, ReturnError, apiVars, coVars
<1> QED BY <1>2, <1>3, <1>4, <1>5, <1>6, <1>7
        DEF SInv, VAInv, SysTypeOK, NodeTypeOK, LateTypeOK

LEMMA PatchArrivesKeeps ==
  ASSUME SInv, NEW w \in late, PatchArrives(w)
  PROVE  SInv'
<1>1. NodeTypeOK /\ LateTypeOK /\ TypeOK /\ VAInv
  BY SysTypeParts DEF SInv
<1>2. w.vol \in Volumes /\ w.node \in Nodes
  BY <1>1 DEF LateTypeOK, Late
<1>3. spec[w.node] \in [Volumes -> Slot]
  BY <1>1, <1>2 DEF TypeOK
<1>4. spec' \in [Nodes -> [Volumes -> Slot]]
  <2>1. /\ MergeAdd(spec[w.node], spec[w.node], w.vol) \subseteq [Volumes -> Slot]
        /\ MergeDelete(spec[w.node], spec[w.node], w.vol) \in [Volumes -> Slot]
    BY <1>2, <1>3, MergeType
  <2>2. PICK slots \in [Volumes -> Slot] : spec' = [spec EXCEPT ![w.node] = slots]
    BY <2>1 DEF PatchArrives
  <2> QED BY <1>1, <1>2, <2>2 DEF TypeOK
<1>5. TypeOK'
  BY <1>1, <1>4 DEF PatchArrives, TypeOK, apiVars, coVars
<1>6. NodeTypeOK'
  BY <1>1 DEF PatchArrives, mountingVars, NodeTypeOK
<1>7. LateTypeOK'
  BY <1>1, <1>2 DEF PatchArrives, LateTypeOK, Places
<1>8. OneCallPerVolume' /\ CallTracked' /\ OneVolumeAttachment'
  BY <1>1, DroppedVA DEF PatchArrives, coVars
<1>9. GoneUnattached' /\ InUse' /\ RightVolume'
  BY NodesAlone DEF PatchArrives, apiVars, coVars, mountingVars
<1>10. ASSUME NEW p \in Places, p \notin struck' PROVE FreshAt(p[1], p[2])'
  <2>1. /\ UNCHANGED <<machines, va, pubctx, calls>> /\ p \notin struck
        /\ p[1] \in Volumes /\ p[2] \in Nodes /\ p = <<p[1], p[2]>>
        /\ spec \in [Nodes -> [Volumes -> Slot]]
    BY <1>1, <1>10 DEF PatchArrives, apiVars, coVars, Places, TypeOK
  <2>2. CASE w.op = "add"
    <3>1. PICK slots \in MergeAdd(spec[w.node], spec[w.node], w.vol) :
            spec' = [spec EXCEPT ![w.node] = slots]
      BY <2>2 DEF PatchArrives
    <3>2. \A u \in Volumes : Listed(spec[w.node], u) => slots[u] = spec[w.node][u]
      BY <1>2, <1>3, MergeAddEntry
    <3>3. spec[p[2]][p[1]] \in Devices => spec'[p[2]][p[1]] = spec[p[2]][p[1]]
      BY <1>2, <2>1, <3>1, <3>2, ConstantsAssumption DEF Listed
    <3> QED BY <2>1, <3>3, FreshQuiet DEF SInv, Unstruck
  <2>3. CASE w.op # "add"
    <3>1. /\ spec' = [spec EXCEPT ![w.node] = MergeDelete(spec[w.node], spec[w.node], w.vol)]
          /\ struck' = struck \cup {<<w.vol, w.node>>}
      BY <2>3 DEF PatchArrives
    <3>2. p[1] # w.vol \/ p[2] # w.node
      BY <1>10, <2>1, <3>1
    <3>3. spec'[p[2]][p[1]] = spec[p[2]][p[1]]
      BY <1>2, <2>1, <3>1, <3>2 DEF MergeDelete
    <3> QED BY <2>1, <3>3, FreshQuiet DEF SInv, Unstruck
  <2> QED BY <2>2, <2>3
<1> QED BY <1>5, <1>6, <1>7, <1>8, <1>9, <1>10
        DEF Unstruck, SInv, VAInv, SysTypeOK, NodeTypeOK, LateTypeOK

\* A step that leaves Attachment's state and the late patches alone.
LEMMA ControllerAlone ==
  ASSUME SInv, UNCHANGED <<vars, lateVars>>
  PROVE  TypeOK' /\ LateTypeOK' /\ VAInv' /\ GoneUnattached' /\ Unstruck'
<1>1. TypeOK' /\ LateTypeOK' /\ VAInv'
  BY SysTypeParts
     DEF SInv, VAInv, vars, lateVars, TypeOK, LateTypeOK, OneCallPerVolume, CallTracked,
         OneVolumeAttachment
<1>2. GoneUnattached' /\ Unstruck'
  BY FreshQuiet, PlaceType DEF SInv, GoneUnattached, Unstruck, vars, lateVars
<1> QED BY <1>1, <1>2

LEMMA HypervisorKeeps ==
  ASSUME SInv, NEW n \in Nodes, NEW v \in Volumes, Plug(n, v) \/ Unplug(n, v)
  PROVE  SInv'
<1>1. NodeTypeOK
  BY SysTypeParts DEF SInv
<1>2. TypeOK' /\ LateTypeOK' /\ VAInv' /\ Unstruck'
  BY ControllerAlone DEF Plug, Unplug
<1>3. NodeTypeOK'
  BY <1>1 DEF Plug, Unplug, NodeTypeOK
<1>4. GoneUnattached' /\ InUse' /\ RightVolume'
  BY NodesAlone DEF Plug, Unplug, vars
<1> QED BY <1>2, <1>3, <1>4 DEF SInv, SysTypeOK, NodeTypeOK, LateTypeOK

\* The disks found under a path of a volume are that volume.
LEMMA FoundUnderRight ==
  ASSUME NEW p \in Places, NEW d
  PROVE  FoundUnder(d, p) \subseteq {p[1]}
BY PathsDiffer, PlaceType DEF FoundUnder

LEMMA FoundRight ==
  ASSUME SInv, NEW p \in Places
  PROVE  Found(p) \subseteq {p[1]}
BY FoundUnderRight DEF Found

\* A step of the node service at one place.
LEMMA NodeKeeps ==
  ASSUME SInv, NEW p \in Places,
         NodeStep(p)
  PROVE  SInv'
<1>1. NodeTypeOK
  BY SysTypeParts DEF SInv
<1>2. TypeOK' /\ LateTypeOK' /\ VAInv' /\ GoneUnattached' /\ Unstruck' /\ plugged' = plugged /\ va' = va
  BY ControllerAlone
     DEF NodeStep, NodeWant, NodeMounts, NodeUnmounts, NodeTells, NodeStrays, Frame, vars
<1>3. /\ \A q \in Places \ {p} : shown'[q] = shown[q] /\ phase'[q] = phase[q]
      /\ shown' \in [Places -> Volumes \cup {Nothing}]
      /\ phase' \in [Places -> Mounts!Phase]
      /\ crossed' = crossed
      /\ shown'[p] # Nothing => phase'[p] # "unstaged" \/ p \in crossed
      /\ phase'[p] # "unstaged" => va[p[1]][p[2]] = "attached"
      /\ shown'[p] \in {p[1], Nothing}
  <2>0. /\ shown[p] \in {p[1], Nothing}
        /\ shown[p] # Nothing => phase[p] # "unstaged" \/ p \in crossed
        /\ phase[p] # "unstaged" => va[p[1]][p[2]] = "attached"
        /\ phase[p] \in Mounts!Phase
    BY <1>1 DEF SInv, InUse, RightVolume, NodeTypeOK
  <2>1. CASE NodeWant(p)
    BY <1>1, <2>0, <2>1 DEF NodeWant, Mounts!Want, Mounts!Move, NodeTypeOK, Mounts!Phase
  <2>2. CASE NodeMounts(p)
    <3>1. PICK u \in Found(p) : shown' = [shown EXCEPT ![p] = u] /\ Mounts!Mount(p)
      BY <2>2 DEF NodeMounts
    <3>2. u = p[1] /\ u \in Volumes
      BY FoundRight, PlaceType
    <3>3. /\ crossed' = crossed
          /\ phase' = phase \/ phase' = [phase EXCEPT ![p] = "staged"]
      BY <3>1 DEF Mounts!Mount, Mounts!Move
    <3>4. phase[p] # "unstaged"
      BY <2>2 DEF NodeMounts
    <3> QED BY <1>1, <2>0, <3>1, <3>2, <3>3, <3>4 DEF NodeTypeOK, Mounts!Phase
  <2>3. CASE NodeUnmounts(p)
    BY <1>1, <2>0, <2>3 DEF NodeUnmounts, Mounts!Unmount, NodeTypeOK
  <2>4. CASE NodeTells(p)
    <3>1. /\ shown' = shown /\ phase[p] # "unstaged" /\ crossed' = crossed
          /\ \/ phase' = [phase EXCEPT ![p] = "staged"]
             \/ phase' = [phase EXCEPT ![p] = "unstaging"]
             \/ phase' = [phase EXCEPT ![p] = "unstaged"] /\ (shown[p] = Nothing \/ p \in crossed)
      BY <2>4 DEF NodeTells, Mounts!Tell, Mounts!Release, Mounts!Finish, Mounts!Move
    <3> QED BY <1>1, <2>0, <3>1 DEF NodeTypeOK, Mounts!Phase
  <2>5. CASE NodeStrays(p)
    <3>1. PICK d \in Devices : \E u \in FoundUnder(d, p) :
            shown' = [shown EXCEPT ![p] = u] /\ Mounts!StrayMount(p)
      BY <2>5 DEF NodeStrays
    <3>2. p[1] \in Volumes /\ shown' = [shown EXCEPT ![p] = p[1]] /\ Mounts!StrayMount(p)
      BY <3>1, FoundUnderRight, PlaceType
    <3>3. p \in crossed /\ crossed' = crossed /\ phase' = phase
      BY <3>2 DEF Mounts!StrayMount
    <3> QED BY <1>1, <2>0, <3>2, <3>3 DEF NodeTypeOK
  <2> QED BY <2>1, <2>2, <2>3, <2>4, <2>5 DEF NodeStep
<1>4. InUse' /\ RightVolume'
  BY <1>2, <1>3 DEF SInv, InUse, RightVolume
<1>5. NodeTypeOK'
  BY <1>1, <1>2, <1>3 DEF NodeTypeOK
<1> QED BY <1>2, <1>4, <1>5 DEF SInv, SysTypeOK, NodeTypeOK, LateTypeOK

\* A crossing costs a fault and only marks its place.
LEMMA CrossKeeps ==
  ASSUME SInv, NEW p \in Places, NodeCrosses(p)
  PROVE  SInv'
<1>1. NodeTypeOK /\ LateTypeOK /\ TypeOK /\ VAInv
  BY SysTypeParts DEF SInv
<1>2. TypeOK'
  BY <1>1, ConstantsAssumption DEF NodeCrosses, Fault, apiVars, coVars, TypeOK
<1>3. LateTypeOK'
  BY <1>1 DEF NodeCrosses, lateVars, LateTypeOK
<1>4. OneCallPerVolume' /\ CallTracked' /\ OneVolumeAttachment'
  BY <1>1, DroppedVA DEF NodeCrosses, coVars
<1>5. crossed' = crossed \cup {p} /\ UNCHANGED <<plugged, shown, phase, volume, va>>
  BY DEF NodeCrosses, Mounts!Cross, apiVars, coVars
<1>6. NodeTypeOK'
  BY <1>1, <1>5 DEF NodeTypeOK
<1>7. GoneUnattached' /\ InUse' /\ RightVolume'
  BY <1>5 DEF SInv, GoneUnattached, InUse, RightVolume
<1>8. Unstruck'
  BY FreshQuiet, PlaceType DEF SInv, Unstruck, NodeCrosses, apiVars, coVars, lateVars
<1> QED BY <1>2, <1>3, <1>4, <1>6, <1>7, <1>8
        DEF SInv, VAInv, SysTypeOK, NodeTypeOK, LateTypeOK

LEMMA RebootKeeps ==
  ASSUME SInv, NEW n \in Nodes, NodeReboots(n)
  PROVE  SInv'
<1>1. NodeTypeOK /\ LateTypeOK /\ TypeOK /\ VAInv
  BY SysTypeParts DEF SInv
<1>2. TypeOK'
  BY <1>1, ConstantsAssumption DEF NodeReboots, Fault, apiVars, coVars, TypeOK
<1>3. LateTypeOK'
  BY <1>1 DEF NodeReboots, lateVars, LateTypeOK
<1>4. OneCallPerVolume' /\ CallTracked' /\ OneVolumeAttachment' /\ va' = va
  BY <1>1, DroppedVA DEF NodeReboots, coVars
<1>5. /\ plugged' = [plugged EXCEPT ![n] = NoSlots]
      /\ shown' = [p \in Places |-> IF p \in On(n) THEN Nothing ELSE shown[p]]
      /\ phase' = [p \in Places |->
                     IF p \in On(n) /\ phase[p] = "staged" THEN "staging" ELSE phase[p]]
      /\ crossed' = crossed \ On(n)
  BY DEF NodeReboots, Mounts!Reboot
<1>6. NodeTypeOK'
  BY <1>1, <1>5 DEF NodeTypeOK, NoSlots, Mounts!Phase
<1>7. GoneUnattached' /\ InUse' /\ RightVolume'
  BY <1>4, <1>5 DEF SInv, GoneUnattached, InUse, RightVolume, NodeReboots, apiVars
<1>8. Unstruck'
  BY FreshQuiet, PlaceType DEF SInv, Unstruck, NodeReboots, apiVars, coVars, lateVars
<1> QED BY <1>2, <1>3, <1>4, <1>6, <1>7, <1>8
        DEF SInv, VAInv, SysTypeOK, NodeTypeOK, LateTypeOK

LEMMA SysStep == SInv /\ [SysNext]_sysVars => SInv'
<1> SUFFICES ASSUME SInv, [SysNext]_sysVars PROVE SInv'
  OBVIOUS
<1>1. CASE SysNext
  BY <1>1, ControllerKeeps, PatchDelayedKeeps, PatchArrivesKeeps, HypervisorKeeps,
     NodeKeeps, CrossKeeps, RebootKeeps DEF SysNext
<1>2. CASE UNCHANGED sysVars
  <2>1. TypeOK' /\ LateTypeOK' /\ VAInv' /\ Unstruck'
    BY <1>2, ControllerAlone DEF sysVars
  <2>2. GoneUnattached' /\ InUse' /\ RightVolume'
    BY <1>2, NodesAlone DEF sysVars, vars, mountingVars
  <2>3. NodeTypeOK'
    BY <1>2, SysTypeParts DEF SInv, sysVars, mountingVars, NodeTypeOK
  <2> QED BY <2>1, <2>2, <2>3 DEF SInv, SysTypeOK, NodeTypeOK, LateTypeOK
<1> QED BY <1>1, <1>2

\* A place mounts only under the volume's one VolumeAttachment.
LEMMA InUseOnce == SInv => MountedOnOneNode
<1> SUFFICES ASSUME SInv, NEW v \in Volumes, NEW m \in Nodes, NEW n \in Nodes,
                    shown[<<v, m>>] # Nothing, shown[<<v, n>>] # Nothing,
                    <<v, m>> \notin crossed, <<v, n>> \notin crossed
             PROVE  m = n
  BY DEF MountedOnOneNode
<1>1. <<v, m>> \in Places /\ <<v, n>> \in Places
  BY DEF Places
<1>2. va[v][m] = "attached" /\ va[v][n] = "attached"
  BY <1>1 DEF SInv, InUse
<1> QED BY <1>2 DEF SInv, VAInv, OneVolumeAttachment

\* Machines only go, and a publish context stays as long as it counts.
LEMMA ContextKept ==
  ASSUME SInv, SysNext
  PROVE  /\ machines' \subseteq machines
         /\ \A v \in Volumes, n \in Nodes :
              va[v][n] = "attached" => pubctx'[v] = pubctx[v]
<1>1. CASE ControllerStep
  <2>1. TypeOK /\ VAInv /\ Next
    BY <1>1 DEF SInv, VAInv, ControllerStep
  <2>2. machines' \subseteq machines
    BY <2>1, SpecStep DEF DeleteMachine, AssignDevice, Entry, apiVars
  <2>3. BeliefKept
    BY <2>1, StepVA
  <2> QED BY <2>2, <2>3 DEF BeliefKept
<1>2. CASE ~ControllerStep
  BY <1>2 DEF SysNext, PatchDelayed, ReturnError, PatchArrives, Plug, Unplug, NodeStep,
              NodeWant, NodeMounts, NodeUnmounts, NodeTells, NodeStrays, Frame, NodeCrosses,
              NodeReboots, apiVars, coVars, vars
<1> QED BY <1>1, <1>2

\* What a step does to the disks plugged into the nodes: a disk that is listed
\* as it is plugged stays, unless its Machine goes or its node reboots.
LEMMA PluggedKept ==
  ASSUME SInv, SysNext, NEW p \in Places, plugged[p[2]][p[1]] \in Devices,
         p[2] \in machines', faults' = faults
  PROVE  \/ plugged'[p[2]][p[1]] = plugged[p[2]][p[1]]
         \/ /\ UNCHANGED machines
            /\ plugged[p[2]][p[1]] # spec[p[2]][p[1]]
<1>0. /\ plugged \in [Nodes -> [Volumes -> Devices \cup {Absent}]]
      /\ p[1] \in Volumes /\ p[2] \in Nodes /\ faults \in Nat
  BY PlaceType DEF SInv, SysTypeOK, TypeOK
<1>1. CASE ControllerStep
  BY <1>0, <1>1 DEF ControllerStep, OnMachines
<1>2. ASSUME NEW c \in calls, PatchDelayed(c) PROVE FALSE
  BY <1>0, <1>2 DEF PatchDelayed, Fault
<1>3. ASSUME NEW w \in late, PatchArrives(w) PROVE plugged' = plugged
  BY <1>3 DEF PatchArrives, mountingVars
<1>4. ASSUME NEW n \in Nodes, NEW v \in Volumes, Plug(n, v)
      PROVE  plugged'[p[2]][p[1]] = plugged[p[2]][p[1]]
  BY <1>0, <1>4, ConstantsAssumption DEF Plug
<1>5. ASSUME NEW n \in Nodes, NEW v \in Volumes, Unplug(n, v)
      PROVE  \/ plugged'[p[2]][p[1]] = plugged[p[2]][p[1]]
             \/ UNCHANGED machines /\ plugged[p[2]][p[1]] # spec[p[2]][p[1]]
  BY <1>0, <1>5 DEF Unplug, vars
<1>6. ASSUME NEW q \in Places, NodeStep(q)
      PROVE  plugged' = plugged
  BY <1>6 DEF NodeStep, NodeWant, NodeMounts, NodeUnmounts, NodeTells, NodeStrays, Frame
<1>7. ASSUME NEW n \in Nodes, NodeReboots(n) PROVE FALSE
  BY <1>0, <1>7 DEF NodeReboots, Fault
<1>8. ASSUME NEW q \in Places, NodeCrosses(q) PROVE FALSE
  BY <1>0, <1>8 DEF NodeCrosses, Fault
<1> QED BY <1>1, <1>2, <1>3, <1>4, <1>5, <1>6, <1>7, <1>8 DEF SysNext

------------------------------------------------------------------------------
\* No volume is ever mounted on two nodes, for every number of volumes, nodes,
\* devices and faults, although patches of abandoned calls may arrive at any
\* later time and list a volume on two Machines: it takes, on one of the two
\* nodes, a stage and an unstage handler of the volume at work together.
THEOREM NeverMountedTwice == SysSpec => []MountedOnOneNode
<1>1. SInv => MountedOnOneNode
  BY InUseOnce
<1> QED BY <1>1, SysInitInv, SysStep, PTL DEF SysSpec

\* Nodes mount only the volume they were asked for, although device names are
\* given anew while the disk that had them is still plugged, the path is cut
\* off, and a stage handler that was given up may have the path of an earlier
\* attachment.
THEOREM NeverWrongVolume == SysSpec => []RightVolume
<1>1. SInv => RightVolume
  BY DEF SInv
<1> QED BY <1>1, SysInitInv, SysStep, PTL DEF SysSpec

\* The system's state keeps its type.
THEOREM SystemTypes == SysSpec => []SysTypeOK
<1>1. SInv => SysTypeOK
  BY DEF SInv
<1> QED BY <1>1, SysInitInv, SysStep, PTL DEF SysSpec

\* No volume is deleted while it is mounted, for every number of volumes,
\* nodes, devices and faults: a node uses only what the CO takes for attached,
\* and the CO deletes only what it has no VolumeAttachment for. Again a stage
\* and an unstage handler at work together are the one exception.
THEOREM NeverDeletedInUse == SysSpec => []DeletedUnused
<1>1. SInv => DeletedUnused
  BY PlaceType DEF SInv, GoneUnattached, InUse, DeletedUnused
<1> QED BY <1>1, SysInitInv, SysStep, PTL DEF SysSpec

\* The path a node was given for a volume in use keeps leading to the disk,
\* for every number of volumes, nodes, devices and faults, unless the Machine
\* goes, the node reboots, or a late patch of an earlier detach has struck the
\* entry: the hypervisor follows the Machine's list, the list keeps what the
\* CO was told, and no other disk has that path.
THEOREM InUseStaysPlugged == SysSpec => DeviceHeld
<1> DEFINE Held ==
      \A p \in Places :
        phase[p] # "unstaged" /\ Found(p) # {} =>
          \/ Found(p)' # {}
          \/ p[2] \notin machines'
          \/ faults' # faults
          \/ p \in struck
<1>1. SInv /\ [SysNext]_sysVars => [Held]_sysVars
  <2> SUFFICES ASSUME SInv, SysNext, NEW p \in Places, phase[p] # "unstaged",
                      Found(p) # {}, p[2] \in machines', faults' = faults, p \notin struck
               PROVE  Found(p)' # {}
    OBVIOUS
  <2>1. p[1] \in Volumes /\ p[2] \in Nodes
    BY PlaceType
  <2>2. /\ plugged[p[2]][p[1]] \in Devices /\ pubctx[p[1]] \in Devices
        /\ plugged[p[2]][p[1]] = pubctx[p[1]]
    BY <2>1, FoundRight, PathsDiffer DEF Found, FoundUnder
  <2>3. p[2] \in machines /\ va[p[1]][p[2]] = "attached" /\ pubctx'[p[1]] = pubctx[p[1]]
    BY <2>1, ContextKept DEF SInv, InUse
  <2>4. spec[p[2]][p[1]] = pubctx[p[1]]
    BY <2>3 DEF SInv, Unstruck, FreshAt
  <2>5. plugged'[p[2]][p[1]] = plugged[p[2]][p[1]]
    BY <2>2, <2>4, PluggedKept
  <2>6. p[1] \in Found(p)'
    BY <2>1, <2>2, <2>3, <2>5 DEF Found, FoundUnder
  <2> QED BY <2>6
<1> QED BY <1>1, SysInitInv, SysStep, PTL DEF SysSpec, DeviceHeld

=============================================================================
