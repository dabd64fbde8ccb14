------------------------------- MODULE Expansion -------------------------------
(***************************************************************************)
(* Growing one volume: ControllerExpandVolume (pkg/driver/controller.go)   *)
(* and NodeExpandVolume (pkg/driver/node.go), one action per call they     *)
(* make, with ironcore, which grows the block device some time after the   *)
(* Volume's spec, and the container orchestrator (CO: external-resizer and *)
(* kubelet), which retries and may ask for more meanwhile. No lock covers  *)
(* these calls.                                                            *)
(***************************************************************************)
EXTENDS Sizes

CONSTANTS
  MaxBytes,     \* bound on the sizes a user asks for
  ExpandOnly,   \* TRUE: the volume class's resize policy allows growing
  MaxFaults     \* bound on failing calls, lost replies and restarts

ASSUME ExpansionConstants ==
  /\ MaxBytes \in 0..MaxInt64
  /\ ExpandOnly \in BOOLEAN
  /\ MaxFaults \in Nat

VARIABLES
  spec,      \* storage in the Volume's spec.resources
  dev,       \* size of the block device on the node
  fs,        \* size of the file system on it
  mounted,   \* the volume path is in the node's mount table
  want,      \* what the user asks for (PVC spec)
  capacity,  \* what ControllerExpandVolume answered (PV capacity)
  usable,    \* what NodeExpandVolume answered (PVC status)
  calls,     \* the RPC handlers in flight
  faults

nodeVars == <<dev, fs, mounted>>
coVars   == <<want, capacity, usable>>
vars     == <<spec, dev, fs, mounted, want, capacity, usable, calls, faults>>

ControllerPC == {"GetVolume", "GetClass", "Patch"}
NodePC       == {"List", "Resize", "Seek"}

\* A handler: the bytes required, the spec as it read it, and whether its
\* caller still waits.
Call == [pc : ControllerPC \cup NodePC, req : Nat, base : Nat, live : BOOLEAN]

Init ==
  /\ spec = GiB /\ dev = GiB /\ fs = GiB /\ mounted = FALSE
  /\ want = GiB /\ capacity = GiB /\ usable = GiB
  /\ calls = {}
  /\ faults = 0

------------------------------------------------------------------------------
(* Helpers. An operator whose name starts with Faulty is the next one with *)
(* a plausible bug in it; nothing uses it but the tests of the properties' *)
(* strength listed in PROJECT.json.                                        *)

\* Faulty: the base is not a copy of its own, so there is never a difference.
FaultyPatched(size, base) == spec

\* A merge patch carries the difference to what was read: none, if the size
\* is the same.
Patched(size, base) == IF size = base THEN spec ELSE size

Continue(c, d)  == calls' = (calls \ {c}) \cup {d} /\ UNCHANGED coVars
ReturnError(c)  == calls' = calls \ {c} /\ UNCHANGED coVars

ReturnExpanded(c, size) ==
  /\ calls' = calls \ {c}
  /\ capacity' = size
  /\ UNCHANGED <<want, usable>>

ReturnResized(c, size) ==
  /\ calls' = calls \ {c}
  /\ usable' = IF c.live THEN size ELSE usable
  /\ UNCHANGED <<want, capacity>>

------------------------------------------------------------------------------
(* ControllerExpandVolume.                                                 *)

ExpandGetVolume(c) ==
  /\ c.pc = "GetVolume"
  /\ Continue(c, [c EXCEPT !.pc = "GetClass", !.base = spec])
  /\ UNCHANGED <<spec, nodeVars, faults>>

\* Faulty: a size equal to the present one is refused.
FaultyExpandGetClass(c) ==
  /\ c.pc = "GetClass"
  /\ IF ExpandOnly /\ RoundUpBytes(c.req) > c.base
     THEN Continue(c, [c EXCEPT !.pc = "Patch"])
     ELSE ReturnError(c)
  /\ UNCHANGED <<spec, nodeVars, faults>>

\* Faulty: the new size is not compared with the present one.
FaultyExpandUnchecked(c) ==
  /\ c.pc = "GetClass"
  /\ IF ExpandOnly THEN Continue(c, [c EXCEPT !.pc = "Patch"]) ELSE ReturnError(c)
  /\ UNCHANGED <<spec, nodeVars, faults>>

ExpandGetClass(c) ==
  /\ c.pc = "GetClass"
  /\ IF ExpandOnly /\ RoundUpBytes(c.req) >= c.base
     THEN Continue(c, [c EXCEPT !.pc = "Patch"])
     ELSE ReturnError(c)
  /\ UNCHANGED <<spec, nodeVars, faults>>

ExpandPatch(c) ==
  /\ c.pc = "Patch"
  /\ spec' = Patched(RoundUpBytes(c.req), c.base)
  /\ ReturnExpanded(c, RoundUpBytes(c.req))
  /\ UNCHANGED <<nodeVars, faults>>

------------------------------------------------------------------------------
(* NodeExpandVolume.                                                       *)

\* A path that is not in the mount table has the device name "", which
\* Resize fails on.
ResizeList(c) ==
  /\ c.pc = "List"
  /\ IF mounted THEN Continue(c, [c EXCEPT !.pc = "Resize"]) ELSE ReturnError(c)
  /\ UNCHANGED <<spec, nodeVars, faults>>

\* The file system grows to the size the device has now.
ResizeFs(c) ==
  /\ c.pc = "Resize"
  /\ IF mounted
     THEN fs' = dev /\ Continue(c, [c EXCEPT !.pc = "Seek"])
     ELSE UNCHANGED fs /\ ReturnError(c)
  /\ UNCHANGED <<spec, dev, mounted, faults>>

\* Faulty: the check of the size that was reached is missing.
FaultyResizeSeek(c) ==
  /\ c.pc = "Seek"
  /\ ReturnResized(c, c.req)
  /\ UNCHANGED <<spec, nodeVars, faults>>

\* getBlockSizeBytes: the answer is the size the device has by now.
ResizeSeek(c) ==
  /\ c.pc = "Seek"
  /\ IF dev < c.req THEN ReturnError(c) ELSE ReturnResized(c, dev)
  /\ UNCHANGED <<spec, nodeVars, faults>>

\* ControllerExpandVolume's calls take its context and fail once the caller
\* is gone; NodeExpandVolume ignores its context and runs on.
HandlerStep(c) ==
  \/ c.live /\ (ExpandGetVolume(c) \/ ExpandGetClass(c) \/ ExpandPatch(c))
  \/ ResizeList(c) \/ ResizeFs(c) \/ ResizeSeek(c)

ContextDone(c) ==
  /\ ~c.live /\ c.pc \in ControllerPC
  /\ ReturnError(c)
  /\ UNCHANGED <<spec, nodeVars, faults>>

------------------------------------------------------------------------------
(* The CO: the resizer grows the volume, then the kubelet the file system, *)
(* each one call at a time that it waits for.                              *)

\* The user asks for more, or for less than before, which the API server of
\* the target cluster accepts down to the claim's status.
Ask ==
  /\ want' \in (usable + 1)..MaxBytes
  /\ UNCHANGED <<spec, nodeVars, capacity, usable, calls, faults>>

Begin(pc, PCs, bytes) ==
  /\ \A c \in calls : c.live => c.pc \notin PCs
  /\ calls' = calls \cup {[pc |-> pc, req |-> bytes, base |-> 0, live |-> TRUE]}
  /\ UNCHANGED <<spec, nodeVars, coVars, faults>>

BeginExpand == want > capacity /\ Begin("GetVolume", ControllerPC, want)
BeginResize == mounted /\ capacity > usable /\ Begin("List", NodePC, capacity)

------------------------------------------------------------------------------
(* ironcore, the node and faults.                                          *)

DeviceGrows ==
  /\ dev < spec
  /\ dev' = spec
  /\ UNCHANGED <<spec, fs, mounted, coVars, calls, faults>>

Mount ==
  /\ ~mounted
  /\ mounted' = TRUE
  /\ UNCHANGED <<spec, dev, fs, coVars, calls, faults>>

Fault == faults < MaxFaults /\ faults' = faults + 1

Unmount ==
  /\ mounted
  /\ Fault
  /\ mounted' = FALSE
  /\ UNCHANGED <<spec, dev, fs, coVars, calls>>

\* The call a handler makes next fails.
CallFails(c) == Fault /\ ReturnError(c) /\ UNCHANGED <<spec, nodeVars>>

\* The patch is carried out, but its reply does not arrive.
PatchReplyLost(c) ==
  /\ c.live /\ c.pc = "Patch"
  /\ Fault
  /\ spec' = Patched(RoundUpBytes(c.req), c.base)
  /\ ReturnError(c)
  /\ UNCHANGED <<nodeVars>>

\* The CO's deadline passes.
Abandon(c) ==
  /\ c.live
  /\ Fault
  /\ calls' = (calls \ {c}) \cup {[c EXCEPT !.live = FALSE]}
  /\ UNCHANGED <<spec, nodeVars, coVars>>

\* The controller's or the node's driver restarts.
Restart ==
  /\ Fault
  /\ \E PCs \in {ControllerPC, NodePC} :
       /\ \E c \in calls : c.pc \in PCs
       /\ calls' = {c \in calls : c.pc \notin PCs}
  /\ UNCHANGED <<spec, nodeVars, coVars>>

------------------------------------------------------------------------------
Next ==
  \/ \E c \in calls : \/ HandlerStep(c) \/ ContextDone(c) \/ CallFails(c)
                      \/ PatchReplyLost(c) \/ Abandon(c)
  \/ Ask \/ BeginExpand \/ BeginResize
  \/ DeviceGrows \/ Mount \/ Unmount \/ Restart

Spec == Init /\ [][Next]_vars

\* Handlers run on, the CO keeps retrying, ironcore grows the device, and
\* the pod that uses the volume has it mounted.
Fairness ==
  /\ WF_vars(\E c \in calls : c.pc \in ControllerPC /\ (HandlerStep(c) \/ ContextDone(c)))
  /\ WF_vars(\E c \in calls : c.pc \in NodePC /\ HandlerStep(c))
  /\ WF_vars(BeginExpand) /\ WF_vars(BeginResize)
  /\ WF_vars(DeviceGrows) /\ WF_vars(Mount)

FairSpec == Spec /\ Fairness

------------------------------------------------------------------------------
(* Properties.                                                             *)

\* Every variable has its type; the sizes of the Volume, and whatever
\* follows from them, are whole allocation units.
TypeOK ==
  /\ want \in Nat
  /\ \A size \in {spec, dev, fs, capacity, usable} : size \in Nat /\ size % GiB = 0
  /\ mounted \in BOOLEAN
  /\ calls \subseteq Call
  /\ faults \in 0..MaxFaults

\* The Volume is never made smaller, although ControllerExpandVolume compares
\* with a size it read two API calls before it writes.
NoShrink == [][spec' >= spec]_vars

\* The Volume is as large as ControllerExpandVolume told the CO, whichever
\* of several calls answered and whatever was asked for since.
VolumeAsTold == capacity <= spec

\* ControllerExpandVolume never answers with less than it was asked for, also
\* where rounding wraps around: what comes out of that is refused, because
\* the Volume is larger.
AnswerCovers ==
  [][capacity' # capacity => \E c \in calls : c.pc = "Patch" /\ capacity' >= c.req]_vars

\* The device is as large as NodeExpandVolume told the CO, although it grows
\* behind the Volume's spec and a handler runs on after its caller left.
DeviceAsTold == usable <= dev

\* What the user asks for becomes usable, whatever is lost or repeated on
\* the way, unless the user went back below what the Volume already has:
\* ControllerExpandVolume refuses that for good.
ExpandCompletes ==
  usable < want ~> usable >= want \/ RoundUpBytes(want) < spec

\* The file system is as large as NodeExpandVolume answered.
CapacityBacked == usable <= fs

=============================================================================
