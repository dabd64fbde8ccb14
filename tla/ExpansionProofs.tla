--------------------------- MODULE ExpansionProofs ---------------------------
(***************************************************************************)
(* Proofs about Expansion, for every allocation unit, every size asked for *)
(* and every bound on the faults.                                          *)
(***************************************************************************)
EXTENDS Expansion, SizesProofs

\* Sizes of the Volume are whole allocation units.
Units == {s \in Nat : s % GiB = 0}

\* What RoundUpBytes makes of a request is a size, unless it wrapped around
\* and is negative.
LEMMA RoundUpIsUnits ==
  ASSUME NEW b \in Nat, NEW s \in Nat, RoundUpBytes(b) >= s
  PROVE  RoundUpBytes(b) \in Units /\ RoundUpBytes(b) \in Nat
<1>1. RoundUpBytes(b) \in Int
  BY RoundUpBytesRounds, SizesAssumption DEF Int64
<1>2. RoundUpBytes(b) \in Nat
  BY <1>1
<1> QED BY <1>2, RoundUpBytesRounds DEF Units

\* The type invariant.
SizesOK ==
  /\ spec \in Nat /\ dev \in Nat /\ want \in Nat /\ capacity \in Nat /\ usable \in Nat
  /\ spec \in Units /\ dev \in Units /\ fs \in Units /\ capacity \in Units
  /\ usable \in Units
  /\ mounted \in BOOLEAN /\ faults \in 0..MaxFaults
  /\ calls \subseteq Call

\* What is about to be written did not wrap around.
Rounded ==
  \A c \in calls :
    c.pc = "Patch" => RoundUpBytes(c.req) \in Nat /\ RoundUpBytes(c.req) \in Units

\* The resizer's one call that may still write has read the present size, and
\* writes none below it.
Fresh(c) ==
  c.live /\ c.pc \in {"GetClass", "Patch"} =>
    /\ c.base = spec
    /\ c.pc = "Patch" => RoundUpBytes(c.req) >= spec

OneWriter ==
  \A c, d \in calls :
    c.live /\ d.live /\ c.pc \in ControllerPC /\ d.pc \in ControllerPC => c = d

SizesHold == SizesOK /\ DeviceAsTold

NodeInv == SizesHold /\ Rounded

IInv == NodeInv /\ OneWriter /\ VolumeAsTold /\ \A c \in calls : Fresh(c)

------------------------------------------------------------------------------
(* The node's answer.                                                      *)

\* The node part of the invariant holds initially.
LEMMA NodeInit == Init => NodeInv
<1> SUFFICES ASSUME Init PROVE NodeInv
  OBVIOUS
<1>1. GiB \in Nat /\ GiB \in Units
  BY SizesAssumption DEF Units
<1>2. faults \in 0..MaxFaults
  BY ExpansionConstants DEF Init
<1>3. mounted \in BOOLEAN
  BY DEF Init
<1> QED BY <1>1, <1>2, <1>3 DEF Init, NodeInv, SizesHold, SizesOK, DeviceAsTold, Rounded

\* A fault stays within the bound.
LEMMA FaultBound ==
  ASSUME SizesOK, Fault \/ UNCHANGED faults PROVE faults' \in 0..MaxFaults
BY ExpansionConstants DEF SizesOK, Fault

\* What a call that starts looks like.
LEMMA BegunIsCall ==
  ASSUME SizesOK, BeginExpand \/ BeginResize
  PROVE  /\ UNCHANGED <<spec, nodeVars, coVars, faults>>
         /\ \E d \in Call :
              /\ calls' = calls \cup {d}
              /\ d.pc \in {"GetVolume", "List"}
              /\ d.pc = "GetVolume" =>
                   \A c \in calls : c.live => c.pc \notin ControllerPC
<1> USE DEF SizesOK
<1>1. PICK pc \in {"GetVolume", "List"}, PCs \in {ControllerPC, NodePC}, b \in Nat :
        Begin(pc, PCs, b) /\ (pc = "GetVolume" => PCs = ControllerPC)
  BY DEF BeginExpand, BeginResize
<1> DEFINE d == [pc |-> pc, req |-> b, base |-> 0, live |-> TRUE]
<1>2. d \in Call /\ d.pc = pc
  BY <1>1 DEF Call, ControllerPC, NodePC
<1>3. /\ calls' = calls \cup {d} /\ UNCHANGED <<spec, nodeVars, coVars, faults>>
      /\ \A c \in calls : c.live => c.pc \notin PCs
  BY <1>1 DEF Begin
<1> HIDE DEF d
<1> QED BY <1>1, <1>2, <1>3

\* Every step preserves the types and the node's answer.
LEMMA SizesStep == ASSUME NodeInv, [Next]_vars PROVE SizesHold'
<1>0. SizesOK /\ DeviceAsTold /\ Rounded
  BY DEF NodeInv, SizesHold
<1>1. CASE UNCHANGED vars
  BY <1>0, <1>1 DEF vars, SizesHold, SizesOK, DeviceAsTold
<1>2. ASSUME NEW c \in calls, ExpandGetVolume(c) PROVE SizesHold'
  BY <1>0, <1>2
  DEF ExpandGetVolume, Continue, nodeVars, coVars, SizesHold, SizesOK, DeviceAsTold, Call,
      ControllerPC
<1>3. ASSUME NEW c \in calls, ExpandGetClass(c) PROVE SizesHold'
  BY <1>0, <1>3
  DEF ExpandGetClass, Continue, ReturnError, nodeVars, coVars, SizesHold, SizesOK,
      DeviceAsTold, Call, ControllerPC
<1>4. ASSUME NEW c \in calls, ExpandPatch(c) \/ PatchReplyLost(c)
      PROVE  SizesHold'
  <2>1. c.req \in Nat /\ c.base \in Nat
    BY <1>0, <1>4 DEF SizesOK, Call
  <2>2. PICK r \in Nat : r = RoundUpBytes(c.req) /\ r \in Units
    BY <1>0, <1>4 DEF Rounded, ExpandPatch, PatchReplyLost
  <2>3. Patched(r, c.base) \in Nat /\ Patched(r, c.base) \in Units
    BY <1>0, <2>2 DEF SizesOK, Patched
  <2>4. faults' \in 0..MaxFaults
    BY <1>0, <1>4, FaultBound DEF ExpandPatch, PatchReplyLost
  <2> QED
    BY <1>0, <1>4, <2>1, <2>2, <2>3, <2>4
    DEF ExpandPatch, PatchReplyLost, ReturnExpanded, ReturnError, nodeVars,
        coVars, SizesHold, SizesOK, DeviceAsTold
<1>5. ASSUME NEW c \in calls, ResizeList(c) \/ ResizeFs(c) PROVE SizesHold'
  BY <1>0, <1>5
  DEF ResizeList, ResizeFs, Continue, ReturnError, nodeVars, coVars, SizesHold, SizesOK,
      DeviceAsTold, Call, NodePC
<1>6. ASSUME NEW c \in calls, ResizeSeek(c) PROVE SizesHold'
  BY <1>0, <1>6
  DEF ResizeSeek, ReturnResized, ReturnError, nodeVars, coVars, SizesHold, SizesOK,
      DeviceAsTold
<1>7. ASSUME NEW c \in calls, ContextDone(c) \/ CallFails(c) \/ Abandon(c) PROVE SizesHold'
  <2>1. faults' \in 0..MaxFaults
    BY <1>0, <1>7, FaultBound DEF ContextDone, CallFails, Abandon
  <2> QED BY <1>0, <1>7, <2>1
  DEF ContextDone, CallFails, Abandon, ReturnError, nodeVars, coVars, SizesHold, SizesOK,
      DeviceAsTold, Call
<1>8. CASE Ask
  BY <1>0, <1>8, ExpansionConstants DEF Ask, nodeVars, SizesHold, SizesOK, DeviceAsTold
<1>9. CASE BeginExpand \/ BeginResize
  BY <1>0, <1>9, BegunIsCall
  DEF BeginExpand, BeginResize, nodeVars, coVars, SizesHold, SizesOK, DeviceAsTold
<1>10. CASE DeviceGrows \/ Mount \/ Unmount \/ Restart
  <2>1. faults' \in 0..MaxFaults
    BY <1>0, <1>10, FaultBound DEF DeviceGrows, Mount, Unmount, Restart
  <2>2. mounted' \in BOOLEAN
    BY <1>0, <1>10 DEF DeviceGrows, Mount, Unmount, Restart, nodeVars, SizesOK
  <2> QED BY <1>0, <1>10, <2>1, <2>2
  DEF DeviceGrows, Mount, Unmount, Restart, nodeVars, coVars, SizesHold, SizesOK,
      DeviceAsTold
<1> QED
  BY <1>1, <1>2, <1>3, <1>4, <1>5, <1>6, <1>7, <1>8, <1>9, <1>10
  DEF Next, HandlerStep

\* A handler comes to the patch only with a size that did not wrap around.
LEMMA RoundedStep == ASSUME NodeInv, [Next]_vars PROVE Rounded'
<1>0. SizesOK /\ Rounded
  BY DEF NodeInv, SizesHold
<1>1. ASSUME \A d \in calls' : d.pc = "Patch" =>
               \E c \in calls : c.req = d.req /\ (c.pc # "Patch" => RoundUpBytes(c.req) >= c.base)
      PROVE  Rounded'
  <2>1. \A c \in calls : c.req \in Nat /\ c.base \in Nat
    BY <1>0 DEF SizesOK, Call
  <2> QED BY <1>0, <1>1, <2>1, RoundUpIsUnits DEF Rounded
<1>2. ASSUME NEW c \in calls, NEW d, calls' = (calls \ {c}) \cup {d},
             d.pc = "Patch" => d.req = c.req /\ (c.pc # "Patch" => RoundUpBytes(c.req) >= c.base)
      PROVE  Rounded'
  BY <1>1, <1>2
<1>3. ASSUME calls' \subseteq calls PROVE Rounded'
  BY <1>0, <1>3 DEF Rounded
<1>4. ASSUME NEW c \in calls, ExpandGetVolume(c) \/ ResizeList(c) \/ ResizeFs(c)
      PROVE  Rounded'
  <2>1. c \in Call
    BY <1>0 DEF SizesOK
  <2>2. /\ [c EXCEPT !.pc = "GetClass", !.base = spec].pc # "Patch"
        /\ [c EXCEPT !.pc = "Resize"].pc # "Patch" /\ [c EXCEPT !.pc = "Seek"].pc # "Patch"
    BY <2>1 DEF Call
  <2>3. CASE calls' = calls \ {c}
    BY <1>3, <2>3
  <2>4. CASE \E d : calls' = (calls \ {c}) \cup {d} /\ d.pc # "Patch"
    BY <1>2, <2>4
  <2> QED BY <1>4, <2>2, <2>3, <2>4 DEF ExpandGetVolume, ResizeList, ResizeFs, Continue, ReturnError
<1>5. ASSUME NEW c \in calls, ExpandGetClass(c) PROVE Rounded'
  <2> DEFINE d == [c EXCEPT !.pc = "Patch"]
  <2>1. d.req = c.req
    BY <1>0 DEF SizesOK, Call
  <2> HIDE DEF d
  <2>2. \/ calls' = calls \ {c}
        \/ calls' = (calls \ {c}) \cup {d} /\ RoundUpBytes(c.req) >= c.base
    BY <1>5 DEF ExpandGetClass, Continue, ReturnError, d
  <2> QED BY <1>2, <1>3, <2>1, <2>2
<1>6. ASSUME NEW c \in calls, Abandon(c) PROVE Rounded'
  <2> DEFINE d == [c EXCEPT !.live = FALSE]
  <2>1. d.req = c.req /\ d.pc = c.pc /\ calls' = (calls \ {c}) \cup {d}
    BY <1>0, <1>6 DEF SizesOK, Call, Abandon
  <2> HIDE DEF d
  <2> QED BY <1>2, <2>1
<1>7. CASE BeginExpand \/ BeginResize
  <2>1. PICK d \in Call : calls' = calls \cup {d} /\ d.pc \in {"GetVolume", "List"}
    BY <1>0, <1>7, BegunIsCall
  <2> QED BY <1>0, <2>1 DEF Rounded
<1>8. ASSUME NEW c \in calls,
             \/ ExpandPatch(c) \/ PatchReplyLost(c) \/ ResizeSeek(c) \/ ContextDone(c)
             \/ CallFails(c)
      PROVE  Rounded'
  BY <1>3, <1>8 DEF ExpandPatch, PatchReplyLost, ResizeSeek, ContextDone, CallFails,
                    ReturnExpanded, ReturnResized, ReturnError
<1>9. CASE Ask \/ DeviceGrows \/ Mount \/ Unmount \/ Restart \/ UNCHANGED vars
  BY <1>3, <1>9 DEF Ask, DeviceGrows, Mount, Unmount, Restart, vars
<1> QED
  BY <1>4, <1>5, <1>6, <1>7, <1>8, <1>9 DEF Next, HandlerStep

\* Every step preserves the node part of the invariant.
LEMMA NodeStep == ASSUME NodeInv, [Next]_vars PROVE NodeInv'
BY SizesStep, RoundedStep DEF NodeInv

\* Sizes are whole units and every variable keeps its type, whatever is asked
\* for: a size that wraps around when it is rounded is never written.
THEOREM SizesKeepType == Spec => []TypeOK
<1>1. NodeInv /\ [Next]_vars => NodeInv'
  BY NodeStep
<1>2. NodeInv => TypeOK
  BY DEF NodeInv, SizesHold, SizesOK, Units, TypeOK
<1> QED BY <1>1, <1>2, NodeInit, PTL DEF Spec

\* The device is never smaller than what NodeExpandVolume answered.
THEOREM NodeAnswerHolds == Spec => []DeviceAsTold
<1>1. NodeInv /\ [Next]_vars => NodeInv'
  BY NodeStep
<1>2. NodeInv => DeviceAsTold
  BY DEF NodeInv, SizesHold
<1> QED BY <1>1, <1>2, NodeInit, PTL DEF Spec

------------------------------------------------------------------------------
(* The controller's answer.                                                *)

\* The inductive invariant holds initially.
LEMMA InvInit == Init => IInv
BY NodeInit, SizesAssumption DEF Init, IInv, OneWriter, VolumeAsTold

\* Steps that leave the Volume alone and start no call.
LEMMA QuietKeeps ==
  ASSUME IInv, NodeInv', UNCHANGED <<spec, capacity>>,
         \A d \in calls' :
           d.live /\ d.pc \in ControllerPC =>
             \E c \in calls : /\ c.live /\ c.pc \in ControllerPC
                             /\ c.pc = d.pc /\ c.base = d.base /\ c.req = d.req,
         \A c, d \in calls' :
           c.live /\ d.live /\ c.pc \in ControllerPC /\ d.pc \in ControllerPC => c = d
  PROVE  IInv' /\ spec' >= spec
<1>1. OneWriter' /\ VolumeAsTold'
  BY DEF IInv, OneWriter, VolumeAsTold
<1>2. \A d \in calls' : Fresh(d)'
  BY DEF IInv, Fresh, ControllerPC
<1>3. spec' >= spec
  BY DEF IInv, NodeInv, SizesHold, SizesOK
<1> QED BY <1>1, <1>2, <1>3 DEF IInv

\* Every step preserves the inductive invariant and makes nothing smaller.
LEMMA InvStep ==
  ASSUME IInv, [Next]_vars PROVE IInv' /\ spec' >= spec
<1>0. SizesOK /\ OneWriter /\ VolumeAsTold /\ spec \in Nat
  BY DEF IInv, NodeInv, SizesHold, SizesOK
<1>n. NodeInv'
  BY NodeStep DEF IInv
<1>1. CASE UNCHANGED vars
  BY <1>0, <1>1, <1>n, QuietKeeps DEF vars, OneWriter
<1>2. ASSUME NEW c \in calls, c.live, ExpandGetVolume(c) PROVE IInv' /\ spec' >= spec
  <2> DEFINE d == [c EXCEPT !.pc = "GetClass", !.base = spec]
  <2>1. /\ calls' = (calls \ {c}) \cup {d}
        /\ UNCHANGED <<spec, capacity>> /\ c.pc = "GetVolume"
    BY <1>2 DEF ExpandGetVolume, Continue, coVars
  <2>2. d.pc = "GetClass" /\ d.base = spec /\ d.live = c.live
    BY <1>0 DEF SizesOK, Call
  <2>3. PICK e : e = d
    OBVIOUS
  <2> HIDE DEF d
  <2>4. OneWriter'
    BY <1>0, <1>2, <2>1, <2>2, <2>3 DEF OneWriter, ControllerPC
  <2>5. Fresh(e)'
    BY <2>1, <2>2, <2>3 DEF Fresh
  <2>6. \A a \in calls' : Fresh(a)'
    BY <2>1, <2>3, <2>5 DEF IInv, Fresh
  <2> QED BY <1>0, <1>n, <2>1, <2>4, <2>6 DEF IInv, VolumeAsTold
<1>3. ASSUME NEW c \in calls, c.live, ExpandGetClass(c) PROVE IInv' /\ spec' >= spec
  <2> DEFINE d == [c EXCEPT !.pc = "Patch"]
  <2>1. CASE ReturnError(c)
    BY <1>0, <1>3, <1>n, <2>1, QuietKeeps DEF ExpandGetClass, ReturnError, coVars, OneWriter
  <2>2. CASE RoundUpBytes(c.req) >= c.base /\ Continue(c, d)
    <3>1. /\ calls' = (calls \ {c}) \cup {d}
          /\ UNCHANGED <<spec, capacity>> /\ c.pc = "GetClass"
      BY <1>3, <2>2 DEF ExpandGetClass, Continue, coVars
    <3>2. d.pc = "Patch" /\ d.base = c.base /\ d.live = c.live /\ d.req = c.req
      BY <1>0 DEF SizesOK, Call
    <3> HIDE DEF d
    <3>3. OneWriter'
      BY <1>0, <1>3, <3>1, <3>2 DEF OneWriter, ControllerPC
    <3>4. c.base = spec
      BY <1>3, <3>1 DEF IInv, Fresh
    <3>5. Fresh(d)'
      BY <2>2, <3>1, <3>2, <3>4 DEF Fresh, RoundUpBytes, RoundUpSize, Quotient, Wrap
    <3>6. \A a \in calls' : Fresh(a)'
      BY <3>1, <3>5 DEF IInv, Fresh
    <3> QED BY <1>0, <1>n, <3>1, <3>3, <3>6 DEF IInv, VolumeAsTold
  <2> QED BY <1>3, <2>1, <2>2 DEF ExpandGetClass
<1>4. ASSUME NEW c \in calls, c.live, ExpandPatch(c) \/ PatchReplyLost(c)
      PROVE  IInv' /\ spec' >= spec
  <2>1. c.pc = "Patch" /\ calls' = calls \ {c}
    BY <1>4 DEF ExpandPatch, PatchReplyLost, ReturnExpanded, ReturnError
  <2>2. c.base = spec /\ RoundUpBytes(c.req) >= spec /\ RoundUpBytes(c.req) \in Nat
    BY <1>4, <2>1 DEF IInv, NodeInv, Rounded, Fresh
  <2>3. spec' = RoundUpBytes(c.req)
    BY <1>4, <2>2 DEF ExpandPatch, PatchReplyLost, Patched
  <2>4. capacity' = RoundUpBytes(c.req) \/ capacity' = capacity
    BY <1>4 DEF ExpandPatch, PatchReplyLost, ReturnExpanded, ReturnError, coVars
  <2>5. VolumeAsTold' /\ spec' >= spec
    BY <1>0, <2>2, <2>3, <2>4 DEF VolumeAsTold, SizesOK
  <2>6. \A d \in calls' : ~(d.live /\ d.pc \in ControllerPC)
    BY <1>0, <1>4, <2>1 DEF OneWriter, ControllerPC
  <2>7. OneWriter' /\ \A d \in calls' : Fresh(d)'
    BY <2>6 DEF OneWriter, Fresh, ControllerPC
  <2> QED BY <1>0, <1>n, <2>1, <2>5, <2>7 DEF IInv
<1>5. ASSUME NEW c \in calls, ResizeList(c) \/ ResizeFs(c) PROVE IInv' /\ spec' >= spec
  <2>1. /\ UNCHANGED <<spec, capacity>>
        /\ \/ calls' = calls \ {c}
           \/ \E d : calls' = (calls \ {c}) \cup {d} /\ d.pc \in {"Resize", "Seek"}
    <3>1. c \in Call
      BY <1>0, <1>5 DEF SizesOK
    <3>2. \A pc \in {"Resize", "Seek"} : [c EXCEPT !.pc = pc].pc = pc
      BY <3>1 DEF Call
    <3> QED BY <1>5, <3>2 DEF ResizeList, ResizeFs, Continue, ReturnError, nodeVars, coVars
  <2> QED BY <1>0, <1>n, <2>1, QuietKeeps DEF OneWriter, ControllerPC
<1>6. ASSUME NEW c \in calls, ResizeSeek(c) \/ ContextDone(c) \/ CallFails(c)
      PROVE  IInv' /\ spec' >= spec
  <2>1. UNCHANGED <<spec, capacity>> /\ calls' = calls \ {c}
    BY <1>6
    DEF ResizeSeek, ContextDone, CallFails, ReturnResized, ReturnError, nodeVars, coVars
  <2> QED BY <1>0, <1>n, <2>1, QuietKeeps DEF OneWriter
<1>7. ASSUME NEW c \in calls, Abandon(c) PROVE IInv' /\ spec' >= spec
  <2> DEFINE d == [c EXCEPT !.live = FALSE]
  <2>1. /\ calls' = (calls \ {c}) \cup {d} /\ UNCHANGED <<spec, capacity>>
    BY <1>7 DEF Abandon, coVars
  <2>2. d.live = FALSE
    BY <1>0 DEF SizesOK, Call
  <2> HIDE DEF d
  <2> QED BY <1>0, <1>n, <2>1, <2>2, QuietKeeps DEF OneWriter
<1>8. CASE Ask \/ DeviceGrows \/ Mount \/ Unmount \/ Restart
  <2>1. UNCHANGED <<spec, capacity>> /\ calls' \subseteq calls
    BY <1>8 DEF Ask, DeviceGrows, Mount, Unmount, Restart, nodeVars, coVars
  <2> QED BY <1>0, <1>n, <2>1, QuietKeeps DEF OneWriter
<1>9. CASE BeginExpand \/ BeginResize
  <2>1. PICK d \in Call :
          /\ calls' = calls \cup {d} /\ d.pc \in {"GetVolume", "List"}
          /\ d.pc = "GetVolume" => \A c \in calls : c.live => c.pc \notin ControllerPC
    BY <1>0, <1>9, BegunIsCall
  <2>2. UNCHANGED <<spec, capacity>>
    BY <1>0, <1>9, BegunIsCall DEF coVars
  <2>3. OneWriter'
    BY <1>0, <2>1 DEF OneWriter, ControllerPC
  <2>4. \A c \in calls' : Fresh(c)'
    BY <2>1, <2>2 DEF IInv, Fresh
  <2> QED BY <1>0, <1>n, <2>2, <2>3, <2>4 DEF IInv, VolumeAsTold
<1>10. \A c \in calls : PatchReplyLost(c) => c.live
  BY DEF PatchReplyLost
<1> QED
  BY <1>1, <1>2, <1>3, <1>4, <1>5, <1>6, <1>7, <1>8, <1>9, <1>10
  DEF Next, HandlerStep

\* The Volume is as large as ControllerExpandVolume told the CO, whatever is
\* asked for, repeated or abandoned.
THEOREM ControllerAnswerHolds == Spec => []VolumeAsTold
<1>1. IInv /\ [Next]_vars => IInv'
  BY InvStep
<1>2. IInv => VolumeAsTold
  BY DEF IInv
<1> QED BY <1>1, <1>2, InvInit, PTL DEF Spec

\* No call of ControllerExpandVolume makes the Volume smaller, although it
\* compares with a size it read two API calls before.
THEOREM NeverShrinks == Spec => NoShrink
<1>1. IInv /\ [Next]_vars => IInv'
  BY InvStep
<1>2. IInv /\ [Next]_vars => [spec' >= spec]_vars
  BY InvStep
<1> QED BY <1>1, <1>2, InvInit, PTL DEF Spec, NoShrink

------------------------------------------------------------------------------
(* Requests near the largest int64.                                        *)

\* There is a Volume, and what is asked for is an int64.
Asked ==
  /\ spec > 0 /\ want <= MaxInt64
  /\ \A c \in calls : c.pc \in ControllerPC => c.req <= MaxInt64

\* A step that lets handlers go on, or end, with what they were asked for.
LEMMA AskedKept ==
  ASSUME IInv, Asked, spec' \in Nat, spec' >= spec, want' <= MaxInt64,
         \A d \in calls' : d.pc \in ControllerPC =>
           \/ d.req = want
           \/ \E c \in calls : c.pc \in ControllerPC /\ c.req = d.req
  PROVE  Asked'
BY DEF Asked, IInv, NodeInv, SizesHold, SizesOK

LEMMA AskedStep == ASSUME IInv, Asked, [Next]_vars PROVE Asked'
<1>1. spec' \in Nat /\ spec' >= spec /\ calls \subseteq Call
  BY InvStep DEF IInv, NodeInv, SizesHold, SizesOK
<1>2. want' <= MaxInt64 /\ (want' = want \/ Ask)
  <2>1. CASE Ask
    BY <2>1, ExpansionConstants, SizesAssumption DEF Ask, IInv, NodeInv, SizesHold, SizesOK
  <2>2. want' = want \/ Ask
    BY DEF Next, HandlerStep, ExpandGetVolume, ExpandGetClass, ExpandPatch, ResizeList,
           ResizeFs, ResizeSeek, ContextDone, CallFails, PatchReplyLost, Abandon, BeginExpand,
           BeginResize, Begin, DeviceGrows, Mount, Unmount, Restart, Continue, ReturnError,
           ReturnExpanded, ReturnResized, coVars, vars
  <2> QED BY <2>1, <2>2 DEF Asked
<1>3. ASSUME calls' \subseteq calls PROVE Asked'
  BY <1>1, <1>2, <1>3, AskedKept
<1>4. ASSUME NEW c \in calls, NEW d, calls' = (calls \ {c}) \cup {d},
             d.pc \in ControllerPC => c.pc \in ControllerPC /\ d.req = c.req
      PROVE  Asked'
  BY <1>1, <1>2, <1>4, AskedKept
<1>5. ASSUME NEW c \in calls, ExpandGetVolume(c) \/ ExpandGetClass(c) PROVE Asked'
  <2>1. /\ c.pc \in ControllerPC
        /\ \/ calls' \subseteq calls
           \/ calls' = (calls \ {c}) \cup {[c EXCEPT !.pc = "GetClass", !.base = spec]}
           \/ calls' = (calls \ {c}) \cup {[c EXCEPT !.pc = "Patch"]}
    BY <1>5 DEF ExpandGetVolume, ExpandGetClass, Continue, ReturnError, ControllerPC
  <2>2. /\ [c EXCEPT !.pc = "GetClass", !.base = spec].req = c.req
        /\ [c EXCEPT !.pc = "Patch"].req = c.req
    BY <1>1 DEF Call
  <2> QED BY <1>3, <1>4, <2>1, <2>2
<1>6. ASSUME NEW c \in calls, ResizeList(c) \/ ResizeFs(c) PROVE Asked'
  <2>1. \/ calls' \subseteq calls
        \/ \E pc \in {"Resize", "Seek"} : calls' = (calls \ {c}) \cup {[c EXCEPT !.pc = pc]}
    BY <1>6 DEF ResizeList, ResizeFs, Continue, ReturnError
  <2>2. \A pc \in {"Resize", "Seek"} : [c EXCEPT !.pc = pc].pc \notin ControllerPC
    BY <1>1 DEF Call, ControllerPC
  <2> QED BY <1>3, <1>4, <2>1, <2>2
<1>7. ASSUME NEW c \in calls, Abandon(c) PROVE Asked'
  <2> DEFINE d == [c EXCEPT !.live = FALSE]
  <2>1. d.req = c.req /\ d.pc = c.pc /\ calls' = (calls \ {c}) \cup {d}
    BY <1>1, <1>7 DEF Call, Abandon
  <2> HIDE DEF d
  <2> QED BY <1>4, <2>1
<1>8. CASE BeginExpand \/ BeginResize
  <2>1. PICK pc \in {"GetVolume", "List"}, b \in {want, capacity} :
          /\ calls' = calls \cup {[pc |-> pc, req |-> b, base |-> 0, live |-> TRUE]}
          /\ pc = "GetVolume" => b = want
    BY <1>8 DEF BeginExpand, BeginResize, Begin
  <2> QED BY <1>1, <1>2, <2>1, AskedKept DEF ControllerPC
<1>9. ASSUME NEW c \in calls,
             \/ ExpandPatch(c) \/ PatchReplyLost(c) \/ ResizeSeek(c) \/ ContextDone(c)
             \/ CallFails(c)
      PROVE  Asked'
  BY <1>3, <1>9 DEF ExpandPatch, PatchReplyLost, ResizeSeek, ContextDone, CallFails,
                    ReturnExpanded, ReturnResized, ReturnError
<1>10. CASE Ask \/ DeviceGrows \/ Mount \/ Unmount \/ Restart \/ UNCHANGED vars
  BY <1>3, <1>10 DEF Ask, DeviceGrows, Mount, Unmount, Restart, vars
<1> QED BY <1>5, <1>6, <1>7, <1>8, <1>9, <1>10 DEF Next, HandlerStep

\* A size that is written or answered holds what was asked for: one that
\* wrapped around is not above zero, and the Volume is.
LEMMA PatchCovers ==
  ASSUME IInv, Asked, NEW c \in calls, c.live, c.pc = "Patch"
  PROVE  RoundUpBytes(c.req) >= c.req
<1>1. /\ c.req \in Nat /\ c.req <= MaxInt64 /\ spec \in Nat /\ spec > 0
      /\ RoundUpBytes(c.req) \in Nat /\ RoundUpBytes(c.req) >= spec
  BY DEF IInv, NodeInv, SizesHold, SizesOK, Call, Asked, Rounded, Fresh, ControllerPC
<1>2. c.req \in 0..MaxInt64
  BY <1>1, SizesAssumption
<1>3. CASE Fits(c.req)
  BY <1>1, <1>3, RoundUpBytesRounds
<1>4. CASE ~Fits(c.req)
  BY <1>1, <1>2, <1>4, WrappedIsNoSize
<1> QED BY <1>3, <1>4

\* The CO is never told a capacity below what it asked for, whatever the width
\* of the integers and the unit.
THEOREM AnswerNeverTooSmall == Spec => AnswerCovers
<1> DEFINE Covers == capacity' # capacity =>
                       \E c \in calls : c.pc = "Patch" /\ capacity' >= c.req
<1>1. Init => Asked
  BY SizesAssumption DEF Init, Asked
<1>2. IInv /\ [Next]_vars => IInv'
  BY InvStep
<1>3. IInv /\ Asked /\ [Next]_vars => Asked'
  BY AskedStep
<1>4. IInv /\ Asked /\ [Next]_vars => [Covers]_vars
  <2> SUFFICES ASSUME IInv, Asked, [Next]_vars, capacity' # capacity
               PROVE  \E c \in calls : c.pc = "Patch" /\ capacity' >= c.req
    OBVIOUS
  <2>1. PICK c \in calls : c.live /\ ExpandPatch(c)
    <3>1. ASSUME NEW c \in calls,
                 \/ ExpandGetVolume(c) \/ ExpandGetClass(c) \/ ResizeList(c) \/ ResizeFs(c)
                 \/ ResizeSeek(c) \/ ContextDone(c) \/ CallFails(c) \/ PatchReplyLost(c)
                 \/ Abandon(c)
          PROVE  FALSE
      BY <3>1 DEF ExpandGetVolume, ExpandGetClass, ResizeList, ResizeFs, ResizeSeek,
                  ContextDone, CallFails, PatchReplyLost, Abandon, Continue, ReturnError,
                  ReturnResized, coVars
    <3>2. ~(Ask \/ BeginExpand \/ BeginResize \/ DeviceGrows \/ Mount \/ Unmount \/ Restart)
      BY DEF Ask, BeginExpand, BeginResize, Begin, DeviceGrows, Mount, Unmount, Restart, coVars
    <3>3. Next
      BY DEF vars
    <3> QED BY <3>1, <3>2, <3>3 DEF Next, HandlerStep
  <2>2. c.pc = "Patch" /\ capacity' = RoundUpBytes(c.req)
    BY <2>1 DEF ExpandPatch, ReturnExpanded
  <2> QED BY <2>1, <2>2, PatchCovers
<1> QED BY <1>1, <1>2, <1>3, <1>4, InvInit, PTL DEF Spec, AnswerCovers

------------------------------------------------------------------------------
(* The file system. CapacityBacked does not hold of Spec: the device may   *)
(* grow after NodeExpandVolume resized the file system and before it       *)
(* measures the device. Nothing else makes the answer too large.           *)

\* The device does not grow while a handler is about to measure it.
SteadyDevice == [][dev' = dev \/ \A c \in calls : c.pc # "Seek"]_vars

Backed ==
  /\ CapacityBacked /\ fs <= dev
  /\ \A c \in calls : c.pc = "Seek" => fs = dev

LEMMA BackedStep ==
  ASSUME NodeInv, Backed, [Next]_vars, [dev' = dev \/ \A c \in calls : c.pc # "Seek"]_vars
  PROVE  Backed'
<1>0. /\ dev \in Nat /\ fs \in Nat /\ usable \in Nat /\ calls \subseteq Call
      /\ usable <= fs /\ fs <= dev
  BY DEF NodeInv, SizesHold, SizesOK, Units, Backed, CapacityBacked
<1>1. ASSUME UNCHANGED <<dev, fs, usable>>, calls' \subseteq calls PROVE Backed'
  BY <1>1 DEF Backed, CapacityBacked
<1>2. ASSUME UNCHANGED <<dev, fs, usable>>, NEW d, calls' \subseteq calls \cup {d},
             d.pc = "Seek" => \E c \in calls : c.pc = "Seek"
      PROVE  Backed'
  BY <1>2 DEF Backed, CapacityBacked
<1>3. ASSUME NEW c \in calls, ExpandGetVolume(c) \/ ExpandGetClass(c) \/ ResizeList(c)
      PROVE  Backed'
  <2>1. /\ [c EXCEPT !.pc = "GetClass", !.base = spec].pc # "Seek"
        /\ [c EXCEPT !.pc = "Patch"].pc # "Seek" /\ [c EXCEPT !.pc = "Resize"].pc # "Seek"
    BY <1>0 DEF Call
  <2>2. /\ UNCHANGED <<dev, fs, usable>>
        /\ \/ calls' \subseteq calls
           \/ \E d : calls' = (calls \ {c}) \cup {d} /\ d.pc # "Seek"
    BY <1>3, <2>1
    DEF ExpandGetVolume, ExpandGetClass, ResizeList, Continue, ReturnError, nodeVars, coVars
  <2> QED BY <1>1, <1>2, <2>2
<1>4. ASSUME NEW c \in calls, ResizeFs(c) PROVE Backed'
  <2>1. CASE mounted
    BY <1>0, <1>4, <2>1 DEF ResizeFs, Continue, coVars, Backed, CapacityBacked
  <2>2. CASE ~mounted
    BY <1>1, <1>4, <2>2 DEF ResizeFs, ReturnError, coVars
  <2> QED BY <2>1, <2>2
<1>5. ASSUME NEW c \in calls, ResizeSeek(c) PROVE Backed'
  <2>1. fs = dev /\ calls' \subseteq calls /\ UNCHANGED <<dev, fs>> /\ usable' \in {usable, dev}
    BY <1>5 DEF ResizeSeek, ReturnResized, ReturnError, nodeVars, coVars, Backed
  <2> QED BY <1>0, <2>1 DEF Backed, CapacityBacked
<1>6. ASSUME NEW c \in calls,
             ExpandPatch(c) \/ PatchReplyLost(c) \/ ContextDone(c) \/ CallFails(c)
      PROVE  Backed'
  BY <1>1, <1>6 DEF ExpandPatch, PatchReplyLost, ContextDone, CallFails, ReturnExpanded,
                    ReturnError, nodeVars, coVars
<1>7. ASSUME NEW c \in calls, Abandon(c) PROVE Backed'
  <2>1. [c EXCEPT !.live = FALSE].pc = c.pc
    BY <1>0 DEF Call
  <2> QED BY <1>2, <1>7, <2>1 DEF Abandon, nodeVars, coVars
<1>8. CASE BeginExpand \/ BeginResize
  BY <1>2, <1>8 DEF BeginExpand, BeginResize, Begin, nodeVars, coVars
<1>9. CASE DeviceGrows
  <2>1. dev' # dev /\ dev' > dev
    BY <1>0, <1>9 DEF DeviceGrows, NodeInv, SizesHold, SizesOK
  <2>2. \A c \in calls : c.pc # "Seek"
    BY <2>1 DEF vars
  <2>3. dev' \in Nat
    BY <1>9 DEF DeviceGrows, NodeInv, SizesHold, SizesOK
  <2> QED BY <1>0, <1>9, <2>1, <2>2, <2>3 DEF DeviceGrows, coVars, Backed, CapacityBacked
<1>10. CASE Ask \/ Mount \/ Unmount \/ Restart \/ UNCHANGED vars
  BY <1>1, <1>10 DEF Ask, Mount, Unmount, Restart, nodeVars, coVars, vars
<1> QED
  BY <1>3, <1>4, <1>5, <1>6, <1>7, <1>8, <1>9, <1>10 DEF Next, HandlerStep

\* The file system is as large as NodeExpandVolume answered, whatever fails,
\* is abandoned or repeated, unless the device grows between a handler's
\* resizing and its measuring.
THEOREM OnlyDeviceRace == Spec /\ SteadyDevice => []CapacityBacked
<1>1. Init => Backed
  BY SizesAssumption DEF Init, Backed, CapacityBacked
<1>2. NodeInv /\ [Next]_vars => NodeInv'
  BY NodeStep
<1>3. /\ NodeInv /\ Backed /\ [Next]_vars
      /\ [dev' = dev \/ \A c \in calls : c.pc # "Seek"]_vars
      => Backed'
  BY BackedStep
<1>4. Backed => CapacityBacked
  BY DEF Backed
<1> QED BY <1>1, <1>2, <1>3, <1>4, NodeInit, PTL DEF Spec, SteadyDevice

=============================================================================
