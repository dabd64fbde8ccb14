--------------------------- MODULE NodeVolumeProofs ---------------------------
(***************************************************************************)
(* Proofs about NodeVolume, for every set of volumes and pods and every    *)
(* bound on the faults. Only publish and unpublish handlers of a volume    *)
(* exclude each other; stage and unstage handlers that the CO has given up *)
(* run beside any other. The invariant has two layers: what the CO's order *)
(* of calls and the lock ensure for every volume (Control), and, from it,  *)
(* what the mount table shows of the volumes that were not crossed (Table).*)
(***************************************************************************)
EXTENDS NodeVolume, TLAPS

(* The first layer: calls, and what the CO believes.                       *)

ControlTypes ==
  /\ kstage \in [Volumes -> StageState]
  /\ kpub \in [Volumes -> [Pods -> PublishState]]
  /\ calls \subseteq Call
  /\ crossed \subseteq Volumes
  /\ errors \in 0..MaxErrors /\ losses \in 0..MaxLosses

\* The CO waits for one call per volume.
OneLive == \A c, d \in calls : c.vol = d.vol /\ c.live /\ d.live => c = d

\* The lock admits one publish or unpublish handler per volume.
OneLocked ==
  \A c, d \in calls :
    c.vol = d.vol /\ c.rpc \in Serialised /\ d.rpc \in Serialised => c = d

\* What crossed stands for.
Apart ==
  \A c, d \in calls :
    c.vol = d.vol /\ c.rpc = "stage" /\ d.rpc = "unstage" => c.vol \in crossed

\* What the CO believes while handler c is in flight, given up or not.
Tracked(c) ==
  /\ c.rpc = "stage" =>
       /\ c.live => kstage[c.vol] = "staging"
       /\ c.vol \notin crossed => kstage[c.vol] # "unstaged"
  /\ c.rpc = "unstage" =>
       /\ c.live => kstage[c.vol] = "unstaging"
       /\ c.vol \notin crossed => kstage[c.vol] # "staged"
  /\ c.rpc = "publish" =>
       /\ c.pod \in Pods /\ kstage[c.vol] = "staged"
       /\ kpub[c.vol][c.pod] \in {"publishing", "unpublishing"}
  /\ c.rpc = "unpublish" =>
       c.pod \in Pods /\ kpub[c.vol][c.pod] = "unpublishing"

\* A handler is at a step of its own call.
Proper(rpc, pc) ==
  \/ rpc = "stage" /\ pc \in StagePC
  \/ rpc = "publish" /\ pc \in PublishPC
  \/ rpc = "unpublish" /\ pc \in UnpublishPC
  \/ rpc = "unstage" /\ pc \in UnstagePC

\* A volume that is, or may become, unstaged is used by no pod.
Idle == \A v \in Volumes : kstage[v] \in {"unstaged", "unstaging"} => Unused(v)

Control ==
  /\ ControlTypes /\ OneLive /\ OneLocked /\ Apart /\ Idle
  /\ \A c \in calls : Tracked(c) /\ Proper(c.rpc, c.pc)

(* The second layer: the mount table.                                      *)

TableTypes ==
  /\ dev \subseteq Volumes /\ sdir \subseteq Volumes
  /\ smnt \subseteq Volumes /\ wiped \subseteq Volumes
  /\ tdir \in [Volumes -> SUBSET Pods]
  /\ tmnt \in [Volumes -> [Pods -> Seq(MountView)]]

\* The CO's view of staging against the mount table.
StagingAgrees(v) ==
  /\ kstage[v] = "staged" => v \in smnt
  /\ kstage[v] = "unstaged" => v \notin smnt

\* The CO's view of publishing against the mount table: a target path shows
\* the volume or nothing, and shows it only while the staging path does.
PublishingAgrees(v, p) ==
  /\ tmnt[v][p] \in {<<>>, <<"volume">>}
  /\ tmnt[v][p] # <<>> => v \in smnt
  /\ kpub[v][p] = "published" => tmnt[v][p] = <<"volume">>
  /\ kpub[v][p] = "none" => tmnt[v][p] = <<>>

\* What handler c found out, and relies on later, is still so.
Checked(c) ==
  /\ c.pc \in {"PublishMkdir", "PublishMount", "UnpublishRemove"} =>
       tmnt[c.vol][c.pod] = <<>>
  /\ c.pc = "UnpublishUnmount" => tmnt[c.vol][c.pod] = <<"volume">>
  /\ c.pc = "UnstageRemove" => c.vol \notin smnt
  /\ c.rpc = "unstage" /\ kstage[c.vol] = "staging" => c.vol \notin smnt

Clean(v) ==
  /\ StagingAgrees(v)
  /\ \A p \in Pods : PublishingAgrees(v, p)
  /\ \A c \in calls : c.vol = v => Checked(c)

Table == TableTypes /\ \A v \in Volumes \ crossed : Clean(v)

IInv == Control /\ Table

\* A table of tables with one entry changed.
LEMMA NestedUpdate ==
  ASSUME NEW S, NEW T, NEW V, NEW f \in [S -> [T -> V]],
         NEW s \in S, NEW t \in T, NEW x \in V
  PROVE  /\ [f EXCEPT ![s][t] = x] \in [S -> [T -> V]]
         /\ \A r \in S, u \in T :
              [f EXCEPT ![s][t] = x][r][u] = IF r = s /\ u = t THEN x ELSE f[r][u]
         /\ \A r \in S : r # s => [f EXCEPT ![s][t] = x][r] = f[r]
<1> DEFINE g == [f[s] EXCEPT ![t] = x]
<1>1. g \in [T -> V]
  OBVIOUS
<1>2. [f EXCEPT ![s][t] = x] = [f EXCEPT ![s] = g]
  OBVIOUS
<1>3. \A u \in T : g[u] = IF u = t THEN x ELSE f[s][u]
  OBVIOUS
<1> HIDE DEF g
<1> QED BY <1>1, <1>2, <1>3

\* The inductive invariant holds initially.
LEMMA InvInit == Init => IInv
<1> SUFFICES ASSUME Init PROVE IInv
  OBVIOUS
<1>1. ControlTypes
  BY NodeConstantsAssumption DEF Init, ControlTypes, StageState, PublishState
<1>2. Control
  BY <1>1 DEF Init, Control, OneLive, OneLocked, Apart, Idle, Unused
<1>3. TableTypes
  BY DEF Init, TableTypes
<1>4. \A v \in Volumes : Clean(v)
  BY DEF Init, Clean, StagingAgrees, PublishingAgrees
<1> QED BY <1>2, <1>3, <1>4 DEF IInv, Table

------------------------------------------------------------------------------
(* The first layer is inductive by itself.                                 *)

\* The ways a handler's step ends, as the CO sees them.
Returns(c) ==
  \/ ReturnError(c)
  \/ c.rpc = "stage" /\ ReturnStage(c, "staged")
  \/ c.rpc = "unstage" /\ ReturnStage(c, "unstaged")
  \/ c.rpc = "publish" /\ ReturnPublish(c, "published")
  \/ c.rpc = "unpublish" /\ ReturnPublish(c, "none")

GoesOn(c) == \E pc \in PC : Proper(c.rpc, pc) /\ Goto(c, pc)

\* Every step of a handler goes on or returns.
LEMMA HandlerForm ==
  ASSUME Control, NEW c \in calls, HandlerStep(c)
  PROVE  (GoesOn(c) \/ Returns(c)) /\ UNCHANGED <<crossed, errors, losses>>
<1>0. Proper(c.rpc, c.pc) /\ UNCHANGED <<crossed, errors, losses>>
  BY DEF Control, HandlerStep
<1>1. CASE StageStat(c) \/ StageCheck(c) \/ StageMkdir(c) \/ StageMount(c)
  <2>1. c.pc \in StagePC
    BY <1>1 DEF StageStat, StageCheck, StageMkdir, StageMount, StagePC
  <2>2. c.rpc = "stage"
    BY <1>0, <2>1 DEF Proper, StagePC, PublishPC, UnpublishPC, UnstagePC
  <2>3. \/ \E pc \in StagePC : Goto(c, pc)
        \/ ReturnError(c) \/ ReturnStage(c, "staged")
    BY <1>1 DEF StageStat, StageCheck, StageMkdir, StageMount, StagePC
  <2> QED BY <1>0, <2>2, <2>3 DEF GoesOn, Returns, Proper, PC
<1>2. CASE PublishCheck(c) \/ PublishMkdir(c) \/ PublishMount(c)
  <2>1. c.pc \in PublishPC
    BY <1>2 DEF PublishCheck, PublishMkdir, PublishMount, PublishPC
  <2>2. c.rpc = "publish"
    BY <1>0, <2>1 DEF Proper, StagePC, PublishPC, UnpublishPC, UnstagePC
  <2>3. \/ \E pc \in PublishPC : Goto(c, pc)
        \/ ReturnError(c) \/ ReturnPublish(c, "published")
    BY <1>2 DEF PublishCheck, PublishMkdir, PublishMount, PublishPC
  <2> QED BY <1>0, <2>2, <2>3 DEF GoesOn, Returns, Proper, PC
<1>3. CASE \/ UnpublishStat(c) \/ UnpublishCheck(c)
           \/ UnpublishUnmount(c) \/ UnpublishRemove(c)
  <2>1. c.pc \in UnpublishPC
    BY <1>3 DEF UnpublishStat, UnpublishCheck, UnpublishUnmount, UnpublishRemove,
                UnpublishPC
  <2>2. c.rpc = "unpublish"
    BY <1>0, <2>1 DEF Proper, StagePC, PublishPC, UnpublishPC, UnstagePC
  <2>3. \/ \E pc \in UnpublishPC : Goto(c, pc)
        \/ ReturnError(c) \/ ReturnPublish(c, "none")
    BY <1>3 DEF UnpublishStat, UnpublishCheck, UnpublishUnmount, UnpublishRemove,
                UnpublishPC
  <2> QED BY <1>0, <2>2, <2>3 DEF GoesOn, Returns, Proper, PC
<1>4. CASE UnstageList(c) \/ UnstageUnmount(c) \/ UnstageRemove(c)
  <2>1. c.pc \in UnstagePC
    BY <1>4 DEF UnstageList, UnstageUnmount, UnstageRemove, UnstagePC
  <2>2. c.rpc = "unstage"
    BY <1>0, <2>1 DEF Proper, StagePC, PublishPC, UnpublishPC, UnstagePC
  <2>3. \/ \E pc \in UnstagePC : Goto(c, pc)
        \/ ReturnError(c) \/ ReturnStage(c, "unstaged")
    BY <1>4 DEF UnstageList, UnstageUnmount, UnstageRemove, UnstagePC
  <2> QED BY <1>0, <2>2, <2>3 DEF GoesOn, Returns, Proper, PC
<1> QED BY <1>0, <1>1, <1>2, <1>3, <1>4 DEF HandlerStep

\* A handler that goes on to pc.
LEMMA GotoCalls ==
  ASSUME ControlTypes, NEW c \in calls, NEW pc \in PC, Goto(c, pc)
  PROVE  /\ UNCHANGED <<kstage, kpub>>
         /\ \E e \in Call :
              /\ calls' = (calls \ {c}) \cup {e}
              /\ e.vol = c.vol /\ e.pod = c.pod /\ e.pc = pc
              /\ e.rpc = c.rpc /\ e.live = c.live
<1> DEFINE e == [c EXCEPT !.pc = pc]
<1>1. /\ e \in Call /\ e.vol = c.vol /\ e.pod = c.pod /\ e.pc = pc
      /\ e.rpc = c.rpc /\ e.live = c.live
  BY DEF ControlTypes, Call
<1>2. calls' = (calls \ {c}) \cup {e} /\ UNCHANGED <<kstage, kpub>>
  BY DEF Goto, coVars
<1> HIDE DEF e
<1> QED BY <1>1, <1>2

\* A handler is replaced by one of the same call, which may have lost its
\* caller.
LEMMA ReplacedControl ==
  ASSUME Control, NEW c \in calls, NEW e \in Call,
         calls' = (calls \ {c}) \cup {e},
         e.vol = c.vol, e.pod = c.pod, e.rpc = c.rpc, e.live => c.live,
         Proper(e.rpc, e.pc),
         UNCHANGED <<kstage, kpub, crossed, errors>>, losses' \in 0..MaxLosses
  PROVE  Control'
<1>1. ControlTypes'
  BY DEF Control, ControlTypes
<1>2. OneLive'
  BY DEF Control, OneLive
<1>3. OneLocked'
  BY DEF Control, OneLocked
<1>4. Apart'
  BY DEF Control, Apart
<1>5. Idle'
  BY DEF Control, Idle, Unused
<1>6. \A d \in calls' : Tracked(d)' /\ Proper(d.rpc, d.pc)
  BY DEF Control, Tracked
<1> QED BY <1>1, <1>2, <1>3, <1>4, <1>5, <1>6 DEF Control

\* Handlers return an error, or disappear.
LEMMA DroppedControl ==
  ASSUME Control, calls' \subseteq calls, UNCHANGED <<kstage, kpub, crossed>>,
         errors' \in 0..MaxErrors, losses' \in 0..MaxLosses
  PROVE  Control'
<1>1. ControlTypes'
  BY DEF Control, ControlTypes
<1>2. OneLive' /\ OneLocked' /\ Apart'
  BY DEF Control, OneLive, OneLocked, Apart
<1>3. Idle'
  BY DEF Control, Idle, Unused
<1>4. \A d \in calls' : Tracked(d)' /\ Proper(d.rpc, d.pc)
  BY DEF Control, Tracked
<1> QED BY <1>1, <1>2, <1>3, <1>4 DEF Control

\* The CO is told the outcome of a stage or an unstage call: no handler that
\* works against it is in flight, unless the two crossed.
LEMMA StageReturnControl ==
  ASSUME Control, NEW c \in calls, c.live, NEW s \in StageState,
         \/ c.rpc = "stage" /\ s = "staged"
         \/ c.rpc = "unstage" /\ s = "unstaged",
         calls' = calls \ {c}, kstage' = [kstage EXCEPT ![c.vol] = s],
         UNCHANGED <<kpub, crossed, errors, losses>>
  PROVE  Control'
<1>1. /\ c.vol \in Volumes /\ kstage \in [Volumes -> StageState]
      /\ \A d \in calls : d.vol \in Volumes
  BY DEF Control, ControlTypes, Call
<1>2. /\ kstage' \in [Volumes -> StageState] /\ kstage'[c.vol] = s
      /\ \A v \in Volumes : v # c.vol => kstage'[v] = kstage[v]
  BY <1>1
<1>3. ControlTypes' /\ OneLive' /\ OneLocked' /\ Apart'
  BY <1>2 DEF Control, ControlTypes, OneLive, OneLocked, Apart
<1>4. kstage[c.vol] = IF c.rpc = "stage" THEN "staging" ELSE "unstaging"
  BY DEF Control, Tracked
<1>5. Idle'
  BY <1>1, <1>2, <1>4 DEF Control, Idle, Unused
<1>6. ASSUME NEW d \in calls' PROVE Tracked(d)' /\ Proper(d.rpc, d.pc)
  <2>1. d \in calls /\ d # c /\ Tracked(d) /\ Proper(d.rpc, d.pc) /\ d.vol \in Volumes
    BY <1>1, <1>6 DEF Control
  <2>2. CASE d.vol # c.vol
    BY <1>2, <2>1, <2>2 DEF Tracked
  <2>3. CASE d.vol = c.vol
    <3>1. ~d.live
      BY <2>1, <2>3 DEF Control, OneLive
    <3>2. /\ c.rpc = "stage" /\ d.rpc = "unstage" => d.vol \in crossed
          /\ c.rpc = "unstage" /\ d.rpc = "stage" => d.vol \in crossed
      BY <2>1, <2>3 DEF Control, Apart
    <3>3. d.rpc # "publish"
      BY <1>4, <2>1, <2>3 DEF Tracked
    <3> QED BY <1>2, <2>1, <2>3, <3>1, <3>2, <3>3 DEF Tracked
  <2> QED BY <2>2, <2>3
<1> QED BY <1>3, <1>5, <1>6 DEF Control

\* The CO is told the outcome of a publish or an unpublish call.
LEMMA PublishReturnControl ==
  ASSUME Control, NEW c \in calls, NEW s \in PublishState,
         \/ c.rpc = "publish" /\ s = "published"
         \/ c.rpc = "unpublish" /\ s = "none",
         calls' = calls \ {c}, kpub' = [kpub EXCEPT ![c.vol][c.pod] = s],
         UNCHANGED <<kstage, crossed, errors, losses>>
  PROVE  Control'
<1>1. /\ c.vol \in Volumes /\ c.pod \in Pods
      /\ kpub \in [Volumes -> [Pods -> PublishState]]
      /\ \A d \in calls : d.vol \in Volumes
  BY DEF Control, ControlTypes, Call, Tracked
<1>2. /\ kpub' \in [Volumes -> [Pods -> PublishState]]
      /\ \A v \in Volumes, p \in Pods :
           kpub'[v][p] = IF v = c.vol /\ p = c.pod THEN s ELSE kpub[v][p]
  BY <1>1, NestedUpdate
<1>3. ControlTypes' /\ OneLive' /\ OneLocked' /\ Apart'
  BY <1>2 DEF Control, ControlTypes, OneLive, OneLocked, Apart
<1>4. s # "none" => kstage[c.vol] = "staged"
  BY DEF Control, Tracked
<1>5. Idle'
  BY <1>1, <1>2, <1>4 DEF Control, Idle, Unused
<1>6. ASSUME NEW d \in calls' PROVE Tracked(d)' /\ Proper(d.rpc, d.pc)
  <2>1. d \in calls /\ d # c /\ Tracked(d) /\ Proper(d.rpc, d.pc) /\ d.vol \in Volumes
    BY <1>1, <1>6 DEF Control
  <2>2. d.rpc \in {"publish", "unpublish"} => d.vol # c.vol
    BY <2>1 DEF Control, OneLocked, Serialised
  <2>3. d.rpc \in {"publish", "unpublish"} => kpub'[d.vol][d.pod] = kpub[d.vol][d.pod]
    BY <1>2, <2>1, <2>2 DEF Tracked
  <2> QED BY <2>1, <2>3 DEF Tracked
<1> QED BY <1>3, <1>5, <1>6 DEF Control

\* Every step of a handler.
LEMMA HandlerControl ==
  ASSUME Control, NEW c \in calls, HandlerStep(c)
  PROVE  Control'
<1>0. /\ UNCHANGED <<crossed, errors, losses>>
      /\ errors \in 0..MaxErrors /\ losses \in 0..MaxLosses
  BY HandlerForm DEF Control, ControlTypes
<1>1. CASE GoesOn(c)
  <2>1. PICK pc \in PC : Proper(c.rpc, pc) /\ Goto(c, pc)
    BY <1>1 DEF GoesOn
  <2> QED BY <1>0, <2>1, GotoCalls, ReplacedControl DEF Control
<1>2. CASE ReturnError(c)
  BY <1>0, <1>2, DroppedControl DEF ReturnError, coVars
<1>3. ASSUME NEW s \in StageState, ReturnStage(c, s),
             \/ c.rpc = "stage" /\ s = "staged"
             \/ c.rpc = "unstage" /\ s = "unstaged"
      PROVE  Control'
  <2>1. CASE c.live
    BY <1>0, <1>3, <2>1, StageReturnControl DEF ReturnStage
  <2>2. CASE ~c.live
    BY <1>0, <1>3, <2>2, DroppedControl DEF ReturnStage
  <2> QED BY <2>1, <2>2
<1>4. ASSUME NEW s \in PublishState, ReturnPublish(c, s),
             \/ c.rpc = "publish" /\ s = "published"
             \/ c.rpc = "unpublish" /\ s = "none"
      PROVE  Control'
  <2>1. CASE c.live
    BY <1>0, <1>4, <2>1, PublishReturnControl DEF ReturnPublish
  <2>2. CASE ~c.live
    BY <1>0, <1>4, <2>2, DroppedControl DEF ReturnPublish
  <2> QED BY <2>1, <2>2
<1> QED BY <1>1, <1>2, <1>3, <1>4, HandlerForm DEF Returns, StageState, PublishState

\* The CO changes its mind about a volume: the handlers in flight, given-up
\* ones included, are still ones it accounts for.
LEMMA WantControl ==
  ASSUME Control, NEW v \in Volumes,
         \/ WantStage(v) \/ WantUnstage(v)
         \/ \E p \in Pods : WantPublish(v, p) \/ WantUnpublish(v, p)
  PROVE  Control'
<1>0. \A c \in calls : c.vol \in Volumes
  BY DEF Control, ControlTypes, Call
<1>a. ASSUME UNCHANGED <<kpub, calls, crossed, errors, losses>>,
             NEW s \in StageState, kstage' = [kstage EXCEPT ![v] = s],
             \/ kstage[v] = "unstaged" /\ s = "staging"
             \/ /\ kstage[v] \in {"staged", "staging"} /\ s = "unstaging"
                /\ Unused(v) /\ ~Waiting(v)
      PROVE  Control'
  <2>1. /\ kstage' \in [Volumes -> StageState] /\ kstage'[v] = s
        /\ \A w \in Volumes : w # v => kstage'[w] = kstage[w]
    BY <1>a DEF Control, ControlTypes
  <2>2. ControlTypes' /\ OneLive' /\ OneLocked' /\ Apart'
    BY <1>a, <2>1 DEF Control, ControlTypes, OneLive, OneLocked, Apart
  <2>3. Idle'
    BY <1>a, <2>1 DEF Control, Idle, Unused
  <2>4. ASSUME NEW c \in calls' PROVE Tracked(c)' /\ Proper(c.rpc, c.pc)
    <3>1. c \in calls /\ Tracked(c) /\ Proper(c.rpc, c.pc) /\ c.vol \in Volumes
      BY <1>0, <1>a, <2>4 DEF Control
    <3>2. CASE c.vol # v
      BY <1>a, <2>1, <3>1, <3>2 DEF Tracked
    <3>3. CASE c.vol = v
      BY <1>a, <2>1, <3>1, <3>3 DEF Tracked, Unused, Waiting
    <3> QED BY <3>1, <3>2, <3>3
  <2> QED BY <2>2, <2>3, <2>4 DEF Control
<1>b. ASSUME UNCHANGED <<kstage, calls, crossed, errors, losses>>,
             NEW p \in Pods, NEW s \in PublishState,
             kpub' = [kpub EXCEPT ![v][p] = s],
             \/ kstage[v] = "staged" /\ kpub[v][p] = "none" /\ s = "publishing"
             \/ kpub[v][p] \in {"published", "publishing"} /\ s = "unpublishing"
      PROVE  Control'
  <2>1. kpub \in [Volumes -> [Pods -> PublishState]]
    BY DEF Control, ControlTypes
  <2>2. /\ kpub' \in [Volumes -> [Pods -> PublishState]]
        /\ \A w \in Volumes, q \in Pods :
             kpub'[w][q] = IF w = v /\ q = p THEN s ELSE kpub[w][q]
    BY <1>b, <2>1, NestedUpdate
  <2>3. ControlTypes' /\ OneLive' /\ OneLocked' /\ Apart'
    BY <1>b, <2>2 DEF Control, ControlTypes, OneLive, OneLocked, Apart
  <2>4. Idle'
    <3>1. kstage[v] \notin {"unstaged", "unstaging"}
      BY <1>b DEF Control, Idle, Unused
    <3> QED BY <1>b, <2>2, <3>1 DEF Control, Idle, Unused
  <2>5. ASSUME NEW c \in calls' PROVE Tracked(c)' /\ Proper(c.rpc, c.pc)
    <3>1. c \in calls /\ Tracked(c) /\ Proper(c.rpc, c.pc) /\ c.vol \in Volumes
      BY <1>0, <1>b, <2>5 DEF Control
    <3>2. CASE c.vol = v /\ c.pod = p
      BY <1>b, <2>2, <3>1, <3>2 DEF Tracked
    <3>3. CASE ~(c.vol = v /\ c.pod = p)
      <4>1. c.pod \in Pods => kpub'[c.vol][c.pod] = kpub[c.vol][c.pod]
        BY <2>2, <3>1, <3>3
      <4> QED BY <1>b, <3>1, <4>1 DEF Tracked
    <3> QED BY <3>2, <3>3
  <2> QED BY <2>3, <2>4, <2>5 DEF Control
<1>1. CASE WantStage(v) \/ WantUnstage(v)
  BY <1>1, <1>a DEF WantStage, WantUnstage, StageState
<1>2. ASSUME NEW p \in Pods, WantPublish(v, p) \/ WantUnpublish(v, p) PROVE Control'
  BY <1>2, <1>b DEF WantPublish, WantUnpublish, PublishState
<1> QED BY <1>1, <1>2

\* What the start of a call changes: a handler e, which starts with nothing
\* found out, joins the ones in flight, and may cross one of them.
Started(e, v) ==
  /\ e \in Call /\ e.vol = v /\ e.live
  /\ e.pc \in {"StageStat", "PublishCheck", "UnpublishStat", "UnstageList"}
  /\ Proper(e.rpc, e.pc) /\ Tracked(e)
  /\ calls' = calls \cup {e}
  /\ ~Waiting(v) /\ SerialVolAccess(v, e.rpc)
  /\ crossed' = IF \E c \in calls : Crosses(c, v, e.rpc)
                THEN crossed \cup {v} ELSE crossed
  /\ e.rpc \notin {"stage", "unstage"} => crossed' = crossed
  /\ UNCHANGED <<fsVars, kstage, kpub, errors, losses>>

\* Every start of a call is of that form.
LEMMA BeginForm ==
  ASSUME Control, NEW v \in Volumes,
         \/ BeginStage(v) \/ BeginUnstage(v)
         \/ \E p \in Pods : BeginPublish(v, p) \/ BeginUnpublish(v, p)
  PROVE  \E e : Started(e, v)
<1>a. ASSUME NEW p \in Pods \cup {NoPod}, NEW rpc \in RPC, NEW pc \in PC,
             Begin(v, p, rpc, pc)
      PROVE  \E e \in Call :
               /\ e.vol = v /\ e.live /\ e.pod = p /\ e.pc = pc /\ e.rpc = rpc
               /\ calls' = calls \cup {e}
  <2> DEFINE e == [rpc |-> rpc, vol |-> v, pod |-> p, pc |-> pc,
                   live |-> TRUE, lost |-> 0]
  <2>1. e \in Call /\ e.vol = v /\ e.live /\ e.pod = p /\ e.pc = pc /\ e.rpc = rpc
    BY <1>a, NodeConstantsAssumption DEF Call
  <2>2. calls' = calls \cup {e}
    BY <1>a DEF Begin
  <2> HIDE DEF e
  <2> QED BY <2>1, <2>2
<1>b. ASSUME NEW p, NEW rpc, NEW pc, Begin(v, p, rpc, pc)
      PROVE  /\ ~Waiting(v) /\ SerialVolAccess(v, rpc)
             /\ crossed' = IF \E c \in calls : Crosses(c, v, rpc)
                           THEN crossed \cup {v} ELSE crossed
             /\ rpc \notin {"stage", "unstage"} => crossed' = crossed
             /\ UNCHANGED <<fsVars, kstage, kpub, errors, losses>>
  <2>1. rpc \notin {"stage", "unstage"} => ~\E c \in calls : Crosses(c, v, rpc)
    BY DEF Crosses
  <2> QED BY <1>b, <2>1 DEF Begin, coVars
<1>1. CASE BeginStage(v)
  <2>1. Begin(v, NoPod, "stage", "StageStat") /\ kstage[v] = "staging"
    BY <1>1 DEF BeginStage
  <2>2. PICK e \in Call : /\ e.vol = v /\ e.live /\ e.pc = "StageStat" /\ e.rpc = "stage"
                          /\ calls' = calls \cup {e}
    BY <1>a, <2>1 DEF RPC, PC, StagePC
  <2>3. Proper(e.rpc, e.pc) /\ Tracked(e)
    BY <2>1, <2>2 DEF Proper, StagePC, Tracked
  <2> QED BY <1>b, <2>1, <2>2, <2>3 DEF Started
<1>2. CASE BeginUnstage(v)
  <2>1. Begin(v, NoPod, "unstage", "UnstageList") /\ kstage[v] = "unstaging"
    BY <1>2 DEF BeginUnstage
  <2>2. PICK e \in Call : /\ e.vol = v /\ e.live /\ e.pc = "UnstageList" /\ e.rpc = "unstage"
                          /\ calls' = calls \cup {e}
    BY <1>a, <2>1 DEF RPC, PC, UnstagePC
  <2>3. Proper(e.rpc, e.pc) /\ Tracked(e)
    BY <2>1, <2>2 DEF Proper, UnstagePC, Tracked
  <2> QED BY <1>b, <2>1, <2>2, <2>3 DEF Started
<1>3. ASSUME NEW p \in Pods, BeginPublish(v, p) PROVE \E e : Started(e, v)
  <2>1. /\ Begin(v, p, "publish", "PublishCheck")
        /\ kstage[v] = "staged" /\ kpub[v][p] = "publishing"
    BY <1>3 DEF BeginPublish
  <2>2. PICK e \in Call : /\ e.vol = v /\ e.live /\ e.pod = p
                          /\ e.pc = "PublishCheck" /\ e.rpc = "publish"
                          /\ calls' = calls \cup {e}
    BY <1>a, <2>1 DEF RPC, PC, PublishPC
  <2>3. Proper(e.rpc, e.pc) /\ Tracked(e)
    BY <2>1, <2>2 DEF Proper, PublishPC, Tracked
  <2> QED BY <1>b, <2>1, <2>2, <2>3 DEF Started
<1>4. ASSUME NEW p \in Pods, BeginUnpublish(v, p) PROVE \E e : Started(e, v)
  <2>1. Begin(v, p, "unpublish", "UnpublishStat") /\ kpub[v][p] = "unpublishing"
    BY <1>4 DEF BeginUnpublish
  <2>2. PICK e \in Call : /\ e.vol = v /\ e.live /\ e.pod = p
                          /\ e.pc = "UnpublishStat" /\ e.rpc = "unpublish"
                          /\ calls' = calls \cup {e}
    BY <1>a, <2>1 DEF RPC, PC, UnpublishPC
  <2>3. Proper(e.rpc, e.pc) /\ Tracked(e)
    BY <2>1, <2>2 DEF Proper, UnpublishPC, Tracked
  <2> QED BY <1>b, <2>1, <2>2, <2>3 DEF Started
<1> QED BY <1>1, <1>2, <1>3, <1>4

\* A call starts when the CO waits for no other of its volume, and a publish
\* or unpublish call when no other of them runs.
LEMMA BeginControl ==
  ASSUME Control, NEW v \in Volumes, NEW e, Started(e, v)
  PROVE  Control'
<1>0. /\ crossed \subseteq crossed' /\ crossed' \subseteq Volumes
      /\ e \in Call /\ e.vol = v /\ e.live /\ calls' = calls \cup {e}
      /\ UNCHANGED <<kstage, kpub, errors, losses>>
      /\ Proper(e.rpc, e.pc) /\ Tracked(e)
  BY DEF Started, Control, ControlTypes
<1>1. ControlTypes'
  BY <1>0 DEF Control, ControlTypes
<1>2. OneLive'
  BY <1>0 DEF Control, OneLive, Started, Waiting
<1>3. OneLocked'
  BY <1>0 DEF Control, OneLocked, Started, SerialVolAccess
<1>4. Apart'
  <2>1. ASSUME NEW c \in calls, c.vol = v, \/ c.rpc = "stage" /\ e.rpc = "unstage"
                                           \/ c.rpc = "unstage" /\ e.rpc = "stage"
        PROVE  v \in crossed'
    <3>1. Crosses(c, v, e.rpc)
      BY <2>1 DEF Crosses
    <3> QED BY <3>1 DEF Started
  <2> QED BY <1>0, <2>1 DEF Control, Apart
<1>5. Idle'
  BY <1>0 DEF Control, Idle, Unused
<1>6. \A d \in calls' : Tracked(d)' /\ Proper(d.rpc, d.pc)
  BY <1>0 DEF Control, Tracked
<1> QED BY <1>1, <1>2, <1>3, <1>4, <1>5, <1>6 DEF Control

\* A handler whose caller gave up goes on as before.
LEMMA AbandonForm ==
  ASSUME ControlTypes, NEW c \in calls, Abandon(c)
  PROVE  /\ \E e \in Call :
              /\ calls' = (calls \ {c}) \cup {e}
              /\ e.vol = c.vol /\ e.pod = c.pod /\ e.rpc = c.rpc /\ e.pc = c.pc
              /\ ~e.live
         /\ UNCHANGED <<fsVars, kstage, kpub, crossed, errors>>
         /\ losses' \in 0..MaxLosses
<1> DEFINE e == [c EXCEPT !.live = FALSE, !.lost = losses + 1]
<1>1. losses + 1 \in 0..MaxLosses
  BY NodeConstantsAssumption DEF Abandon, Loss, ControlTypes
<1>2. /\ e \in Call /\ e.vol = c.vol /\ e.pod = c.pod /\ e.rpc = c.rpc /\ e.pc = c.pc
      /\ e.live = FALSE
  BY <1>1 DEF ControlTypes, Call
<1>3. /\ calls' = (calls \ {c}) \cup {e}
      /\ UNCHANGED <<fsVars, kstage, kpub, crossed, errors>>
      /\ losses' \in 0..MaxLosses
  BY <1>1 DEF Abandon, Loss, coVars
<1> HIDE DEF e
<1> QED BY <1>2, <1>3

\* A reboot takes the handlers away, and the CO starts over.
LEMMA RebootControl == ASSUME Control, Reboot PROVE Control'
<1>1. calls' = {} /\ crossed' = {} /\ errors' = errors /\ losses' \in 0..MaxLosses
  BY NodeConstantsAssumption DEF Reboot, Loss, Control, ControlTypes
<1>2. /\ kstage' \in [Volumes -> StageState]
      /\ \A v \in Volumes : kstage'[v] \in {"unstaged", "unstaging"} =>
                              kstage[v] \in {"unstaged", "unstaging"}
  BY DEF Reboot, Control, ControlTypes, StageState
<1>3. /\ kpub' \in [Volumes -> [Pods -> PublishState]]
      /\ \A v \in Volumes, p \in Pods : kpub[v][p] = "none" => kpub'[v][p] = "none"
  BY DEF Reboot, Control, ControlTypes, PublishState
<1>4. ControlTypes' /\ OneLive' /\ OneLocked' /\ Apart'
  BY <1>1, <1>2, <1>3 DEF Control, ControlTypes, OneLive, OneLocked, Apart
<1>5. Idle'
  BY <1>2, <1>3 DEF Control, Idle, Unused
<1> QED BY <1>1, <1>4, <1>5 DEF Control

\* Devices come and go, calls fail and the driver restarts.
LEMMA FaultForm ==
  ASSUME ControlTypes,
         \/ \E v \in Volumes : DeviceAppears(v) \/ DeviceVanishes(v)
         \/ \E c \in calls : CallFails(c)
         \/ Restart
  PROVE  /\ calls' \subseteq calls /\ UNCHANGED <<kstage, kpub, crossed>>
         /\ errors' \in 0..MaxErrors /\ losses' \in 0..MaxLosses
         /\ UNCHANGED <<sdir, smnt, tdir, tmnt, wiped>>
         /\ \/ dev' = dev
            \/ \E v \in Volumes : DeviceAppears(v) \/ DeviceVanishes(v)
<1>1. ASSUME NEW v \in Volumes, DeviceAppears(v) \/ DeviceVanishes(v)
      PROVE  /\ calls' = calls
             /\ UNCHANGED <<sdir, smnt, tdir, tmnt, wiped, kstage, kpub, crossed, errors, losses>>
  BY <1>1 DEF DeviceAppears, DeviceVanishes, coVars
<1>2. ASSUME NEW c \in calls, CallFails(c)
      PROVE  /\ calls' \subseteq calls /\ UNCHANGED <<fsVars, kstage, kpub, crossed, losses>>
             /\ errors' \in 0..MaxErrors
  BY <1>2, NodeConstantsAssumption DEF CallFails, ReturnError, coVars, ControlTypes
<1>3. ASSUME Restart
      PROVE  /\ calls' \subseteq calls /\ UNCHANGED <<fsVars, kstage, kpub, crossed, errors>>
             /\ losses' \in 0..MaxLosses
  BY <1>3, NodeConstantsAssumption DEF Restart, Loss, coVars, ControlTypes
<1> QED BY <1>1, <1>2, <1>3 DEF fsVars, ControlTypes

\* Every step preserves the first layer.
LEMMA ControlStep == ASSUME Control, [Next]_vars PROVE Control'
<1>1. CASE UNCHANGED vars
  BY <1>1, DroppedControl DEF vars, Control, ControlTypes
<1>2. ASSUME NEW c \in calls, Abandon(c) PROVE Control'
  BY <1>2, AbandonForm, ReplacedControl DEF Control
<1>3. ASSUME NEW v \in Volumes,
             \/ BeginStage(v) \/ BeginUnstage(v)
             \/ \E p \in Pods : BeginPublish(v, p) \/ BeginUnpublish(v, p)
      PROVE  Control'
  BY <1>3, BeginForm, BeginControl
<1>4. ASSUME \/ \E v \in Volumes : DeviceAppears(v) \/ DeviceVanishes(v)
             \/ \E c \in calls : CallFails(c)
             \/ Restart
      PROVE  Control'
  BY <1>4, FaultForm, DroppedControl DEF Control
<1>5. CASE Next
  BY <1>2, <1>3, <1>4, <1>5, HandlerControl, WantControl, RebootControl DEF Next
<1> QED BY <1>1, <1>5

------------------------------------------------------------------------------
(* The second layer.                                                       *)

\* Nothing of volume v changes in the mount table and in the CO's view.
SameFor(v) ==
  /\ v \in smnt' <=> v \in smnt
  /\ tmnt'[v] = tmnt[v] /\ kstage'[v] = kstage[v] /\ kpub'[v] = kpub[v]

\* Then v stays clean, if the handlers that are new know what they rely on.
LEMMA CleanKept ==
  ASSUME NEW v, Clean(v), SameFor(v),
         \A d \in calls' : d.vol = v => d \in calls \/ Checked(d)'
  PROVE  Clean(v)'
<1>1. StagingAgrees(v)' /\ \A p \in Pods : PublishingAgrees(v, p)'
  BY DEF Clean, SameFor, StagingAgrees, PublishingAgrees
<1>2. \A d \in calls' : d.vol = v => Checked(d)'
  BY DEF Clean, SameFor, Checked
<1> QED BY <1>1, <1>2 DEF Clean

\* A handler's step concerns its own volume only.
LEMMA Local ==
  ASSUME Control, Table, TableTypes', NEW c \in calls,
         \A v \in Volumes : v # c.vol => SameFor(v),
         \A d \in calls' : d \in calls \/ d.vol = c.vol,
         crossed' = crossed, c.vol \notin crossed => Clean(c.vol)'
  PROVE  Table'
<1>1. ASSUME NEW v \in Volumes, v \notin crossed, v # c.vol PROVE Clean(v)'
  BY <1>1, CleanKept DEF Table
<1> QED BY <1>1 DEF Table

\* What is known of a handler and of its volume before its step.
LEMMA Before ==
  ASSUME Control, Table, NEW c \in calls
  PROVE  /\ c \in Call /\ c.vol \in Volumes /\ c.live \in BOOLEAN
         /\ Tracked(c) /\ Proper(c.rpc, c.pc)
         /\ kstage \in [Volumes -> StageState]
         /\ kpub \in [Volumes -> [Pods -> PublishState]]
         /\ tmnt \in [Volumes -> [Pods -> Seq(MountView)]]
         /\ c.vol \notin crossed =>
              /\ Clean(c.vol) /\ Checked(c) /\ StagingAgrees(c.vol)
              /\ \A p \in Pods : PublishingAgrees(c.vol, p)
BY DEF Control, ControlTypes, Table, TableTypes, Call, Clean

\* A handler that goes on, or returns an error, and changes no mount.
LEMMA QuietTable ==
  ASSUME Control, Table, NEW c \in calls, UNCHANGED <<smnt, tmnt, crossed>>,
         TableTypes',
         \/ ReturnError(c)
         \/ \E pc \in PC :
              /\ Goto(c, pc) /\ pc # "UnstageRemove"
              /\ c.vol \notin crossed =>
                   /\ pc \in {"PublishMkdir", "PublishMount", "UnpublishRemove"} =>
                        tmnt[c.vol][c.pod] = <<>>
                   /\ pc = "UnpublishUnmount" => tmnt[c.vol][c.pod] = <<"volume">>
  PROVE  Table'
<1>1. CASE ReturnError(c)
  <2>1. calls' \subseteq calls /\ \A v \in Volumes : SameFor(v)
    BY <1>1 DEF ReturnError, coVars, SameFor
  <2> QED BY <2>1, CleanKept DEF Table
<1>2. ASSUME NEW pc \in PC, Goto(c, pc), pc # "UnstageRemove",
             c.vol \notin crossed =>
               /\ pc \in {"PublishMkdir", "PublishMount", "UnpublishRemove"} =>
                    tmnt[c.vol][c.pod] = <<>>
               /\ pc = "UnpublishUnmount" => tmnt[c.vol][c.pod] = <<"volume">>
      PROVE  Table'
  <2>1. PICK e \in Call :
          /\ calls' = (calls \ {c}) \cup {e} /\ e.vol = c.vol /\ e.pod = c.pod
          /\ e.pc = pc /\ e.rpc = c.rpc
    BY <1>2, GotoCalls DEF Control
  <2>2. \A v \in Volumes : SameFor(v)
    BY <1>2, GotoCalls DEF Control, SameFor
  <2>3. c.vol \notin crossed => Checked(e)'
    BY <1>2, <2>1, <2>2, Before DEF Checked, SameFor
  <2>4. c.vol \notin crossed => Clean(c.vol)'
    BY <2>1, <2>2, <2>3, Before, CleanKept
  <2> QED BY <2>1, <2>2, <2>4, Local
<1> QED BY <1>1, <1>2

\* NodeStageVolume, given up or not: nothing waits for the staging path to be
\* unmounted, and the CO does not believe that it is.
LEMMA StageTable ==
  ASSUME Control, Table, NEW c \in calls, UNCHANGED crossed,
         StageStat(c) \/ StageCheck(c) \/ StageMkdir(c) \/ StageMount(c)
  PROVE  Table'
<1>0. c.pc \in StagePC /\ c.rpc = "stage"
  BY Before DEF StageStat, StageCheck, StageMkdir, StageMount, Proper,
                StagePC, PublishPC, UnpublishPC, UnstagePC
<1>a. ASSUME ReturnStage(c, "staged"), smnt' = smnt \cup {c.vol},
             UNCHANGED <<dev, sdir, tdir, tmnt, wiped>>
      PROVE  Table'
  <2>1. /\ calls' = calls \ {c} /\ UNCHANGED kpub
        /\ kstage' = kstage \/ kstage' = [kstage EXCEPT ![c.vol] = "staged"]
    BY <1>a DEF ReturnStage
  <2>2. TableTypes'
    BY <1>a, Before DEF Table, TableTypes
  <2>3. \A v \in Volumes : v # c.vol => SameFor(v)
    BY <1>a, <2>1, Before DEF SameFor
  <2>4. kstage'[c.vol] = kstage[c.vol] \/ kstage'[c.vol] = "staged"
    BY <2>1, Before
  <2>5. ASSUME c.vol \notin crossed PROVE Clean(c.vol)'
    <3>1. StagingAgrees(c.vol)'
      BY <1>0, <1>a, <2>4, <2>5, Before DEF StagingAgrees, Tracked
    <3>2. \A p \in Pods : PublishingAgrees(c.vol, p)'
      BY <1>a, <2>1, <2>5, Before DEF PublishingAgrees
    <3>3. ASSUME NEW d \in calls', d.vol = c.vol PROVE Checked(d)'
      <4>1. d \in calls /\ Checked(d) /\ Proper(d.rpc, d.pc)
        BY <2>1, <2>5, <3>3, Before DEF Clean, Control
      <4>2. d.rpc # "unstage"
        BY <1>0, <2>5, <3>3, <4>1 DEF Control, Apart
      <4>3. d.pc # "UnstageRemove"
        BY <4>1, <4>2 DEF Proper, StagePC, PublishPC, UnpublishPC
      <4> QED BY <1>a, <4>1, <4>2, <4>3 DEF Checked
    <3> QED BY <3>1, <3>2, <3>3 DEF Clean
  <2> QED BY <1>a, <2>1, <2>2, <2>3, <2>5, Local
<1>1. CASE StageStat(c)
  BY <1>1, QuietTable DEF StageStat, fsVars, Table, TableTypes, PC, StagePC
<1>2. CASE StageCheck(c)
  <2>1. CASE c.vol \notin smnt
    BY <1>2, <2>1, QuietTable DEF StageCheck, fsVars, Table, TableTypes, PC, StagePC
  <2>2. CASE c.vol \in smnt
    BY <1>2, <2>2, <1>a DEF StageCheck, fsVars
  <2> QED BY <2>1, <2>2
<1>3. CASE StageMkdir(c)
  <2>1. TableTypes'
    BY <1>3, Before DEF StageMkdir, Table, TableTypes
  <2> QED BY <1>3, <2>1, QuietTable DEF StageMkdir, PC, StagePC
<1>4. CASE StageMount(c)
  <2>1. CASE ReturnError(c) /\ UNCHANGED smnt
    BY <1>4, <2>1, QuietTable DEF StageMount, Table, TableTypes
  <2>2. CASE smnt' = smnt \cup {c.vol} /\ ReturnStage(c, "staged")
    BY <1>4, <1>a, <2>2 DEF StageMount
  <2> QED BY <1>4, <2>1, <2>2 DEF StageMount
<1> QED BY <1>1, <1>2, <1>3, <1>4

\* No other handler of the volume is about to change, or relies on, what is
\* mounted for a pod.
LEMMA LockHeld ==
  ASSUME Control, Table, NEW c \in calls, c.rpc \in Serialised, c.vol \notin crossed,
         NEW d \in calls \ {c}, d.vol = c.vol, smnt' = smnt,
         kstage'[c.vol] = kstage[c.vol]
  PROVE  Checked(d)'
<1>1. Checked(d) /\ Proper(d.rpc, d.pc) /\ d.rpc \notin Serialised
  BY Before DEF Control, OneLocked
<1>2. /\ d.pc \notin {"PublishMkdir", "PublishMount", "UnpublishRemove"}
      /\ d.pc # "UnpublishUnmount"
  BY <1>1 DEF Proper, Serialised, StagePC, UnstagePC
<1> QED BY <1>1, <1>2 DEF Checked

\* NodePublishVolume: the staging path is mounted as long as a publish
\* handler runs, so what it binds is the volume, and it binds it once.
LEMMA PublishTable ==
  ASSUME Control, Table, NEW c \in calls, UNCHANGED crossed,
         PublishCheck(c) \/ PublishMkdir(c) \/ PublishMount(c)
  PROVE  Table'
<1>0. /\ c.pc \in PublishPC /\ c.rpc = "publish" /\ c.pod \in Pods
      /\ c.vol \in Volumes /\ kstage[c.vol] = "staged"
      /\ c.vol \notin crossed => c.vol \in smnt
  BY Before DEF PublishCheck, PublishMkdir, PublishMount, Proper, Tracked, StagingAgrees,
                StagePC, PublishPC, UnpublishPC, UnstagePC
<1>a. ASSUME ReturnPublish(c, "published"), NEW x \in Seq(MountView),
             tmnt' = [tmnt EXCEPT ![c.vol][c.pod] = x],
             c.vol \notin crossed => x = <<"volume">>,
             UNCHANGED <<dev, sdir, smnt, tdir, wiped>>
      PROVE  Table'
  <2>1. /\ calls' = calls \ {c} /\ UNCHANGED kstage
        /\ kpub' = kpub \/ kpub' = [kpub EXCEPT ![c.vol][c.pod] = "published"]
    BY <1>a DEF ReturnPublish
  <2>2. /\ tmnt' \in [Volumes -> [Pods -> Seq(MountView)]]
        /\ \A v \in Volumes : v # c.vol => tmnt'[v] = tmnt[v]
        /\ \A p \in Pods : tmnt'[c.vol][p] = IF p = c.pod THEN x ELSE tmnt[c.vol][p]
    BY <1>0, <1>a, Before, NestedUpdate
  <2>3. /\ \A v \in Volumes : v # c.vol => kpub'[v] = kpub[v]
        /\ \A p \in Pods : \/ kpub'[c.vol][p] = kpub[c.vol][p]
                           \/ p = c.pod /\ kpub'[c.vol][p] = "published"
    BY <1>0, <2>1, Before
  <2>4. TableTypes' /\ \A v \in Volumes : v # c.vol => SameFor(v)
    BY <1>a, <2>1, <2>2, <2>3 DEF Table, TableTypes, SameFor
  <2>5. ASSUME c.vol \notin crossed PROVE Clean(c.vol)'
    <3>1. StagingAgrees(c.vol)'
      BY <1>a, <2>1, <2>5, Before DEF StagingAgrees
    <3>2. kpub'[c.vol][c.pod] # "none"
      BY <1>0, <2>3, Before DEF Tracked
    <3>3. \A p \in Pods : PublishingAgrees(c.vol, p)'
      BY <1>0, <1>a, <2>2, <2>3, <2>5, <3>2, Before DEF PublishingAgrees
    <3>4. \A d \in calls' : d.vol = c.vol => Checked(d)'
      BY <1>0, <1>a, <2>1, <2>5, LockHeld DEF Serialised
    <3> QED BY <3>1, <3>3, <3>4 DEF Clean
  <2> QED BY <2>1, <2>4, <2>5, Local
<1>1. CASE PublishCheck(c)
  <2>1. c.vol \notin crossed => PublishingAgrees(c.vol, c.pod)
    BY <1>0, Before
  <2>2. CASE LikelyMountPoint(tmnt[c.vol][c.pod])
    <3>1. c.vol \notin crossed => tmnt[c.vol][c.pod] = <<"volume">>
      BY <2>1, <2>2 DEF LikelyMountPoint, PublishingAgrees
    <3>2. /\ tmnt[c.vol][c.pod] \in Seq(MountView)
          /\ tmnt = [tmnt EXCEPT ![c.vol][c.pod] = tmnt[c.vol][c.pod]]
      BY <1>0, Before
    <3> QED BY <1>1, <1>a, <2>2, <3>1, <3>2 DEF PublishCheck, fsVars
  <2>3. CASE ~LikelyMountPoint(tmnt[c.vol][c.pod])
    <3>1. c.vol \notin crossed => tmnt[c.vol][c.pod] = <<>>
      BY <2>1, <2>3 DEF LikelyMountPoint, PublishingAgrees
    <3>2. PICK pc \in {"PublishMount", "PublishMkdir"} : Goto(c, pc)
      BY <1>1, <2>3 DEF PublishCheck
    <3> QED
      BY <1>1, <3>1, <3>2, QuietTable
      DEF PublishCheck, fsVars, Table, TableTypes, PC, PublishPC
  <2> QED BY <2>2, <2>3
<1>2. CASE PublishMkdir(c)
  <2>1. c.vol \notin crossed => tmnt[c.vol][c.pod] = <<>>
    BY <1>2, Before DEF PublishMkdir, Checked
  <2>2. TableTypes'
    BY <1>0, <1>2 DEF PublishMkdir, Table, TableTypes
  <2> QED BY <1>2, <2>1, <2>2, QuietTable DEF PublishMkdir, PC, PublishPC
<1>3. CASE PublishMount(c)
  <2>1. c.vol \notin crossed => tmnt[c.vol][c.pod] = <<>>
    BY <1>3, Before DEF PublishMount, Checked
  <2>2. CASE c.vol \in sdir /\ c.pod \in tdir[c.vol]
    <3> DEFINE view == IF c.vol \in smnt THEN "volume" ELSE "rootfs"
               s == tmnt[c.vol][c.pod]
    <3>1. /\ tmnt' = [tmnt EXCEPT ![c.vol][c.pod] = <<view>> \o s]
          /\ ReturnPublish(c, "published")
      BY <1>3, <2>2 DEF PublishMount
    <3>2. s \in Seq(MountView) /\ view \in MountView
      BY <1>0, Before DEF MountView
    <3>3. <<view>> \o s \in Seq(MountView)
      <4> HIDE DEF view, s
      <4> QED BY <3>2
    <3>4. c.vol \notin crossed => <<view>> \o s = <<"volume">>
      <4>1. <<"volume">> \o <<>> = <<"volume">>
        OBVIOUS
      <4> QED BY <1>0, <2>1, <4>1
    <3> HIDE DEF view, s
    <3> QED BY <1>3, <1>a, <3>1, <3>3, <3>4 DEF PublishMount
  <2>3. CASE ~(c.vol \in sdir /\ c.pod \in tdir[c.vol])
    BY <1>3, <2>3, QuietTable DEF PublishMount, Table, TableTypes
  <2> QED BY <2>2, <2>3
<1> QED BY <1>1, <1>2, <1>3

\* NodeUnpublishVolume: what the check saw is still there when the handler
\* unmounts, and nothing is mounted again before it removes the directory.
LEMMA UnpublishTable ==
  ASSUME Control, Table, NEW c \in calls, UNCHANGED crossed,
         \/ UnpublishStat(c) \/ UnpublishCheck(c)
         \/ UnpublishUnmount(c) \/ UnpublishRemove(c)
  PROVE  Table'
<1>0. /\ c.pc \in UnpublishPC /\ c.rpc = "unpublish" /\ c.pod \in Pods
      /\ c.vol \in Volumes /\ kpub[c.vol][c.pod] = "unpublishing"
      /\ c.vol \notin crossed => PublishingAgrees(c.vol, c.pod)
  BY Before DEF UnpublishStat, UnpublishCheck, UnpublishUnmount, UnpublishRemove, Proper,
                Tracked, StagePC, PublishPC, UnpublishPC, UnstagePC
<1>1. CASE UnpublishStat(c)
  <2>1. CASE Goto(c, "UnpublishCheck")
    <3>1. TableTypes' /\ UNCHANGED <<smnt, tmnt>> /\ "UnpublishCheck" \in PC
      BY <1>1 DEF UnpublishStat, fsVars, Table, TableTypes, PC, UnpublishPC
    <3> QED BY <2>1, <3>1, QuietTable
  <2>2. CASE ReturnError(c)
    BY <1>1, <2>2, QuietTable DEF UnpublishStat, fsVars, Table, TableTypes
  <2> QED BY <1>1, <2>1, <2>2 DEF UnpublishStat
<1>2. CASE UnpublishCheck(c)
  <2>1. CASE LikelyMountPoint(tmnt[c.vol][c.pod])
    <3>1. c.vol \notin crossed => tmnt[c.vol][c.pod] = <<"volume">>
      BY <1>0, <2>1 DEF LikelyMountPoint, PublishingAgrees
    <3> QED
      BY <1>2, <2>1, <3>1, QuietTable
      DEF UnpublishCheck, fsVars, Table, TableTypes, PC, UnpublishPC
  <2>2. CASE ~LikelyMountPoint(tmnt[c.vol][c.pod])
    <3>1. c.vol \notin crossed => tmnt[c.vol][c.pod] = <<>>
      BY <1>0, <2>2 DEF LikelyMountPoint, PublishingAgrees
    <3> QED
      BY <1>2, <2>2, <3>1, QuietTable
      DEF UnpublishCheck, fsVars, Table, TableTypes, PC, UnpublishPC
  <2> QED BY <2>1, <2>2
<1>3. CASE UnpublishUnmount(c)
  <2>1. CASE tmnt[c.vol][c.pod] = <<>>
    BY <1>3, <2>1, QuietTable DEF UnpublishUnmount, Table, TableTypes
  <2>2. CASE tmnt[c.vol][c.pod] # <<>>
    <3> DEFINE x == Tail(tmnt[c.vol][c.pod])
    <3>1. /\ tmnt' = [tmnt EXCEPT ![c.vol][c.pod] = x]
          /\ Goto(c, "UnpublishRemove")
          /\ UNCHANGED <<dev, sdir, smnt, tdir, wiped>>
      BY <1>3, <2>2 DEF UnpublishUnmount
    <3>2. tmnt[c.vol][c.pod] \in Seq(MountView)
      BY <1>0, Before
    <3>3. x \in Seq(MountView)
      BY <2>2, <3>2
    <3>4. c.vol \notin crossed => x = <<>>
      <4>1. c.vol \notin crossed => tmnt[c.vol][c.pod] = <<"volume">>
        BY <1>3, Before DEF UnpublishUnmount, Checked
      <4>2. Tail(<<"volume">>) = <<>>
        OBVIOUS
      <4> QED BY <4>1, <4>2
    <3> HIDE DEF x
    <3>5. PICK e \in Call :
            /\ calls' = (calls \ {c}) \cup {e} /\ e.vol = c.vol /\ e.pod = c.pod
            /\ e.pc = "UnpublishRemove" /\ e.rpc = c.rpc
      BY <3>1, GotoCalls DEF Control, PC, UnpublishPC
    <3>6. UNCHANGED <<kstage, kpub>>
      BY <3>1, GotoCalls DEF Control, PC, UnpublishPC
    <3>7. /\ tmnt' \in [Volumes -> [Pods -> Seq(MountView)]]
          /\ \A v \in Volumes : v # c.vol => tmnt'[v] = tmnt[v]
          /\ \A p \in Pods : tmnt'[c.vol][p] = IF p = c.pod THEN x ELSE tmnt[c.vol][p]
      BY <1>0, <3>1, <3>3, Before, NestedUpdate
    <3>8. TableTypes' /\ \A v \in Volumes : v # c.vol => SameFor(v)
      BY <3>1, <3>6, <3>7 DEF Table, TableTypes, SameFor
    <3>9. ASSUME c.vol \notin crossed PROVE Clean(c.vol)'
      <4>1. StagingAgrees(c.vol)'
        BY <3>1, <3>6, <3>9, Before DEF StagingAgrees
      <4>2. \A p \in Pods : PublishingAgrees(c.vol, p)'
        BY <1>0, <3>1, <3>4, <3>6, <3>7, <3>9, Before DEF PublishingAgrees
      <4>3. \A d \in calls \ {c} : d.vol = c.vol => Checked(d)'
        BY <1>0, <3>1, <3>6, <3>9, LockHeld DEF Serialised
      <4>4. Checked(e)'
        BY <1>0, <3>4, <3>5, <3>7, <3>9 DEF Checked
      <4> QED BY <3>5, <4>1, <4>2, <4>3, <4>4 DEF Clean
    <3> QED BY <3>5, <3>8, <3>9, Local
  <2> QED BY <2>1, <2>2
<1>4. CASE UnpublishRemove(c)
  <2>1. CASE tmnt[c.vol][c.pod] # <<>>
    <3>1. TableTypes'
      BY <1>0, <1>4, <2>1 DEF UnpublishRemove, Table, TableTypes
    <3> QED BY <1>4, <2>1, <3>1, QuietTable DEF UnpublishRemove
  <2>2. CASE tmnt[c.vol][c.pod] = <<>>
    <3>1. /\ tdir' = [tdir EXCEPT ![c.vol] = @ \ {c.pod}]
          /\ calls' = calls \ {c} /\ UNCHANGED kstage
          /\ kpub' = kpub \/ kpub' = [kpub EXCEPT ![c.vol][c.pod] = "none"]
          /\ UNCHANGED <<dev, sdir, smnt, tmnt, wiped>>
      BY <1>4, <2>2 DEF UnpublishRemove, ReturnPublish
    <3>2. /\ \A v \in Volumes : v # c.vol => kpub'[v] = kpub[v]
          /\ \A p \in Pods : \/ kpub'[c.vol][p] = kpub[c.vol][p]
                             \/ p = c.pod /\ kpub'[c.vol][p] = "none"
      BY <1>0, <3>1, Before
    <3>3. TableTypes' /\ \A v \in Volumes : v # c.vol => SameFor(v)
      BY <1>0, <3>1, <3>2 DEF Table, TableTypes, SameFor
    <3>4. ASSUME c.vol \notin crossed PROVE Clean(c.vol)'
      <4>1. StagingAgrees(c.vol)'
        BY <3>1, <3>4, Before DEF StagingAgrees
      <4>2. \A p \in Pods : PublishingAgrees(c.vol, p)'
        BY <2>2, <3>1, <3>2, <3>4, Before DEF PublishingAgrees
      <4>3. \A d \in calls' : d.vol = c.vol => Checked(d)'
        BY <1>0, <3>1, <3>4, LockHeld DEF Serialised
      <4> QED BY <4>1, <4>2, <4>3 DEF Clean
    <3> QED BY <3>1, <3>3, <3>4, Local
  <2> QED BY <2>1, <2>2
<1> QED BY <1>1, <1>2, <1>3, <1>4

\* NodeUnstageVolume: no pod uses the volume, and nothing is mounted at the
\* staging path again before its directory is removed.
LEMMA UnstageTable ==
  ASSUME Control, Table, NEW c \in calls, UNCHANGED crossed,
         UnstageList(c) \/ UnstageUnmount(c) \/ UnstageRemove(c)
  PROVE  Table'
<1>0. c.pc \in UnstagePC /\ c.rpc = "unstage" /\ c.vol \in Volumes
  BY Before DEF UnstageList, UnstageUnmount, UnstageRemove, Proper,
                StagePC, PublishPC, UnpublishPC, UnstagePC
<1>1. CASE UnstageList(c)
  <2>1. CASE Goto(c, "UnstageUnmount")
    <3>1. TableTypes' /\ UNCHANGED <<smnt, tmnt>> /\ "UnstageUnmount" \in PC
      BY <1>1 DEF UnstageList, fsVars, Table, TableTypes, PC, UnstagePC
    <3> QED BY <2>1, <3>1, QuietTable
  <2>2. CASE ReturnError(c)
    BY <1>1, <2>2, QuietTable DEF UnstageList, fsVars, Table, TableTypes
  <2> QED BY <1>1, <2>1, <2>2 DEF UnstageList
<1>2. CASE UnstageUnmount(c)
  <2>1. CASE c.vol \notin smnt
    BY <1>2, <2>1, QuietTable DEF UnstageUnmount, Table, TableTypes
  <2>2. CASE c.vol \in smnt
    <3>1. /\ smnt' = smnt \ {c.vol} /\ Goto(c, "UnstageRemove")
          /\ UNCHANGED <<dev, sdir, tdir, tmnt, wiped>>
      BY <1>2, <2>2 DEF UnstageUnmount
    <3>2. PICK e \in Call :
            /\ calls' = (calls \ {c}) \cup {e} /\ e.vol = c.vol
            /\ e.pc = "UnstageRemove"
      BY <3>1, GotoCalls DEF Control, PC, UnstagePC
    <3>3. UNCHANGED <<kstage, kpub>>
      BY <3>1, GotoCalls DEF Control, PC, UnstagePC
    <3>4. TableTypes' /\ \A v \in Volumes : v # c.vol => SameFor(v)
      BY <3>1, <3>3 DEF Table, TableTypes, SameFor
    <3>5. ASSUME c.vol \notin crossed PROVE Clean(c.vol)'
      <4>1. kstage[c.vol] = "unstaging"
        BY <1>0, <2>2, <3>5, Before DEF Tracked, StagingAgrees, Checked, StageState
      <4>2. \A p \in Pods : tmnt[c.vol][p] = <<>>
        BY <1>0, <3>5, <4>1, Before DEF Control, Idle, Unused, PublishingAgrees
      <4>3. StagingAgrees(c.vol)'
        BY <3>3, <4>1 DEF StagingAgrees
      <4>4. \A p \in Pods : PublishingAgrees(c.vol, p)'
        BY <3>1, <3>3, <3>5, <4>2, Before DEF PublishingAgrees
      <4>5. \A d \in calls \ {c} : d.vol = c.vol => Checked(d)'
        BY <3>1, <3>3, <3>5, Before DEF Clean, Checked
      <4>6. Checked(e)'
        BY <3>1, <3>2 DEF Checked
      <4> QED BY <3>2, <4>3, <4>4, <4>5, <4>6 DEF Clean
    <3> QED BY <3>2, <3>4, <3>5, Local
  <2> QED BY <2>1, <2>2
<1>3. CASE UnstageRemove(c)
  <2>1. CASE c.vol \in smnt
    <3>1. TableTypes'
      BY <1>0, <1>3, <2>1 DEF UnstageRemove, Table, TableTypes
    <3> QED BY <1>3, <2>1, <3>1, QuietTable DEF UnstageRemove
  <2>2. CASE c.vol \notin smnt
    <3>1. /\ sdir' = sdir \ {c.vol} /\ calls' = calls \ {c} /\ UNCHANGED kpub
          /\ kstage' = kstage \/ kstage' = [kstage EXCEPT ![c.vol] = "unstaged"]
          /\ UNCHANGED <<dev, smnt, tdir, tmnt, wiped>>
      BY <1>3, <2>2 DEF UnstageRemove, ReturnStage
    <3>2. /\ kstage'[c.vol] = kstage[c.vol] \/ kstage'[c.vol] = "unstaged"
          /\ \A v \in Volumes : v # c.vol => SameFor(v)
      BY <1>0, <3>1, Before DEF SameFor
    <3>3. TableTypes'
      BY <3>1 DEF Table, TableTypes
    <3>4. ASSUME c.vol \notin crossed PROVE Clean(c.vol)'
      <4>1. StagingAgrees(c.vol)'
        BY <2>2, <3>1, <3>2, <3>4, Before DEF StagingAgrees
      <4>2. \A p \in Pods : PublishingAgrees(c.vol, p)'
        BY <3>1, <3>4, Before DEF PublishingAgrees
      <4>3. \A d \in calls' : d.vol = c.vol => Checked(d)'
        BY <2>2, <3>1, <3>4, Before DEF Clean, Checked
      <4> QED BY <4>1, <4>2, <4>3 DEF Clean
    <3> QED BY <3>1, <3>2, <3>3, <3>4, Local
  <2> QED BY <2>1, <2>2
<1> QED BY <1>1, <1>2, <1>3

\* Every step of a handler.
LEMMA HandlerTable ==
  ASSUME Control, Table, NEW c \in calls, HandlerStep(c)
  PROVE  Table'
BY StageTable, PublishTable, UnpublishTable, UnstageTable DEF HandlerStep

\* The CO changes its mind: a volume it wants again was not mounted, and what
\* it did not use, or is done with, is not mounted.
LEMMA WantTable ==
  ASSUME Control, Table, NEW v \in Volumes,
         \/ WantStage(v) \/ WantUnstage(v)
         \/ \E p \in Pods : WantPublish(v, p) \/ WantUnpublish(v, p)
  PROVE  Table'
<1>0. /\ kstage \in [Volumes -> StageState]
      /\ kpub \in [Volumes -> [Pods -> PublishState]]
  BY DEF Control, ControlTypes
<1>1. UNCHANGED <<dev, sdir, smnt, tdir, tmnt, wiped, calls, crossed>>
  BY DEF WantStage, WantUnstage, WantPublish, WantUnpublish, fsVars
<1>2. TableTypes'
  BY <1>1 DEF Table, TableTypes
<1>3. ASSUME NEW w \in Volumes, w \notin crossed, w # v PROVE Clean(w)'
  <2>1. SameFor(w)
    BY <1>0, <1>1, <1>3
    DEF SameFor, WantStage, WantUnstage, WantPublish, WantUnpublish
  <2> QED BY <1>1, <1>3, <2>1, CleanKept DEF Table
<1>4. ASSUME v \notin crossed PROVE Clean(v)'
  <2>0. Clean(v)
    BY <1>4 DEF Table
  <2>1. CASE WantStage(v)
    <3>1. kstage[v] = "unstaged" /\ kstage'[v] = "staging" /\ kpub' = kpub /\ v \notin smnt
      BY <1>0, <2>0, <2>1 DEF WantStage, Clean, StagingAgrees
    <3> QED BY <1>1, <2>0, <3>1 DEF Clean, StagingAgrees, PublishingAgrees, Checked
  <2>2. CASE WantUnstage(v)
    <3>1. kstage'[v] = "unstaging" /\ kpub' = kpub
      BY <1>0, <2>2 DEF WantUnstage
    <3> QED BY <1>1, <2>0, <3>1 DEF Clean, StagingAgrees, PublishingAgrees, Checked
  <2>3. ASSUME NEW p \in Pods, WantPublish(v, p) \/ WantUnpublish(v, p) PROVE Clean(v)'
    <3>1. kstage' = kstage
      BY <2>3 DEF WantPublish, WantUnpublish
    <3>2. \A q \in Pods : \/ kpub'[v][q] = kpub[v][q]
                          \/ kpub'[v][q] \in {"publishing", "unpublishing"}
      BY <1>0, <2>3 DEF WantPublish, WantUnpublish
    <3> QED
      BY <1>1, <2>0, <3>1, <3>2 DEF Clean, StagingAgrees, PublishingAgrees, Checked
  <2> QED BY <2>1, <2>2, <2>3
<1> QED BY <1>1, <1>2, <1>3, <1>4 DEF Table

\* A reboot leaves nothing mounted, and the CO is not told of anything that
\* was.
LEMMA RebootTable == ASSUME Control, Table, Reboot PROVE Table'
<1>1. calls' = {} /\ dev' = {} /\ smnt' = {} /\ UNCHANGED <<sdir, tdir, wiped>>
  BY DEF Reboot
<1>2. \A v \in Volumes, p \in Pods : tmnt'[v][p] = <<>>
  BY DEF Reboot
<1>3. tmnt' \in [Volumes -> [Pods -> Seq(MountView)]]
  BY DEF Reboot
<1>4. /\ \A v \in Volumes : kstage'[v] # "staged"
      /\ \A v \in Volumes, p \in Pods : kpub'[v][p] # "published"
  BY DEF Reboot, Control, ControlTypes
<1>5. TableTypes'
  BY <1>1, <1>3 DEF Table, TableTypes
<1>6. \A v \in Volumes : Clean(v)'
  BY <1>1, <1>2, <1>4 DEF Clean, StagingAgrees, PublishingAgrees
<1> QED BY <1>5, <1>6 DEF Table

\* Every step preserves the second layer.
LEMMA TableStep == ASSUME Control, Table, [Next]_vars PROVE Table'
<1>1. ASSUME TableTypes', crossed \subseteq crossed', \A v \in Volumes : SameFor(v),
             \A d \in calls' : \/ d \in calls
                               \/ d.vol \notin crossed => Checked(d)'
      PROVE  Table'
  <2>1. ASSUME NEW v \in Volumes, v \notin crossed' PROVE Clean(v)'
    BY <1>1, <2>1, CleanKept DEF Table
  <2> QED BY <1>1, <2>1 DEF Table
<1>2. CASE UNCHANGED vars
  BY <1>1, <1>2 DEF vars, SameFor, Table, TableTypes
<1>3. ASSUME NEW c \in calls, Abandon(c) PROVE Table'
  <2>1. PICK e \in Call :
          /\ calls' = (calls \ {c}) \cup {e}
          /\ e.vol = c.vol /\ e.pod = c.pod /\ e.rpc = c.rpc /\ e.pc = c.pc
    BY <1>3, AbandonForm DEF Control
  <2>2. UNCHANGED <<fsVars, kstage, kpub, crossed>>
    BY <1>3, AbandonForm DEF Control
  <2>3. e.vol \notin crossed => Checked(e)'
    BY <2>1, <2>2, Before DEF Checked, fsVars
  <2> QED BY <1>1, <2>1, <2>2, <2>3 DEF fsVars, SameFor, Table, TableTypes
<1>4. ASSUME NEW v \in Volumes,
             \/ BeginStage(v) \/ BeginUnstage(v)
             \/ \E p \in Pods : BeginPublish(v, p) \/ BeginUnpublish(v, p)
      PROVE  Table'
  <2>1. PICK e : Started(e, v)
    BY <1>4, BeginForm
  <2>2. /\ calls' = calls \cup {e} /\ e.vol = v
        /\ e.rpc = "unstage" => kstage[v] = "unstaging"
        /\ e.pc \in {"StageStat", "PublishCheck", "UnpublishStat", "UnstageList"}
        /\ UNCHANGED <<fsVars, kstage, kpub>> /\ crossed \subseteq crossed'
    BY <2>1 DEF Started, Tracked
  <2>3. Checked(e)'
    BY <2>2 DEF Checked
  <2> QED BY <1>1, <2>2, <2>3 DEF fsVars, SameFor, Table, TableTypes
<1>5. ASSUME \/ \E v \in Volumes : DeviceAppears(v) \/ DeviceVanishes(v)
             \/ \E c \in calls : CallFails(c)
             \/ Restart
      PROVE  Table'
  <2>1. dev' \subseteq Volumes
    BY <1>5, FaultForm DEF Control, Table, TableTypes, DeviceAppears, DeviceVanishes
  <2>2. calls' \subseteq calls /\ UNCHANGED <<sdir, smnt, tdir, tmnt, wiped, kstage, kpub, crossed>>
    BY <1>5, FaultForm DEF Control
  <2> QED BY <1>1, <2>1, <2>2 DEF SameFor, Table, TableTypes
<1>6. CASE Next
  BY <1>3, <1>4, <1>5, <1>6, HandlerTable, WantTable, RebootTable DEF Next
<1> QED BY <1>2, <1>6

------------------------------------------------------------------------------
(* The theorems.                                                           *)

\* The inductive invariant.
LEMMA InvStep == ASSUME IInv, [Next]_vars PROVE IInv'
BY ControlStep, TableStep DEF IInv

\* The invariant says what the runs check.
LEMMA InvImplies == IInv => TypeOK /\ PublishedSeesVolume /\ CleanAfterUnstage
<1> SUFFICES ASSUME IInv PROVE TypeOK /\ PublishedSeesVolume /\ CleanAfterUnstage
  OBVIOUS
<1>1. ASSUME NEW v \in Volumes \ crossed
      PROVE  /\ \A p \in Pods : /\ tmnt[v][p] \in MountStack
                                /\ kpub[v][p] = "published" => tmnt[v][p] = <<"volume">>
             /\ kstage[v] = "unstaged" =>
                  v \notin smnt /\ \A p \in Pods : tmnt[v][p] = <<>>
  BY <1>1 DEF IInv, Table, Clean, StagingAgrees, PublishingAgrees, Control, Idle, Unused,
              MountStack
<1>2. TypeOK
  BY <1>1 DEF IInv, Control, ControlTypes, Table, TableTypes, TypeOK
<1> QED BY <1>1, <1>2 DEF PublishedSeesVolume, CleanAfterUnstage

\* A RemoveAll deletes files of the volume only if handlers crossed.
LEMMA WipesOnlyCrossed ==
  ASSUME IInv, [Next]_vars PROVE wiped' \ wiped \subseteq crossed
<1>1. ASSUME NEW c \in calls, UnpublishRemove(c) PROVE wiped' \ wiped \subseteq crossed
  <2>1. c.vol \notin crossed => tmnt[c.vol][c.pod] = <<>>
    BY <1>1, Before DEF IInv, UnpublishRemove, Checked
  <2> QED BY <1>1, <2>1 DEF UnpublishRemove
<1>2. ASSUME NEW c \in calls, UnstageRemove(c) PROVE wiped' \ wiped \subseteq crossed
  <2>1. c.vol \notin crossed => c.vol \notin smnt
    BY <1>2, Before DEF IInv, UnstageRemove, Checked
  <2> QED BY <1>2, <2>1 DEF UnstageRemove
<1>3. ASSUME NEW c \in calls, HandlerStep(c) PROVE wiped' \ wiped \subseteq crossed
  BY <1>1, <1>2, <1>3
  DEF HandlerStep, StageStat, StageCheck, StageMkdir, StageMount, PublishCheck,
      PublishMkdir, PublishMount, UnpublishStat, UnpublishCheck, UnpublishUnmount,
      UnstageList, UnstageUnmount, fsVars
<1>4. CASE UNCHANGED vars
  BY <1>4 DEF vars
<1>5. ASSUME NEW c \in calls, CallFails(c) \/ Abandon(c) PROVE wiped' = wiped
  BY <1>5 DEF CallFails, Abandon, fsVars
<1>6. ASSUME NEW v \in Volumes,
             \/ WantStage(v) \/ WantUnstage(v) \/ BeginStage(v) \/ BeginUnstage(v)
             \/ DeviceAppears(v) \/ DeviceVanishes(v)
      PROVE  wiped' = wiped
  BY <1>6 DEF WantStage, WantUnstage, BeginStage, BeginUnstage, Begin, DeviceAppears,
              DeviceVanishes, fsVars
<1>7. ASSUME NEW v \in Volumes, NEW p \in Pods,
             \/ WantPublish(v, p) \/ WantUnpublish(v, p)
             \/ BeginPublish(v, p) \/ BeginUnpublish(v, p)
      PROVE  wiped' = wiped
  BY <1>7 DEF WantPublish, WantUnpublish, BeginPublish, BeginUnpublish, Begin, fsVars
<1>8. CASE Restart \/ Reboot
  BY <1>8 DEF Restart, Reboot, fsVars
<1> QED BY <1>3, <1>4, <1>5, <1>6, <1>7, <1>8 DEF Next

\* Every variable keeps its type; in particular at most one mount is at a
\* target path, so the one Unmount of NodeUnpublishVolume is enough, unless a
\* stage and an unstage handler of the volume crossed.
THEOREM TypeCorrect == Spec => []TypeOK
<1>1. IInv /\ [Next]_vars => IInv'
  BY InvStep
<1>2. IInv => TypeOK
  BY InvImplies
<1> QED BY <1>1, <1>2, InvInit, PTL DEF Spec

\* However handlers, retries, given-up calls, failing calls, restarts and
\* reboots interleave, with no lock but that of publish and unpublish: unless
\* a stage and an unstage handler crossed, a pod is only told to start on the
\* volume itself, and an unstaged volume is not, and will not be, mounted.
THEOREM NodeSafe == Spec => [](PublishedSeesVolume /\ CleanAfterUnstage)
<1>1. IInv /\ [Next]_vars => IInv'
  BY InvStep
<1>2. IInv => PublishedSeesVolume /\ CleanAfterUnstage
  BY InvImplies
<1> QED BY <1>1, <1>2, InvInit, PTL DEF Spec

\* Under the same conditions no RemoveAll reaches a volume's files, unless a
\* stage and an unstage handler of it crossed.
THEOREM FilesKept == Spec => NoDataLoss
<1>1. IInv /\ [Next]_vars => IInv'
  BY InvStep
<1>2. IInv /\ [Next]_vars => [wiped' \ wiped \subseteq crossed]_vars
  BY WipesOnlyCrossed
<1> QED BY <1>1, <1>2, InvInit, PTL DEF Spec, NoDataLoss

------------------------------------------------------------------------------
(* The node service implements NodeMount.                                  *)

\* What one more mount on top shows.
LEMMA ShowsPush ==
  ASSUME NEW s \in Seq(MountView), NEW x \in MountView, NEW y
  PROVE  Shows(<<x>> \o s, y) <=> x = y \/ Shows(s, y)
<1> DEFINE t == <<x>> \o s
<1>1. /\ DOMAIN t = 1..(Len(s) + 1) /\ DOMAIN s = 1..Len(s) /\ Len(s) \in Nat
      /\ t[1] = x /\ \A i \in 1..Len(s) : t[i + 1] = s[i]
  OBVIOUS
<1> HIDE DEF t
<1>2. ASSUME NEW i \in DOMAIN t, t[i] = y PROVE x = y \/ Shows(s, y)
  <2>1. CASE i = 1
    BY <1>1, <1>2, <2>1
  <2>2. CASE i # 1
    <3>1. i - 1 \in DOMAIN s /\ t[(i - 1) + 1] = s[i - 1] /\ (i - 1) + 1 = i
      BY <1>1, <1>2, <2>2
    <3> QED BY <1>2, <3>1 DEF Shows
  <2> QED BY <2>1, <2>2
<1>3. ASSUME NEW i \in DOMAIN s, s[i] = y PROVE Shows(t, y)
  <2>1. i + 1 \in DOMAIN t /\ t[i + 1] = s[i]
    BY <1>1, <1>3
  <2> QED BY <1>3, <2>1 DEF Shows
<1>4. x = y => Shows(t, y)
  <2>1. 1 \in DOMAIN t /\ t[1] = x
    BY <1>1
  <2> QED BY <2>1 DEF Shows
<1>5. Shows(t, y) <=> x = y \/ Shows(s, y)
  BY <1>2, <1>3, <1>4 DEF Shows
<1> QED BY <1>5 DEF t

\* What one mount less shows was shown.
LEMMA ShowsPop ==
  ASSUME NEW s \in Seq(MountView), s # <<>>, NEW y, Shows(Tail(s), y)
  PROVE  Shows(s, y)
<1>1. PICK i \in DOMAIN Tail(s) : Tail(s)[i] = y
  BY DEF Shows
<1>2. i + 1 \in DOMAIN s /\ s[i + 1] = Tail(s)[i]
  BY <1>1
<1> QED BY <1>1, <1>2 DEF Shows

\* A clean volume is mounted when its staging path is.
LEMMA MountedClean ==
  ASSUME IInv, NEW v \in Volumes \ crossed PROVE v \in Mounted <=> v \in smnt
<1>1. \A p \in Pods : tmnt[v][p] # <<>> => v \in smnt
  BY DEF IInv, Table, Clean, PublishingAgrees
<1>2. \A p \in Pods : Shows(tmnt[v][p], "volume") => tmnt[v][p] # <<>>
  BY DEF Shows
<1> QED BY <1>1, <1>2 DEF Mounted

\* A handler's step concerns the mounts of its own volume only.
LEMMA MountedLocal ==
  ASSUME IInv, TableTypes', NEW c \in calls,
         \A v \in Volumes : v # c.vol => (v \in smnt' <=> v \in smnt) /\ tmnt'[v] = tmnt[v]
  PROVE  /\ c.vol \in Mounted /\ c.vol \in Mounted' => Mounted' = Mounted
         /\ c.vol \notin Mounted /\ c.vol \notin Mounted' => Mounted' = Mounted
         /\ c.vol \in Mounted' /\ c.vol \notin Mounted => Mounted' = Mounted \cup {c.vol}
         /\ c.vol \notin Mounted' /\ c.vol \in Mounted => Mounted' = Mounted \ {c.vol}
<1>1. Mounted \subseteq Volumes /\ Mounted' \subseteq Volumes
  BY DEF IInv, Table, TableTypes, Mounted
<1>2. \A v \in Volumes : v # c.vol => (v \in Mounted' <=> v \in Mounted)
  BY DEF Mounted
<1> QED BY <1>1, <1>2

\* A step that NodeMount does not see.
LEMMA Unseen ==
  ASSUME UNCHANGED <<dev, kstage, crossed>>, Mounted' = Mounted
  PROVE  [Mounting!Next]_Mounting!mountVars
BY DEF Mounting!mountVars

\* A stage handler mounts the volume, or finds it mounted.
LEMMA StageMounts ==
  ASSUME IInv, IInv', NEW c \in calls, UNCHANGED crossed,
         StageStat(c) \/ StageCheck(c) \/ StageMkdir(c) \/ StageMount(c)
  PROVE  [Mounting!Next]_Mounting!mountVars
<1>0. /\ c.rpc = "stage" /\ c.vol \in Volumes /\ c.live \in BOOLEAN /\ TableTypes'
      /\ kstage \in [Volumes -> StageState] /\ Tracked(c)
  BY Before DEF IInv, Table, StageStat, StageCheck, StageMkdir, StageMount, Proper,
                StagePC, PublishPC, UnpublishPC, UnstagePC
<1>1. ASSUME ReturnStage(c, "staged"), c.live, Mounted' = Mounted, c.vol \in Mounted,
             UNCHANGED dev
      PROVE  [Mounting!Next]_Mounting!mountVars
  <2>1. Mounting!Tell(c.vol)
    BY <1>0, <1>1 DEF Mounting!Tell, Mounting!Move, ReturnStage, Tracked
  <2> QED BY <1>0, <2>1 DEF Mounting!Next
<1>2. CASE StageCheck(c) /\ c.vol \in smnt
  <2>1. Mounted' = Mounted /\ c.vol \in Mounted /\ UNCHANGED dev /\ ReturnStage(c, "staged")
    BY <1>2 DEF StageCheck, Mounted, fsVars
  <2>2. CASE ~c.live
    BY <2>1, <2>2, Unseen DEF ReturnStage
  <2> QED BY <1>0, <1>1, <2>1, <2>2
<1>3. CASE StageMount(c) /\ c.vol \in (dev \cap sdir) \ smnt
  <2>1. smnt' = smnt \cup {c.vol} /\ UNCHANGED <<dev, tmnt>> /\ ReturnStage(c, "staged")
    BY <1>3 DEF StageMount
  <2>2. c.vol \in Mounted'
    BY <2>1 DEF Mounted
  <2>3. \A v \in Volumes : v # c.vol => (v \in smnt' <=> v \in smnt) /\ tmnt'[v] = tmnt[v]
    BY <2>1
  <2>4. CASE c.vol \in Mounted
    <3>1. Mounted' = Mounted
      BY <1>0, <2>2, <2>3, <2>4, MountedLocal
    <3>2. CASE ~c.live
      BY <2>1, <3>1, <3>2, Unseen DEF ReturnStage
    <3> QED BY <1>0, <1>1, <2>1, <2>4, <3>1, <3>2
  <2>5. CASE c.vol \notin Mounted
    <3>1. Mounted' = Mounted \cup {c.vol}
      BY <1>0, <2>2, <2>3, <2>5, MountedLocal
    <3>2. CASE c.live \/ c.vol \notin crossed
      <4>1. kstage[c.vol] \in {"staging", "unstaging"} /\ (c.live => kstage[c.vol] = "staging")
        BY <1>0, <1>3, <3>2, Before DEF IInv, Tracked, StagingAgrees, StageState
      <4>2. Mounting!Mount(c.vol)
        BY <1>0, <1>3, <2>1, <2>5, <3>1, <4>1 DEF Mounting!Mount, Mounting!Move, ReturnStage
      <4> QED BY <1>0, <4>2 DEF Mounting!Next
    <3>3. CASE ~c.live /\ c.vol \in crossed
      <4>1. Mounting!StrayMount(c.vol)
        BY <2>1, <2>5, <3>1, <3>3 DEF Mounting!StrayMount, ReturnStage
      <4> QED BY <1>0, <4>1 DEF Mounting!Next
    <3> QED BY <1>0, <3>2, <3>3
  <2> QED BY <2>4, <2>5
<1>4. CASE \/ StageStat(c) \/ StageMkdir(c) \/ (StageCheck(c) /\ c.vol \notin smnt)
           \/ (StageMount(c) /\ c.vol \notin (dev \cap sdir) \ smnt)
  <2>1. UNCHANGED <<dev, smnt, tmnt, kstage>>
    BY <1>4 DEF StageStat, StageMkdir, StageCheck, StageMount, Goto, ReturnError, coVars, fsVars
  <2> QED BY <2>1, Unseen DEF Mounted
<1> QED BY <1>2, <1>3, <1>4

\* A publish handler adds a view of what is mounted already.
LEMMA PublishMounts ==
  ASSUME IInv, IInv', NEW c \in calls, UNCHANGED crossed,
         PublishCheck(c) \/ PublishMkdir(c) \/ PublishMount(c)
  PROVE  [Mounting!Next]_Mounting!mountVars
<1>0. /\ c.vol \in Volumes /\ c.pod \in Pods
      /\ tmnt \in [Volumes -> [Pods -> Seq(MountView)]] /\ TableTypes'
  BY Before DEF IInv, Table, PublishCheck, PublishMkdir, PublishMount, Proper, Tracked,
                StagePC, PublishPC, UnpublishPC, UnstagePC
<1>1. UNCHANGED <<dev, smnt, kstage>>
  BY DEF PublishCheck, PublishMkdir, PublishMount, Goto, ReturnError, ReturnPublish,
         coVars, fsVars
<1>2. CASE tmnt' = tmnt
  BY <1>1, <1>2, Unseen DEF Mounted
<1>3. CASE tmnt' # tmnt
  <2> DEFINE view == IF c.vol \in smnt THEN "volume" ELSE "rootfs"
             x == <<view>> \o tmnt[c.vol][c.pod]
  <2>1. tmnt' = [tmnt EXCEPT ![c.vol][c.pod] = x]
    BY <1>3 DEF PublishCheck, PublishMkdir, PublishMount, fsVars
  <2>2. view \in MountView /\ tmnt[c.vol][c.pod] \in Seq(MountView)
    BY <1>0 DEF MountView
  <2>3. view = "volume" <=> c.vol \in smnt
    OBVIOUS
  <2> HIDE DEF view
  <2>4. x \in Seq(MountView)
    BY <2>2
  <2>5. Shows(x, "volume") <=> c.vol \in smnt \/ Shows(tmnt[c.vol][c.pod], "volume")
    BY <2>2, <2>3, ShowsPush
  <2> HIDE DEF x
  <2>6. /\ \A v \in Volumes : v # c.vol => tmnt'[v] = tmnt[v]
        /\ \A p \in Pods : tmnt'[c.vol][p] = IF p = c.pod THEN x ELSE tmnt[c.vol][p]
    BY <1>0, <2>1, <2>4, NestedUpdate
  <2>7. c.vol \in Mounted' <=> c.vol \in Mounted
    BY <1>0, <1>1, <2>5, <2>6 DEF Mounted
  <2>8. Mounted' = Mounted
    BY <1>0, <1>1, <2>6, <2>7, MountedLocal
  <2> QED BY <1>1, <2>8, Unseen
<1> QED BY <1>2, <1>3

\* An unpublish handler takes a view away; the volume stays mounted at its
\* staging path, unless handlers crossed.
LEMMA UnpublishMounts ==
  ASSUME IInv, IInv', NEW c \in calls, UNCHANGED crossed,
         \/ UnpublishStat(c) \/ UnpublishCheck(c)
         \/ UnpublishUnmount(c) \/ UnpublishRemove(c)
  PROVE  [Mounting!Next]_Mounting!mountVars
<1>0. /\ c.vol \in Volumes /\ c.pod \in Pods
      /\ tmnt \in [Volumes -> [Pods -> Seq(MountView)]] /\ TableTypes'
  BY Before DEF IInv, Table, UnpublishStat, UnpublishCheck, UnpublishUnmount, UnpublishRemove,
                Proper, Tracked, StagePC, PublishPC, UnpublishPC, UnstagePC
<1>1. UNCHANGED <<dev, smnt, kstage>>
  BY DEF UnpublishStat, UnpublishCheck, UnpublishUnmount, UnpublishRemove, Goto, ReturnError,
         ReturnPublish, coVars, fsVars
<1>2. CASE tmnt' = tmnt
  BY <1>1, <1>2, Unseen DEF Mounted
<1>3. CASE tmnt' # tmnt
  <2> DEFINE x == Tail(tmnt[c.vol][c.pod])
  <2>1. tmnt' = [tmnt EXCEPT ![c.vol][c.pod] = x] /\ tmnt[c.vol][c.pod] # <<>>
    BY <1>3 DEF UnpublishStat, UnpublishCheck, UnpublishUnmount, UnpublishRemove, fsVars
  <2>2. tmnt[c.vol][c.pod] \in Seq(MountView)
    BY <1>0
  <2>3. x \in Seq(MountView)
    BY <2>1, <2>2
  <2>4. Shows(x, "volume") => Shows(tmnt[c.vol][c.pod], "volume")
    BY <2>1, <2>2, ShowsPop
  <2> HIDE DEF x
  <2>5. /\ \A v \in Volumes : v # c.vol => tmnt'[v] = tmnt[v]
        /\ \A p \in Pods : tmnt'[c.vol][p] = IF p = c.pod THEN x ELSE tmnt[c.vol][p]
    BY <1>0, <2>1, <2>3, NestedUpdate
  <2>6. c.vol \in Mounted' => c.vol \in Mounted
    BY <1>0, <1>1, <2>4, <2>5 DEF Mounted
  <2>7. CASE c.vol \in Mounted' <=> c.vol \in Mounted
    <3>1. Mounted' = Mounted
      BY <1>0, <1>1, <2>5, <2>7, MountedLocal
    <3> QED BY <1>1, <3>1, Unseen
  <2>8. CASE c.vol \notin Mounted' /\ c.vol \in Mounted
    <3>1. Mounted' = Mounted \ {c.vol}
      BY <1>0, <1>1, <2>5, <2>8, MountedLocal
    <3>2. c.vol \in crossed
      <4>1. c.vol \notin smnt
        BY <1>1, <2>8 DEF Mounted
      <4> QED BY <1>0, <2>8, <4>1, MountedClean
    <3>3. Mounting!Unmount(c.vol)
      BY <1>1, <3>1, <3>2 DEF Mounting!Unmount
    <3> QED BY <1>0, <3>3 DEF Mounting!Next
  <2> QED BY <2>6, <2>7, <2>8
<1> QED BY <1>2, <1>3

\* An unstage handler unmounts the volume while the CO wants it unstaged, and
\* tells it when it is, unless handlers crossed.
LEMMA UnstageMounts ==
  ASSUME IInv, IInv', NEW c \in calls, UNCHANGED crossed,
         UnstageList(c) \/ UnstageUnmount(c) \/ UnstageRemove(c)
  PROVE  [Mounting!Next]_Mounting!mountVars
<1>0. /\ c.rpc = "unstage" /\ c.vol \in Volumes /\ c.live \in BOOLEAN /\ TableTypes'
      /\ kstage \in [Volumes -> StageState] /\ Tracked(c)
  BY Before DEF IInv, Table, UnstageList, UnstageUnmount, UnstageRemove, Proper,
                StagePC, PublishPC, UnpublishPC, UnstagePC
<1>1. CASE UnstageUnmount(c) /\ c.vol \in smnt
  <2>1. smnt' = smnt \ {c.vol} /\ UNCHANGED <<dev, tmnt, kstage>>
    BY <1>1 DEF UnstageUnmount, Goto, coVars
  <2>2. c.vol \in Mounted
    BY <1>1 DEF Mounted
  <2>3. Mounted' = Mounted \/ Mounted' = Mounted \ {c.vol}
    BY <1>0, <2>1, <2>2, MountedLocal
  <2>4. kstage[c.vol] = "unstaging" \/ c.vol \in crossed
    BY <1>0, <1>1, Before DEF IInv, Tracked, StagingAgrees, Checked, StageState
  <2>5. CASE Mounted' = Mounted \ {c.vol}
    <3>1. Mounting!Unmount(c.vol)
      BY <2>1, <2>4, <2>5 DEF Mounting!Unmount
    <3> QED BY <1>0, <3>1 DEF Mounting!Next
  <2> QED BY <2>1, <2>3, <2>5, Unseen
<1>2. CASE UnstageRemove(c) /\ c.vol \notin smnt
  <2>1. UNCHANGED <<dev, smnt, tmnt>> /\ ReturnStage(c, "unstaged")
    BY <1>2 DEF UnstageRemove
  <2>2. Mounted' = Mounted
    BY <2>1 DEF Mounted
  <2>3. CASE c.live
    <3>1. kstage[c.vol] = "unstaging" /\ (c.vol \notin Mounted \/ c.vol \in crossed)
      BY <1>0, <1>2, <2>3, MountedClean DEF Tracked
    <3>2. Mounting!Finish(c.vol)
      BY <1>0, <2>1, <2>2, <2>3, <3>1 DEF Mounting!Finish, Mounting!Move, ReturnStage
    <3> QED BY <1>0, <3>2 DEF Mounting!Next
  <2>4. CASE ~c.live
    BY <2>1, <2>2, <2>4, Unseen DEF ReturnStage
  <2> QED BY <1>0, <2>3, <2>4
<1>3. CASE \/ UnstageList(c) \/ (UnstageUnmount(c) /\ c.vol \notin smnt)
           \/ (UnstageRemove(c) /\ c.vol \in smnt)
  <2>1. UNCHANGED <<dev, smnt, tmnt, kstage>>
    BY <1>3 DEF UnstageList, UnstageUnmount, UnstageRemove, Goto, ReturnError, coVars, fsVars
  <2> QED BY <2>1, Unseen DEF Mounted
<1> QED BY <1>1, <1>2, <1>3

\* Steps of the CO, of the devices and of the faults.
LEMMA OthersMount ==
  ASSUME IInv, IInv', Next, ~(\E c \in calls : HandlerStep(c))
  PROVE  [Mounting!Next]_Mounting!mountVars
<1>0. /\ dev \subseteq Volumes /\ kstage \in [Volumes -> StageState]
      /\ Mounted \subseteq Volumes /\ crossed \subseteq Volumes
  BY DEF IInv, Control, ControlTypes, Table, TableTypes, Mounted
<1>1. ASSUME UNCHANGED <<dev, smnt, tmnt, kstage, crossed>>
      PROVE  [Mounting!Next]_Mounting!mountVars
  BY <1>1, Unseen DEF Mounted
<1>2. ASSUME NEW v \in Volumes, WantStage(v) PROVE Mounting!Want(v)
  BY <1>0, <1>2 DEF WantStage, fsVars, Mounting!Want, Mounting!Move, Mounted
<1>3. ASSUME NEW v \in Volumes, WantUnstage(v) PROVE Mounting!Release(v)
  BY <1>0, <1>3 DEF WantUnstage, fsVars, Mounting!Release, Mounting!Move, Mounted
<1>4. ASSUME NEW v \in Volumes, DeviceAppears(v) PROVE Mounting!Appear(v)
  BY <1>0, <1>4 DEF DeviceAppears, coVars, Mounting!Appear, Mounted
<1>5. ASSUME NEW v \in Volumes, DeviceVanishes(v) PROVE Mounting!Vanish(v)
  BY <1>0, <1>5 DEF DeviceVanishes, coVars, Mounting!Vanish, Mounted
<1>6. CASE Reboot
  <2>1. \A v \in Volumes, p \in Pods : ~Shows(tmnt'[v][p], "volume")
    BY <1>6 DEF Reboot, Shows
  <2>2. /\ dev' = dev \ Volumes /\ crossed' = crossed \ Volumes
        /\ Mounted' = Mounted \ Volumes
    BY <1>0, <1>6, <2>1 DEF Reboot, Mounted
  <2>3. Mounting!Reboot(Volumes)
    BY <1>6, <2>2 DEF Reboot, Mounting!Reboot
  <2> QED BY <2>3 DEF Mounting!Next
<1>7. ASSUME NEW c \in calls, CallFails(c) \/ Abandon(c)
      PROVE  [Mounting!Next]_Mounting!mountVars
  BY <1>1, <1>7 DEF CallFails, Abandon, ReturnError, fsVars, coVars
<1>8. ASSUME NEW v \in Volumes, BeginStage(v) \/ BeginUnstage(v)
      PROVE  [Mounting!Next]_Mounting!mountVars
  <2>1. /\ UNCHANGED <<dev, smnt, tmnt, kstage>>
        /\ crossed' = crossed \/ crossed' = crossed \cup {v}
        /\ kstage[v] \in {"staging", "unstaging"}
    BY <1>8 DEF BeginStage, BeginUnstage, Begin, fsVars, coVars
  <2>2. CASE crossed' = crossed \cup {v}
    <3>1. Mounting!Cross(v)
      BY <2>1, <2>2 DEF Mounting!Cross, Mounted
    <3> QED BY <1>8, <3>1 DEF Mounting!Next
  <2> QED BY <1>1, <2>1, <2>2
<1>9. ASSUME NEW v \in Volumes, NEW p \in Pods,
             \/ WantPublish(v, p) \/ WantUnpublish(v, p)
             \/ BeginPublish(v, p) \/ BeginUnpublish(v, p)
      PROVE  [Mounting!Next]_Mounting!mountVars
  <2>1. CASE WantPublish(v, p) \/ WantUnpublish(v, p)
    BY <1>1, <2>1 DEF WantPublish, WantUnpublish, fsVars
  <2>2. CASE BeginPublish(v, p) \/ BeginUnpublish(v, p)
    <3>1. \A c \in calls : ~Crosses(c, v, "publish") /\ ~Crosses(c, v, "unpublish")
      BY DEF Crosses
    <3> QED
      BY <1>1, <2>2, <3>1 DEF BeginPublish, BeginUnpublish, Begin, fsVars, coVars
  <2> QED BY <1>9, <2>1, <2>2
<1>10. CASE Restart
  BY <1>1, <1>10 DEF Restart, fsVars, coVars
<1> QED BY <1>2, <1>3, <1>4, <1>5, <1>6, <1>7, <1>8, <1>9, <1>10
           DEF Next, Mounting!Next

\* However handlers, retries, given-up calls, failing calls, restarts and
\* reboots interleave, the node service does what NodeMount promises.
THEOREM NodeImplementsMount == Spec => ImplementsNodeMount
<1>1. Init => Mounting!Init
  <2> SUFFICES ASSUME Init PROVE Mounting!Init
    OBVIOUS
  <2>1. \A v \in Volumes, p \in Pods : ~Shows(tmnt[v][p], "volume")
    BY DEF Init, Shows
  <2> QED BY <2>1 DEF Init, Mounting!Init, Mounted
<1>2. IInv /\ [Next]_vars => IInv'
  BY InvStep
<1>3. IInv /\ IInv' /\ [Next]_vars => [Mounting!Next]_Mounting!mountVars
  <2> SUFFICES ASSUME IInv, IInv', [Next]_vars
               PROVE  [Mounting!Next]_Mounting!mountVars
    OBVIOUS
  <2>1. CASE UNCHANGED vars
    BY <2>1 DEF vars, Mounting!mountVars, Mounted
  <2>2. ASSUME NEW c \in calls, HandlerStep(c)
        PROVE  [Mounting!Next]_Mounting!mountVars
    BY <2>2, StageMounts, PublishMounts, UnpublishMounts, UnstageMounts DEF HandlerStep
  <2> QED BY <2>1, <2>2, OthersMount
<1> QED BY <1>1, <1>2, <1>3, InvInit, PTL DEF Spec, ImplementsNodeMount, Mounting!Spec

=============================================================================
