------------------------------ MODULE Snapshots ------------------------------
(***************************************************************************)
(* The controller service's CreateSnapshot and DeleteSnapshot (pkg/driver/ *)
(* controller.go) for one snapshot of one volume, one action per API call, *)
(* with ironcore, which takes the snapshot some time after the             *)
(* VolumeSnapshot object appears, and the container orchestrator (CO, here *)
(* the external-snapshotter) that retries, gives up and deletes. The name  *)
(* of a snapshot is never used for another one, and handlers of different  *)
(* snapshots touch different objects.                                      *)
(***************************************************************************)
EXTENDS Naturals

CONSTANTS
  WaitSteps,   \* polls of one call (waitActiveSteps)
  MaxWrites,   \* bound on the writes to the source volume
  MaxFaults    \* bound on API errors, lost and delayed calls, restarts

ASSUME SnapshotConstants ==
  /\ WaitSteps \in Nat \ {0}
  /\ MaxWrites \in Nat
  /\ MaxFaults \in Nat

VARIABLES
  source,      \* the source Volume: "absent", "pending" or "available"
  data,        \* the version of its data: the number of writes so far
  snap,        \* the VolumeSnapshot: "absent", "pending" or "ready"
  taken,       \* the version a ready snapshot holds
  late,        \* late[w]: writes of given-up calls that are still under way
  content,     \* how far the CO is with the snapshot
  background,  \* the CO does not know what became of its last call
  window,      \* history: the version of the data when the CO wanted the
               \* snapshot, and when it was told that the snapshot is ready
  calls,       \* the RPC handlers in flight
  faults

snapVars == <<snap, taken>>
apiVars  == <<source, data, snap, taken, late>>
coVars   == <<content, background, window>>
vars     == <<source, data, snap, taken, late, content, background, window,
              calls, faults>>

Writes == {"Apply", "Delete"}

\* "withdrawn": deleted by the user while the CO may not drop it yet.
ContentState == {"none", "wanted", "withdrawn", "ready", "released", "gone"}

Call == [pc : {"GetSource", "Wait"} \cup Writes, polls : 0..(WaitSteps - 1)]

Init ==
  /\ source \in {"pending", "available"} /\ data = 0
  /\ snap = "absent" /\ taken = 0
  /\ late = [w \in Writes |-> 0]
  /\ content = "none" /\ background = FALSE /\ window = [from |-> 0, to |-> 0]
  /\ calls = {}
  /\ faults = 0

------------------------------------------------------------------------------
(* Helpers. An operator whose name starts with Faulty is the next one with *)
(* a plausible bug in it; nothing uses it but the tests of the properties' *)
(* strength listed in PROJECT.json.                                        *)

Continue(c, d) == calls' = (calls \ {c}) \cup {d} /\ UNCHANGED coVars

\* Errors carry the codes Internal, NotFound, FailedPrecondition or none at
\* all (Unknown): the CO takes them as final and forgets a withdrawn
\* snapshot that it does not know to exist.
ReturnError(c) ==
  /\ calls' = calls \ {c}
  /\ content' = IF content = "withdrawn" THEN "gone" ELSE content
  /\ background' = FALSE
  /\ UNCHANGED window

\* ReadyToUse is always TRUE in the answer.
ReturnCreated(c) ==
  /\ calls' = calls \ {c}
  /\ content' = IF content = "withdrawn" THEN "released" ELSE "ready"
  /\ background' = FALSE
  /\ window' = [window EXCEPT !.to = data]

------------------------------------------------------------------------------
(* CreateSnapshot.                                                         *)

\* The source volume is looked up by every retry, even when the snapshot was
\* taken by an earlier call: not found or not available is an error.
CreateGetSource(c) ==
  /\ c.pc = "GetSource"
  /\ IF source = "available" THEN Continue(c, [c EXCEPT !.pc = "Apply"])
                             ELSE ReturnError(c)
  /\ UNCHANGED <<apiVars, faults>>

\* Faulty: the object is replaced, not applied.
FaultyApplied == snap' = "pending" /\ taken' = 0

\* Server-side apply of a name and a volumeRef, the same every time.
Applied == snap' = (IF snap = "absent" THEN "pending" ELSE snap) /\ UNCHANGED taken

\* Faulty: the object is created, and an existing one is an error.
FaultyCreateApply(c) ==
  /\ c.pc = "Apply"
  /\ IF snap = "absent"
     THEN Applied /\ Continue(c, [c EXCEPT !.pc = "Wait"])
     ELSE ReturnError(c) /\ UNCHANGED snapVars
  /\ UNCHANGED <<source, data, late, faults>>

CreateApply(c) ==
  /\ c.pc = "Apply"
  /\ Applied
  /\ Continue(c, [c EXCEPT !.pc = "Wait"])
  /\ UNCHANGED <<source, data, late, faults>>

\* Faulty: running out of polls is not an error.
FaultyWaitForVolumeSnapshotReady(c) ==
  /\ c.pc = "Wait"
  /\ IF snap = "ready" \/ c.polls = WaitSteps - 1
     THEN ReturnCreated(c)
     ELSE Continue(c, [c EXCEPT !.polls = @ + 1])
  /\ UNCHANGED <<apiVars, faults>>

\* Faulty: one poll too many.
FaultyPollOnceMore(c) ==
  /\ c.pc = "Wait"
  /\ CASE snap = "ready" -> ReturnCreated(c)
       [] snap = "absent" \/ (snap = "pending" /\ c.polls = WaitSteps) ->
            ReturnError(c)
       [] snap = "pending" /\ c.polls < WaitSteps ->
            Continue(c, [c EXCEPT !.polls = @ + 1])
  /\ UNCHANGED <<apiVars, faults>>

\* One poll. A snapshot that is not there is an error at once, one that is
\* not ready after the last poll an error too.
WaitForVolumeSnapshotReady(c) ==
  /\ c.pc = "Wait"
  /\ CASE snap = "ready" -> ReturnCreated(c)
       [] snap = "absent" \/ (snap = "pending" /\ c.polls = WaitSteps - 1) ->
            ReturnError(c)
       [] snap = "pending" /\ c.polls < WaitSteps - 1 ->
            Continue(c, [c EXCEPT !.polls = @ + 1])
  /\ UNCHANGED <<apiVars, faults>>

------------------------------------------------------------------------------
(* DeleteSnapshot.                                                         *)

Deleted == snap' = "absent" /\ taken' = 0

\* Faulty: the source volume is looked up first, as CreateSnapshot does.
FaultyDeleteSnapshot(c) ==
  /\ c.pc = "Delete"
  /\ IF snap # "absent" /\ source # "absent"
     THEN /\ Deleted /\ content' = "gone" /\ calls' = calls \ {c}
          /\ UNCHANGED <<background, window>>
     ELSE ReturnError(c) /\ UNCHANGED snapVars
  /\ UNCHANGED <<source, data, late, faults>>

\* A snapshot that is already gone is an error.
DeleteSnapshot(c) ==
  /\ c.pc = "Delete"
  /\ IF snap # "absent"
     THEN /\ Deleted /\ content' = "gone" /\ calls' = calls \ {c}
          /\ UNCHANGED <<background, window>>
     ELSE ReturnError(c) /\ UNCHANGED snapVars
  /\ UNCHANGED <<source, data, late, faults>>

HandlerStep(c) ==
  \/ CreateGetSource(c) \/ CreateApply(c) \/ WaitForVolumeSnapshotReady(c)
  \/ DeleteSnapshot(c)

------------------------------------------------------------------------------
(* The CO. It waits for one call at a time and keeps the source volume of  *)
(* a snapshot that is not ready yet from being deleted.                    *)

Want ==
  /\ content = "none" /\ source # "absent"
  /\ content' = "wanted" /\ window' = [window EXCEPT !.from = data]
  /\ UNCHANGED <<apiVars, background, calls, faults>>

\* The user deletes the snapshot before it is ready. The CO forgets it,
\* unless a call is under way or ended in an unknown state.
Withdraw ==
  /\ content = "wanted"
  /\ content' = IF background \/ calls # {} THEN "withdrawn" ELSE "gone"
  /\ UNCHANGED <<apiVars, background, window, calls, faults>>

Release ==
  /\ content = "ready"
  /\ content' = "released"
  /\ UNCHANGED <<apiVars, background, window, calls, faults>>

Begin(pc) ==
  /\ calls = {}
  /\ calls' = {[pc |-> pc, polls |-> 0]}
  /\ UNCHANGED <<apiVars, coVars, faults>>

BeginCreate == content \in {"wanted", "withdrawn"} /\ Begin("GetSource")
BeginDelete == content = "released" /\ Begin("Delete")

DeleteSource ==
  /\ source # "absent" /\ content \notin {"wanted", "withdrawn"}
  /\ source' = "absent"
  /\ UNCHANGED <<data, snapVars, late, coVars, calls, faults>>

------------------------------------------------------------------------------
(* ironcore, and whoever uses the source volume.                           *)

\* The snapshot holds the data of the moment it is taken.
TakeSnapshot ==
  /\ snap = "pending" /\ source # "absent"
  /\ snap' = "ready" /\ taken' = data
  /\ UNCHANGED <<source, data, late, coVars, calls, faults>>

Write ==
  /\ source # "absent" /\ data < MaxWrites
  /\ data' = data + 1
  /\ UNCHANGED <<source, snapVars, late, coVars, calls, faults>>

Provision ==
  /\ source = "pending"
  /\ source' = "available"
  /\ UNCHANGED <<data, snapVars, late, coVars, calls, faults>>

------------------------------------------------------------------------------
(* Faults.                                                                 *)

Fault == faults < MaxFaults /\ faults' = faults + 1

\* The API call a handler makes next fails.
ApiError(c) == Fault /\ ReturnError(c) /\ UNCHANGED apiVars

\* The write is carried out, but its reply does not arrive.
ReplyLost(c) ==
  /\ c.pc \in Writes
  /\ Fault
  /\ IF c.pc = "Apply" THEN Applied ELSE Deleted
  /\ ReturnError(c)
  /\ UNCHANGED <<source, data, late>>

\* The CO's deadline passes or the driver restarts. Every API call takes the
\* call's context, so the handler makes no other one; but the write it has
\* sent may still be under way.
GiveUp(c) ==
  /\ Fault
  /\ calls' = calls \ {c}
  /\ background' = TRUE
  /\ \/ UNCHANGED late
     \/ c.pc \in Writes /\ late' = [late EXCEPT ![c.pc] = @ + 1]
  /\ UNCHANGED <<source, data, snapVars, content, window>>

LateWrite(w) ==
  /\ late[w] > 0
  /\ late' = [late EXCEPT ![w] = @ - 1]
  /\ IF w = "Apply" THEN Applied ELSE Deleted
  /\ UNCHANGED <<source, data, coVars, calls, faults>>

\* The source leaves state Available (Error, Pending).
Degrade ==
  /\ source = "available"
  /\ Fault
  /\ source' = "pending"
  /\ UNCHANGED <<data, snapVars, late, coVars, calls>>

------------------------------------------------------------------------------
Next ==
  \/ \E c \in calls : HandlerStep(c) \/ ApiError(c) \/ ReplyLost(c) \/ GiveUp(c)
  \/ \E w \in Writes : LateWrite(w)
  \/ Want \/ Withdraw \/ Release \/ BeginCreate \/ BeginDelete \/ DeleteSource
  \/ TakeSnapshot \/ Write \/ Provision
  \/ Degrade

Spec == Init /\ [][Next]_vars

\* Handlers run on, the CO keeps retrying, ironcore provisions volumes and
\* takes snapshots.
Fairness ==
  /\ WF_vars(\E c \in calls : HandlerStep(c))
  /\ WF_vars(BeginCreate) /\ WF_vars(BeginDelete)
  /\ WF_vars(Provision) /\ WF_vars(TakeSnapshot)

FairSpec == Spec /\ Fairness

------------------------------------------------------------------------------
(* Properties.                                                             *)

\* Every variable has its type.
TypeOK ==
  /\ source \in {"absent", "pending", "available"}
  /\ data \in 0..MaxWrites
  /\ snap \in {"absent", "pending", "ready"}
  /\ taken \in 0..MaxWrites
  /\ late \in [Writes -> 0..MaxFaults]
  /\ content \in ContentState
  /\ background \in BOOLEAN
  /\ window \in [from : 0..MaxWrites, to : 0..MaxWrites]
  /\ calls \subseteq Call
  /\ faults \in 0..MaxFaults

\* A snapshot that CreateSnapshot reported ready to use is there and ready as
\* long as the CO keeps it, whichever retry answered, and whatever an earlier
\* call still had under way: its source may be degraded or deleted meanwhile.
ReadySnapshotUsable == content = "ready" => snap = "ready"

\* A snapshot the CO keeps holds the source's data of one moment between the
\* CO's first request and the answer that it is ready: no call that was lost,
\* repeated or late has it taken before, or again after, although the source
\* is written to all the time and each retry applies the VolumeSnapshot anew.
SnapshotOfItsTime == content = "ready" => taken \in window.from..window.to

\* A snapshot is created however long ironcore takes: the calls give up after
\* WaitSteps polls, and each retry finds what there is.
CreateCompletes == content = "wanted" ~> content # "wanted"

\* A released snapshot is deleted although replies are lost and although its
\* source is gone, even if the CO, whose every retry fails on a snapshot that
\* is already gone, is never told.
DeleteTakesEffect == content = "released" ~> snap = "absent"

=============================================================================
