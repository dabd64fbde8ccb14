---------------------------- MODULE SnapshotsProofs ----------------------------
(***************************************************************************)
(* Proofs about Snapshots, for every number of polls, of writes and of     *)
(* faults.                                                                 *)
(***************************************************************************)
EXTENDS Snapshots, TLAPS

\* One handler at a time, and one that the CO's state accounts for.
Tracked ==
  /\ \A c, d \in calls : c = d
  /\ \A c \in calls : IF c.pc = "Delete" THEN content = "released"
                                         ELSE content \in {"wanted", "withdrawn"}

\* Only a snapshot the CO has done with can have a deletion under way, and
\* each write under way is owed to a fault.
LateBounded ==
  /\ \A w \in Writes : late[w] <= faults
  /\ late["Delete"] > 0 => content \in {"released", "gone"}

IInv == TypeOK /\ Tracked /\ LateBounded /\ ReadySnapshotUsable

\* The inductive invariant holds initially.
LEMMA InvInit == Init => IInv
<1> SUFFICES ASSUME Init PROVE IInv
  OBVIOUS
<1>1. 0 \in 0..MaxWrites /\ 0 \in 0..MaxFaults
  BY SnapshotConstants
<1>2. TypeOK
  BY <1>1 DEF Init, TypeOK, ContentState
<1> QED BY <1>2 DEF Init, IInv, Tracked, LateBounded, ReadySnapshotUsable, Writes

\* What a write of either kind leaves behind.
LEMMA WriteTypes ==
  ASSUME TypeOK, Applied \/ Deleted
  PROVE  snap' \in {"absent", "pending", "ready"} /\ taken' \in 0..MaxWrites
BY SnapshotConstants DEF TypeOK, Applied, Deleted

\* The only handler returns an error.
LEMMA ErrorKeeps ==
  ASSUME IInv, NEW c \in calls, ReturnError(c), UNCHANGED <<source, data, late>>,
         UNCHANGED snapVars \/ (c.pc \in Writes /\ (Applied \/ Deleted)),
         faults' \in 0..MaxFaults, faults' >= faults
  PROVE  IInv'
<1>1. calls' = {}
  BY DEF IInv, Tracked, ReturnError
<1>2. content' \in ContentState /\ background' \in BOOLEAN
  BY DEF IInv, TypeOK, ReturnError, ContentState
<1>3. TypeOK'
  BY <1>1, <1>2, WriteTypes DEF IInv, TypeOK, snapVars, ReturnError
<1>4. LateBounded'
  BY DEF IInv, TypeOK, LateBounded, ReturnError
<1>5. content # "ready"
  BY DEF IInv, Tracked
<1>6. ReadySnapshotUsable'
  BY <1>5 DEF ReturnError, ReadySnapshotUsable
<1> QED BY <1>1, <1>3, <1>4, <1>6 DEF IInv, Tracked

\* The only handler of a CreateSnapshot call goes on as d.
LEMMA ContinueKeeps ==
  ASSUME IInv, NEW c \in calls, NEW d \in Call, c.pc # "Delete", d.pc # "Delete",
         calls' = (calls \ {c}) \cup {d}, UNCHANGED coVars,
         UNCHANGED <<source, data, late, faults>>,
         UNCHANGED snapVars \/ Applied
  PROVE  IInv'
<1>1. calls' = {d}
  BY DEF IInv, Tracked
<1>2. TypeOK'
  BY <1>1, WriteTypes DEF IInv, TypeOK, snapVars, coVars
<1>3. LateBounded'
  BY DEF IInv, TypeOK, LateBounded, coVars
<1>4. ReadySnapshotUsable'
  BY DEF IInv, ReadySnapshotUsable, Applied, coVars, snapVars
<1> QED BY <1>1, <1>2, <1>3, <1>4 DEF IInv, Tracked, coVars

\* A handler step preserves the inductive invariant.
LEMMA HandlerKeeps ==
  ASSUME IInv, NEW c \in calls, HandlerStep(c)
  PROVE  IInv'
<1>0. c \in Call /\ faults \in 0..MaxFaults /\ faults \in Nat
  BY SnapshotConstants DEF IInv, TypeOK
<1>1. CASE CreateGetSource(c)
  <2>1. CASE source = "available"
    <3> DEFINE d == [c EXCEPT !.pc = "Apply"]
    <3>1. d \in Call /\ d.pc = "Apply"
      BY <1>0 DEF Call, Writes
    <3> QED BY <1>1, <2>1, <3>1, ContinueKeeps
               DEF CreateGetSource, Continue, apiVars, snapVars
  <2>2. CASE source # "available"
    BY <1>0, <1>1, <2>2, ErrorKeeps DEF CreateGetSource, apiVars, snapVars
  <2> QED BY <2>1, <2>2
<1>2. CASE CreateApply(c)
  <2> DEFINE d == [c EXCEPT !.pc = "Wait"]
  <2>1. d \in Call /\ d.pc = "Wait"
    BY <1>0 DEF Call, Writes
  <2> QED BY <1>2, <2>1, ContinueKeeps DEF CreateApply, Continue
<1>3. CASE WaitForVolumeSnapshotReady(c)
  <2>0. snap \in {"absent", "pending", "ready"} /\ c.polls \in 0..(WaitSteps - 1)
    BY <1>0 DEF IInv, TypeOK, Call
  <2>1. CASE snap = "ready"
    <3>1. calls' = {} /\ snap' = "ready"
      BY <1>3, <2>1 DEF IInv, Tracked, WaitForVolumeSnapshotReady, ReturnCreated, apiVars
    <3>2. /\ content' \in {"ready", "released"} /\ background' \in BOOLEAN
          /\ UNCHANGED <<source, data, snap, taken, late, faults>>
          /\ content \in {"wanted", "withdrawn"}
          /\ window' = [window EXCEPT !.to = data]
      BY <1>3, <2>1 DEF IInv, Tracked, WaitForVolumeSnapshotReady, ReturnCreated, apiVars
    <3>3. TypeOK'
      BY <3>1, <3>2 DEF IInv, TypeOK, ContentState
    <3>4. LateBounded' /\ Tracked' /\ ReadySnapshotUsable'
      BY <3>1, <3>2 DEF IInv, LateBounded, Tracked, ReadySnapshotUsable
    <3> QED BY <3>3, <3>4 DEF IInv
  <2>2. CASE snap = "absent" \/ (snap = "pending" /\ c.polls = WaitSteps - 1)
    <3>0. snap # "ready" /\ ~(snap = "pending" /\ c.polls < WaitSteps - 1)
      BY <2>0, <2>2, SnapshotConstants
    <3>1. ReturnError(c) /\ UNCHANGED <<apiVars, faults>>
      BY <1>3, <2>2, <3>0 DEF WaitForVolumeSnapshotReady
    <3> QED BY <1>0, <3>1, ErrorKeeps DEF apiVars, snapVars
  <2>3. CASE snap = "pending" /\ c.polls # WaitSteps - 1
    <3> DEFINE d == [c EXCEPT !.polls = @ + 1]
    <3>0. c.polls < WaitSteps - 1 /\ c.polls + 1 \in 0..(WaitSteps - 1)
      BY <2>0, <2>3, SnapshotConstants
    <3>1. d \in Call /\ d.pc = "Wait" /\ c.pc = "Wait"
      BY <1>0, <1>3, <3>0 DEF Call, WaitForVolumeSnapshotReady
    <3>2. Continue(c, d) /\ UNCHANGED <<apiVars, faults>>
      BY <1>3, <2>3, <3>0 DEF WaitForVolumeSnapshotReady
    <3> QED BY <3>1, <3>2, ContinueKeeps DEF Continue, apiVars, snapVars
  <2> QED BY <2>0, <2>1, <2>2, <2>3
<1>4. CASE DeleteSnapshot(c)
  <2>1. CASE snap = "absent"
    BY <1>0, <1>4, <2>1, ErrorKeeps DEF DeleteSnapshot
  <2>2. CASE snap # "absent"
    <3>1. /\ Deleted /\ content' = "gone" /\ calls' = {}
          /\ UNCHANGED <<source, data, late, background, window, faults>>
      BY <1>4, <2>2 DEF DeleteSnapshot, IInv, Tracked
    <3>2. TypeOK'
      BY <3>1, WriteTypes DEF IInv, TypeOK, ContentState
    <3> QED BY <3>1, <3>2 DEF IInv, Tracked, LateBounded, ReadySnapshotUsable
  <2> QED BY <2>1, <2>2
<1> QED BY <1>1, <1>2, <1>3, <1>4 DEF HandlerStep

\* A write that arrives late preserves the inductive invariant.
LEMMA LateKeeps ==
  ASSUME IInv, NEW w \in Writes, LateWrite(w)
  PROVE  IInv'
<1>1. /\ late \in [Writes -> 0..MaxFaults] /\ faults \in 0..MaxFaults
      /\ MaxFaults \in Nat /\ "Delete" \in Writes
  BY SnapshotConstants DEF IInv, TypeOK, Writes
<1>2. late' \in [Writes -> 0..MaxFaults] /\ \A u \in Writes : late'[u] <= late[u]
  BY <1>1 DEF LateWrite
<1>3. TypeOK'
  BY <1>2, WriteTypes DEF IInv, TypeOK, LateWrite, coVars
<1>4. LateBounded'
  BY <1>1, <1>2 DEF IInv, LateBounded, LateWrite, coVars
<1>5. Tracked'
  BY DEF IInv, Tracked, LateWrite, coVars
<1>6. ReadySnapshotUsable'
  <2> SUFFICES ASSUME content' = "ready" PROVE snap' = "ready"
    BY DEF ReadySnapshotUsable
  <2>1. content = "ready" /\ snap = "ready"
    BY DEF IInv, ReadySnapshotUsable, LateWrite, coVars
  <2>2. w # "Delete"
    BY <1>1, <2>1 DEF IInv, LateBounded, LateWrite
  <2> QED BY <2>1, <2>2 DEF LateWrite, Writes, Applied
<1> QED BY <1>3, <1>4, <1>5, <1>6 DEF IInv

\* A call that is given up preserves the inductive invariant.
LEMMA GiveUpKeeps ==
  ASSUME IInv, NEW c \in calls, GiveUp(c)
  PROVE  IInv'
<1>1. /\ late \in [Writes -> 0..MaxFaults] /\ faults \in 0..MaxFaults
      /\ MaxFaults \in Nat /\ "Delete" \in Writes
      /\ faults' \in 0..MaxFaults /\ faults' = faults + 1
  BY SnapshotConstants DEF IInv, TypeOK, Writes, GiveUp, Fault
<1>2. calls' = {}
  BY DEF IInv, Tracked, GiveUp
<1>3. /\ late' \in [Writes -> 0..MaxFaults]
      /\ \A u \in Writes : late'[u] <= faults'
      /\ late'["Delete"] > 0 => late["Delete"] > 0 \/ c.pc = "Delete"
  BY <1>1 DEF GiveUp, IInv, LateBounded
<1>4. TypeOK'
  BY <1>1, <1>2, <1>3 DEF IInv, TypeOK, GiveUp, snapVars
<1>5. LateBounded'
  BY <1>3 DEF IInv, Tracked, LateBounded, GiveUp
<1> QED BY <1>2, <1>4, <1>5 DEF IInv, Tracked, ReadySnapshotUsable, GiveUp, snapVars

\* Every step preserves the inductive invariant.
LEMMA InvStep == IInv /\ [Next]_vars => IInv'
<1> SUFFICES ASSUME IInv, [Next]_vars PROVE IInv'
  OBVIOUS
<1>0. /\ faults \in 0..MaxFaults /\ MaxFaults \in Nat /\ data \in 0..MaxWrites
      /\ MaxWrites \in Nat /\ faults \in Nat
  BY SnapshotConstants DEF IInv, TypeOK
<1>1. ASSUME NEW c \in calls, HandlerStep(c) PROVE IInv'
  BY <1>1, HandlerKeeps
<1>2. ASSUME NEW c \in calls, ApiError(c) PROVE IInv'
  BY <1>0, <1>2, ErrorKeeps DEF ApiError, Fault, apiVars, snapVars
<1>3. ASSUME NEW c \in calls, ReplyLost(c) PROVE IInv'
  BY <1>0, <1>3, ErrorKeeps DEF ReplyLost, Fault
<1>4. ASSUME NEW c \in calls, GiveUp(c) PROVE IInv'
  BY <1>4, GiveUpKeeps
<1>5. ASSUME NEW w \in Writes, LateWrite(w) PROVE IInv'
  BY <1>5, LateKeeps
<1>6. CASE Want \/ Withdraw \/ Release
  <2>1. /\ content' \in ContentState /\ content # "released" /\ content' # "ready"
        /\ UNCHANGED window \/ window' = [window EXCEPT !.from = data]
        /\ UNCHANGED <<source, data, snap, taken, late, background, calls, faults>>
        /\ content \in {"none", "wanted", "ready"}
    BY <1>6 DEF Want, Withdraw, Release, ContentState, apiVars
  <2>2. TypeOK' /\ LateBounded' /\ ReadySnapshotUsable'
    BY <2>1 DEF IInv, TypeOK, LateBounded, ReadySnapshotUsable
  <2>3. Tracked'
    BY <1>6, <2>1 DEF Want, Withdraw, Release, IInv, Tracked
  <2> QED BY <2>2, <2>3 DEF IInv
<1>7. ASSUME NEW pc \in {"GetSource", "Delete"}, Begin(pc),
             IF pc = "Delete" THEN content = "released"
                              ELSE content \in {"wanted", "withdrawn"}
      PROVE IInv'
  <2> DEFINE d == [pc |-> pc, polls |-> 0]
  <2>1. d \in Call /\ d.pc = pc
    BY SnapshotConstants DEF Call, Writes
  <2>2. calls' = {d} /\ UNCHANGED <<source, data, snap, taken, late, content, background, window, faults>>
    BY <1>7 DEF Begin, apiVars, coVars
  <2> HIDE DEF d
  <2>3. TypeOK' /\ LateBounded' /\ ReadySnapshotUsable'
    BY <2>1, <2>2 DEF IInv, TypeOK, LateBounded, ReadySnapshotUsable
  <2>4. Tracked'
    BY <1>7, <2>1, <2>2 DEF Tracked
  <2> QED BY <2>3, <2>4 DEF IInv
<1>8. CASE BeginCreate
  BY <1>7, <1>8 DEF BeginCreate
<1>9. CASE BeginDelete
  BY <1>7, <1>9 DEF BeginDelete
<1>10. CASE DeleteSource \/ Provision \/ Degrade
  <2>1. /\ source' \in {"absent", "pending", "available"}
        /\ faults' \in 0..MaxFaults /\ faults' >= faults
        /\ UNCHANGED <<data, snap, taken, late, content, background, window, calls>>
    BY <1>0, <1>10 DEF DeleteSource, Provision, Degrade, Fault, snapVars, coVars
  <2>2. TypeOK'
    BY <2>1 DEF IInv, TypeOK
  <2>3. LateBounded'
    BY <1>0, <2>1 DEF IInv, TypeOK, LateBounded
  <2> QED BY <2>1, <2>2, <2>3 DEF IInv, Tracked, ReadySnapshotUsable
<1>11. CASE TakeSnapshot
  <2>1. TypeOK'
    BY <1>11 DEF IInv, TypeOK, TakeSnapshot, coVars
  <2> QED BY <1>11, <2>1 DEF IInv, Tracked, LateBounded, ReadySnapshotUsable,
                             TakeSnapshot, coVars
<1>12. CASE Write
  <2>1. TypeOK'
    BY <1>0, <1>12 DEF IInv, TypeOK, Write, snapVars, coVars
  <2> QED BY <1>12, <2>1 DEF IInv, Tracked, LateBounded, ReadySnapshotUsable,
                             Write, coVars, snapVars
<1>13. CASE UNCHANGED vars
  BY <1>13 DEF IInv, TypeOK, Tracked, LateBounded, ReadySnapshotUsable, vars
<1> QED BY <1>1, <1>2, <1>3, <1>4, <1>5, <1>6, <1>8, <1>9, <1>10, <1>11, <1>12, <1>13
           DEF Next

\* Every variable of the snapshot's life cycle keeps its type.
THEOREM SnapshotTypes == Spec => []TypeOK
<1>1. IInv => TypeOK
  BY DEF IInv
<1> QED BY <1>1, InvInit, InvStep, PTL DEF Spec

\* What CreateSnapshot reported ready is there and ready until the CO
\* releases it, however many calls, retries and late writes there were.
THEOREM ReadySnapshotSafe == Spec => []ReadySnapshotUsable
<1>1. IInv => ReadySnapshotUsable
  BY DEF IInv
<1> QED BY <1>1, InvInit, InvStep, PTL DEF Spec

------------------------------------------------------------------------------
(* The moment a snapshot is of.                                            *)

\* Nothing is made before the CO wants the snapshot; what is ready before the
\* answer was taken since then, and what was answered was taken before.
Timed ==
  /\ content = "none" => snap = "absent" /\ calls = {} /\ late["Apply"] = 0
  /\ content \in {"wanted", "withdrawn"} =>
       /\ window.from <= data
       /\ snap = "ready" => taken \in window.from..data
  /\ SnapshotOfItsTime

TInv == IInv /\ Timed

LEMMA TimedInit == Init => TInv
BY InvInit DEF Init, TInv, Timed, SnapshotOfItsTime, Writes

\* A step that does not have the snapshot taken, and tells the CO nothing.
LEMMA TimedQuiet ==
  ASSUME TInv, UNCHANGED <<data, window>>,
         \/ content' \in {content, "released", "gone"}
         \/ content = "wanted" /\ content' = "withdrawn",
         content' = "none" => snap' = "absent" /\ calls' = {} /\ late'["Apply"] = 0,
         snap' = "ready" => snap = "ready" /\ taken' = taken,
         content' = "ready" => taken' = taken
  PROVE  Timed'
BY DEF TInv, Timed, SnapshotOfItsTime

LEMMA TimedStep == TInv /\ [Next]_vars => TInv'
<1> SUFFICES ASSUME TInv, [Next]_vars PROVE Timed'
  BY InvStep DEF TInv
<1>0. /\ "Apply" \in Writes /\ "Delete" \in Writes /\ late \in [Writes -> 0..MaxFaults]
      /\ data \in Nat /\ taken \in Nat /\ MaxFaults \in Nat /\ faults \in Nat
      /\ window \in [from : Nat, to : Nat]
      /\ content = "ready" => snap = "ready"
  BY SnapshotConstants DEF TInv, IInv, TypeOK, Writes, ReadySnapshotUsable
<1>1. ASSUME NEW c \in calls
      PROVE  /\ content \in {"wanted", "withdrawn", "released"}
             /\ c.pc # "Delete" => content \in {"wanted", "withdrawn"}
  BY DEF TInv, IInv, Tracked
<1>2. ASSUME NEW c \in calls, HandlerStep(c) PROVE Timed'
  <2>1. CASE CreateGetSource(c)
    BY <1>1, <2>1, TimedQuiet DEF CreateGetSource, Continue, ReturnError, apiVars, coVars
  <2>2. CASE CreateApply(c)
    BY <1>1, <2>2, TimedQuiet DEF CreateApply, Applied, Continue, coVars
  <2>3. CASE WaitForVolumeSnapshotReady(c)
    <3>0. /\ snap \in {"absent", "pending", "ready"} /\ c.pc = "Wait"
          /\ c.polls = WaitSteps - 1 \/ c.polls < WaitSteps - 1
      BY <2>3, SnapshotConstants DEF TInv, IInv, TypeOK, Call, WaitForVolumeSnapshotReady
    <3>1. CASE snap = "ready"
      <4>1. ReturnCreated(c) /\ UNCHANGED apiVars
        BY <2>3, <3>1 DEF WaitForVolumeSnapshotReady
      <4>2. taken \in window.from..data
        BY <1>1, <3>0, <3>1 DEF TInv, Timed
      <4> QED BY <1>0, <4>1, <4>2 DEF ReturnCreated, apiVars, Timed, SnapshotOfItsTime
    <3>2. CASE snap # "ready"
      <4>1. /\ ReturnError(c) \/ Continue(c, [c EXCEPT !.polls = @ + 1])
            /\ UNCHANGED apiVars
        BY <2>3, <3>0, <3>2 DEF WaitForVolumeSnapshotReady
      <4> QED BY <1>1, <4>1, TimedQuiet DEF ReturnError, Continue, apiVars, coVars
    <3> QED BY <3>1, <3>2
  <2>4. CASE DeleteSnapshot(c)
    <3>1. content = "released" /\ content' \in {content, "gone"} /\ UNCHANGED <<data, window>>
      BY <2>4 DEF DeleteSnapshot, ReturnError, TInv, IInv, Tracked
    <3> QED BY <2>4, <3>1, TimedQuiet DEF DeleteSnapshot, Deleted, snapVars
  <2> QED BY <1>2, <2>1, <2>2, <2>3, <2>4 DEF HandlerStep
<1>3. ASSUME NEW c \in calls, ApiError(c) \/ ReplyLost(c) \/ GiveUp(c) PROVE Timed'
  BY <1>1, <1>3, TimedQuiet
     DEF ApiError, ReplyLost, GiveUp, ReturnError, Applied, Deleted, apiVars, snapVars
<1>4. ASSUME NEW w \in Writes, LateWrite(w) PROVE Timed'
  <2>1. content \in {"none", "ready"} => w = "Apply" /\ content # "none"
    BY <1>0, <1>4 DEF LateWrite, Writes, TInv, Timed, IInv, LateBounded
  <2> QED BY <1>4, <2>1, TimedQuiet DEF LateWrite, Applied, Deleted, coVars
<1>5. CASE Want
  BY <1>0, <1>5 DEF Want, apiVars, TInv, Timed, SnapshotOfItsTime
<1>6. CASE Withdraw \/ Release \/ BeginCreate \/ BeginDelete
  BY <1>6, TimedQuiet DEF Withdraw, Release, BeginCreate, BeginDelete, Begin, apiVars, coVars
<1>7. CASE DeleteSource \/ Provision \/ Degrade
  BY <1>7, TimedQuiet DEF DeleteSource, Provision, Degrade, snapVars, coVars, TInv, Timed
<1>8. CASE TakeSnapshot
  BY <1>0, <1>8 DEF TakeSnapshot, coVars, TInv, Timed, SnapshotOfItsTime
<1>9. CASE Write
  BY <1>0, <1>9 DEF Write, snapVars, coVars, TInv, Timed, SnapshotOfItsTime
<1>10. CASE UNCHANGED vars
  BY <1>10 DEF vars, TInv, Timed, SnapshotOfItsTime
<1> QED BY <1>2, <1>3, <1>4, <1>5, <1>6, <1>7, <1>8, <1>9, <1>10 DEF Next

\* The snapshot the CO keeps holds the data of one moment between its first
\* request and the answer, for every number of polls, writes and faults: this
\* needs that no deletion is under way before the CO releases the snapshot,
\* and that nothing applies the VolumeSnapshot before the CO wants it.
THEOREM SnapshotTimely == Spec => []SnapshotOfItsTime
<1>1. TInv => SnapshotOfItsTime
  BY DEF TInv, Timed
<1> QED BY <1>1, TimedInit, TimedStep, PTL DEF Spec

=============================================================================
