------------------------ MODULE PipelineSafetyProofs ------------------------
(* Safety of the Pipeline reconciler under stale reads, lost replies and    *)
(* restarts, for every value of the constants.                              *)
EXTENDS PipelineController, TLAPS

-----------------------------------------------------------------------------
(* Types of the operators. *)

\* Container statuses always yield a stage, and determineScanPodStageStatuses
\* a triple of stages.
LEMMA StageType ==
  ASSUME NEW s \in Pod
  PROVE  DownloadStage(s) \in Stage /\ ScanStage(s) \in Stage /\ UploadStage(s) \in Stage
  BY DEF Stage, DownloadStage, ScanStage, UploadStage, ContainersStage

\* The three constant objects are well-typed.
LEMMA ObjectType ==
  /\ NewPipeline \in Pipeline /\ NoPipeline \in Pipeline
  /\ \A x \in ContainerState, q \in PodPhase : PodOf(q, x) \in Pod
  /\ NoPod \in Pod /\ NewPod \in Pod
<1>1. NewPipeline \in Pipeline /\ NoPipeline \in Pipeline
  BY DEF NewPipeline, NoPipeline, Pipeline, Duration, Phase, Stage
<1>2. \A x \in ContainerState, q \in PodPhase : PodOf(q, x) \in Pod
  BY DEF PodOf, Pod
<1>3. NoPod \in Pod /\ NewPod \in Pod
  BY <1>2 DEF NoPod, NewPod, ContainerState, PodPhase
<1> QED BY <1>1, <1>2, <1>3

\* Marking a pipeline as started keeps it well-typed.
LEMMA StartedType ==
  ASSUME NEW p \in Pipeline
  PROVE  Started(p) \in Pipeline
  BY DEF Started, Pipeline, Phase, Stage, Condition

\* So does every branch of handleCompletion.
LEMMA ObservedType ==
  ASSUME NEW p \in Pipeline, NEW s \in Pod, NEW t \in Nat,
         s.phase \notin {"None", "Unknown"}
  PROVE  Observed(p, s, t) \in Pipeline
<1>0. DownloadStage(s) \in Stage /\ ScanStage(s) \in Stage /\ UploadStage(s) \in Stage
  BY StageType
<1>1. OnPodSucceeded(p, t) \in Pipeline
  BY DEF OnPodSucceeded, UnlessSkipped, Pipeline, Phase, Stage, Condition, Duration
<1>2. OnPodFailed(p, s, t) \in Pipeline
  BY <1>0 DEF OnPodFailed, UnlessSkipped, Pipeline, Phase, Condition, Duration
<1>3. RunningPhase(p, s) \in Phase
  BY DEF RunningPhase, Pipeline, Phase
<1>4. OnPodRunning(p, s) \in Pipeline
  BY <1>0, <1>3 DEF OnPodRunning, Pipeline
<1>5. OnPodPending(p) \in Pipeline
  BY DEF OnPodPending, UnlessSkipped, Pipeline, Phase, Stage
<1>6. s.phase \in {"Succeeded", "Failed", "Running", "Pending"}
  BY DEF Pod, PodPhase
<1> QED BY <1>1, <1>2, <1>4, <1>5, <1>6 DEF Observed

\* A merge patch of well-typed objects is well-typed, and touches only the
\* status.
LEMMA MergeType ==
  ASSUME NEW p \in Pipeline, NEW base \in Pipeline, NEW new \in Pipeline
  PROVE  /\ MergePatch(p, base, new) \in Pipeline
         /\ MergePatch(p, base, new).life = p.life
         /\ MergePatch(p, base, new).finalizers = p.finalizers
         /\ MergePatch(p, base, new).startTime =
              Patched(p.startTime, base.startTime, new.startTime)
         /\ MergePatch(p, base, new).completionTime =
              Patched(p.completionTime, base.completionTime, new.completionTime)
         /\ MergePatch(p, base, new).phase = Patched(p.phase, base.phase, new.phase)
         /\ MergePatch(p, base, new).conditions =
              Patched(p.conditions, base.conditions, new.conditions)
<1> DEFINE m == MergePatch(p, base, new)
<1>1. /\ m.life = p.life /\ m.finalizers = p.finalizers
      /\ m.startTime = Patched(p.startTime, base.startTime, new.startTime)
      /\ m.completionTime = Patched(p.completionTime, base.completionTime, new.completionTime)
      /\ m.phase = Patched(p.phase, base.phase, new.phase)
      /\ m.conditions = Patched(p.conditions, base.conditions, new.conditions)
  BY DEF MergePatch, Pipeline
<1>2. m \in Pipeline
  <2>1. /\ Patched(p.startTime, base.startTime, new.startTime) \in {"unset", "set"}
        /\ Patched(p.completionTime, base.completionTime, new.completionTime) \in Duration
        /\ Patched(p.phase, base.phase, new.phase) \in Phase
        /\ Patched(p.download, base.download, new.download) \in Stage
        /\ Patched(p.scan, base.scan, new.scan) \in Stage
        /\ Patched(p.upload, base.upload, new.upload) \in Stage
        /\ Patched(p.conditions, base.conditions, new.conditions) \in SUBSET Condition
    BY DEF Patched, Pipeline
  <2> QED BY <2>1 DEF MergePatch, Pipeline
<1> QED BY <1>1, <1>2

\* The API server's view of finalizer removal and of deletion.
LEMMA DeleteType ==
  ASSUME NEW p \in Pipeline
  PROVE  WithoutFinalizer(p) \in Pipeline /\ AfterDelete(p) \in Pipeline
  BY ObjectType DEF WithoutFinalizer, AfterDelete, Pipeline

\* The kubelet's phase computation keeps the container statuses.
LEMMA SettleType ==
  ASSUME NEW p \in Pod
  PROVE  Settle(p) \in Pod
  BY DEF Settle, Pod, PodPhase

\* The queue entry stays a time or Nil.
LEMMA EarliestType ==
  ASSUME NEW d \in Duration, NEW t \in Nat
  PROVE  Earliest(d, t) \in Duration /\ Earliest(d, t) # Nil /\ Earliest(d, t) <= t
  BY DEF Earliest, Duration, Nil

\* What a reconcile holds is well-typed wherever it is.
LEMMA RecType ==
  /\ Idle \in Rec
  /\ \A p \in Pipeline, pc \in {"release", "delete", "untrack", "pod"} : At(pc, p) \in Rec
  BY ObjectType DEF Idle, At, Rec

\* The TTL part of handlePostCompletion keeps the queue and the reconcile
\* well-typed.
LEMMA AwaitTTLType ==
  ASSUME NEW p \in Pipeline, NEW q \in Duration, TypeOK, AwaitTTL(p, q)
  PROVE  rec' \in Rec /\ due' \in Duration
<1>1. CASE rec' = Idle /\ due' = q
  BY <1>1, RecType
<1>2. CASE rec' = At("delete", p) /\ due' = q
  BY <1>2, RecType
<1>3. CASE /\ TTLSecondsAfterFinished # Nil /\ now < p.completionTime + TTLSecondsAfterFinished
           /\ rec' = Idle
           /\ due' = Earliest(q, p.completionTime + TTLSecondsAfterFinished)
  <2>1. p.completionTime + TTLSecondsAfterFinished \in Nat
    BY <1>3, TTLAssumption DEF Pipeline, Duration, Nil, TypeOK
  <2> QED BY <1>3, <2>1, EarliestType, RecType
<1> QED BY <1>1, <1>2, <1>3 DEF AwaitTTL

\* So does what follows CreateOrUpdate.
LEMMA AfterPodType ==
  ASSUME NEW s \in Pod, s.phase # "None", TypeOK, AfterPod(s)
  PROVE  rec' \in Rec /\ due' \in Duration
<1>0. rec.pl \in Pipeline /\ rec.new \in Pipeline /\ now \in Nat
  BY BoundAssumption DEF TypeOK, Rec
<1>1. CASE /\ rec' = [rec EXCEPT !.pc = "status", !.new = Started(rec.pl)]
           /\ UNCHANGED due
  BY <1>0, <1>1, StartedType DEF TypeOK, Rec
<1>2. CASE rec' = [rec EXCEPT !.pc = "track"] /\ UNCHANGED due
  BY <1>2 DEF TypeOK, Rec
<1>3. CASE /\ s.phase # "Unknown"
           /\ rec' = [rec EXCEPT !.pc = "status", !.new = Observed(rec.pl, s, now)]
           /\ UNCHANGED due
  <2>1. Observed(rec.pl, s, now) \in Pipeline
    BY <1>0, <1>3, ObservedType
  <2> QED BY <1>3, <2>1 DEF TypeOK, Rec
<1>4. CASE rec' = Idle /\ due' = Earliest(due, now + UnknownRequeue)
  <2>1. now + UnknownRequeue \in Nat
    BY <1>0, RequeueAssumption
  <2> QED BY <1>4, <2>1, EarliestType, RecType DEF TypeOK
<1> QED BY <1>1, <1>2, <1>3, <1>4 DEF AfterPod

-----------------------------------------------------------------------------
(* Type correctness. *)

\* What the history variables note is of its kind, in every step.
LEMMA HistoryType ==
  ASSUME TypeOK, [Next]_vars
  PROVE  behind' \in BOOLEAN /\ amiss' \subseteq {"stale", "lost", "restart"}
<1>0. behind \in BOOLEAN /\ amiss \subseteq {"stale", "lost", "restart"}
  BY DEF TypeOK
<1>1. CASE Take /\ UNCHANGED amiss
  <2>1. behind' \in BOOLEAN
    BY <1>1 DEF Take, Lags
  <2> QED BY <1>0, <1>1, <2>1
<1>2. CASE UNCHANGED behind /\ (NoteIfBehind \/ NoteLost \/ amiss' = amiss \cup {"restart"})
  BY <1>0, <1>2 DEF NoteIfBehind, NoteLost
<1>3. CASE UNCHANGED <<behind, amiss>>
  BY <1>0, <1>3
<1>4. \/ Take /\ UNCHANGED amiss
      \/ UNCHANGED behind /\ (NoteIfBehind \/ NoteLost \/ amiss' = amiss \cup {"restart"})
      \/ UNCHANGED <<behind, amiss>>
  <2>1. CASE Controller
    BY <2>1 DEF Controller, Begin, Take, history, ReconcileNotFound, ReconcileDeleted,
       ReconcileExpired, ReconcileUnfinished, ReconcileFinished, CallFails,
       RemoveFinalizerOnDeletion, DeletePipeline, RemoveFinalizerOnCompletion,
       CreateOrUpdatePod, AddFinalizer, PatchStatus
  <2>2. CASE Watches \/ Environment
    BY <2>2 DEF Watches, Environment, history, SyncPipeline, SyncPod, Restart, Tick,
       UserDeletes, Kubelet, NodeUnreachable, LosePod, GarbageCollect
  <2> QED BY <2>1, <2>2 DEF Next, vars
<1> QED BY <1>1, <1>2, <1>3, <1>4

\* One step of the controller, a watch or the environment keeps the types.
LEMMA TypeStep == TypeOK /\ [Next]_vars => TypeOK'
<1> SUFFICES ASSUME TypeOK, [Next]_vars PROVE TypeOK'
  OBVIOUS
<1> USE DEF server, caches, metrics, budget
<1>0. /\ pl \in Pipeline /\ plCache \in Pipeline /\ pod \in Pod /\ podCache \in Pod
      /\ rec \in Rec /\ rec.pl \in Pipeline /\ rec.new \in Pipeline
      /\ due \in Duration /\ Nil \in Duration /\ now \in Nat /\ MaxTime \in Nat
      /\ WithoutFinalizer(pl) \in Pipeline /\ AfterDelete(pl) \in Pipeline
      /\ MergePatch(pl, rec.pl, rec.new) \in Pipeline
      /\ Earliest(due, now) \in Duration /\ Idle \in Rec
  <2>1. /\ pl \in Pipeline /\ plCache \in Pipeline /\ pod \in Pod /\ podCache \in Pod
        /\ rec \in Rec /\ rec.pl \in Pipeline /\ rec.new \in Pipeline
        /\ due \in Duration /\ Nil \in Duration /\ now \in Nat /\ MaxTime \in Nat
    BY BoundAssumption DEF TypeOK, Rec, Duration
  <2> QED BY <2>1, DeleteType, MergeType, EarliestType, RecType
<1>h. behind' \in BOOLEAN /\ amiss' \subseteq {"stale", "lost", "restart"}
  BY HistoryType
<1>1. ASSUME NEW pc \in {"release", "delete", "untrack", "pod"}, Begin(pc) PROVE TypeOK'
  BY <1>h, <1>0, <1>1, RecType DEF Begin, Take, TypeOK
<1>2. CASE ReconcileNotFound
  BY <1>h, <1>0, <1>2 DEF ReconcileNotFound, Take, TypeOK
<1>3. CASE ReconcileDeleted \/ ReconcileExpired \/ ReconcileUnfinished
  BY <1>1, <1>3 DEF ReconcileDeleted, ReconcileExpired, ReconcileUnfinished
<1>4. CASE ReconcileFinished
  <2>1. CASE Begin("untrack")
    BY <1>1, <2>1
  <2>2. CASE Take /\ AwaitTTL(plCache, Nil)
    <3>1. rec' \in Rec /\ due' \in Duration
      BY <1>0, <2>2, AwaitTTLType
    <3> QED BY <1>h, <2>2, <3>1 DEF Take, TypeOK
  <2> QED BY <1>4, <2>1, <2>2 DEF ReconcileFinished
<1>5. CASE CallFails
  BY <1>h, <1>0, <1>5, BoundAssumption DEF CallFails, ReturnError, TypeOK
<1>6. CASE RemoveFinalizerOnDeletion
  BY <1>h, <1>0, <1>6, BoundAssumption
     DEF RemoveFinalizerOnDeletion, Replied, ReplyLost, Return, ReturnError, TypeOK
<1>7. CASE DeletePipeline
  BY <1>h, <1>0, <1>7, BoundAssumption
     DEF DeletePipeline, Replied, ReplyLost, Return, ReturnError, TypeOK
<1>8. CASE RemoveFinalizerOnCompletion
  <2>1. CASE Replied /\ AwaitTTL(pl, due) /\ running' = running - 1
             /\ completedTotal' = completedTotal + 1
    <3>1. rec' \in Rec /\ due' \in Duration
      BY <1>0, <2>1, AwaitTTLType
    <3> QED BY <1>h, <1>0, <1>8, <2>1, <3>1 DEF RemoveFinalizerOnCompletion, Replied, TypeOK
  <2>2. CASE ReplyLost /\ UNCHANGED <<running, completedTotal>>
    BY <1>h, <1>0, <1>8, <2>2, BoundAssumption
       DEF RemoveFinalizerOnCompletion, ReplyLost, ReturnError, TypeOK
  <2> QED BY <1>8, <2>1, <2>2 DEF RemoveFinalizerOnCompletion
<1>9. CASE CreateOrUpdatePod
  <2>1. CASE podCache.phase # "None" /\ Replied /\ AfterPod(podCache)
             /\ UNCHANGED <<pod, podsCreated>>
    <3>1. rec' \in Rec /\ due' \in Duration
      BY <1>0, <2>1, AfterPodType
    <3> QED BY <1>h, <1>9, <2>1, <3>1 DEF CreateOrUpdatePod, Replied, TypeOK
  <2>2. CASE podsCreated < MaxPods /\ pod' = NewPod /\ Replied /\ AfterPod(NewPod)
             /\ podsCreated' = podsCreated + 1
    <3>1. NewPod.phase = "Pending"
      BY DEF NewPod, PodOf
    <3>2. rec' \in Rec /\ due' \in Duration
      BY <2>2, <3>1, ObjectType, AfterPodType
    <3> QED BY <1>h, <1>9, <2>2, <3>2, ObjectType, BoundAssumption
            DEF CreateOrUpdatePod, Replied, TypeOK
  <2>3. CASE pod' = NewPod /\ ReplyLost /\ UNCHANGED podsCreated
    BY <1>h, <1>0, <1>9, <2>3, ObjectType, BoundAssumption
       DEF CreateOrUpdatePod, ReplyLost, ReturnError, TypeOK
  <2>4. CASE UNCHANGED faults /\ ReturnError /\ UNCHANGED <<pod, podsCreated>>
    BY <1>h, <1>0, <1>9, <2>4 DEF CreateOrUpdatePod, ReturnError, TypeOK
  <2> QED BY <1>9, <2>1, <2>2, <2>3, <2>4 DEF CreateOrUpdatePod
<1>10. CASE AddFinalizer
  <2>1. [pl EXCEPT !.finalizers = {metricsFinalizer}] \in Pipeline
    BY <1>0 DEF Pipeline
  <2> QED BY <1>h, <1>0, <1>10, <2>1, BoundAssumption
          DEF AddFinalizer, Replied, ReplyLost, Return, ReturnError, TypeOK
<1>11. CASE PatchStatus
  BY <1>h, <1>0, <1>11, BoundAssumption
     DEF PatchStatus, Replied, ReplyLost, Return, ReturnError, TypeOK
<1>12. CASE SyncPipeline \/ SyncPod
  BY <1>h, <1>0, <1>12 DEF SyncPipeline, SyncPod, TypeOK
<1>13. CASE Restart
  BY <1>h, <1>0, <1>13, BoundAssumption DEF Restart, Duration, TypeOK
<1>14. CASE Tick \/ UserDeletes
  BY <1>h, <1>0, <1>14, BoundAssumption DEF Tick, UserDeletes, TypeOK
<1>15. CASE Kubelet
  <2>1. pod' \in Pod
    <3>1. PodOf("Pending", "live") \in Pod
      BY ObjectType DEF PodPhase, ContainerState
    <3>2. \A x \in {"ok", "failed"} : [pod EXCEPT !.dl = x] \in Pod
      BY <1>0 DEF Pod, ContainerState
    <3>3. \A q \in PodPhase : [pod EXCEPT !.phase = q] \in Pod
      BY <1>0 DEF Pod
    <3>4. \A i \in 1..NScan, x \in {"ok", "failed"} : [pod EXCEPT !.scan[i] = x] \in Pod
      BY <1>0 DEF Pod, ContainerState
    <3>5. \A i \in 1..NUp, x \in {"ok", "failed"} : [pod EXCEPT !.up[i] = x] \in Pod
      BY <1>0 DEF Pod, ContainerState
    <3>6. "Running" \in PodPhase /\ "Failed" \in PodPhase
      BY DEF PodPhase
    <3> QED BY <1>15, <3>1, <3>2, <3>3, <3>4, <3>5, <3>6, SettleType
            DEF Kubelet, KubeletStep
  <2> QED BY <1>h, <1>15, <2>1 DEF Kubelet, TypeOK
<1>16. CASE NodeUnreachable
  <2>1. [pod EXCEPT !.phase = "Unknown"] \in Pod
    BY <1>h, <1>0 DEF Pod, PodPhase
  <2> QED BY <1>h, <1>16, <2>1, BoundAssumption DEF NodeUnreachable, TypeOK
<1>17. CASE LosePod \/ GarbageCollect
  BY <1>h, <1>0, <1>17, ObjectType, BoundAssumption DEF LosePod, GarbageCollect, TypeOK
<1>18. CASE UNCHANGED vars
  BY <1>h, <1>18 DEF vars, TypeOK
<1> QED
  BY <1>2, <1>3, <1>4, <1>5, <1>6, <1>7, <1>8, <1>9, <1>10, <1>11, <1>12, <1>13,
     <1>14, <1>15, <1>16, <1>17, <1>18
     DEF Next, Controller, Watches, Environment

\* Initially every variable has its type.
LEMMA TypeInit == Init => TypeOK
<1>1. Init => behind \in BOOLEAN /\ amiss \subseteq {"stale", "lost", "restart"}
  BY DEF Init
<1> QED BY <1>1, ObjectType, RecType, BoundAssumption DEF Init, TypeOK, Duration

\* Every behaviour of the reconciler keeps its objects, caches, queue entry and
\* counters well-typed and inside their bounds.
THEOREM TypeCorrect == Spec => []TypeOK
  BY TypeInit, TypeStep, PTL DEF Spec

-----------------------------------------------------------------------------
(* The inductive invariant: how far a cached object may lag behind the API  *)
(* server's, and what a reconcile between two calls may count on.           *)

\* What holds of every copy of the Pipeline, current or stale.
WellFormed(p) ==
  /\ p.life = "None" => p = NoPipeline
  /\ HasFinalizer(p) => p.startTime = "set"
  /\ p.completionTime # Nil => p.startTime = "set"
  /\ p.life = "Deleting" => HasFinalizer(p)

\* The stale copy q tells the truth about the past, and the server is at most
\* one write of the reconciler ahead of it.
Behind(q) ==
  pl.life # "None" /\ q.life # "None" =>
    /\ q.startTime = "set" => pl.startTime = "set"
    /\ HasFinalizer(q) => HasFinalizer(pl) \/ pl.completionTime # Nil
    /\ q.completionTime # Nil => pl.completionTime # Nil
    /\ q.life = "Deleting" => pl.life = "Deleting"
    /\ q.completionTime # Nil /\ ~HasFinalizer(q) =>
         ~HasFinalizer(pl) /\ pl.completionTime = q.completionTime
    /\ q.startTime = "unset" => ~HasFinalizer(pl)
    /\ q.completionTime = Nil /\ ~HasFinalizer(q) => pl.completionTime = Nil
    /\ q.completionTime = Nil /\ pl.completionTime # Nil => HasFinalizer(pl)

\* What the reconcile read is behind the cache.
SnapshotBehindCache ==
  rec.pc # "idle" /\ plCache.life # "None" =>
    /\ rec.pl.startTime = "set" => plCache.startTime = "set"
    /\ HasFinalizer(rec.pl) => HasFinalizer(plCache) \/ plCache.completionTime # Nil
    /\ rec.pl.completionTime # Nil => plCache.completionTime # Nil

\* The conditions under which each call was reached.
AtCall ==
  /\ rec.pc # "idle" => rec.pl.life # "None"
  /\ rec.pc = "release" => rec.pl.life = "Deleting"
  /\ rec.pc = "untrack" => rec.pl.completionTime # Nil /\ HasFinalizer(rec.pl)
  /\ rec.pc \in {"pod", "track", "status"} =>
       rec.pl.completionTime = Nil /\ rec.pl.life = "Live"
  /\ rec.pc = "track" => rec.pl.startTime = "set" /\ ~HasFinalizer(rec.pl)

\* The status patch marks the Pipeline as started, or follows the pod.
AtStatus ==
  rec.pc = "status" =>
    \/ rec.pl.startTime = "unset" /\ rec.new = Started(rec.pl)
    \/ /\ rec.pl.startTime = "set" /\ HasFinalizer(rec.pl)
       /\ rec.new.startTime = "set"

\* A delete call is under way only when the time has come.
DeleteIsDue ==
  rec.pc = "delete" /\ pl.life = "Live" =>
    \/ TTLSecondsMaxLifetime # Nil /\ now > TTLSecondsMaxLifetime
    \/ /\ pl.completionTime # Nil /\ TTLSecondsAfterFinished # Nil
       /\ now >= pl.completionTime + TTLSecondsAfterFinished

CoreInv ==
  /\ WellFormed(pl) /\ WellFormed(plCache) /\ WellFormed(rec.pl)
  /\ Behind(plCache) /\ (rec.pc # "idle" => Behind(rec.pl))
  /\ plCache.life = "None" /\ pl.life # "None" => rec.pc = "idle" /\ pl = NewPipeline
  /\ SnapshotBehindCache /\ AtCall /\ AtStatus /\ DeleteIsDue

\* The reconcile works on what the caches hold, or the request is queued again.
UpToDate ==
  \/ Ready
  \/ rec.pc = "delete" /\ (plCache.life # "Deleting" \/ pl.life = "None")
  \/ rec.pc # "delete" /\ plCache = rec.pl

\* What a status patch that changes nothing leaves behind.
ObservedQuiet ==
  rec.pc = "status" /\ rec.pl.startTime = "set" /\ rec.new.completionTime = Nil =>
    \/ Ready \/ pl.life = "None"
    \/ podCache.phase \in {"Pending", "Running"}
    \/ podCache.phase = "None" /\ pod.phase # "None"

\* The quiet states, told by the cached pod.
Quiet ==
  \/ pl.life = "None"
  \/ /\ pl.life = "Live" /\ pl.completionTime = Nil
     /\ pl.startTime = "set" /\ HasFinalizer(pl)
     /\ \/ podCache.phase \in {"Pending", "Running"}
        \/ podCache.phase = "Unknown" /\ due # Nil
        \/ podCache.phase = "None" /\ pod.phase # "None"
  \/ /\ pl.life = "Live" /\ pl.completionTime # Nil /\ ~HasFinalizer(pl)
     /\ \/ TTLSecondsAfterFinished = Nil
        \/ due # Nil /\ due <= pl.completionTime + TTLSecondsAfterFinished

WakeInv ==
  /\ rec.pc # "idle" => UpToDate
  /\ ObservedQuiet
  /\ rec.pc = "idle" /\ plCache = pl => Ready \/ Quiet

-----------------------------------------------------------------------------
(* What the API calls do to the fields the invariant speaks of. *)

\* The empty object and a new one are well-formed.
LEMMA ObjectsWellFormed ==
  /\ WellFormed(NoPipeline) /\ WellFormed(NewPipeline)
  /\ NoPipeline.life = "None" /\ NewPipeline.life = "Live"
  /\ NewPipeline.startTime = "unset" /\ NewPipeline.completionTime = Nil
  /\ NoPipeline.completionTime = Nil
  /\ ~HasFinalizer(NewPipeline) /\ ~HasFinalizer(NoPipeline)
  BY DEF WellFormed, NoPipeline, NewPipeline, HasFinalizer

\* Removing the finalizer changes nothing else, or the object is gone.
LEMMA WithoutFinalizerFacts ==
  ASSUME NEW p \in Pipeline
  PROVE  /\ p.life = "Deleting" => WithoutFinalizer(p) = NoPipeline
         /\ p.life # "Deleting" =>
              /\ ~HasFinalizer(WithoutFinalizer(p))
              /\ WithoutFinalizer(p).life = p.life
              /\ WithoutFinalizer(p).startTime = p.startTime
              /\ WithoutFinalizer(p).completionTime = p.completionTime
              /\ WithoutFinalizer(p).phase = p.phase
              /\ WithoutFinalizer(p).conditions = p.conditions
  BY DEF WithoutFinalizer, HasFinalizer, Pipeline

\* Deletion keeps everything but the deletion mark, or the object is gone.
LEMMA AfterDeleteFacts ==
  ASSUME NEW p \in Pipeline
  PROVE  /\ ~HasFinalizer(p) => AfterDelete(p) = NoPipeline
         /\ HasFinalizer(p) =>
              /\ HasFinalizer(AfterDelete(p))
              /\ AfterDelete(p).life = "Deleting"
              /\ AfterDelete(p).startTime = p.startTime
              /\ AfterDelete(p).completionTime = p.completionTime
              /\ AfterDelete(p).phase = p.phase
              /\ AfterDelete(p).conditions = p.conditions
  BY DEF AfterDelete, HasFinalizer, Pipeline

\* Adding the finalizer.
LEMMA WithFinalizerFacts ==
  ASSUME NEW p \in Pipeline
  PROVE  LET q == [p EXCEPT !.finalizers = {metricsFinalizer}] IN
         /\ HasFinalizer(q) /\ q.life = p.life /\ q.startTime = p.startTime
         /\ q.completionTime = p.completionTime /\ q.phase = p.phase
         /\ q.conditions = p.conditions
  BY DEF HasFinalizer, Pipeline

\* What the status patch writes when the reconcile marks the start.
LEMMA StartedFacts ==
  ASSUME NEW p \in Pipeline
  PROVE  /\ Started(p).startTime = "set" /\ Started(p).completionTime = p.completionTime
         /\ Started(p).phase = "Downloading"
         /\ Started(p).conditions = p.conditions \cup {PodCreatedTrue}
  BY DEF Started, Pipeline

\* What the status patch writes when it follows the pod.
LEMMA ObservedFacts ==
  ASSUME NEW p \in Pipeline, NEW s \in Pod, NEW t \in Nat,
         s.phase \notin {"None", "Unknown"}
  PROVE  /\ Observed(p, s, t).startTime = p.startTime
         /\ s.phase \in Terminal =>
              /\ Observed(p, s, t).completionTime = t
              /\ Observed(p, s, t).phase = s.phase
              /\ Observed(p, s, t).conditions = p.conditions \cup
                   {IF s.phase = "Succeeded" THEN SuccessfulTrue ELSE CompleteFalse}
         /\ s.phase \notin Terminal =>
              /\ s.phase \in {"Pending", "Running"}
              /\ Observed(p, s, t).completionTime = p.completionTime
              /\ Observed(p, s, t).conditions = p.conditions
         /\ s.phase = "Pending" => Observed(p, s, t).phase = "Succeeded"
         /\ s.phase = "Running" /\ s.dl = "ok" => Observed(p, s, t).phase = p.phase
<1>1. s.phase \in {"Succeeded", "Failed", "Running", "Pending"}
  BY DEF Pod, PodPhase
<1>2. CASE s.phase = "Succeeded"
  BY <1>2 DEF Observed, OnPodSucceeded, Pipeline, Terminal
<1>3. CASE s.phase = "Failed"
  BY <1>3 DEF Observed, OnPodFailed, Pipeline, Terminal
<1>4. CASE s.phase = "Pending"
  BY <1>4 DEF Observed, OnPodPending, Pipeline, Terminal
<1>5. CASE s.phase = "Running"
  <2>1. s.dl = "ok" => RunningPhase(p, s) = p.phase
    BY DEF RunningPhase, UploadStage, ScanStage, DownloadStage
  <2> QED BY <1>5, <2>1 DEF Observed, OnPodRunning, Pipeline, Terminal
<1> QED BY <1>1, <1>2, <1>3, <1>4, <1>5

-----------------------------------------------------------------------------
(* The core invariant is inductive. *)

\* A step that ends the reconcile needs to keep only what relates the cache to
\* the server.
LEMMA CoreIdle ==
  ASSUME CoreInv, rec' = Idle, plCache' = plCache,
         WellFormed(pl'), Behind(plCache)',
         plCache.life = "None" /\ pl'.life # "None" => pl' = NewPipeline
  PROVE  CoreInv'
<1>1. rec'.pc = "idle" /\ rec'.pl = NoPipeline
  BY DEF Idle
<1>2. WellFormed(rec'.pl)
  BY <1>1, ObjectsWellFormed
<1> QED BY <1>1, <1>2 DEF CoreInv, SnapshotBehindCache, AtCall, AtStatus, DeleteIsDue

\* A step that touches none of the Pipeline's copies, nor turns time back.
LEMMA CoreStutter ==
  ASSUME CoreInv, TypeOK, TypeOK', UNCHANGED <<pl, plCache, rec>>, now' >= now
  PROVE  CoreInv'
<1>1. DeleteIsDue'
  <2>1. /\ now \in Nat /\ now' \in Nat /\ TTLSecondsMaxLifetime \in Int
        /\ TTLSecondsAfterFinished \in Int /\ pl.completionTime \in Int
    BY TTLAssumption, BoundAssumption DEF TypeOK, Pipeline, Duration, Nil
  <2> QED BY <2>1 DEF CoreInv, DeleteIsDue
<1> QED BY <1>1 DEF CoreInv, Behind, SnapshotBehindCache, AtCall, AtStatus

\* Reconcile begins: the snapshot is the cached object.
LEMMA CoreBegin ==
  ASSUME CoreInv, NEW pc \in {"release", "delete", "untrack", "pod"}, Begin(pc),
         pc = "release" => plCache.life = "Deleting",
         pc = "untrack" => plCache.completionTime # Nil /\ HasFinalizer(plCache),
         pc = "pod" => plCache.completionTime = Nil /\ plCache.life = "Live",
         pc = "delete" => DeleteIsDue'
  PROVE  CoreInv'
<1>1. rec'.pc = pc /\ rec'.pl = plCache /\ plCache.life # "None"
  BY DEF Begin, At
<1>2. UNCHANGED <<pl, plCache, now>>
  BY DEF Begin, Take, server, caches
<1>3. DeleteIsDue'
  BY <1>1 DEF DeleteIsDue
<1> QED BY <1>1, <1>2, <1>3 DEF CoreInv, Behind, SnapshotBehindCache, AtCall, AtStatus

\* handlePostCompletion goes on to the delete call with an object p that is
\* completed, and whose completion time is the server's.
LEMMA CoreAwaitTTL ==
  ASSUME CoreInv, TypeOK, NEW p \in Pipeline, NEW q, AwaitTTL(p, q),
         plCache' = plCache, now' = now, WellFormed(pl'), Behind(plCache)',
         plCache.life = "None" /\ pl'.life # "None" => pl' = NewPipeline,
         p.life # "None", p.completionTime # Nil, WellFormed(p),
         pl'.life # "None" => pl'.completionTime = p.completionTime /\ ~HasFinalizer(pl')
                                /\ pl'.startTime = "set" /\ p.life # "Deleting",
         plCache.life # "None" => plCache.completionTime # Nil /\ WellFormed(plCache),
         plCache.life = "None" => pl'.life = "None"
  PROVE  CoreInv'
<1>1. CASE rec' = Idle
  BY <1>1, CoreIdle
<1>2. CASE /\ TTLSecondsAfterFinished # Nil
           /\ now >= p.completionTime + TTLSecondsAfterFinished
           /\ rec' = At("delete", p)
  <2>1. rec'.pc = "delete" /\ rec'.pl = p
    BY <1>2 DEF At
  <2>2. DeleteIsDue'
    BY <1>2, <2>1 DEF DeleteIsDue
  <2>3. SnapshotBehindCache'
    BY <2>1 DEF SnapshotBehindCache, WellFormed
  <2>4. Behind(rec.pl)'
    BY <2>1 DEF Behind
  <2> QED BY <2>1, <2>2, <2>3, <2>4 DEF CoreInv, AtCall, AtStatus
<1> QED BY <1>1, <1>2 DEF AwaitTTL

\* After CreateOrUpdate the snapshot is kept.
LEMMA CoreAfterPod ==
  ASSUME CoreInv, TypeOK, NEW s \in Pod, s.phase # "None", rec.pc = "pod", AfterPod(s),
         UNCHANGED <<pl, plCache, now>>
  PROVE  CoreInv'
<1>0. rec.pl \in Pipeline /\ now \in Nat /\ rec \in Rec
  BY BoundAssumption DEF TypeOK, Rec
<1>1. CASE /\ rec.pl.startTime = "unset"
           /\ rec' = [rec EXCEPT !.pc = "status", !.new = Started(rec.pl)]
  <2>1. rec'.pc = "status" /\ rec'.pl = rec.pl /\ rec'.new = Started(rec.pl)
    BY <1>0, <1>1 DEF Rec
  <2> QED BY <1>1, <2>1 DEF CoreInv, Behind, SnapshotBehindCache, AtCall, AtStatus, DeleteIsDue
<1>2. CASE /\ rec.pl.startTime = "set" /\ ~HasFinalizer(rec.pl)
           /\ rec' = [rec EXCEPT !.pc = "track"]
  <2>1. rec'.pc = "track" /\ rec'.pl = rec.pl
    BY <1>0, <1>2 DEF Rec
  <2> QED BY <1>2, <2>1 DEF CoreInv, Behind, SnapshotBehindCache, AtCall, AtStatus, DeleteIsDue
<1>3. CASE /\ rec.pl.startTime = "set" /\ HasFinalizer(rec.pl) /\ s.phase # "Unknown"
           /\ rec' = [rec EXCEPT !.pc = "status", !.new = Observed(rec.pl, s, now)]
  <2>1. rec'.pc = "status" /\ rec'.pl = rec.pl /\ rec'.new = Observed(rec.pl, s, now)
    BY <1>0, <1>3 DEF Rec
  <2>2. rec'.new.startTime = "set"
    BY <1>0, <1>3, <2>1, ObservedFacts
  <2> QED BY <1>3, <2>1, <2>2
          DEF CoreInv, Behind, SnapshotBehindCache, AtCall, AtStatus, DeleteIsDue
<1>4. CASE rec' = Idle
  BY <1>4, CoreIdle DEF CoreInv, Behind
<1> QED BY <1>1, <1>2, <1>3, <1>4 DEF AfterPod

\* The status patch: it sets a start time or a completion time, never clears
\* one, and no released Pipeline receives it.
LEMMA CorePatchStatus ==
  ASSUME CoreInv, TypeOK, PatchStatus
  PROVE  CoreInv'
<1>0. pl \in Pipeline /\ rec.pl \in Pipeline /\ rec.new \in Pipeline
  BY DEF TypeOK, Rec
<1>1. /\ pl'.life = pl.life /\ pl'.finalizers = pl.finalizers
      /\ pl'.startTime = Patched(pl.startTime, rec.pl.startTime, rec.new.startTime)
      /\ pl'.completionTime =
           Patched(pl.completionTime, rec.pl.completionTime, rec.new.completionTime)
  BY <1>0, MergeType DEF PatchStatus
<1>2. HasFinalizer(pl') <=> HasFinalizer(pl)
  BY <1>1 DEF HasFinalizer
<1>3. rec' = Idle /\ plCache' = plCache /\ pl.life # "None" /\ rec.pc = "status"
  BY DEF PatchStatus, Return, ReturnError, ReplyLost, caches
<1>4. plCache.life # "None" /\ rec.pl.completionTime = Nil /\ rec.pl.life # "None"
  BY <1>3 DEF CoreInv, AtCall
<1>5. Behind(rec.pl) /\ Behind(plCache) /\ WellFormed(pl) /\ WellFormed(rec.pl)
  BY <1>3 DEF CoreInv
<1>6. CASE rec.pl.startTime = "unset" /\ rec.new = Started(rec.pl)
  <2>1. pl'.startTime = "set" /\ pl'.completionTime = pl.completionTime
    BY <1>0, <1>1, <1>4, <1>6, StartedFacts DEF Patched
  <2>2. ~HasFinalizer(pl) /\ pl.completionTime = Nil
    BY <1>3, <1>4, <1>5, <1>6 DEF Behind, WellFormed
  <2>3. WellFormed(pl') /\ Behind(plCache)'
    BY <1>1, <1>2, <1>3, <1>5, <2>1, <2>2 DEF WellFormed, Behind
  <2> QED BY <1>3, <1>4, <2>3, CoreIdle
<1>7. CASE rec.pl.startTime = "set" /\ HasFinalizer(rec.pl) /\ rec.new.startTime = "set"
  <2>1. /\ pl'.startTime = "set" /\ pl.startTime = "set"
        /\ pl.completionTime # Nil => pl'.completionTime # Nil
    BY <1>0, <1>1, <1>3, <1>4, <1>5, <1>7 DEF Patched, Behind
  <2>2. HasFinalizer(pl)
    BY <1>3, <1>4, <1>5, <1>7 DEF Behind
  <2>3. WellFormed(pl')
    BY <1>1, <1>2, <1>3, <1>5, <2>1, <2>2 DEF WellFormed
  <2>4. HasFinalizer(plCache) \/ plCache.completionTime # Nil
    BY <1>3, <1>4, <1>7 DEF CoreInv, SnapshotBehindCache
  <2>5. Behind(plCache)'
    BY <1>1, <1>2, <1>3, <1>5, <2>1, <2>2, <2>4 DEF Behind
  <2> QED BY <1>3, <1>4, <2>3, <2>5, CoreIdle
<1> QED BY <1>3, <1>6, <1>7 DEF CoreInv, AtStatus

\* Adding the finalizer: the Pipeline is started, not completed, and the cache
\* knows that it is started.
LEMMA CoreAddFinalizer ==
  ASSUME CoreInv, TypeOK, AddFinalizer
  PROVE  CoreInv'
<1>0. pl \in Pipeline
  BY DEF TypeOK
<1>1. /\ HasFinalizer(pl') /\ pl'.life = pl.life /\ pl'.startTime = pl.startTime
      /\ pl'.completionTime = pl.completionTime
  BY <1>0, WithFinalizerFacts DEF AddFinalizer
<1>2. rec' = Idle /\ plCache' = plCache /\ pl.life # "None" /\ rec.pc = "track"
  BY DEF AddFinalizer, Return, ReturnError, ReplyLost, caches
<1>3. /\ rec.pl.completionTime = Nil /\ rec.pl.life = "Live"
      /\ rec.pl.startTime = "set" /\ ~HasFinalizer(rec.pl) /\ plCache.life # "None"
  BY <1>2 DEF CoreInv, AtCall
<1>4. pl.startTime = "set" /\ pl.completionTime = Nil
  BY <1>2, <1>3 DEF CoreInv, Behind
<1>5. plCache.startTime = "set"
  BY <1>2, <1>3 DEF CoreInv, SnapshotBehindCache
<1>6. WellFormed(pl') /\ Behind(plCache)'
  BY <1>1, <1>2, <1>3, <1>4, <1>5 DEF CoreInv, WellFormed, Behind
<1> QED BY <1>2, <1>3, <1>6, CoreIdle

\* A deleted Pipeline loses its finalizer and is gone.
LEMMA CoreRemoveOnDeletion ==
  ASSUME CoreInv, TypeOK, RemoveFinalizerOnDeletion
  PROVE  CoreInv' /\ pl.life = "Deleting" /\ pl' = NoPipeline
<1>1. rec' = Idle /\ plCache' = plCache /\ pl.life # "None" /\ rec.pc = "release"
  BY DEF RemoveFinalizerOnDeletion, Return, ReturnError, ReplyLost, caches
<1>2. pl.life = "Deleting"
  BY <1>1 DEF CoreInv, AtCall, Behind
<1>3. pl' = NoPipeline
  BY <1>2, WithoutFinalizerFacts DEF RemoveFinalizerOnDeletion, TypeOK
<1>4. WellFormed(pl') /\ Behind(plCache)' /\ pl'.life = "None"
  BY <1>3, ObjectsWellFormed DEF Behind
<1> QED BY <1>1, <1>2, <1>3, <1>4, CoreIdle

\* Facts at the removal of the finalizer upon completion.
LEMMA AtUntrack ==
  ASSUME CoreInv, TypeOK, RemoveFinalizerOnCompletion
  PROVE  /\ plCache' = plCache /\ now' = now
         /\ pl.life # "None" /\ pl.completionTime # Nil /\ WellFormed(pl)
         /\ plCache.life # "None" /\ plCache.completionTime # Nil
         /\ WellFormed(pl') /\ Behind(plCache)'
         /\ pl.life = "Deleting" => pl' = NoPipeline
         /\ pl.life # "Deleting" => /\ ~HasFinalizer(pl') /\ pl'.life = pl.life
                                   /\ pl'.completionTime = pl.completionTime
                                   /\ pl'.startTime = "set"
<1>1. /\ plCache' = plCache /\ now' = now /\ pl.life # "None" /\ rec.pc = "untrack"
      /\ pl' = WithoutFinalizer(pl) /\ pl \in Pipeline
  BY DEF RemoveFinalizerOnCompletion, caches, TypeOK
<1>2. rec.pl.completionTime # Nil /\ rec.pl.life # "None"
  BY <1>1 DEF CoreInv, AtCall
<1>3. plCache.life # "None" /\ plCache.completionTime # Nil
  BY <1>1, <1>2 DEF CoreInv, SnapshotBehindCache
<1>4. pl.completionTime # Nil /\ WellFormed(pl) /\ pl.startTime = "set"
  BY <1>1, <1>2 DEF CoreInv, Behind, WellFormed
<1>5. CASE pl.life = "Deleting"
  <2>1. pl' = NoPipeline
    BY <1>1, <1>5, WithoutFinalizerFacts
  <2>2. WellFormed(pl') /\ Behind(plCache)'
    BY <2>1, ObjectsWellFormed DEF Behind
  <2> QED BY <1>1, <1>3, <1>4, <1>5, <2>1, <2>2
<1>6. CASE pl.life # "Deleting"
  <2>1. /\ ~HasFinalizer(pl') /\ pl'.life = pl.life /\ pl'.startTime = pl.startTime
        /\ pl'.completionTime = pl.completionTime
    BY <1>1, <1>6, WithoutFinalizerFacts
  <2>2. WellFormed(pl')
    BY <1>1, <1>4, <1>6, <2>1 DEF WellFormed
  <2>3. Behind(plCache)'
    BY <1>1, <1>3, <1>4, <1>6, <2>1 DEF CoreInv, Behind
  <2> QED BY <1>1, <1>3, <1>4, <1>6, <2>1, <2>2, <2>3
<1> QED BY <1>5, <1>6

\* Removing the finalizer of a completed Pipeline keeps the copies in order.
LEMMA CoreRemoveOnCompletion ==
  ASSUME CoreInv, TypeOK, RemoveFinalizerOnCompletion
  PROVE  CoreInv'
<1>0. pl \in Pipeline /\ WellFormed(plCache) /\ NoPipeline.life = "None"
  BY ObjectsWellFormed DEF TypeOK, CoreInv
<1>1. CASE AwaitTTL(pl, due)
  BY <1>0, <1>1, AtUntrack, CoreAwaitTTL
<1>2. CASE rec' = Idle
  BY <1>2, AtUntrack, CoreIdle
<1> QED BY <1>1, <1>2 DEF RemoveFinalizerOnCompletion, ReplyLost, ReturnError

\* Deletion, by the controller or by a user, keeps the order of the copies.
LEMMA DeletionKeepsOrder ==
  ASSUME CoreInv, TypeOK, pl' = AfterDelete(pl), NEW q \in Pipeline, Behind(q)
  PROVE  Behind(q)'
<1>1. pl \in Pipeline
  BY DEF TypeOK
<1>2. CASE HasFinalizer(pl)
  BY <1>1, <1>2, AfterDeleteFacts, ObjectsWellFormed DEF Behind, CoreInv, WellFormed
<1>3. CASE ~HasFinalizer(pl)
  BY <1>1, <1>3, AfterDeleteFacts, ObjectsWellFormed DEF Behind
<1> QED BY <1>2, <1>3

\* A deletion leaves a well-formed object, or none.
LEMMA DeletionWellFormed ==
  ASSUME CoreInv, TypeOK, pl' = AfterDelete(pl)
  PROVE  /\ WellFormed(pl') /\ pl'.life # "Live"
         /\ pl.life = "None" => pl'.life = "None"
         /\ ~HasFinalizer(pl) => pl'.life = "None"
<1>1. pl \in Pipeline /\ WellFormed(pl)
  BY DEF TypeOK, CoreInv
<1>2. CASE HasFinalizer(pl)
  BY <1>1, <1>2, AfterDeleteFacts, ObjectsWellFormed DEF WellFormed
<1>3. CASE ~HasFinalizer(pl)
  BY <1>1, <1>3, AfterDeleteFacts, ObjectsWellFormed
<1> QED BY <1>2, <1>3, <1>1, ObjectsWellFormed DEF WellFormed

\* One step keeps the core invariant.
LEMMA CoreStep == TypeOK /\ TypeOK' /\ CoreInv /\ [Next]_vars => CoreInv'
<1> SUFFICES ASSUME TypeOK, TypeOK', CoreInv, [Next]_vars PROVE CoreInv'
  OBVIOUS
<1> USE DEF server, caches, metrics, budget
<1>0. /\ now \in Int /\ now' \in Int /\ pl \in Pipeline /\ plCache \in Pipeline
      /\ rec.pl \in Pipeline /\ podCache \in Pod /\ NewPod \in Pod
  BY BoundAssumption, ObjectType DEF TypeOK, Rec
<1>1. ASSUME rec' = Idle, UNCHANGED <<pl, plCache>> PROVE CoreInv'
  <2>1. WellFormed(pl') /\ Behind(plCache)'
    BY <1>1 DEF CoreInv, Behind
  <2> QED BY <1>1, <2>1, CoreIdle DEF CoreInv
<1>2. CASE ReconcileNotFound
  BY <1>1, <1>2 DEF ReconcileNotFound, Take
<1>3. CASE ReconcileDeleted
  <2>1. plCache.life = "Deleting"
    BY <1>3 DEF ReconcileDeleted, DeletedEarly
  <2> QED BY <1>3, <2>1, CoreBegin DEF ReconcileDeleted
<1>4. CASE ReconcileExpired
  <2>1. DeleteIsDue'
    BY <1>4 DEF ReconcileExpired, Expired, DeleteIsDue, Begin, Take
  <2> QED BY <1>4, <2>1, CoreBegin DEF ReconcileExpired
<1>5. CASE ReconcileUnfinished
  <2>1. plCache.life # "None" /\ plCache.completionTime = Nil /\ ~DeletedEarly(plCache)
    BY <1>5 DEF ReconcileUnfinished, Proceeds, Begin
  <2>2. plCache.life = "Live"
    BY <1>0, <2>1 DEF Pipeline, CoreInv, WellFormed, DeletedEarly
  <2> QED BY <1>5, <2>1, <2>2, CoreBegin DEF ReconcileUnfinished
<1>6. CASE ReconcileFinished
  <2>1. CASE HasFinalizer(plCache) /\ Begin("untrack")
    BY <1>6, <2>1, CoreBegin DEF ReconcileFinished
  <2>2. CASE /\ ~HasFinalizer(plCache) /\ plCache.life # "None"
             /\ Take /\ AwaitTTL(plCache, Nil)
    <3>1. UNCHANGED <<pl, plCache, now>>
      BY <2>2 DEF Take
    <3>2. WellFormed(plCache) /\ WellFormed(pl) /\ Behind(plCache) /\ plCache.completionTime # Nil
      BY <1>6 DEF CoreInv, ReconcileFinished
    <3>3. Behind(plCache)'
      BY <3>1, <3>2 DEF Behind
    <3>4. pl.life # "None" => pl.completionTime = plCache.completionTime /\ ~HasFinalizer(pl)
                               /\ pl.startTime = "set" /\ plCache.life # "Deleting"
      BY <2>2, <3>2 DEF Behind, WellFormed
    <3> QED BY <1>0, <2>2, <3>1, <3>2, <3>3, <3>4, CoreAwaitTTL
  <2> QED BY <1>6, <2>1, <2>2 DEF ReconcileFinished
<1>7. CASE CallFails
  BY <1>1, <1>7 DEF CallFails, ReturnError
<1>8. CASE RemoveFinalizerOnDeletion
  BY <1>8, CoreRemoveOnDeletion
<1>9. CASE DeletePipeline
  <2>1. /\ pl' = AfterDelete(pl) /\ rec' = Idle /\ plCache' = plCache
        /\ rec.pc = "delete"
    BY <1>9 DEF DeletePipeline, Return, ReturnError, ReplyLost
  <2>2. WellFormed(pl') /\ (pl.life = "None" => pl'.life = "None")
    BY <2>1, DeletionWellFormed
  <2>3. Behind(plCache)'
    BY <1>0, <2>1, DeletionKeepsOrder DEF CoreInv
  <2>4. plCache.life = "None" => pl.life = "None"
    BY <2>1 DEF CoreInv
  <2> QED BY <2>1, <2>2, <2>3, <2>4, CoreIdle
<1>10. CASE RemoveFinalizerOnCompletion
  BY <1>10, CoreRemoveOnCompletion
<1>11. CASE CreateOrUpdatePod
  <2>1. UNCHANGED <<pl, plCache, now>> /\ rec.pc = "pod"
    BY <1>11 DEF CreateOrUpdatePod
  <2>2. CASE podCache.phase # "None" /\ AfterPod(podCache)
    BY <1>0, <2>1, <2>2, CoreAfterPod
  <2>3. CASE AfterPod(NewPod)
    <3>1. NewPod.phase # "None"
      BY DEF NewPod, PodOf
    <3> QED BY <1>0, <2>1, <2>3, <3>1, CoreAfterPod
  <2>4. CASE rec' = Idle
    BY <1>1, <2>1, <2>4
  <2> QED BY <1>11, <2>2, <2>3, <2>4 DEF CreateOrUpdatePod, ReplyLost, ReturnError
<1>12. CASE AddFinalizer
  BY <1>12, CoreAddFinalizer
<1>13. CASE PatchStatus
  BY <1>13, CorePatchStatus
<1>14. CASE SyncPipeline
  <2>1. plCache' = pl /\ UNCHANGED <<pl, rec, now>>
    BY <1>14 DEF SyncPipeline
  <2>2. WellFormed(plCache') /\ Behind(plCache)'
    BY <2>1 DEF CoreInv, WellFormed, Behind
  <2>3. rec.pc # "idle" => Behind(rec.pl)'
    BY <2>1 DEF CoreInv, Behind
  <2>4. SnapshotBehindCache'
    BY <2>1 DEF CoreInv, SnapshotBehindCache, Behind, AtCall
  <2> QED BY <2>1, <2>2, <2>3, <2>4 DEF CoreInv, AtCall, AtStatus, DeleteIsDue
<1>15. CASE Restart
  <2>1. plCache' = pl /\ rec' = Idle /\ pl' = pl
    BY <1>15 DEF Restart
  <2>2. WellFormed(plCache') /\ Behind(plCache)'
    BY <2>1 DEF CoreInv, WellFormed, Behind
  <2>3. rec'.pc = "idle" /\ rec'.pl = NoPipeline
    BY <2>1 DEF Idle
  <2> QED BY <2>1, <2>2, <2>3, ObjectsWellFormed
          DEF CoreInv, SnapshotBehindCache, AtCall, AtStatus, DeleteIsDue
<1>16. CASE UserDeletes
  <2>1. pl' = AfterDelete(pl) /\ UNCHANGED <<plCache, rec, now>> /\ pl.life = "Live"
    BY <1>16 DEF UserDeletes
  <2>2. WellFormed(pl') /\ pl'.life # "Live" /\ (~HasFinalizer(pl) => pl'.life = "None")
    BY <2>1, DeletionWellFormed
  <2>3. Behind(plCache)' /\ (rec.pc # "idle" => Behind(rec.pl)')
    BY <1>0, <2>1, DeletionKeepsOrder DEF CoreInv
  <2>4. plCache.life = "None" => pl'.life = "None"
    BY <2>1, <2>2, ObjectsWellFormed DEF CoreInv
  <2> QED BY <2>1, <2>2, <2>3, <2>4
          DEF CoreInv, SnapshotBehindCache, AtCall, AtStatus, DeleteIsDue
<1>17. CASE SyncPod \/ Kubelet \/ NodeUnreachable \/ LosePod \/ GarbageCollect
  BY <1>0, <1>17, CoreStutter
     DEF SyncPod, Kubelet, NodeUnreachable, LosePod, GarbageCollect
<1>18. CASE Tick \/ UNCHANGED vars
  BY <1>0, <1>18, CoreStutter DEF Tick, vars
<1> QED
  BY <1>2, <1>3, <1>4, <1>5, <1>6, <1>7, <1>8, <1>9, <1>10, <1>11, <1>12, <1>13,
     <1>14, <1>15, <1>16, <1>17, <1>18
     DEF Next, Controller, Watches, Environment

\* The copies are in order at the start.
LEMMA CoreInit == Init => CoreInv
<1> SUFFICES ASSUME Init PROVE CoreInv
  OBVIOUS
<1>1. /\ rec.pc = "idle" /\ rec.pl = NoPipeline /\ plCache = NoPipeline
      /\ pl = NewPipeline
  BY DEF Init, Idle
<1> QED BY <1>1, ObjectsWellFormed
        DEF CoreInv, Behind, SnapshotBehindCache, AtCall, AtStatus, DeleteIsDue

\* Whatever the caches show, the copies of the Pipeline stay in order.
THEOREM CoreCorrect == Spec => [](TypeOK /\ CoreInv)
<1>1. Init => TypeOK /\ CoreInv
  BY TypeInit, CoreInit
<1>2. TypeOK /\ CoreInv /\ [Next]_vars => (TypeOK /\ CoreInv)'
  BY TypeStep, CoreStep
<1> QED BY <1>1, <1>2, PTL DEF Spec

-----------------------------------------------------------------------------
(* Deletion. *)

\* The reconciler never deletes a Pipeline before its TTL or its maximum
\* lifetime is over, judged by the completion time in the API server, although
\* it decides on cached objects.
THEOREM DeletionIsDue == Spec => NoEarlyDeletion
<1> DEFINE A == rec.pc = "delete" /\ pl.life = "Live" /\ pl'.life # "Live" /\ rec'.pc = "idle" =>
       \/ TTLSecondsMaxLifetime # Nil /\ now > TTLSecondsMaxLifetime
       \/ pl.completionTime # Nil /\ TTLSecondsAfterFinished # Nil
            /\ now >= pl.completionTime + TTLSecondsAfterFinished
<1>1. CoreInv => A
  BY DEF CoreInv, DeleteIsDue
<1>2. TypeOK /\ CoreInv /\ [Next]_vars => [A]_vars
  BY <1>1
<1> QED BY <1>2, CoreCorrect, PTL DEF NoEarlyDeletion, Spec

-----------------------------------------------------------------------------
(* No lost wake-up. *)

\* A step that leaves an earlier queue entry in place, or adds one, keeps a
\* ready request ready.
LEMMA ReadyStays ==
  ASSUME TypeOK, TypeOK', Ready, now' >= now,
         \/ due' = due
         \/ \E t \in Nat : due' = Earliest(due, t)
  PROVE  Ready'
  BY BoundAssumption DEF Ready, Earliest, TypeOK, Duration, Nil

\* An error puts the request back at once.
LEMMA ErrorIsReady ==
  ASSUME TypeOK, ReturnError, now' = now
  PROVE  Ready' /\ rec'.pc = "idle"
<1>1. now \in Nat /\ due \in Duration
  BY BoundAssumption DEF TypeOK
<1>2. Earliest(due, now) # Nil /\ Earliest(due, now) <= now
  BY <1>1, EarliestType
<1> QED BY <1>2 DEF ReturnError, Ready, Idle

\* So does a watch event.
LEMMA EventIsReady ==
  ASSUME TypeOK, due' = Earliest(due, now), now' = now
  PROVE  Ready'
<1>1. now \in Nat /\ due \in Duration
  BY BoundAssumption DEF TypeOK
<1> QED BY <1>1, EarliestType DEF Ready

\* A step that ends ready, with the reconcile over or untouched.
LEMMA WakeReady ==
  ASSUME Ready'
  PROVE  WakeInv'
  BY DEF WakeInv, UpToDate, ObservedQuiet

\* A step that ends the reconcile and leaves the API server ahead of the cache,
\* or the Pipeline gone.
LEMMA WakeEnds ==
  ASSUME rec'.pc = "idle", plCache' # pl' \/ pl'.life = "None" \/ Ready'
  PROVE  WakeInv'
  BY DEF WakeInv, ObservedQuiet, Quiet

\* The status patch either changes the server's object or leaves a quiet state.
LEMMA WakePatchStatus ==
  ASSUME TypeOK, TypeOK', CoreInv, WakeInv, PatchStatus
  PROVE  WakeInv'
<1>1. /\ rec.pc = "status" /\ pl.life # "None" /\ plCache' = plCache /\ podCache' = podCache
      /\ pod' = pod /\ now' = now /\ pl' = MergePatch(pl, rec.pl, rec.new)
  BY DEF PatchStatus, caches
<1>2. CASE ReplyLost
  BY <1>1, <1>2, ErrorIsReady, WakeReady DEF ReplyLost
<1>3. CASE Return
  <2>0. pl \in Pipeline /\ rec.pl \in Pipeline /\ rec.new \in Pipeline
    BY DEF TypeOK, Rec
  <2>1. /\ pl'.startTime = Patched(pl.startTime, rec.pl.startTime, rec.new.startTime)
        /\ pl'.completionTime =
             Patched(pl.completionTime, rec.pl.completionTime, rec.new.completionTime)
        /\ pl'.life = pl.life
    BY <1>1, <2>0, MergeType
  <2>2. rec'.pc = "idle" /\ due' = due
    BY <1>3 DEF Return, Idle
  <2>3. CASE Ready
    BY <1>1, <2>2, <2>3, WakeReady DEF Ready
  <2>4. CASE ~Ready
    <3>1. plCache = rec.pl /\ rec.pl.completionTime = Nil /\ rec.pl.life = "Live"
      BY <1>1, <2>4 DEF WakeInv, UpToDate, CoreInv, AtCall
    <3>2. CASE rec.pl.startTime = "unset" /\ rec.new = Started(rec.pl)
      <4>1. pl'.startTime = "set"
        BY <2>0, <2>1, <3>2, StartedFacts DEF Patched
      <4> QED BY <1>1, <2>2, <3>1, <3>2, <4>1, WakeEnds
    <3>3. CASE rec.pl.startTime = "set" /\ HasFinalizer(rec.pl)
      <4>1. CASE rec.new.completionTime # Nil
        <5>1. pl'.completionTime # Nil
          BY <2>1, <3>1, <4>1 DEF Patched
        <5> QED BY <1>1, <2>2, <3>1, <5>1, WakeEnds
      <4>2. CASE rec.new.completionTime = Nil
        <5>1. \/ podCache.phase \in {"Pending", "Running"}
              \/ podCache.phase = "None" /\ pod.phase # "None"
          BY <1>1, <2>4, <3>3, <4>2 DEF WakeInv, ObservedQuiet
        <5>2. plCache' = pl' => Quiet'
          BY <1>1, <3>1, <3>3, <5>1 DEF Quiet
        <5> QED BY <2>2, <5>2 DEF WakeInv, ObservedQuiet
      <4> QED BY <4>1, <4>2
    <3> QED BY <1>1, <3>2, <3>3 DEF CoreInv, AtStatus
  <2> QED BY <2>3, <2>4
<1> QED BY <1>2, <1>3 DEF PatchStatus

\* CreateOrUpdate: the reconcile goes on with the pod it saw, or asks to be
\* called again.
LEMMA WakeAfterPod ==
  ASSUME TypeOK, TypeOK', CoreInv, WakeInv, rec.pc = "pod",
         NEW s \in Pod, AfterPod(s), s.phase # "None",
         UNCHANGED <<pl, plCache, podCache, now>>,
         \/ s = podCache
         \/ podCache.phase = "None" /\ pod'.phase # "None" /\ s.phase # "Unknown"
  PROVE  WakeInv'
<1>0. /\ rec.pl \in Pipeline /\ now \in Nat /\ rec \in Rec /\ now + UnknownRequeue \in Nat
      /\ due \in Duration
  BY BoundAssumption, RequeueAssumption DEF TypeOK, Rec
<1>1. Ready \/ plCache = rec.pl
  BY DEF WakeInv, UpToDate
<1>2. ASSUME rec'.pc \in {"status", "track"}, rec'.pl = rec.pl, UNCHANGED due
      PROVE  UpToDate'
  BY <1>1, <1>2 DEF UpToDate, Ready
<1>3. CASE /\ rec.pl.startTime = "unset" /\ UNCHANGED due
           /\ rec' = [rec EXCEPT !.pc = "status", !.new = Started(rec.pl)]
  <2>1. rec'.pc = "status" /\ rec'.pl = rec.pl
    BY <1>0, <1>3 DEF Rec
  <2> QED BY <1>2, <1>3, <2>1 DEF WakeInv, ObservedQuiet
<1>4. CASE rec' = [rec EXCEPT !.pc = "track"] /\ UNCHANGED due
  <2>1. rec'.pc = "track" /\ rec'.pl = rec.pl
    BY <1>0, <1>4 DEF Rec
  <2> QED BY <1>2, <1>4, <2>1 DEF WakeInv, ObservedQuiet
<1>5. CASE /\ s.phase # "Unknown" /\ UNCHANGED due
           /\ rec' = [rec EXCEPT !.pc = "status", !.new = Observed(rec.pl, s, now)]
  <2>1. rec'.pc = "status" /\ rec'.pl = rec.pl /\ rec'.new = Observed(rec.pl, s, now)
    BY <1>0, <1>5 DEF Rec
  <2>2. rec'.new.completionTime = Nil => s.phase \in {"Pending", "Running"}
    BY <1>0, <1>5, <2>1, ObservedFacts DEF Nil
  <2>3. ObservedQuiet'
    BY <2>1, <2>2 DEF ObservedQuiet
  <2> QED BY <1>2, <1>5, <2>1, <2>3 DEF WakeInv
<1>6. CASE /\ rec.pl.startTime = "set" /\ HasFinalizer(rec.pl) /\ s.phase = "Unknown"
           /\ rec' = Idle /\ due' = Earliest(due, now + UnknownRequeue)
  <2>1. rec'.pc = "idle" /\ due' # Nil /\ s = podCache
    BY <1>0, <1>6, EarliestType DEF Idle
  <2>2. CASE Ready
    BY <1>0, <1>6, <2>2, ReadyStays, WakeReady
  <2>3. CASE plCache = rec.pl
    <3>1. rec.pl.life = "Live" /\ rec.pl.completionTime = Nil
      BY DEF CoreInv, AtCall
    <3> QED BY <1>6, <2>1, <2>3, <3>1 DEF WakeInv, ObservedQuiet, Quiet
  <2> QED BY <1>1, <2>2, <2>3
<1> QED BY <1>3, <1>4, <1>5, <1>6 DEF AfterPod

\* One step keeps the wake-up invariant.
LEMMA WakeStep ==
  TypeOK /\ TypeOK' /\ CoreInv /\ CoreInv' /\ WakeInv /\ [Next]_vars => WakeInv'
<1> SUFFICES ASSUME TypeOK, TypeOK', CoreInv, CoreInv', WakeInv, [Next]_vars PROVE WakeInv'
  OBVIOUS
<1> USE DEF server, caches, metrics, budget
<1>0. /\ now \in Nat /\ now' \in Nat /\ pl \in Pipeline /\ plCache \in Pipeline
      /\ rec.pl \in Pipeline /\ podCache \in Pod /\ pod \in Pod /\ NewPod \in Pod
      /\ due \in Duration /\ TTLSecondsAfterFinished \in Duration
  BY BoundAssumption, ObjectType, TTLAssumption DEF TypeOK, Rec
<1>1. CASE ReconcileNotFound
  BY <1>1, WakeEnds DEF ReconcileNotFound, Take, Idle
<1>2. ASSUME NEW pc \in {"release", "delete", "untrack", "pod"}, Begin(pc),
             pc = "delete" => plCache.life # "Deleting"
      PROVE  WakeInv'
  <2>1. rec'.pc = pc /\ rec'.pl = plCache /\ plCache' = plCache
    BY <1>2 DEF Begin, At, Take
  <2> QED BY <1>2, <2>1 DEF WakeInv, UpToDate, ObservedQuiet
<1>3. CASE ReconcileDeleted \/ ReconcileUnfinished
  BY <1>2, <1>3 DEF ReconcileDeleted, ReconcileUnfinished
<1>4. CASE ReconcileExpired
  <2>1. plCache.life # "Deleting"
    BY <1>4 DEF ReconcileExpired, DeletedEarly, CoreInv, WellFormed
  <2> QED BY <1>2, <1>4, <2>1 DEF ReconcileExpired
<1>5. CASE ReconcileFinished
  <2>1. CASE Begin("untrack")
    BY <1>2, <2>1
  <2>2. CASE /\ ~HasFinalizer(plCache) /\ plCache.life # "None"
             /\ Take /\ AwaitTTL(plCache, Nil)
    <3>1. /\ UNCHANGED <<pl, plCache, podCache, pod, now>>
          /\ plCache.life = "Live" /\ plCache.completionTime # Nil
      BY <1>0, <1>5, <2>2 DEF Take, ReconcileFinished, CoreInv, WellFormed, Pipeline
    <3>2. CASE TTLSecondsAfterFinished = Nil /\ rec' = Idle
      BY <2>2, <3>1, <3>2 DEF Idle, WakeInv, ObservedQuiet, Quiet
    <3>3. CASE rec' = At("delete", plCache)
      BY <3>1, <3>3 DEF At, WakeInv, UpToDate, ObservedQuiet
    <3>4. CASE /\ TTLSecondsAfterFinished # Nil /\ rec' = Idle
               /\ due' = Earliest(Nil, plCache.completionTime + TTLSecondsAfterFinished)
      <4>1. /\ due' = plCache.completionTime + TTLSecondsAfterFinished
            /\ due' \in Nat
        BY <1>0, <3>1, <3>4 DEF Earliest, Pipeline, Duration, Nil
      <4> QED BY <2>2, <3>1, <3>4, <4>1 DEF Idle, WakeInv, ObservedQuiet, Quiet, Nil
    <3> QED BY <2>2, <3>2, <3>3, <3>4 DEF AwaitTTL
  <2> QED BY <1>5, <2>1, <2>2 DEF ReconcileFinished
<1>6. CASE CallFails
  BY <1>6, ErrorIsReady, WakeReady DEF CallFails
<1>7. CASE RemoveFinalizerOnDeletion
  <2>1. pl'.life = "None" /\ rec'.pc = "idle"
    BY <1>7, CoreRemoveOnDeletion, ObjectsWellFormed
       DEF RemoveFinalizerOnDeletion, Return, ReplyLost, ReturnError, Idle
  <2> QED BY <2>1, WakeEnds
<1>8. CASE DeletePipeline
  <2>1. CASE ReplyLost
    BY <1>8, <2>1, ErrorIsReady, WakeReady DEF ReplyLost, DeletePipeline
  <2>2. CASE Return
    <3>1. /\ rec'.pc = "idle" /\ due' = due /\ now' = now /\ plCache' = plCache
          /\ rec.pc = "delete" /\ pl' = AfterDelete(pl)
      BY <1>8, <2>2 DEF Return, Idle, DeletePipeline
    <3>2. pl'.life # "Live" /\ (pl.life = "None" => pl'.life = "None") /\ pl' \in Pipeline
      BY <3>1, DeletionWellFormed DEF TypeOK
    <3>3. Ready \/ plCache.life # "Deleting" \/ pl.life = "None"
      BY <3>1 DEF WakeInv, UpToDate
    <3> QED BY <3>1, <3>2, <3>3, WakeEnds DEF Ready, Pipeline
  <2> QED BY <1>8, <2>1, <2>2 DEF DeletePipeline
<1>9. CASE RemoveFinalizerOnCompletion
  <2>1. CASE ReplyLost
    BY <1>9, <2>1, ErrorIsReady, WakeReady DEF ReplyLost, RemoveFinalizerOnCompletion
  <2>2. CASE AwaitTTL(pl, due)
    <3>0. rec.pc = "untrack" /\ now' = now /\ plCache' = plCache
      BY <1>9 DEF RemoveFinalizerOnCompletion
    <3>1. HasFinalizer(rec.pl)
      BY <3>0 DEF CoreInv, AtCall
    <3>2. Ready \/ plCache = rec.pl
      BY <3>0 DEF WakeInv, UpToDate
    <3>3. pl'.life # "None" => ~HasFinalizer(pl') /\ pl.life # "Deleting" /\ pl'.life = pl.life
      BY <1>9, AtUntrack, ObjectsWellFormed
    <3>4. CASE rec' = Idle
      <4>1. Ready => Ready'
        <5>1. TTLSecondsAfterFinished # Nil =>
                pl.completionTime + TTLSecondsAfterFinished \in Nat
          BY <1>0, <1>9, AtUntrack DEF Pipeline, Duration, Nil
        <5>2. due' = due \/ \E t \in Nat : due' = Earliest(due, t)
          BY <2>2, <5>1 DEF AwaitTTL
        <5> QED BY <1>0, <3>0, <5>2, ReadyStays
      <4>2. Ready \/ plCache' # pl' \/ pl'.life = "None"
        BY <3>0, <3>1, <3>2, <3>3
      <4> QED BY <3>4, <4>1, <4>2, WakeEnds DEF Idle
    <3>5. CASE rec' = At("delete", pl)
      <4>1. plCache.life # "Deleting" \/ pl'.life = "None"
        BY <1>9, <3>3, AtUntrack DEF CoreInv, Behind
      <4> QED BY <3>0, <3>5, <4>1 DEF At, WakeInv, UpToDate, ObservedQuiet
    <3> QED BY <2>2, <3>4, <3>5 DEF AwaitTTL
  <2> QED BY <1>9, <2>1, <2>2 DEF RemoveFinalizerOnCompletion
<1>10. CASE CreateOrUpdatePod
  <2>0. rec.pc = "pod" /\ UNCHANGED <<pl, plCache, podCache, now>>
    BY <1>10 DEF CreateOrUpdatePod
  <2>1. CASE podCache.phase # "None" /\ AfterPod(podCache)
    BY <1>0, <2>0, <2>1, WakeAfterPod
  <2>2. CASE podCache.phase = "None" /\ pod' = NewPod /\ AfterPod(NewPod)
    <3>1. NewPod.phase = "Pending"
      BY DEF NewPod, PodOf
    <3> QED BY <1>0, <2>0, <2>2, <3>1, WakeAfterPod
  <2>3. CASE ReturnError
    BY <2>0, <2>3, ErrorIsReady, WakeReady
  <2> QED BY <1>10, <2>1, <2>2, <2>3 DEF CreateOrUpdatePod, ReplyLost
<1>11. CASE AddFinalizer
  <2>1. CASE ReplyLost
    BY <1>11, <2>1, ErrorIsReady, WakeReady DEF ReplyLost, AddFinalizer
  <2>2. CASE Return
    <3>1. /\ rec'.pc = "idle" /\ due' = due /\ now' = now /\ plCache' = plCache
          /\ rec.pc = "track" /\ HasFinalizer(pl')
      BY <1>0, <1>11, <2>2, WithFinalizerFacts DEF Return, Idle, AddFinalizer
    <3>2. ~HasFinalizer(rec.pl) /\ (Ready \/ plCache = rec.pl)
      BY <3>1 DEF CoreInv, AtCall, WakeInv, UpToDate
    <3> QED BY <3>1, <3>2, WakeEnds DEF Ready
  <2> QED BY <1>11, <2>1, <2>2 DEF AddFinalizer
<1>12. CASE PatchStatus
  BY <1>12, WakePatchStatus
<1>13. CASE SyncPipeline
  BY <1>13, EventIsReady, WakeReady DEF SyncPipeline
<1>14. CASE SyncPod
  <2>1. UNCHANGED <<pl, plCache, pod, rec, now>> /\ podCache' = pod
    BY <1>14 DEF SyncPod
  <2>2. CASE podCache.phase # pod.phase
    BY <1>14, <2>1, <2>2, EventIsReady, WakeReady DEF SyncPod, PodStateChanged
  <2>3. CASE podCache.phase = pod.phase
    <3>1. due' = due /\ podCache'.phase = podCache.phase
      BY <1>14, <2>1, <2>3 DEF SyncPod, PodStateChanged
    <3> QED BY <2>1, <3>1 DEF WakeInv, UpToDate, ObservedQuiet, Quiet, Ready
  <2> QED BY <2>2, <2>3
<1>15. CASE Restart
  <2>1. Ready'
    BY <1>0, <1>15 DEF Restart, Ready, Nil
  <2> QED BY <2>1, WakeReady
<1>16. CASE Tick
  <2>1. Ready => Ready'
    BY <1>0, <1>16, ReadyStays DEF Tick
  <2> QED BY <1>16, <2>1 DEF Tick, WakeInv, UpToDate, ObservedQuiet, Quiet
<1>17. CASE UserDeletes
  <2>1. /\ UNCHANGED <<plCache, podCache, pod, rec, due, now>> /\ pl.life = "Live"
        /\ pl' = AfterDelete(pl)
    BY <1>17 DEF UserDeletes
  <2>2. pl'.life # "Live" /\ pl' \in Pipeline
    BY <2>1, DeletionWellFormed DEF TypeOK
  <2>3. plCache.life # "Deleting"
    BY <2>1 DEF CoreInv, Behind
  <2>4. plCache' = pl' => pl'.life = "None"
    BY <2>1, <2>2, <2>3 DEF Pipeline
  <2> QED BY <2>1, <2>2, <2>3, <2>4 DEF WakeInv, UpToDate, ObservedQuiet, Quiet, Ready
<1>18. CASE Kubelet \/ NodeUnreachable
  <2>1. UNCHANGED <<pl, plCache, podCache, rec, due, now>>
    BY <1>18 DEF Kubelet, NodeUnreachable
  <2>2. pod.phase # "None" => pod'.phase # "None"
    <3>1. \A p \in Pod : p.phase # "None" => Settle(p).phase # "None"
      BY DEF Settle, Pod
    <3>2. \A x \in {"ok", "failed"} : /\ [pod EXCEPT !.dl = x] \in Pod
                                     /\ [pod EXCEPT !.dl = x].phase = pod.phase
      BY <1>0 DEF Pod, ContainerState
    <3>3. \A i \in 1..NScan, x \in {"ok", "failed"} :
            [pod EXCEPT !.scan[i] = x] \in Pod /\ [pod EXCEPT !.scan[i] = x].phase = pod.phase
      BY <1>0 DEF Pod, ContainerState
    <3>4. \A i \in 1..NUp, x \in {"ok", "failed"} :
            [pod EXCEPT !.up[i] = x] \in Pod /\ [pod EXCEPT !.up[i] = x].phase = pod.phase
      BY <1>0 DEF Pod, ContainerState
    <3>5. \A q \in PodPhase : [pod EXCEPT !.phase = q].phase = q
      BY <1>0 DEF Pod
    <3>6. PodOf("Pending", "live").phase = "Pending"
      BY DEF PodOf
    <3>7. CASE NodeUnreachable
      BY <3>5, <3>7 DEF NodeUnreachable, PodPhase
    <3>8. ASSUME NEW p \in Pod, p.phase = pod.phase, pod.phase # "None"
          PROVE  Settle(p).phase # "None"
      BY <3>1, <3>8
    <3>9. CASE KubeletStep /\ pod.phase # "None"
      <4>1. CASE pod' = PodOf("Pending", "live")
        BY <3>6, <4>1
      <4>2. CASE \E x \in {"ok", "failed"} : pod' = Settle([pod EXCEPT !.dl = x])
        BY <3>2, <3>8, <3>9, <4>2
      <4>3. CASE \E i \in 1..NScan, x \in {"ok", "failed"} :
                   pod' = Settle([pod EXCEPT !.scan[i] = x])
        BY <3>3, <3>8, <3>9, <4>3
      <4>4. CASE \E i \in 1..NUp, x \in {"ok", "failed"} :
                   pod' = Settle([pod EXCEPT !.up[i] = x])
        BY <3>4, <3>8, <3>9, <4>4
      <4>5. CASE pod' = [pod EXCEPT !.phase = "Running"] \/ pod' = [pod EXCEPT !.phase = "Failed"]
        BY <3>5, <4>5 DEF PodPhase
      <4> QED BY <3>9, <4>1, <4>2, <4>3, <4>4, <4>5 DEF KubeletStep
    <3> QED BY <1>18, <3>7, <3>9 DEF Kubelet
  <2> QED BY <2>1, <2>2 DEF WakeInv, UpToDate, ObservedQuiet, Quiet, Ready
<1>19. CASE LosePod
  <2>1. UNCHANGED <<pl, plCache, podCache, rec, now>>
    BY <1>19 DEF LosePod
  <2>2. CASE podCache.phase = "None"
    BY <1>19, <2>1, <2>2, EventIsReady, WakeReady DEF LosePod
  <2>3. CASE podCache.phase # "None"
    <3>1. due' = due
      BY <1>19, <2>3 DEF LosePod
    <3> QED BY <2>1, <2>3, <3>1 DEF WakeInv, UpToDate, ObservedQuiet, Quiet, Ready
  <2> QED BY <2>2, <2>3
<1>20. CASE GarbageCollect
  <2>1. UNCHANGED <<pl, plCache, podCache, rec, due, now>> /\ pl.life = "None"
    BY <1>20 DEF GarbageCollect
  <2> QED BY <2>1 DEF WakeInv, UpToDate, ObservedQuiet, Quiet, Ready
<1>21. CASE UNCHANGED vars
  BY <1>21 DEF vars, WakeInv, UpToDate, ObservedQuiet, Quiet, Ready
<1> QED
  BY <1>1, <1>3, <1>4, <1>5, <1>6, <1>7, <1>8, <1>9, <1>10, <1>11, <1>12, <1>13,
     <1>14, <1>15, <1>16, <1>17, <1>18, <1>19, <1>20, <1>21
     DEF Next, Controller, Watches, Environment

\* No wake-up is lost, for every TTL, number of containers, and any number of
\* stale reads, failed calls, lost replies, restarts and lost pods.
THEOREM NoLostWakeup == Spec => []RestIsSettled
<1>1. Init => WakeInv
  <2>1. NoPipeline # NewPipeline
    BY ObjectsWellFormed
  <2> QED BY <2>1 DEF Init, WakeInv, ObservedQuiet, Idle
<1>2. WakeInv /\ CoreInv => RestIsSettled
  BY DEF WakeInv, RestIsSettled, AtRest, Settled, Quiet
<1>3. (TypeOK /\ CoreInv) /\ (TypeOK /\ CoreInv)' /\ WakeInv /\ [Next]_vars => WakeInv'
  BY WakeStep
<1> QED BY <1>1, <1>2, <1>3, CoreCorrect, PTL DEF Spec

=============================================================================
