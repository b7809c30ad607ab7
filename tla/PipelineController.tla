------------------------- MODULE PipelineController -------------------------
(***************************************************************************)
(* The Pipeline reconciler of the Ocular operator                          *)
(* (internal/controller/pipeline_controller.go) for ONE Pipeline object    *)
(* and its scan pod.  Different Pipelines touch disjoint objects, so the   *)
(* metrics below are the contribution of this Pipeline.                    *)
(*                                                                         *)
(* `pl' and `pod' are the objects in the API server; `plCache' and         *)
(* `podCache' are the informer caches every r.Get reads.  `due' is this    *)
(* Pipeline's entry in the controller's work queue, and `rec' the          *)
(* reconcile in progress: where it is between two API calls, the object it *)
(* read, and the object it is about to write.  An API write reads the      *)
(* server's current object; everything else a reconcile knows comes from   *)
(* what it read when it began.                                             *)
(***************************************************************************)
EXTENDS Integers

CONSTANTS
  NScan,                    \* scanner containers of the profile
  NUp,                      \* uploaders of the profile
  TTLSecondsAfterFinished,  \* pipeline spec field, or Nil
  TTLSecondsMaxLifetime,    \* pipeline spec field, or Nil
  UnknownRequeue,           \* RequeueAfter when the pod phase is unknown
  StaleReads,               \* may a cached read lag behind the API server?
  MaxTime,                  \* bound: the clock stops here
  MaxFaults,                \* bound: failed calls, lost replies, lost nodes
  MaxRestarts,              \* bound: restarts of the controller
  MaxPodLosses,             \* bound: scan pods deleted behind the controller
  MaxPods                   \* bound: scan pods counted as created

Nil == -1
Duration == Nat \cup {Nil}

\* Conditional containers may leave no scanner; a pod has some container.
ASSUME ProfileAssumption == NScan \in Nat /\ NUp \in Nat /\ NScan + NUp > 0
ASSUME TTLAssumption ==
  TTLSecondsAfterFinished \in Duration /\ TTLSecondsMaxLifetime \in Duration
ASSUME RequeueAssumption == UnknownRequeue \in Nat \ {0}
ASSUME BoundAssumption ==
  /\ StaleReads \in BOOLEAN
  /\ MaxTime \in Nat /\ MaxFaults \in Nat
  /\ MaxRestarts \in Nat /\ MaxPodLosses \in Nat /\ MaxPods \in Nat

VARIABLES
  pl,              \* the Pipeline in the API server
  pod,             \* its scan pod in the API server
  plCache,         \* the Pipeline in the informer cache
  podCache,        \* the scan pod in the informer cache
  due,             \* when the queued request is ready, Nil if none is queued
  rec,             \* the reconcile in progress
  running,         \* gauge pipelinesRunning
  podsCreated,     \* counter pipelinePodsCreated
  completedTotal,  \* counter pipelinesCompleted
  now,             \* wall clock, the Pipeline was created at 0
  faults, restarts, losses,
  behind,          \* history: did the last reconcile begin on a cache that lags?
  amiss            \* history: what went wrong with the patches of the finalizer

server  == <<pl, pod>>
caches  == <<plCache, podCache>>
metrics == <<running, podsCreated, completedTotal>>
budget  == <<restarts, losses>>
history == <<behind, amiss>>
vars == <<pl, pod, plCache, podCache, due, rec, running, podsCreated,
          completedTotal, now, faults, restarts, losses, behind, amiss>>

-----------------------------------------------------------------------------
(* The objects. *)

metricsFinalizer == "ocular.crashoverride.run/metrics"

Stage == {"", "NotStarted", "InProgress", "Completed", "Failed", "Skipped"}
Phase == {"", "Pending", "Downloading", "Scanning", "Uploading", "Succeeded",
          "Failed", "Unknown"}

\* Conditions, each written type=status.
PodCreatedTrue == "PipelineScanPodCreated=True"
SuccessfulTrue == "PipelineCompletedSuccessful=True"
CompleteFalse  == "Complete=False"
Condition == {PodCreatedTrue, SuccessfulTrue, CompleteFalse}

Pipeline ==
  [life: {"None", "Live", "Deleting"}, finalizers: SUBSET {metricsFinalizer},
   startTime: {"unset", "set"}, completionTime: Duration, phase: Phase,
   download: Stage, scan: Stage, upload: Stage, conditions: SUBSET Condition]

NewPipeline ==
  [life |-> "Live", finalizers |-> {}, startTime |-> "unset",
   completionTime |-> Nil, phase |-> "", download |-> "", scan |-> "",
   upload |-> "", conditions |-> {}]

NoPipeline == [NewPipeline EXCEPT !.life = "None"]

\* What the pod status says of a container: "none" before the kubelet
\* reports it, "live" while it has not terminated.
ContainerState == {"none", "live", "ok", "failed"}
PodPhase == {"None", "Pending", "Running", "Succeeded", "Failed", "Unknown"}

Pod == [phase: PodPhase, dl: ContainerState, scan: [1..NScan -> ContainerState],
        up: [1..NUp -> ContainerState]]

PodOf(phase, state) ==
  [phase |-> phase, dl |-> state, scan |-> [i \in 1..NScan |-> state],
   up |-> [i \in 1..NUp |-> state]]

NoPod  == PodOf("None", "none")
NewPod == PodOf("Pending", "none")

Terminal == {"Succeeded", "Failed"}

HasFinalizer(p) == metricsFinalizer \in p.finalizers

\* A JSON merge patch of the status computed from `base' and `new' and applied
\* to `p': it carries only the fields that differ, and no resource version.
Patched(cur, base, new) == IF new # base THEN new ELSE cur

MergePatch(p, base, new) ==
  [p EXCEPT !.startTime      = Patched(@, base.startTime, new.startTime),
            !.completionTime = Patched(@, base.completionTime, new.completionTime),
            !.phase          = Patched(@, base.phase, new.phase),
            !.download       = Patched(@, base.download, new.download),
            !.scan           = Patched(@, base.scan, new.scan),
            !.upload         = Patched(@, base.upload, new.upload),
            !.conditions     = Patched(@, base.conditions, new.conditions)]

-----------------------------------------------------------------------------
(* What a reconcile makes of the scan pod. *)

\* The loops over container statuses stop at the first container that has
\* not terminated with exit code 0; `done' is the value left if none has.
FirstToStop(c, state) ==
  \E i \in DOMAIN c : /\ c[i] = state
                      /\ \A j \in 1..(i - 1) : c[j] \notin {"live", "failed"}

ContainersStage(c, done) ==
  CASE FirstToStop(c, "live")   -> "InProgress"
    [] FirstToStop(c, "failed") -> "Failed"
    [] OTHER                    -> done

\* The three results of determineScanPodStageStatuses.  The source's test of
\* the downloader's exit code is kept as written: a non-zero code is
\* "Completed".
DownloadStage(p) ==
  CASE p.dl = "failed" -> "Completed"
    [] p.dl = "ok"     -> "Failed"
    [] p.dl = "live"   -> "InProgress"
    [] OTHER           -> ""

ScanStage(p) ==
  CASE DownloadStage(p) = "InProgress" -> "NotStarted"
    [] DownloadStage(p) = "Failed"     -> "Skipped"
    [] OTHER                           -> ContainersStage(p.scan, "Completed")

UploadStage(p) ==
  CASE ScanStage(p) = "InProgress" -> "NotStarted"
    [] ScanStage(p) = "Skipped"    -> "Skipped"
    [] OTHER                       -> ContainersStage(p.up, "")

\* A skipped upload stage stays skipped.
UnlessSkipped(old, new) == IF old = "Skipped" THEN old ELSE new

\* `marking pipeline as started' at the end of Reconcile.
Started(p) ==
  [p EXCEPT !.startTime = "set", !.phase = "Downloading",
            !.download = "InProgress", !.scan = "NotStarted",
            !.conditions = @ \cup {PodCreatedTrue}]

\* The branches of handleCompletion that end in a status patch.
OnPodSucceeded(p, t) ==
  [p EXCEPT !.download = "Completed", !.scan = "Completed",
            !.upload = UnlessSkipped(@, "Completed"), !.phase = "Succeeded",
            !.completionTime = t, !.conditions = @ \cup {SuccessfulTrue}]

OnPodFailed(p, s, t) ==
  [p EXCEPT !.download = DownloadStage(s), !.scan = ScanStage(s),
            !.upload = UnlessSkipped(@, UploadStage(s)), !.phase = "Failed",
            !.completionTime = t, !.conditions = @ \cup {CompleteFalse}]

\* The stage statuses are rebuilt from scratch here, so no earlier "Skipped"
\* survives.
RunningPhase(p, s) ==
  IF DownloadStage(s) = "InProgress" THEN "Downloading"
  ELSE IF ScanStage(s) = "InProgress" THEN "Scanning"
  ELSE IF UploadStage(s) # "Skipped" THEN "Uploading"
  ELSE p.phase

\* Mutant: the pod's phase copied into the Pipeline's.
OnPodRunning_CopiesPhase(p, s) ==
  [p EXCEPT !.download = DownloadStage(s), !.scan = ScanStage(s),
            !.upload = UploadStage(s), !.phase = s.phase]

OnPodRunning(p, s) ==
  [p EXCEPT !.download = DownloadStage(s), !.scan = ScanStage(s),
            !.upload = UploadStage(s), !.phase = RunningPhase(p, s)]

OnPodPending(p) ==
  [p EXCEPT !.download = "NotStarted", !.scan = "NotStarted",
            !.upload = UnlessSkipped(@, "NotStarted"), !.phase = "Succeeded"]

Observed(p, s, t) ==
  CASE s.phase = "Succeeded" -> OnPodSucceeded(p, t)
    [] s.phase = "Failed"    -> OnPodFailed(p, s, t)
    [] s.phase = "Running"   -> OnPodRunning(p, s)
    [] s.phase = "Pending"   -> OnPodPending(p)

-----------------------------------------------------------------------------
(* The work queue and the control of one reconcile. *)

Earliest(d, t) == IF d = Nil \/ t < d THEN t ELSE d
Ready == due # Nil /\ due <= now

\* pc names the API call that comes next.
Rec == [pc: {"idle", "release", "delete", "untrack", "pod", "track", "status"},
        pl: Pipeline, new: Pipeline]

Idle == [pc |-> "idle", pl |-> NoPipeline, new |-> NoPipeline]
At(pc, p) == [pc |-> pc, pl |-> p, new |-> p]

\* A returned error puts the request back in the queue (the rate limiter's
\* back-off is abstracted to "now").
ReturnError == rec' = Idle /\ due' = Earliest(due, now)
Return == rec' = Idle /\ UNCHANGED due

\* Outcomes of an API write that took effect: the reply arrives, or it is
\* lost and the call returns an error.
Replied == UNCHANGED faults
ReplyLost == faults < MaxFaults /\ faults' = faults + 1 /\ ReturnError

Init ==
  /\ pl = NewPipeline /\ pod = NoPod
  /\ plCache = NoPipeline /\ podCache = NoPod
  /\ due = Nil /\ rec = Idle
  /\ running = 0 /\ podsCreated = 0 /\ completedTotal = 0
  /\ now = 0 /\ faults = 0 /\ restarts = 0 /\ losses = 0
  /\ behind = FALSE /\ amiss = {}

-----------------------------------------------------------------------------
(* Reconcile, up to its first API write: everything is decided on the       *)
(* cached object.                                                           *)

\* Mutant: the branch for deleted Pipelines is missing.
DeletedEarly_Never(p) == FALSE

DeletedEarly(p) == p.life = "Deleting" /\ HasFinalizer(p)
Expired == TTLSecondsMaxLifetime # Nil /\ now > TTLSecondsMaxLifetime

\* The TTL part of handlePostCompletion, q being what is already queued.
AwaitTTL_NoRequeue(p, q) ==   \* mutant: no RequeueAfter
  \/ /\ TTLSecondsAfterFinished = Nil \/ now < p.completionTime + TTLSecondsAfterFinished
     /\ rec' = Idle /\ due' = q
  \/ /\ TTLSecondsAfterFinished # Nil
     /\ now >= p.completionTime + TTLSecondsAfterFinished
     /\ rec' = At("delete", p) /\ due' = q

AwaitTTL(p, q) ==
  \/ /\ TTLSecondsAfterFinished = Nil
     /\ rec' = Idle /\ due' = q
  \/ /\ TTLSecondsAfterFinished # Nil
     /\ now >= p.completionTime + TTLSecondsAfterFinished
     /\ rec' = At("delete", p) /\ due' = q
  \/ /\ TTLSecondsAfterFinished # Nil
     /\ now < p.completionTime + TTLSecondsAfterFinished
     /\ rec' = Idle
     /\ due' = Earliest(q, p.completionTime + TTLSecondsAfterFinished)

\* The cache does not show the finalizer or the completion that is there.
Lags ==
  /\ pl.life # "None"
  /\ \/ HasFinalizer(plCache) # HasFinalizer(pl)
     \/ (plCache.completionTime = Nil) # (pl.completionTime = Nil)

\* Taking the request removes it from the queue.
Take ==
  /\ rec.pc = "idle" /\ Ready
  /\ StaleReads \/ plCache = pl
  /\ behind' = Lags
  /\ UNCHANGED <<server, caches, metrics, now, faults, budget, amiss>>

Begin(pc) == Take /\ plCache.life # "None" /\ rec' = At(pc, plCache) /\ due' = Nil

ReconcileNotFound == Take /\ plCache.life = "None" /\ rec' = Idle /\ due' = Nil
ReconcileDeleted  == DeletedEarly(plCache) /\ Begin("release")
ReconcileExpired  == ~DeletedEarly(plCache) /\ Expired /\ Begin("delete")

Proceeds == ~DeletedEarly(plCache) /\ ~Expired

\* Mutant: a completed Pipeline is not sent to handlePostCompletion.
ReconcileUnfinished_Always == Proceeds /\ Begin("pod")

ReconcileUnfinished == Proceeds /\ plCache.completionTime = Nil /\ Begin("pod")

\* Mutant: the finalizer is not looked at before the completion is counted.
ReconcileFinished_Unchecked ==
  Proceeds /\ plCache.completionTime # Nil /\ Begin("untrack")

ReconcileFinished ==
  /\ Proceeds /\ plCache.completionTime # Nil
  /\ \/ HasFinalizer(plCache) /\ Begin("untrack")
     \/ /\ ~HasFinalizer(plCache) /\ plCache.life # "None"
        /\ Take /\ AwaitTTL(plCache, Nil)

-----------------------------------------------------------------------------
(* The API calls of Reconcile. *)

\* The server's object without its finalizer: a deleted one goes away.
WithoutFinalizer(p) ==
  IF p.life = "Deleting" THEN NoPipeline ELSE [p EXCEPT !.finalizers = {}]

\* An object with a finalizer is only marked for deletion.
AfterDelete(p) ==
  IF HasFinalizer(p) THEN [p EXCEPT !.life = "Deleting"] ELSE NoPipeline

\* Any call on the way may fail with no effect, a reference may not resolve,
\* and a patch of an object that is gone is NotFound.
CallFails ==
  /\ rec.pc # "idle"
  /\ \/ faults < MaxFaults /\ faults' = faults + 1
     \/ /\ rec.pc \in {"release", "untrack", "track", "status"}
        /\ pl.life = "None" /\ UNCHANGED faults
  /\ ReturnError
  /\ UNCHANGED <<server, caches, metrics, now, budget, history>>

\* A patch of the finalizer is noted when it was based on a lagging cache, and
\* when its reply is lost.
NoteIfBehind == amiss' = IF behind THEN amiss \cup {"stale"} ELSE amiss
NoteLost == amiss' = amiss \cup {"lost"}

\* Mutant: the gauge is not decremented.
RemoveFinalizerOnDeletion_NoDec ==
  /\ rec.pc = "release" /\ pl.life # "None"
  /\ pl' = WithoutFinalizer(pl)
  /\ (Replied /\ Return /\ NoteIfBehind) \/ (ReplyLost /\ NoteLost)
  /\ UNCHANGED <<pod, caches, metrics, now, budget, behind>>

\* Deleted with the finalizer in place: remove it, decrement the gauge.
RemoveFinalizerOnDeletion ==
  /\ rec.pc = "release" /\ pl.life # "None"
  /\ pl' = WithoutFinalizer(pl)
  /\ \/ Replied /\ running' = running - 1 /\ Return /\ NoteIfBehind
     \/ ReplyLost /\ UNCHANGED running /\ NoteLost
  /\ UNCHANGED <<pod, caches, podsCreated, completedTotal, now, budget, behind>>

\* r.Delete, whose NotFound is ignored.
DeletePipeline ==
  /\ rec.pc = "delete"
  /\ pl' = AfterDelete(pl)
  /\ (Replied /\ Return) \/ ReplyLost
  /\ UNCHANGED <<pod, caches, metrics, now, budget, history>>

\* Mutant: the TTL is judged by the snapshot, not by the object returned.
RemoveFinalizerOnCompletion_Snapshot ==
  /\ rec.pc = "untrack" /\ pl.life # "None"
  /\ pl' = WithoutFinalizer(pl)
  /\ \/ /\ Replied /\ running' = running - 1
        /\ completedTotal' = completedTotal + 1
        /\ AwaitTTL(rec.pl, due) /\ NoteIfBehind
     \/ ReplyLost /\ UNCHANGED <<running, completedTotal>> /\ NoteLost
  /\ UNCHANGED <<pod, caches, podsCreated, now, budget, behind>>

\* handlePostCompletion: remove the finalizer, count the completion, and go on
\* with the object the API server returned.
RemoveFinalizerOnCompletion ==
  /\ rec.pc = "untrack" /\ pl.life # "None"
  /\ pl' = WithoutFinalizer(pl)
  /\ \/ /\ Replied /\ running' = running - 1
        /\ completedTotal' = completedTotal + 1
        /\ AwaitTTL(pl, due) /\ NoteIfBehind
     \/ ReplyLost /\ UNCHANGED <<running, completedTotal>> /\ NoteLost
  /\ UNCHANGED <<pod, caches, podsCreated, now, budget, behind>>

\* Mutant: an unknown pod phase is treated as a failure.
AfterPod_UnknownFails(s) ==
  \/ /\ rec.pl.startTime = "unset"
     /\ rec' = [rec EXCEPT !.pc = "status", !.new = Started(rec.pl)]
     /\ UNCHANGED due
  \/ /\ rec.pl.startTime = "set" /\ ~HasFinalizer(rec.pl)
     /\ rec' = [rec EXCEPT !.pc = "track"]
     /\ UNCHANGED due
  \/ /\ rec.pl.startTime = "set" /\ HasFinalizer(rec.pl)
     /\ rec' = [rec EXCEPT !.pc = "status", !.new =
                  IF s.phase = "Unknown" THEN OnPodFailed(rec.pl, s, now)
                                         ELSE Observed(rec.pl, s, now)]
     /\ UNCHANGED due

\* What follows CreateOrUpdate, s being the pod it returned.
AfterPod(s) ==
  \/ /\ rec.pl.startTime = "unset"
     /\ rec' = [rec EXCEPT !.pc = "status", !.new = Started(rec.pl)]
     /\ UNCHANGED due
  \/ /\ rec.pl.startTime = "set" /\ ~HasFinalizer(rec.pl)
     /\ rec' = [rec EXCEPT !.pc = "track"]
     /\ UNCHANGED due
  \/ /\ rec.pl.startTime = "set" /\ HasFinalizer(rec.pl) /\ s.phase # "Unknown"
     /\ rec' = [rec EXCEPT !.pc = "status", !.new = Observed(rec.pl, s, now)]
     /\ UNCHANGED due
  \/ /\ rec.pl.startTime = "set" /\ HasFinalizer(rec.pl) /\ s.phase = "Unknown"
     /\ rec' = Idle /\ due' = Earliest(due, now + UnknownRequeue)

CreateOrUpdatePod ==
  /\ rec.pc = "pod"
  /\ StaleReads \/ podCache = pod
  /\ \/ /\ podCache.phase # "None"
        /\ Replied /\ AfterPod(podCache) /\ UNCHANGED <<pod, podsCreated>>
     \/ /\ podCache.phase = "None" /\ pod.phase = "None"
        /\ podsCreated < MaxPods
        /\ pod' = NewPod
        /\ \/ Replied /\ AfterPod(NewPod) /\ podsCreated' = podsCreated + 1
           \/ ReplyLost /\ UNCHANGED podsCreated
     \/ /\ podCache.phase = "None" /\ pod.phase # "None"   \* AlreadyExists
        /\ UNCHANGED faults /\ ReturnError /\ UNCHANGED <<pod, podsCreated>>
  /\ UNCHANGED <<pl, caches, running, completedTotal, now, budget, history>>

\* The first reconcile of a started pipeline adds the finalizer and increments
\* the gauge.  A Pipeline that is being deleted has the finalizer already, and
\* the API server accepts the patch that changes nothing.
AddFinalizer ==
  /\ rec.pc = "track" /\ pl.life # "None"
  /\ pl' = [pl EXCEPT !.finalizers = {metricsFinalizer}]
  /\ \/ Replied /\ running' = running + 1 /\ Return /\ NoteIfBehind
     \/ ReplyLost /\ UNCHANGED running /\ NoteLost
  /\ UNCHANGED <<pod, caches, podsCreated, completedTotal, now, budget, behind>>

PatchStatus ==
  /\ rec.pc = "status" /\ pl.life # "None"
  /\ pl' = MergePatch(pl, rec.pl, rec.new)
  /\ (Replied /\ Return) \/ ReplyLost
  /\ UNCHANGED <<pod, caches, metrics, now, budget, history>>

Controller ==
  \/ ReconcileNotFound \/ ReconcileDeleted \/ ReconcileExpired
  \/ ReconcileUnfinished \/ ReconcileFinished
  \/ CallFails \/ RemoveFinalizerOnDeletion \/ DeletePipeline
  \/ RemoveFinalizerOnCompletion \/ CreateOrUpdatePod \/ AddFinalizer
  \/ PatchStatus

-----------------------------------------------------------------------------
(* Watches.  A cache jumps to the server's object: events coalesce.         *)

SyncPipeline ==
  /\ plCache # pl
  /\ plCache' = pl /\ due' = Earliest(due, now)
  /\ UNCHANGED <<server, podCache, rec, metrics, now, faults, budget, history>>

\* podStateChangedPredicate: creations, deletions and phase changes only.
PodStateChanged_Lifetime(old, new) ==  \* mutant: creations and deletions only
  (old.phase = "None") # (new.phase = "None")

PodStateChanged(old, new) == old.phase # new.phase

SyncPod ==
  /\ podCache # pod
  /\ podCache' = pod
  /\ due' = IF PodStateChanged(podCache, pod) THEN Earliest(due, now) ELSE due
  /\ UNCHANGED <<server, plCache, rec, metrics, now, faults, budget, history>>

\* A restarted controller lists both kinds afresh and starts from zeroed
\* metrics; every listed object is queued.
Restart ==
  /\ restarts < MaxRestarts /\ restarts' = restarts + 1
  /\ rec' = Idle /\ plCache' = pl /\ podCache' = pod /\ due' = now
  /\ running' = 0 /\ podsCreated' = 0 /\ completedTotal' = 0
  /\ amiss' = amiss \cup {"restart"}
  /\ UNCHANGED <<server, now, faults, losses, behind>>

-----------------------------------------------------------------------------
(* Everyone else: time, users, the kubelet and the garbage collector.       *)

Tick ==
  /\ now < MaxTime /\ now' = now + 1
  /\ UNCHANGED <<server, caches, due, rec, metrics, faults, budget, history>>

UserDeletes ==
  /\ pl.life = "Live" /\ pl' = AfterDelete(pl)
  /\ UNCHANGED <<pod, caches, due, rec, metrics, now, faults, budget, history>>

\* The pod phase the kubelet computes under restartPolicy Never.
Settle(p) ==
  LET ended == {"ok", "failed"} IN
  IF p.dl = "failed" THEN [p EXCEPT !.phase = "Failed"]
  ELSE IF p.dl # "ok" \/ p.phase = "Pending" THEN p
  ELSE IF (\A i \in 1..NScan : p.scan[i] = "ok") /\ (\A i \in 1..NUp : p.up[i] = "ok")
    THEN [p EXCEPT !.phase = "Succeeded"]
  ELSE IF (\A i \in 1..NScan : p.scan[i] \in ended) /\ (\A i \in 1..NUp : p.up[i] \in ended)
    THEN [p EXCEPT !.phase = "Failed"]
  ELSE p

Active == pod.phase \in {"Pending", "Running", "Unknown"}

KubeletStep ==
  \/ pod = NewPod /\ pod' = PodOf("Pending", "live")        \* first report
  \/ /\ pod.phase = "Pending" /\ pod.dl = "live"           \* downloader exits
     /\ \E x \in {"ok", "failed"} : pod' = Settle([pod EXCEPT !.dl = x])
  \/ /\ pod.phase = "Pending" /\ pod.dl = "ok"             \* main containers start
     /\ pod' = [pod EXCEPT !.phase = "Running"]
  \/ /\ pod.phase = "Running"                              \* a scanner exits
     /\ \E i \in 1..NScan, x \in {"ok", "failed"} :
          /\ pod.scan[i] = "live" /\ pod' = Settle([pod EXCEPT !.scan[i] = x])
  \/ /\ pod.phase = "Running"                              \* an uploader exits
     /\ \E i \in 1..NUp, x \in {"ok", "failed"} :
          /\ pod.up[i] = "live" /\ pod' = Settle([pod EXCEPT !.up[i] = x])
  \/ Active /\ pod' = [pod EXCEPT !.phase = "Failed"]       \* rejected or evicted
  \/ pod.phase = "Unknown" /\ pod' = [pod EXCEPT !.phase = "Running"]

Kubelet ==
  /\ KubeletStep
  /\ UNCHANGED <<pl, caches, due, rec, metrics, now, faults, budget, history>>

\* The pod's node becomes unreachable.
NodeUnreachable ==
  /\ pod.phase = "Running" /\ pod' = [pod EXCEPT !.phase = "Unknown"]
  /\ faults < MaxFaults /\ faults' = faults + 1
  /\ UNCHANGED <<pl, caches, due, rec, metrics, now, budget, history>>

\* The pod is deleted behind the controller.  If the cache never saw the pod,
\* its creation and deletion still arrive as events.
LosePod ==
  /\ pod.phase # "None" /\ pl.life # "None"
  /\ losses < MaxPodLosses /\ losses' = losses + 1
  /\ pod' = NoPod
  /\ due' = IF podCache.phase = "None" THEN Earliest(due, now) ELSE due
  /\ UNCHANGED <<pl, caches, rec, metrics, now, faults, restarts, history>>

\* The pod's owner is gone.
GarbageCollect ==
  /\ pod.phase # "None" /\ pl.life = "None"
  /\ pod' = NoPod
  /\ UNCHANGED <<pl, caches, due, rec, metrics, now, faults, budget, history>>

Watches == SyncPipeline \/ SyncPod
Environment ==
  Restart \/ Tick \/ UserDeletes \/ Kubelet \/ NodeUnreachable \/ LosePod
  \/ GarbageCollect

Next == Controller \/ Watches \/ Environment

Spec == Init /\ [][Next]_vars

\* The manager's workers keep taking ready requests, watches deliver what
\* happened, time passes and the garbage collector runs.  Nothing is assumed
\* of the kubelet, of users, or of faults and restarts.
FairSpec ==
  /\ Spec
  /\ WF_vars(Controller) /\ WF_vars(SyncPipeline) /\ WF_vars(SyncPod)
  /\ WF_vars(Tick) /\ WF_vars(GarbageCollect)

-----------------------------------------------------------------------------
(* Properties. *)

\* Every variable keeps its type; in particular a patch built from a stale
\* snapshot never produces an ill-formed Pipeline.
TypeOK ==
  /\ pl \in Pipeline /\ plCache \in Pipeline
  /\ pod \in Pod /\ podCache \in Pod
  /\ rec \in Rec /\ due \in Duration
  /\ running \in Int /\ podsCreated \in 0..MaxPods /\ completedTotal \in Nat
  /\ now \in 0..MaxTime /\ faults \in 0..MaxFaults
  /\ restarts \in 0..MaxRestarts /\ losses \in 0..MaxPodLosses
  /\ behind \in BOOLEAN /\ amiss \subseteq {"stale", "lost", "restart"}

\* Nothing is queued, no reconcile runs, and no watch event is outstanding.
AtRest ==
  /\ rec.pc = "idle" /\ ~Ready
  /\ plCache = pl /\ podCache = pod

\* What the controller may leave alone: a Pipeline that is gone; one whose pod
\* is still at work; or a completed one, released, whose TTL timer is armed.
Settled ==
  \/ pl.life = "None"
  \/ /\ pl.life = "Live" /\ pl.completionTime = Nil
     /\ pl.startTime = "set" /\ HasFinalizer(pl)
     /\ \/ pod.phase \in {"Pending", "Running"}
        \/ pod.phase = "Unknown" /\ due # Nil
  \/ /\ pl.life = "Live" /\ pl.completionTime # Nil /\ ~HasFinalizer(pl)
     /\ \/ TTLSecondsAfterFinished = Nil
        \/ due # Nil /\ due <= pl.completionTime + TTLSecondsAfterFinished

\* No wake-up is lost.  Reconcile returns without a requeue after nearly every
\* write and relies on the watch for the next step; whenever the controller is
\* at rest, the Pipeline is settled.
RestIsSettled == AtRest => Settled

\* The recorded outcome is the pod's: a completed Pipeline whose pod still
\* exists shows exactly the pod's terminal phase and has the matching
\* condition, whatever stale status patches were sent in between.
OutcomeIsThePods ==
  pl.completionTime # Nil /\ pod.phase # "None" =>
    /\ pod.phase \in Terminal /\ pl.phase = pod.phase
    /\ (SuccessfulTrue \in pl.conditions) <=> pod.phase = "Succeeded"

\* The lifecycle as it is read off the Pipeline object.
LifeStage ==
  CASE pl.life = "None"                                -> "Gone"
    [] pl.life # "None" /\ pl.completionTime # Nil /\ HasFinalizer(pl)  -> "Completed"
    [] pl.life # "None" /\ pl.completionTime # Nil /\ ~HasFinalizer(pl) -> "Released"
    [] pl.life # "None" /\ pl.completionTime = Nil /\ HasFinalizer(pl)  -> "Tracked"
    [] pl.life # "None" /\ pl.completionTime = Nil /\ ~HasFinalizer(pl)
         /\ pl.startTime = "set"                       -> "Started"
    [] OTHER                                           -> "Created"

LifeDeleting == IF pl.life = "Deleting" THEN "yes" ELSE "no"
LifeOutcome  == IF pl.completionTime # Nil THEN pl.phase ELSE "none"

Lifecycle == INSTANCE PipelineLifecycle
  WITH stage <- LifeStage, deleting <- LifeDeleting, outcome <- LifeOutcome

\* The Pipeline object follows its lifecycle: no step is skipped or taken
\* twice, the finalizer never comes back and the outcome never changes, even
\* though patches carry no resource version and come from stale snapshots.
FollowsLifecycle == Lifecycle!Spec

\* A target is not scanned again: no scan pod is created for a Pipeline that is
\* completed, even if its pod was deleted, but by a reconcile that began before
\* the cache showed the completion.
NeverRerun ==
  [][pod.phase = "None" /\ pod'.phase # "None" => pl.completionTime = Nil \/ behind]_vars

\* handlePostCompletion and the max-lifetime check delete a Pipeline only when
\* its time has come, judged by the completion time in the API server.
NoEarlyDeletion ==
  [][rec.pc = "delete" /\ pl.life = "Live" /\ pl'.life # "Live" /\ rec'.pc = "idle" =>
       \/ TTLSecondsMaxLifetime # Nil /\ now > TTLSecondsMaxLifetime
       \/ pl.completionTime # Nil /\ TTLSecondsAfterFinished # Nil
            /\ now >= pl.completionTime + TTLSecondsAfterFinished]_vars

\* The gauge is 1 exactly while the finalizer is on the object, whatever is
\* stale, refused or deleted on the way.  Three things put it wrong: a finalizer
\* that is patched by a reconcile which began before the cache showed the last
\* such patch, a lost reply to one, and a restart.
GaugeExact ==
  amiss = {} => running = IF HasFinalizer(pl) THEN 1 ELSE 0

\* A completion is counted in the reconcile that removes the finalizer: never
\* missed, however stale the reads, unless a reply or the process was lost, and
\* never twice, unless the finalizer was patched on a stale read, too.
CompletionCountedOnce ==
  /\ amiss = {} =>
       completedTotal <= 1 /\ (HasFinalizer(pl) => completedTotal = 0)
  /\ amiss \subseteq {"stale"} /\ pl.completionTime # Nil /\ ~HasFinalizer(pl) =>
       completedTotal >= 1

\* A finished pod is recorded: the Pipeline is completed, or goes away.
FinishIsRecorded ==
  pod.phase \in Terminal ~> (pl.completionTime # Nil \/ pl.life = "None")

\* The metrics finalizer never holds a deleted Pipeline up for good.
DeletionFinishes == pl.life = "Deleting" ~> pl.life = "None"

\* A completed Pipeline and its pod are deleted after the TTL, unless the clock
\* of the instance ends first (a stale second completion patch may move the
\* completion time, and the deletion with it).
TTLIsHonoured ==
  pl.completionTime # Nil /\ TTLSecondsAfterFinished # Nil ~>
    \/ pl.life = "None" /\ pod.phase = "None"
    \/ pl.completionTime + TTLSecondsAfterFinished > MaxTime

-----------------------------------------------------------------------------
(* What the API documentation and the metric descriptions say.              *)

\* api/v1beta1/pipeline_types.go: "Completed" means the stage has completed
\* successfully, "Failed" that it has failed.  The download stage agrees with
\* the downloader's exit.
DownloadStageIsTrue ==
  pod.phase # "None" =>
    /\ pl.download = "Completed" => pod.dl = "ok"
    /\ pl.download = "Failed" => pod.dl = "failed"

\* TTLSecondsMaxLifetime: a Pipeline past its maximum lifetime is deleted,
\* regardless of its state; the controller does not rest before it is.
MaxLifetimeEnforced ==
  AtRest /\ TTLSecondsMaxLifetime # Nil /\ now > TTLSecondsMaxLifetime =>
    pl.life # "Live"

=============================================================================
