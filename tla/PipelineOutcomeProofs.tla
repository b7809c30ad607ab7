----------------------- MODULE PipelineOutcomeProofs -----------------------
(* The recorded outcome of a Pipeline and its lifecycle, if no scan pod is  *)
(* deleted behind the controller; and rescans and metrics, whatever happens. *)
EXTENDS PipelineSafetyProofs

-----------------------------------------------------------------------------
(* The inductive invariant, on top of CoreInv. *)

\* The outcome: phases of a copy of the Pipeline.
PhaseOK(p) ==
  /\ p.startTime = "unset" => p.phase = ""
  /\ p.completionTime = Nil => p.phase \in {"", "Downloading", "Succeeded"}
  /\ p.completionTime = Nil /\ ~HasFinalizer(p) => p.phase \in {"", "Downloading"}
  /\ p.completionTime # Nil => p.phase \in Terminal
  /\ (SuccessfulTrue \in p.conditions) <=> (p.completionTime # Nil /\ p.phase = "Succeeded")

PhaseBehind(q) ==
  pl.life # "None" /\ q.life # "None" /\ q.phase = "Succeeded" => pl.phase \in Terminal

\* The cached pod is behind the pod; the downloader of a running pod is done.
PodInv ==
  /\ pod.phase \in {"Running", "Unknown"} => pod.dl = "ok"
  /\ podCache.phase \in {"Running", "Unknown"} => podCache.dl = "ok"
  /\ pl.life # "None" /\ podCache.phase \in Terminal => pod.phase = podCache.phase

\* A completed Pipeline shows the phase of its pod, and so does the patch that
\* completes it; no other patch is sent once it is completed.
OutcomeStep ==
  /\ pl.life # "None" /\ pl.completionTime # Nil =>
       pod.phase = pl.phase /\ podCache.phase = pl.phase
  /\ rec.pc = "status" /\ pl.life # "None" /\ rec.new.completionTime # Nil =>
       /\ rec.new.phase \in Terminal
       /\ pod.phase = rec.new.phase /\ podCache.phase = rec.new.phase
       /\ rec.new.conditions = rec.pl.conditions \cup
            {IF rec.new.phase = "Succeeded" THEN SuccessfulTrue ELSE CompleteFalse}
  /\ rec.pc = "status" /\ rec.new.completionTime = Nil =>
       /\ pl.life # "None" => pl.completionTime = Nil
       /\ rec.pl.startTime = "set" =>
            /\ rec.new.phase \in {rec.pl.phase, "Succeeded"}
            /\ rec.new.conditions = rec.pl.conditions

OutcomeInv ==
  /\ PhaseOK(pl) /\ PhaseOK(plCache) /\ PhaseOK(rec.pl)
  /\ PhaseBehind(plCache) /\ (rec.pc # "idle" => PhaseBehind(rec.pl))
  /\ PodInv /\ OutcomeStep

-----------------------------------------------------------------------------
(* The outcome invariant is inductive. *)

\* Phases and conditions of the two constant objects.
LEMMA ObjectsPhaseOK == PhaseOK(NoPipeline) /\ PhaseOK(NewPipeline)
  BY DEF PhaseOK, NoPipeline, NewPipeline, HasFinalizer, SuccessfulTrue

\* A terminal pod stays as it is, and the downloader of a running pod is done.
LEMMA KubeletFacts ==
  ASSUME TypeOK, PodInv, Kubelet \/ NodeUnreachable
  PROVE  /\ pod.phase \notin Terminal
         /\ pod'.phase \in {"Running", "Unknown"} => pod'.dl = "ok"
<1>0. pod \in Pod
  BY DEF TypeOK
<1>1. pod.phase \notin Terminal
  BY DEF Kubelet, NodeUnreachable, KubeletStep, Active, Terminal, NewPod, PodOf
<1>2. \A p \in Pod : /\ Settle(p).dl = p.dl
                     /\ p.phase = "Pending" => Settle(p).phase \in {"Pending", "Failed"}
  BY DEF Settle, Pod
<1> SUFFICES pod'.phase \in {"Running", "Unknown"} => pod'.dl = "ok"
  BY <1>1
<1>3. CASE NodeUnreachable
  BY <1>0, <1>3 DEF NodeUnreachable, PodInv, Pod
<1>4. CASE KubeletStep
  <2>1. CASE pod' = PodOf("Pending", "live")
    BY <2>1 DEF PodOf
  <2>2. CASE pod.phase = "Pending" /\ \E x \in {"ok", "failed"} : pod' = Settle([pod EXCEPT !.dl = x])
    <3>1. \A x \in {"ok", "failed"} : /\ [pod EXCEPT !.dl = x] \in Pod
                                     /\ [pod EXCEPT !.dl = x].phase = pod.phase
      BY <1>0 DEF Pod, ContainerState
    <3> QED BY <1>2, <2>2, <3>1
  <2>3. CASE pod.dl = "ok" /\ pod' = [pod EXCEPT !.phase = "Running"]
    BY <1>0, <2>3 DEF Pod
  <2>4. CASE /\ pod.phase = "Running"
             /\ \E i \in 1..NScan, x \in {"ok", "failed"} : pod' = Settle([pod EXCEPT !.scan[i] = x])
    <3>1. \A i \in 1..NScan, x \in {"ok", "failed"} :
            [pod EXCEPT !.scan[i] = x] \in Pod /\ [pod EXCEPT !.scan[i] = x].dl = pod.dl
      BY <1>0 DEF Pod, ContainerState
    <3> QED BY <1>2, <2>4, <3>1 DEF PodInv
  <2>5. CASE /\ pod.phase = "Running"
             /\ \E i \in 1..NUp, x \in {"ok", "failed"} : pod' = Settle([pod EXCEPT !.up[i] = x])
    <3>1. \A i \in 1..NUp, x \in {"ok", "failed"} :
            [pod EXCEPT !.up[i] = x] \in Pod /\ [pod EXCEPT !.up[i] = x].dl = pod.dl
      BY <1>0 DEF Pod, ContainerState
    <3> QED BY <1>2, <2>5, <3>1 DEF PodInv
  <2>6. CASE pod' = [pod EXCEPT !.phase = "Failed"]
    BY <1>0, <2>6 DEF Pod
  <2>7. CASE pod.phase = "Unknown" /\ pod' = [pod EXCEPT !.phase = "Running"]
    BY <1>0, <2>7 DEF Pod, PodInv
  <2> QED BY <1>4, <2>1, <2>2, <2>3, <2>4, <2>5, <2>6, <2>7 DEF KubeletStep
<1> QED BY <1>3, <1>4 DEF Kubelet

\* The end of a reconcile that wrote nothing the outcome depends on.
LEMMA OutcomeIdle ==
  ASSUME OutcomeInv, rec' = Idle, UNCHANGED <<pod, plCache, podCache>>,
         PhaseOK(pl'), PhaseBehind(plCache)',
         pl'.life # "None" =>
           pl.life # "None" /\ (pl'.completionTime # Nil =>
             pod.phase = pl'.phase /\ podCache.phase = pl'.phase)
  PROVE  OutcomeInv'
<1>1. rec'.pc = "idle" /\ rec'.pl = NoPipeline
  BY DEF Idle
<1> QED BY <1>1, ObjectsPhaseOK DEF OutcomeInv, PodInv, OutcomeStep

\* What each patch does to phase and conditions.
LEMMA OutcomePatchStatus ==
  ASSUME TypeOK, CoreInv, OutcomeInv, PatchStatus
  PROVE  OutcomeInv'
<1>0. pl \in Pipeline /\ rec.pl \in Pipeline /\ rec.new \in Pipeline /\ pl' \in Pipeline
  BY MergeType DEF TypeOK, Rec, PatchStatus
<1>1. /\ pl'.life = pl.life /\ pl'.finalizers = pl.finalizers
      /\ pl'.startTime = Patched(pl.startTime, rec.pl.startTime, rec.new.startTime)
      /\ pl'.completionTime =
           Patched(pl.completionTime, rec.pl.completionTime, rec.new.completionTime)
      /\ pl'.phase = Patched(pl.phase, rec.pl.phase, rec.new.phase)
      /\ pl'.conditions = Patched(pl.conditions, rec.pl.conditions, rec.new.conditions)
  BY <1>0, MergeType DEF PatchStatus
<1>2. HasFinalizer(pl') <=> HasFinalizer(pl)
  BY <1>1 DEF HasFinalizer
<1>3. /\ rec' = Idle /\ UNCHANGED <<pod, plCache, podCache>> /\ pl.life # "None"
      /\ rec.pc = "status"
  BY DEF PatchStatus, Return, ReturnError, ReplyLost, caches
<1>4. rec.pl.completionTime = Nil /\ rec.pl.life # "None" /\ plCache.life # "None"
  BY <1>3 DEF CoreInv, AtCall
<1>5. /\ Behind(rec.pl) /\ PhaseOK(pl) /\ PhaseOK(rec.pl) /\ PhaseBehind(rec.pl)
      /\ PhaseBehind(plCache) /\ WellFormed(rec.pl)
  BY <1>3 DEF CoreInv, OutcomeInv
<1>6. CASE rec.pl.startTime = "unset" /\ rec.new = Started(rec.pl)
  <2>1. ~HasFinalizer(pl) /\ pl.completionTime = Nil
    BY <1>3, <1>4, <1>5, <1>6 DEF Behind, WellFormed
  <2>2. pl.phase \in {"", "Downloading"} /\ rec.pl.phase = "" /\ SuccessfulTrue \notin rec.pl.conditions
        /\ SuccessfulTrue \notin pl.conditions
    BY <1>4, <1>5, <1>6, <2>1 DEF PhaseOK
  <2>3. /\ pl'.phase = "Downloading" /\ pl'.completionTime = Nil /\ pl'.startTime = "set"
        /\ SuccessfulTrue \notin pl'.conditions
    <3>1. /\ rec.new.startTime = "set" /\ rec.new.completionTime = Nil
          /\ rec.new.phase = "Downloading"
          /\ rec.new.conditions = rec.pl.conditions \cup {PodCreatedTrue}
      BY <1>0, <1>4, <1>6, StartedFacts
    <3>2. SuccessfulTrue \notin rec.new.conditions
      BY <2>2, <3>1 DEF SuccessfulTrue, PodCreatedTrue
    <3> QED BY <1>1, <1>4, <1>6, <2>1, <2>2, <3>1, <3>2 DEF Patched
  <2>4. PhaseOK(pl')
    BY <1>1, <2>3 DEF PhaseOK
  <2>5. PhaseBehind(plCache)'
    BY <1>3, <1>5, <2>2 DEF PhaseBehind, Terminal
  <2> QED BY <1>3, <2>3, <2>4, <2>5, OutcomeIdle
<1>7. CASE rec.pl.startTime = "set" /\ rec.new.startTime = "set" /\ rec.new.completionTime = Nil
  <2>1. /\ pl.completionTime = Nil /\ rec.new.phase \in {rec.pl.phase, "Succeeded"}
        /\ rec.new.conditions = rec.pl.conditions
    BY <1>3, <1>7 DEF OutcomeInv, OutcomeStep
  <2>2. HasFinalizer(pl)
    <3>1. HasFinalizer(rec.pl)
      BY <1>3, <1>7 DEF CoreInv, AtStatus
    <3> QED BY <1>3, <1>4, <1>5, <2>1, <3>1 DEF Behind
  <2>3. /\ pl'.phase \in {pl.phase, "Succeeded"} /\ pl'.completionTime = Nil
        /\ pl'.conditions = pl.conditions /\ pl'.startTime = pl.startTime
        /\ pl.startTime = "set"
    BY <1>1, <1>3, <1>4, <1>5, <1>7, <2>1 DEF Patched, Behind
  <2>4. PhaseOK(pl')
    BY <1>2, <1>5, <2>1, <2>2, <2>3 DEF PhaseOK
  <2>5. PhaseBehind(plCache)'
    BY <1>1, <1>3, <1>5, <2>3 DEF PhaseBehind, Terminal
  <2> QED BY <1>3, <2>3, <2>4, <2>5, OutcomeIdle
<1>8. CASE rec.pl.startTime = "set" /\ rec.new.startTime = "set" /\ rec.new.completionTime # Nil
  <2>1. /\ rec.new.phase \in Terminal
        /\ pod.phase = rec.new.phase /\ podCache.phase = rec.new.phase
        /\ rec.new.conditions = rec.pl.conditions \cup
             {IF rec.new.phase = "Succeeded" THEN SuccessfulTrue ELSE CompleteFalse}
    BY <1>3, <1>8 DEF OutcomeInv, OutcomeStep
  <2>2. pl.completionTime # Nil => pl.phase = rec.new.phase
    BY <1>3, <2>1 DEF OutcomeInv, OutcomeStep
  <2>3. pl'.phase = rec.new.phase
    BY <1>1, <1>3, <1>4, <1>5, <2>1, <2>2 DEF Patched, PhaseOK, PhaseBehind, Terminal
  <2>4. pl'.completionTime # Nil /\ pl'.startTime = pl.startTime /\ pl.startTime = "set"
    BY <1>1, <1>3, <1>4, <1>5, <1>8 DEF Patched, Behind
  <2>5. (SuccessfulTrue \in pl'.conditions) <=> rec.new.phase = "Succeeded"
    <3>1. SuccessfulTrue \notin rec.pl.conditions
      BY <1>4, <1>5 DEF PhaseOK
    <3>2. CASE rec.new.phase = "Succeeded"
      BY <1>1, <2>1, <3>1, <3>2 DEF Patched
    <3>3. CASE rec.new.phase # "Succeeded"
      <4>1. SuccessfulTrue \notin rec.new.conditions
        BY <2>1, <3>1, <3>3 DEF SuccessfulTrue, CompleteFalse
      <4>2. SuccessfulTrue \notin pl.conditions
        BY <1>5, <2>2, <3>3 DEF PhaseOK
      <4> QED BY <1>1, <3>3, <4>1, <4>2 DEF Patched
    <3> QED BY <3>2, <3>3
  <2>6. PhaseOK(pl')
    BY <2>1, <2>3, <2>4, <2>5 DEF PhaseOK
  <2>7. PhaseBehind(plCache)'
    BY <2>1, <2>3 DEF PhaseBehind
  <2> QED BY <1>3, <2>1, <2>3, <2>6, <2>7, OutcomeIdle
<1> QED BY <1>0, <1>3, <1>6, <1>7, <1>8 DEF CoreInv, AtStatus

\* What the reconcile will write after it has seen the pod s.
LEMMA OutcomeAfterPod ==
  ASSUME TypeOK, CoreInv, OutcomeInv, rec.pc = "pod",
         NEW s \in Pod, AfterPod(s), s.phase # "None",
         UNCHANGED <<pl, plCache, podCache>>,
         \/ s = podCache /\ pod' = pod
         \/ s = NewPod /\ podCache.phase = "None" /\ pod' = NewPod
  PROVE  OutcomeInv'
<1>0. rec.pl \in Pipeline /\ now \in Nat /\ rec \in Rec /\ pl \in Pipeline
  BY BoundAssumption DEF TypeOK, Rec
<1>1. /\ NewPod.phase = "Pending" /\ Terminal = {"Succeeded", "Failed"}
  BY DEF NewPod, PodOf, Terminal
<1>2. PodInv' /\ (s.phase \in {"Running", "Unknown"} => s.dl = "ok")
  BY <1>1 DEF OutcomeInv, PodInv
<1>3. /\ rec.pl.completionTime = Nil /\ rec.pl.life = "Live"
  BY DEF CoreInv, AtCall
<1>4. pl.life # "None" /\ pl.completionTime # Nil =>
        pod'.phase = pl.phase /\ podCache.phase = pl.phase /\ pl.phase \in Terminal
  BY <1>1 DEF OutcomeInv, OutcomeStep, PhaseOK
<1>5. /\ PhaseOK(pl') /\ PhaseOK(plCache') /\ PhaseOK(rec.pl)
      /\ PhaseBehind(plCache)' /\ PhaseBehind(rec.pl)
  BY DEF OutcomeInv, PhaseBehind
<1>6. ASSUME rec'.pl = rec.pl PROVE PhaseOK(rec'.pl) /\ PhaseBehind(rec.pl)'
  BY <1>5, <1>6 DEF PhaseBehind
<1>7. CASE /\ rec.pl.startTime = "unset"
           /\ rec' = [rec EXCEPT !.pc = "status", !.new = Started(rec.pl)]
  <2>1. rec'.pc = "status" /\ rec'.pl = rec.pl /\ rec'.new = Started(rec.pl)
    BY <1>0, <1>7 DEF Rec
  <2>2. rec'.new.completionTime = Nil
    BY <1>0, <1>3, <2>1, StartedFacts
  <2>3. pl.life # "None" => pl.completionTime = Nil
    BY <1>3, <1>7 DEF CoreInv, Behind, WellFormed
  <2>4. OutcomeStep'
    BY <1>4, <1>7, <2>1, <2>2, <2>3 DEF OutcomeStep
  <2> QED BY <1>2, <1>5, <1>6, <2>1, <2>4 DEF OutcomeInv
<1>8. CASE rec' = [rec EXCEPT !.pc = "track"]
  <2>1. rec'.pc = "track" /\ rec'.pl = rec.pl
    BY <1>0, <1>8 DEF Rec
  <2>4. OutcomeStep'
    BY <1>4, <2>1 DEF OutcomeStep
  <2> QED BY <1>2, <1>5, <1>6, <2>1, <2>4 DEF OutcomeInv
<1>9. CASE /\ s.phase # "Unknown" /\ rec.pl.startTime = "set"
           /\ rec' = [rec EXCEPT !.pc = "status", !.new = Observed(rec.pl, s, now)]
  <2>1. rec'.pc = "status" /\ rec'.pl = rec.pl /\ rec'.new = Observed(rec.pl, s, now)
    BY <1>0, <1>9 DEF Rec
  <2>2. CASE s.phase \in Terminal
    <3>1. s = podCache /\ pod' = pod
      BY <1>1, <2>2
    <3>2. pl.life # "None" => pod.phase = s.phase
      BY <2>2, <3>1 DEF OutcomeInv, PodInv
    <3>3. /\ rec'.new.completionTime # Nil /\ rec'.new.phase = s.phase
          /\ rec'.new.conditions = rec.pl.conditions \cup
               {IF s.phase = "Succeeded" THEN SuccessfulTrue ELSE CompleteFalse}
      BY <1>0, <1>9, <2>1, <2>2, ObservedFacts DEF Nil
    <3>4. OutcomeStep'
      BY <1>4, <2>1, <2>2, <3>1, <3>2, <3>3 DEF OutcomeStep
    <3> QED BY <1>2, <1>5, <1>6, <2>1, <3>4 DEF OutcomeInv
  <2>3. CASE s.phase \notin Terminal
    <3>1. /\ s.phase \in {"Pending", "Running"} /\ rec'.new.completionTime = Nil
          /\ rec'.new.conditions = rec.pl.conditions
          /\ rec'.new.phase \in {rec.pl.phase, "Succeeded"}
      BY <1>0, <1>2, <1>3, <1>9, <2>1, <2>3, ObservedFacts
    <3>2. pl.life # "None" => pl.completionTime = Nil
      BY <1>1, <1>4, <2>3
    <3>3. OutcomeStep'
      BY <1>4, <2>1, <3>1, <3>2 DEF OutcomeStep
    <3> QED BY <1>2, <1>5, <1>6, <2>1, <3>3 DEF OutcomeInv
  <2> QED BY <2>2, <2>3
<1>10. CASE rec' = Idle
  <2>1. rec'.pc = "idle" /\ rec'.pl = NoPipeline
    BY <1>10 DEF Idle
  <2>2. OutcomeStep'
    BY <1>4, <2>1 DEF OutcomeStep
  <2> QED BY <1>2, <1>5, <2>1, <2>2, ObjectsPhaseOK DEF OutcomeInv
<1> QED BY <1>7, <1>8, <1>9, <1>10 DEF AfterPod

\* One step keeps the outcome invariant, if no pod is lost.
LEMMA OutcomeInvStep ==
  ASSUME MaxPodLosses = 0, TypeOK, TypeOK', CoreInv, CoreInv', OutcomeInv, [Next]_vars
  PROVE  OutcomeInv'
<1> USE DEF server, caches, metrics, budget
<1>0. /\ pl \in Pipeline /\ pl' \in Pipeline /\ podCache \in Pod /\ NewPod \in Pod
  BY ObjectType DEF TypeOK
<1>1. ASSUME rec' = Idle, UNCHANGED <<pl, pod, plCache, podCache>> PROVE OutcomeInv'
  <2>1. PhaseOK(pl') /\ PhaseBehind(plCache)'
    BY <1>1 DEF OutcomeInv, PhaseBehind
  <2> QED BY <1>1, <2>1, OutcomeIdle DEF OutcomeInv, OutcomeStep
<1>2. ASSUME UNCHANGED <<pl, pod, plCache, podCache>>, rec'.pc \in {"release", "delete", "untrack", "pod"},
             rec'.pl = plCache PROVE OutcomeInv'
  BY <1>2 DEF OutcomeInv, PhaseBehind, PodInv, OutcomeStep
<1>3. ASSUME NEW pc \in {"release", "delete", "untrack", "pod"}, Begin(pc) PROVE OutcomeInv'
  BY <1>2, <1>3 DEF Begin, At, Take
<1>4. CASE ReconcileNotFound \/ CallFails
  BY <1>1, <1>4 DEF ReconcileNotFound, CallFails, ReturnError, Take
<1>5. CASE ReconcileDeleted \/ ReconcileExpired \/ ReconcileUnfinished
  BY <1>3, <1>5 DEF ReconcileDeleted, ReconcileExpired, ReconcileUnfinished
<1>6. CASE ReconcileFinished
  <2>1. CASE Begin("untrack")
    BY <1>3, <2>1
  <2>2. CASE Take /\ AwaitTTL(plCache, Nil)
    BY <1>1, <1>2, <2>2 DEF Take, AwaitTTL, At
  <2> QED BY <1>6, <2>1, <2>2 DEF ReconcileFinished
<1>7. CASE RemoveFinalizerOnDeletion
  <2>1. pl' = NoPipeline /\ rec' = Idle /\ UNCHANGED <<pod, plCache, podCache>>
    BY <1>7, CoreRemoveOnDeletion DEF RemoveFinalizerOnDeletion, Return, ReplyLost, ReturnError
  <2>2. PhaseOK(pl') /\ PhaseBehind(plCache)' /\ pl'.life = "None"
    BY <2>1, ObjectsPhaseOK, ObjectsWellFormed DEF PhaseBehind
  <2> QED BY <2>1, <2>2, OutcomeIdle
<1>8. ASSUME pl' = AfterDelete(pl)
      PROVE  /\ PhaseOK(pl')
             /\ pl'.life # "None" => /\ pl.life # "None" /\ pl'.phase = pl.phase
                                    /\ pl'.completionTime = pl.completionTime
  <2>1. CASE HasFinalizer(pl)
    <3>1. pl.life # "None"
      BY <2>1, ObjectsWellFormed DEF CoreInv, WellFormed
    <3>2. /\ HasFinalizer(pl') /\ pl'.startTime = pl.startTime /\ pl'.phase = pl.phase
          /\ pl'.completionTime = pl.completionTime /\ pl'.conditions = pl.conditions
      BY <1>0, <1>8, <2>1, AfterDeleteFacts
    <3> QED BY <2>1, <3>1, <3>2 DEF OutcomeInv, PhaseOK
  <2>2. CASE ~HasFinalizer(pl)
    BY <1>0, <1>8, <2>2, AfterDeleteFacts, ObjectsPhaseOK, ObjectsWellFormed
  <2> QED BY <2>1, <2>2
<1>9. CASE DeletePipeline
  <2>1. pl' = AfterDelete(pl) /\ rec' = Idle /\ UNCHANGED <<pod, plCache, podCache>>
    BY <1>9 DEF DeletePipeline, Return, ReturnError, ReplyLost
  <2>2. PhaseBehind(plCache)'
    BY <1>8, <2>1 DEF OutcomeInv, PhaseBehind
  <2> QED BY <1>8, <2>1, <2>2, OutcomeIdle DEF OutcomeInv, OutcomeStep
<1>10. CASE RemoveFinalizerOnCompletion
  <2>1. /\ PhaseOK(pl')
        /\ pl'.life # "None" => /\ pl.life # "None" /\ pl'.phase = pl.phase
                               /\ pl'.completionTime = pl.completionTime
    <3>1. CASE pl.life = "Deleting"
      BY <1>10, <3>1, AtUntrack, ObjectsPhaseOK, ObjectsWellFormed
    <3>2. CASE pl.life # "Deleting"
      <4>1. /\ pl'.phase = pl.phase /\ pl'.conditions = pl.conditions
            /\ pl'.startTime = pl.startTime /\ pl'.completionTime = pl.completionTime
            /\ pl'.life = pl.life
        BY <1>0, <1>10, <3>2, WithoutFinalizerFacts DEF RemoveFinalizerOnCompletion
      <4>2. pl.completionTime # Nil /\ pl.life # "None"
        BY <1>10, AtUntrack
      <4> QED BY <4>1, <4>2 DEF OutcomeInv, PhaseOK
    <3> QED BY <3>1, <3>2
  <2>2. UNCHANGED <<pod, plCache, podCache>> /\ PhaseBehind(plCache)'
    BY <1>10, <2>1 DEF RemoveFinalizerOnCompletion, OutcomeInv, PhaseBehind
  <2>3. CASE rec' = Idle
    BY <2>1, <2>2, <2>3, OutcomeIdle DEF OutcomeInv, OutcomeStep
  <2>4. CASE rec' = At("delete", pl)
    <3>1. rec'.pc = "delete" /\ rec'.pl = pl
      BY <2>4 DEF At
    <3>2. PhaseOK(rec'.pl) /\ PhaseBehind(rec.pl)'
      BY <2>1, <3>1 DEF OutcomeInv, PhaseBehind, Terminal
    <3>3. PodInv' /\ OutcomeStep'
      BY <2>1, <2>2, <3>1 DEF OutcomeInv, PodInv, OutcomeStep
    <3> QED BY <2>1, <2>2, <3>1, <3>2, <3>3 DEF OutcomeInv
  <2> QED BY <1>10, <2>3, <2>4 DEF RemoveFinalizerOnCompletion, ReplyLost, ReturnError, AwaitTTL
<1>11. CASE CreateOrUpdatePod
  <2>0. rec.pc = "pod" /\ UNCHANGED <<pl, plCache, podCache, now>>
    BY <1>11 DEF CreateOrUpdatePod
  <2>1. CASE podCache.phase # "None" /\ AfterPod(podCache) /\ UNCHANGED pod
    BY <1>0, <2>0, <2>1, OutcomeAfterPod
  <2>2. CASE podCache.phase = "None" /\ pod' = NewPod /\ AfterPod(NewPod)
    <3>1. NewPod.phase = "Pending"
      BY DEF NewPod, PodOf
    <3> QED BY <1>0, <2>0, <2>2, <3>1, OutcomeAfterPod
  <2>3. CASE podCache.phase = "None" /\ pod' = NewPod /\ rec' = Idle
    <3>1. NewPod.phase = "Pending" /\ Terminal = {"Succeeded", "Failed"}
      BY DEF NewPod, PodOf, Terminal
    <3>2. rec'.pc = "idle" /\ rec'.pl = NoPipeline
      BY <2>3 DEF Idle
    <3>3. pl.life # "None" => pl.completionTime = Nil
      BY <2>3, <3>1 DEF OutcomeInv, OutcomeStep, PhaseOK
    <3>4. PodInv' /\ OutcomeStep'
      BY <2>0, <2>3, <3>1, <3>2, <3>3 DEF OutcomeInv, PodInv, OutcomeStep
    <3> QED BY <2>0, <3>2, <3>4, ObjectsPhaseOK DEF OutcomeInv, PhaseBehind
  <2>4. CASE rec' = Idle /\ UNCHANGED pod
    BY <1>1, <2>0, <2>4
  <2> QED BY <1>11, <2>1, <2>2, <2>3, <2>4 DEF CreateOrUpdatePod, ReplyLost, ReturnError
<1>12. CASE AddFinalizer
  <2>1. /\ HasFinalizer(pl') /\ pl'.life = pl.life /\ pl'.startTime = pl.startTime
        /\ pl'.completionTime = pl.completionTime /\ pl'.phase = pl.phase
        /\ pl'.conditions = pl.conditions
        /\ rec' = Idle /\ UNCHANGED <<pod, plCache, podCache>>
    BY <1>0, <1>12, WithFinalizerFacts DEF AddFinalizer, Return, ReplyLost, ReturnError
  <2>2. PhaseOK(pl') /\ PhaseBehind(plCache)'
    BY <2>1 DEF OutcomeInv, PhaseOK, PhaseBehind
  <2> QED BY <2>1, <2>2, OutcomeIdle DEF OutcomeInv, OutcomeStep
<1>13. CASE PatchStatus
  BY <1>13, OutcomePatchStatus
<1>14. CASE SyncPipeline
  <2>1. plCache' = pl /\ UNCHANGED <<pl, pod, podCache, rec>>
    BY <1>14 DEF SyncPipeline
  <2> QED BY <2>1 DEF OutcomeInv, PhaseBehind, Terminal, PodInv, OutcomeStep
<1>15. CASE SyncPod
  <2>1. podCache' = pod /\ UNCHANGED <<pl, pod, plCache, rec>>
    BY <1>15 DEF SyncPod
  <2>2. PodInv' /\ OutcomeStep'
    BY <2>1 DEF OutcomeInv, PodInv, OutcomeStep
  <2> QED BY <2>1, <2>2 DEF OutcomeInv, PhaseBehind
<1>16. CASE Restart
  <2>1. plCache' = pl /\ podCache' = pod /\ UNCHANGED <<pl, pod>>
        /\ rec'.pc = "idle" /\ rec'.pl = NoPipeline
    BY <1>16 DEF Restart, Idle
  <2>2. PodInv' /\ OutcomeStep'
    BY <2>1 DEF OutcomeInv, PodInv, OutcomeStep
  <2> QED BY <2>1, <2>2, ObjectsPhaseOK DEF OutcomeInv, PhaseBehind, Terminal
<1>17. CASE UserDeletes
  <2>1. pl' = AfterDelete(pl) /\ UNCHANGED <<pod, plCache, podCache, rec>> /\ pl.life # "None"
    BY <1>17 DEF UserDeletes
  <2>2. PhaseBehind(plCache)' /\ (rec.pc # "idle" => PhaseBehind(rec.pl)')
    BY <1>8, <2>1 DEF OutcomeInv, PhaseBehind
  <2>3. PodInv' /\ OutcomeStep'
    BY <1>8, <2>1 DEF OutcomeInv, PodInv, OutcomeStep
  <2> QED BY <1>8, <2>1, <2>2, <2>3 DEF OutcomeInv
<1>18. CASE Kubelet \/ NodeUnreachable
  <2>1. UNCHANGED <<pl, plCache, podCache, rec>>
    BY <1>18 DEF Kubelet, NodeUnreachable
  <2>2. pod.phase \notin Terminal /\ (pod'.phase \in {"Running", "Unknown"} => pod'.dl = "ok")
    BY <1>18, KubeletFacts DEF OutcomeInv
  <2>3. PodInv' /\ OutcomeStep'
    BY <2>1, <2>2 DEF OutcomeInv, PodInv, OutcomeStep, PhaseOK
  <2> QED BY <2>1, <2>3 DEF OutcomeInv, PhaseBehind
<1>19. CASE LosePod
  BY <1>19 DEF LosePod, TypeOK
<1>20. CASE GarbageCollect
  <2>1. UNCHANGED <<pl, plCache, podCache, rec>> /\ pl.life = "None" /\ pod'.phase = "None"
    BY <1>20 DEF GarbageCollect, NoPod, PodOf
  <2>2. PodInv' /\ OutcomeStep'
    BY <2>1 DEF OutcomeInv, PodInv, OutcomeStep
  <2> QED BY <2>1, <2>2 DEF OutcomeInv, PhaseBehind
<1>21. CASE Tick \/ UNCHANGED vars
  <2>1. UNCHANGED <<pl, pod, plCache, podCache, rec>>
    BY <1>21 DEF Tick, vars
  <2> QED BY <2>1 DEF OutcomeInv, PhaseBehind, PodInv, OutcomeStep
<1> QED
  BY <1>4, <1>5, <1>6, <1>7, <1>9, <1>10, <1>11, <1>12, <1>13, <1>14, <1>15, <1>16,
     <1>17, <1>18, <1>19, <1>20, <1>21
     DEF Next, Controller, Watches, Environment

\* The outcome invariant holds at the start.
LEMMA OutcomeInit == Init => OutcomeInv
<1>1. /\ NoPod.phase = "None" /\ Idle.pc = "idle" /\ Idle.pl = NoPipeline
      /\ NoPipeline.phase = "" /\ NewPipeline.completionTime = Nil
  BY DEF NoPod, PodOf, Idle, NoPipeline, NewPipeline
<1> QED BY <1>1, ObjectsPhaseOK
        DEF Init, OutcomeInv, PhaseBehind, PodInv, OutcomeStep, Terminal

\* The invariant of the outcome, if no pod is lost.
LEMMA OutcomeAlways ==
  ASSUME MaxPodLosses = 0
  PROVE  Spec => [](TypeOK /\ CoreInv /\ OutcomeInv)
<1>1. (TypeOK /\ CoreInv) /\ (TypeOK /\ CoreInv)' /\ OutcomeInv /\ [Next]_vars => OutcomeInv'
  BY OutcomeInvStep
<1> QED BY <1>1, OutcomeInit, CoreCorrect, PTL DEF Spec

\* A completed Pipeline shows the terminal phase of its pod and the matching
\* condition, however many stale, repeated or lost status patches there were.
THEOREM OutcomeCorrect ==
  ASSUME MaxPodLosses = 0
  PROVE  Spec => []OutcomeIsThePods
<1>1. TypeOK /\ CoreInv /\ OutcomeInv => OutcomeIsThePods
  <2> SUFFICES ASSUME TypeOK, CoreInv, OutcomeInv, pl.completionTime # Nil
               PROVE  OutcomeIsThePods
    BY DEF OutcomeIsThePods
  <2>1. pl.life # "None"
    BY ObjectsWellFormed DEF CoreInv, WellFormed
  <2> QED BY <2>1 DEF OutcomeInv, OutcomeStep, PhaseOK, OutcomeIsThePods
<1> QED BY <1>1, OutcomeAlways, PTL

-----------------------------------------------------------------------------
(* The reconciler implements the lifecycle. *)

\* A step that keeps the fields the lifecycle is read from is a stutter.
LEMMA LifecycleStutter ==
  ASSUME pl'.life = pl.life, pl'.startTime = pl.startTime, pl'.completionTime = pl.completionTime,
         HasFinalizer(pl') <=> HasFinalizer(pl),
         pl.completionTime # Nil => pl'.phase = pl.phase
  PROVE  UNCHANGED Lifecycle!lvars
  BY DEF LifeStage, LifeDeleting, LifeOutcome, Lifecycle!lvars

\* An object that goes away: unfinalized, or marked for deletion before.
LEMMA LifecycleDisappear ==
  ASSUME TypeOK, CoreInv, pl.life # "None", pl' = NoPipeline,
         HasFinalizer(pl) => pl.life = "Deleting"
  PROVE  Lifecycle!Disappear
<1>1. pl.life \in {"Live", "Deleting"} /\ (pl.life = "Deleting" => HasFinalizer(pl))
  BY DEF TypeOK, Pipeline, CoreInv, WellFormed
<1>2. pl'.life = "None" /\ pl'.completionTime = Nil
  BY ObjectsWellFormed
<1>3. LifeStage' = "Gone" /\ LifeDeleting' = "no" /\ LifeOutcome' = "none"
  BY <1>2 DEF LifeStage, LifeDeleting, LifeOutcome
<1>4. LifeStage # "Gone" /\ (LifeStage \in Lifecycle!Tracked <=> HasFinalizer(pl))
  BY <1>1 DEF LifeStage, Lifecycle!Tracked
<1>5. HasFinalizer(pl) <=> LifeDeleting = "yes"
  BY <1>1 DEF LifeDeleting
<1> QED BY <1>3, <1>4, <1>5 DEF Lifecycle!Disappear

\* A delete call marks a tracked object and removes an untracked one.
LEMMA LifecycleDelete ==
  ASSUME TypeOK, CoreInv, pl' = AfterDelete(pl)
  PROVE  [Lifecycle!Next]_(Lifecycle!lvars)
<1>0. pl \in Pipeline
  BY DEF TypeOK
<1>1. CASE HasFinalizer(pl)
  <2>1. /\ HasFinalizer(pl') /\ pl'.life = "Deleting" /\ pl'.startTime = pl.startTime
        /\ pl'.completionTime = pl.completionTime /\ pl'.phase = pl.phase
        /\ pl.life # "None"
    BY <1>0, <1>1, AfterDeleteFacts, ObjectsWellFormed DEF CoreInv, WellFormed
  <2>2. CASE pl.life = "Deleting"
    BY <1>1, <2>1, <2>2, LifecycleStutter
  <2>3. CASE pl.life # "Deleting"
    <3>1. LifeStage' = LifeStage /\ LifeStage \in {"Tracked", "Completed"}
      BY <1>1, <2>1 DEF LifeStage
    <3>2. LifeDeleting = "no" /\ LifeDeleting' = "yes" /\ LifeOutcome' = LifeOutcome
      BY <2>1, <2>3 DEF LifeDeleting, LifeOutcome
    <3> QED BY <3>1, <3>2 DEF Lifecycle!Next, Lifecycle!MarkDeleted, Lifecycle!Tracked
  <2> QED BY <2>2, <2>3
<1>2. CASE ~HasFinalizer(pl)
  <2>1. pl' = NoPipeline
    BY <1>0, <1>2, AfterDeleteFacts
  <2>2. CASE pl.life # "None"
    BY <1>2, <2>1, <2>2, LifecycleDisappear DEF Lifecycle!Next
  <2>3. CASE pl.life = "None"
    BY <2>1, <2>3, LifecycleStutter DEF CoreInv, WellFormed
  <2> QED BY <2>2, <2>3
<1> QED BY <1>1, <1>2

\* A status patch starts the Pipeline, completes it, or is invisible.
LEMMA LifecyclePatch ==
  ASSUME TypeOK, CoreInv, OutcomeInv, OutcomeInv', PatchStatus
  PROVE  [Lifecycle!Next]_(Lifecycle!lvars)
<1>0. pl \in Pipeline /\ rec.pl \in Pipeline /\ rec.new \in Pipeline
  BY DEF TypeOK, Rec
<1>1. /\ pl'.life = pl.life /\ pl'.finalizers = pl.finalizers
      /\ pl'.startTime = Patched(pl.startTime, rec.pl.startTime, rec.new.startTime)
      /\ pl'.completionTime =
           Patched(pl.completionTime, rec.pl.completionTime, rec.new.completionTime)
      /\ HasFinalizer(pl') <=> HasFinalizer(pl)
  BY <1>0, MergeType DEF PatchStatus, HasFinalizer
<1>2. /\ rec.pc = "status" /\ pl.life # "None" /\ pod' = pod
      /\ rec.pl.completionTime = Nil /\ rec.pl.life # "None"
      /\ Behind(rec.pl) /\ WellFormed(rec.pl) /\ WellFormed(pl)
  BY DEF PatchStatus, CoreInv, AtCall
<1>3. CASE rec.pl.startTime = "unset" /\ rec.new = Started(rec.pl)
  <2>1. ~HasFinalizer(pl) /\ pl.completionTime = Nil /\ pl.life = "Live"
    BY <1>0, <1>2, <1>3 DEF Behind, WellFormed, Pipeline
  <2>2. pl'.startTime = "set" /\ pl'.completionTime = Nil
    BY <1>0, <1>1, <1>2, <1>3, <2>1, StartedFacts DEF Patched
  <2>3. CASE pl.startTime = "set"
    BY <1>1, <2>1, <2>2, <2>3, LifecycleStutter
  <2>4. CASE pl.startTime # "set"
    <3>1. LifeStage = "Created" /\ LifeStage' = "Started"
      BY <1>1, <2>1, <2>2, <2>4 DEF LifeStage
    <3>2. LifeDeleting = "no" /\ LifeDeleting' = "no" /\ LifeOutcome' = LifeOutcome
      BY <1>1, <2>1, <2>2 DEF LifeDeleting, LifeOutcome
    <3> QED BY <3>1, <3>2 DEF Lifecycle!Next, Lifecycle!Start, Lifecycle!Advance
  <2> QED BY <2>3, <2>4
<1>4. CASE rec.pl.startTime = "set" /\ rec.new.startTime = "set" /\ rec.new.completionTime = Nil
  <2>1. pl.completionTime = Nil
    BY <1>2, <1>4 DEF OutcomeInv, OutcomeStep
  <2> QED BY <1>1, <1>2, <1>4, <2>1, LifecycleStutter DEF Patched
<1>5. CASE /\ rec.pl.startTime = "set" /\ HasFinalizer(rec.pl)
           /\ rec.new.startTime = "set" /\ rec.new.completionTime # Nil
  <2>1. HasFinalizer(pl) /\ pl.startTime = "set"
    BY <1>2, <1>5 DEF Behind
  <2>2. pl'.completionTime # Nil /\ pl'.startTime = "set"
    BY <1>1, <1>2, <1>5, <2>1 DEF Patched
  <2>3. pl'.phase = pod.phase /\ pl'.phase \in {"Succeeded", "Failed"}
    BY <1>1, <1>2, <2>2 DEF OutcomeInv, OutcomeStep, PhaseOK, Terminal
  <2>4. LifeStage' = "Completed" /\ LifeOutcome' = pl'.phase /\ LifeDeleting' = LifeDeleting
    BY <1>1, <1>2, <2>1, <2>2 DEF LifeStage, LifeOutcome, LifeDeleting
  <2>5. CASE pl.completionTime = Nil
    <3>1. LifeStage = "Tracked"
      BY <1>2, <2>1, <2>5 DEF LifeStage
    <3> QED BY <2>3, <2>4, <3>1 DEF Lifecycle!Next, Lifecycle!Complete, Lifecycle!Outcomes
  <2>6. CASE pl.completionTime # Nil
    <3>1. LifeStage = "Completed" /\ LifeOutcome = pl.phase /\ pl.phase = pod.phase
      BY <1>2, <2>1, <2>6 DEF LifeStage, LifeOutcome, OutcomeInv, OutcomeStep
    <3> QED BY <2>3, <2>4, <3>1 DEF Lifecycle!lvars
  <2> QED BY <2>5, <2>6
<1> QED BY <1>2, <1>3, <1>4, <1>5 DEF CoreInv, AtStatus

\* The finalizer is added once, to a started Pipeline.
LEMMA LifecycleTrack ==
  ASSUME TypeOK, CoreInv, AddFinalizer
  PROVE  [Lifecycle!Next]_(Lifecycle!lvars)
<1>1. /\ HasFinalizer(pl') /\ pl'.life = pl.life /\ pl'.startTime = pl.startTime
      /\ pl'.completionTime = pl.completionTime /\ pl'.phase = pl.phase /\ pl.life # "None"
  BY WithFinalizerFacts DEF AddFinalizer, TypeOK
<1>2. pl.startTime = "set" /\ pl.completionTime = Nil
  BY <1>1 DEF AddFinalizer, CoreInv, AtCall, Behind
<1>3. CASE HasFinalizer(pl)
  BY <1>1, <1>3, LifecycleStutter
<1>4. CASE ~HasFinalizer(pl)
  <2>1. LifeStage = "Started" /\ LifeStage' = "Tracked"
    BY <1>1, <1>2, <1>4 DEF LifeStage
  <2>2. LifeDeleting = "no" /\ LifeDeleting' = "no" /\ LifeOutcome' = LifeOutcome
    BY <1>1, <1>2, <1>4 DEF LifeDeleting, LifeOutcome, CoreInv, WellFormed
  <2> QED BY <2>1, <2>2 DEF Lifecycle!Next, Lifecycle!Track, Lifecycle!Advance
<1> QED BY <1>3, <1>4

\* Removing the finalizer of a completed Pipeline releases it, lets a deleted
\* one go, or repeats an earlier removal.
LEMMA LifecycleRelease ==
  ASSUME TypeOK, CoreInv, RemoveFinalizerOnCompletion
  PROVE  [Lifecycle!Next]_(Lifecycle!lvars)
<1>1. pl.life # "None" /\ pl.completionTime # Nil /\ pl.startTime = "set"
  BY AtUntrack DEF WellFormed
<1>2. CASE pl.life = "Deleting"
  BY <1>1, <1>2, AtUntrack, LifecycleDisappear DEF Lifecycle!Next
<1>3. CASE pl.life # "Deleting"
  <2>1. /\ ~HasFinalizer(pl') /\ pl'.life = pl.life /\ pl'.startTime = "set"
        /\ pl'.completionTime = pl.completionTime /\ pl'.phase = pl.phase
    BY <1>3, AtUntrack, WithoutFinalizerFacts DEF RemoveFinalizerOnCompletion, TypeOK
  <2>2. CASE HasFinalizer(pl)
    <3>1. LifeStage = "Completed" /\ LifeStage' = "Released"
      BY <1>1, <2>1, <2>2 DEF LifeStage
    <3>2. LifeDeleting = "no" /\ LifeDeleting' = "no" /\ LifeOutcome' = LifeOutcome
      BY <1>1, <1>3, <2>1 DEF LifeDeleting, LifeOutcome
    <3> QED BY <3>1, <3>2 DEF Lifecycle!Next, Lifecycle!Release, Lifecycle!Advance
  <2>3. CASE ~HasFinalizer(pl)
    BY <1>1, <2>1, <2>3, LifecycleStutter
  <2> QED BY <2>2, <2>3
<1> QED BY <1>2, <1>3

\* Every step of the reconciler and its environment is one of the lifecycle.
LEMMA LifecycleStep ==
  ASSUME TypeOK, CoreInv, OutcomeInv, OutcomeInv', [Next]_vars
  PROVE  [Lifecycle!Next]_(Lifecycle!lvars)
<1> USE DEF server, caches, metrics, budget
<1>1. CASE PatchStatus
  BY <1>1, LifecyclePatch
<1>2. CASE AddFinalizer
  BY <1>2, LifecycleTrack
<1>3. CASE RemoveFinalizerOnCompletion
  BY <1>3, LifecycleRelease
<1>4. CASE RemoveFinalizerOnDeletion
  <2>1. pl.life = "Deleting" /\ pl' = NoPipeline
    BY <1>4, CoreRemoveOnDeletion
  <2> QED BY <2>1, LifecycleDisappear DEF Lifecycle!Next
<1>5. CASE DeletePipeline \/ UserDeletes
  BY <1>5, LifecycleDelete DEF DeletePipeline, UserDeletes
<1>6. CASE pl' = pl
  BY <1>6, LifecycleStutter
<1>7. CASE \/ ReconcileNotFound \/ ReconcileDeleted \/ ReconcileExpired
           \/ ReconcileUnfinished \/ ReconcileFinished \/ CallFails \/ CreateOrUpdatePod
  BY <1>6, <1>7 DEF ReconcileNotFound, ReconcileDeleted, ReconcileExpired, Begin, Take,
       ReconcileUnfinished, ReconcileFinished, CallFails, CreateOrUpdatePod
<1>8. CASE Watches \/ Restart \/ Tick \/ Kubelet \/ NodeUnreachable \/ LosePod
           \/ GarbageCollect \/ UNCHANGED vars
  BY <1>6, <1>8 DEF Watches, SyncPipeline, SyncPod, Restart, Tick, Kubelet,
       NodeUnreachable, LosePod, GarbageCollect, vars
<1> QED BY <1>1, <1>2, <1>3, <1>4, <1>5, <1>7, <1>8
        DEF Next, Controller, Environment

\* The Pipeline object goes through its lifecycle in order, each stage once and
\* with one outcome, although the reconciler's patches carry no resource
\* version and are computed from stale objects.
THEOREM LifecycleImplemented ==
  ASSUME MaxPodLosses = 0
  PROVE  Spec => FollowsLifecycle
<1>1. Init => Lifecycle!Init
  <2>1. /\ NewPipeline.life = "Live" /\ NewPipeline.startTime = "unset"
        /\ NewPipeline.completionTime = Nil /\ ~HasFinalizer(NewPipeline)
    BY ObjectsWellFormed
  <2> QED BY <2>1 DEF Init, Lifecycle!Init, LifeStage, LifeDeleting, LifeOutcome
<1>2. (TypeOK /\ CoreInv /\ OutcomeInv) /\ (TypeOK /\ CoreInv /\ OutcomeInv)' /\ [Next]_vars
        => [Lifecycle!Next]_(Lifecycle!lvars)
  BY LifecycleStep
<1> QED BY <1>1, <1>2, OutcomeAlways, PTL DEF Spec, FollowsLifecycle, Lifecycle!Spec

-----------------------------------------------------------------------------
(* Rescans and metrics, whatever is stale, lost or restarted.               *)

\* What a reconcile has read still holds, unless the cache lagged when it began:
\* nobody else completes the Pipeline or touches its finalizer.
Fresh ==
  ~behind /\ pl.life # "None" =>
    /\ rec.pc \in {"pod", "track", "status"} => pl.completionTime = Nil
    /\ rec.pc \notin {"idle", "delete"} => (HasFinalizer(pl) <=> HasFinalizer(rec.pl))

\* What the metrics tell of the Pipeline while no patch of the finalizer went
\* amiss, and while none was lost.
Tallied ==
  /\ running = IF HasFinalizer(pl) THEN 1 ELSE 0
  /\ completedTotal <= 1
  /\ HasFinalizer(pl) \/ (pl.life # "None" /\ pl.completionTime = Nil) => completedTotal = 0

Counted == pl.completionTime # Nil /\ ~HasFinalizer(pl) => completedTotal >= 1

MetricsInv == (amiss = {} => Tallied) /\ (amiss \subseteq {"stale"} => Counted)

\* A reconcile that begins on a cache that does not lag has read what is there.
LEMMA FreshBegin ==
  ASSUME TypeOK, CoreInv, NEW pc \in {"release", "delete", "untrack", "pod"}, Begin(pc),
         pc = "pod" => plCache.completionTime = Nil
  PROVE  Fresh'
<1>1. UNCHANGED pl /\ rec'.pc = pc /\ rec'.pl = plCache /\ behind' = Lags
  BY DEF Begin, Take, At, server
<1>2. ~behind' /\ pl.life # "None" =>
        /\ HasFinalizer(plCache) = HasFinalizer(pl)
        /\ (plCache.completionTime = Nil) = (pl.completionTime = Nil)
  BY <1>1 DEF Lags
<1> QED BY <1>1, <1>2 DEF Fresh

\* Every step keeps Fresh.
LEMMA FreshStep ==
  ASSUME TypeOK, CoreInv, Fresh, [Next]_vars
  PROVE  Fresh'
<1> USE DEF server, caches, metrics, budget, history
<1>0. pl \in Pipeline /\ rec \in Rec
  BY DEF TypeOK
<1>1. ASSUME rec'.pc \in {"idle", "delete"} PROVE Fresh'
  BY <1>1 DEF Fresh
<1>2. ASSUME UNCHANGED <<pl, rec, behind>> PROVE Fresh'
  BY <1>2 DEF Fresh
<1>4. CASE ReconcileNotFound \/ CallFails \/ RemoveFinalizerOnDeletion \/ DeletePipeline
            \/ AddFinalizer \/ PatchStatus \/ Restart
  <2>1. rec'.pc = "idle"
    BY <1>4 DEF ReconcileNotFound, CallFails, RemoveFinalizerOnDeletion, DeletePipeline,
         AddFinalizer, PatchStatus, Restart, Return, ReturnError, ReplyLost, Idle
  <2> QED BY <1>1, <2>1
<1>5. CASE ReconcileDeleted \/ ReconcileExpired \/ ReconcileUnfinished
  BY <1>5, FreshBegin DEF ReconcileDeleted, ReconcileExpired, ReconcileUnfinished
<1>6. CASE ReconcileFinished
  <2>1. CASE AwaitTTL(plCache, Nil)
    <3>1. rec'.pc \in {"idle", "delete"}
      BY <2>1 DEF AwaitTTL, Idle, At
    <3> QED BY <1>1, <3>1
  <2> QED BY <1>6, <2>1, FreshBegin DEF ReconcileFinished
<1>7. CASE RemoveFinalizerOnCompletion
  <2>1. rec'.pc \in {"idle", "delete"}
    BY <1>7 DEF RemoveFinalizerOnCompletion, AwaitTTL, ReplyLost, ReturnError, Idle, At
  <2> QED BY <1>1, <2>1
<1>8. CASE CreateOrUpdatePod
  <2>1. UNCHANGED <<pl, behind>> /\ rec.pc = "pod"
    BY <1>8 DEF CreateOrUpdatePod
  <2>2. ASSUME NEW s, AfterPod(s) PROVE Fresh'
    <3>1. rec'.pc = "idle" \/ (rec'.pc \in {"status", "track"} /\ rec'.pl = rec.pl)
      <4>1. CASE rec' = Idle
        BY <4>1 DEF Idle
      <4>2. ASSUME NEW x, rec' = [rec EXCEPT !.pc = "status", !.new = x]
            PROVE  rec'.pc = "status" /\ rec'.pl = rec.pl
        BY <1>0, <4>2 DEF Rec
      <4>3. ASSUME rec' = [rec EXCEPT !.pc = "track"]
            PROVE  rec'.pc = "track" /\ rec'.pl = rec.pl
        BY <1>0, <4>3 DEF Rec
      <4>4. \/ rec' = Idle \/ rec' = [rec EXCEPT !.pc = "track"]
            \/ \E x : rec' = [rec EXCEPT !.pc = "status", !.new = x]
        BY <2>2, Zenon DEF AfterPod
      <4> QED BY <4>1, <4>2, <4>3, <4>4
    <3> QED BY <2>1, <3>1 DEF Fresh
  <2>3. CASE rec' = Idle
    BY <1>1, <2>3 DEF Idle
  <2> QED BY <1>8, <2>2, <2>3 DEF CreateOrUpdatePod, ReplyLost, ReturnError
<1>9. CASE UserDeletes
  <2>1. pl' = AfterDelete(pl) /\ UNCHANGED <<rec, behind>> /\ pl.life # "None"
    BY <1>9 DEF UserDeletes
  <2>2. /\ HasFinalizer(pl') <=> HasFinalizer(pl)
        /\ pl.completionTime = Nil => pl'.completionTime = Nil
    BY <1>0, <2>1, AfterDeleteFacts, ObjectsWellFormed
  <2> QED BY <2>1, <2>2 DEF Fresh
<1>10. CASE \/ SyncPipeline \/ SyncPod \/ Tick \/ Kubelet \/ NodeUnreachable \/ LosePod
            \/ GarbageCollect \/ UNCHANGED vars
  BY <1>2, <1>10 DEF SyncPipeline, SyncPod, Tick, Kubelet, NodeUnreachable, LosePod,
       GarbageCollect, vars
<1> QED BY <1>4, <1>5, <1>6, <1>7, <1>8, <1>9, <1>10
        DEF Next, Controller, Watches, Environment

\* If nothing is amiss after a patch of the finalizer, its reply has arrived and
\* the reconcile did not begin on a lagging cache; if at most staleness is, the
\* reply has arrived.
LEMMA PatchNoted ==
  ASSUME NoteIfBehind \/ NoteLost
  PROVE  /\ amiss' = {} => amiss = {} /\ ~behind /\ ~NoteLost
         /\ amiss' \subseteq {"stale"} => amiss \subseteq {"stale"} /\ ~NoteLost
<1>1. CASE NoteLost
  <2>1. "lost" \in amiss'
    BY <1>1 DEF NoteLost
  <2> QED BY <2>1
<1>2. CASE NoteIfBehind /\ ~NoteLost
  BY <1>2 DEF NoteIfBehind
<1> QED BY <1>1, <1>2

\* Every step keeps what the metrics tell.
LEMMA MetricsStep ==
  ASSUME TypeOK, CoreInv, Fresh, MetricsInv, [Next]_vars
  PROVE  MetricsInv'
<1> USE DEF server, caches, metrics, budget, history
<1>0. pl \in Pipeline /\ rec \in Rec /\ rec.pl \in Pipeline /\ rec.new \in Pipeline
      /\ running \in Int /\ completedTotal \in Nat
  BY DEF TypeOK, Rec
<1>3. ASSUME UNCHANGED <<pl, running, completedTotal, amiss>> PROVE MetricsInv'
  BY <1>3 DEF MetricsInv, Tallied, Counted
<1>4. CASE RemoveFinalizerOnDeletion
  <2>1. /\ rec.pc = "release" /\ pl' = NoPipeline /\ completedTotal' = completedTotal
        /\ pl.life # "None" /\ (NoteIfBehind \/ NoteLost)
        /\ ~NoteLost => running' = running - 1
    BY <1>4, CoreRemoveOnDeletion DEF RemoveFinalizerOnDeletion
  <2>2. ASSUME amiss' = {} PROVE Tallied'
    <3>1. Tallied /\ ~behind /\ running' = running - 1
      BY <2>1, <2>2, PatchNoted DEF MetricsInv
    <3>2. HasFinalizer(pl)
      BY <2>1, <3>1 DEF Fresh, CoreInv, AtCall, WellFormed
    <3> QED BY <1>0, <2>1, <3>1, <3>2, ObjectsWellFormed DEF Tallied
  <2> QED BY <2>1, <2>2, ObjectsWellFormed DEF MetricsInv, Counted
<1>5. CASE DeletePipeline \/ UserDeletes
  <2>1. pl' = AfterDelete(pl) /\ UNCHANGED <<running, completedTotal, amiss>>
    BY <1>5 DEF DeletePipeline, UserDeletes
  <2>2. CASE HasFinalizer(pl)
    BY <1>0, <2>1, <2>2, AfterDeleteFacts DEF MetricsInv, Tallied, Counted
  <2>3. CASE ~HasFinalizer(pl)
    <3>1. pl' = NoPipeline
      BY <1>0, <2>1, <2>3, AfterDeleteFacts
    <3> QED BY <2>1, <2>3, <3>1, ObjectsWellFormed DEF MetricsInv, Tallied, Counted
  <2> QED BY <2>2, <2>3
<1>6. CASE RemoveFinalizerOnCompletion
  <2>1. /\ rec.pc = "untrack" /\ pl.life # "None" /\ (NoteIfBehind \/ NoteLost)
        /\ ~NoteLost => running' = running - 1 /\ completedTotal' = completedTotal + 1
    BY <1>6 DEF RemoveFinalizerOnCompletion
  <2>2. ~HasFinalizer(pl') /\ (pl'.life # "None" => pl'.completionTime # Nil)
    BY <1>6, AtUntrack, ObjectsWellFormed
  <2>3. ASSUME amiss' = {} PROVE Tallied'
    <3>1. /\ Tallied /\ ~behind
          /\ running' = running - 1 /\ completedTotal' = completedTotal + 1
      BY <2>1, <2>3, PatchNoted DEF MetricsInv
    <3>2. HasFinalizer(pl)
      BY <2>1, <3>1 DEF Fresh, CoreInv, AtCall
    <3> QED BY <1>0, <2>2, <3>1, <3>2 DEF Tallied
  <2>4. ASSUME amiss' \subseteq {"stale"} PROVE Counted'
    <3>1. completedTotal' = completedTotal + 1
      BY <2>1, <2>4, PatchNoted
    <3> QED BY <1>0, <3>1 DEF Counted
  <2> QED BY <2>3, <2>4 DEF MetricsInv
<1>7. CASE AddFinalizer
  <2>1. /\ rec.pc = "track" /\ pl.life # "None" /\ (NoteIfBehind \/ NoteLost)
        /\ pl' = [pl EXCEPT !.finalizers = {metricsFinalizer}]
        /\ completedTotal' = completedTotal /\ (~NoteLost => running' = running + 1)
    BY <1>7 DEF AddFinalizer
  <2>2. HasFinalizer(pl')
    BY <1>0, <2>1, WithFinalizerFacts
  <2>3. ASSUME amiss' = {} PROVE Tallied'
    <3>1. Tallied /\ ~behind /\ running' = running + 1
      BY <2>1, <2>3, PatchNoted DEF MetricsInv
    <3>2. ~HasFinalizer(pl) /\ pl.completionTime = Nil
      BY <2>1, <3>1 DEF Fresh, CoreInv, AtCall
    <3> QED BY <1>0, <2>1, <2>2, <3>1, <3>2 DEF Tallied
  <2> QED BY <2>2, <2>3 DEF MetricsInv, Counted
<1>8. CASE PatchStatus
  <2>1. /\ pl'.life = pl.life /\ pl'.finalizers = pl.finalizers
        /\ pl'.completionTime =
             Patched(pl.completionTime, rec.pl.completionTime, rec.new.completionTime)
    BY <1>0, <1>8, MergeType DEF PatchStatus
  <2>2. (HasFinalizer(pl') <=> HasFinalizer(pl)) /\ UNCHANGED <<running, completedTotal, amiss>>
    BY <1>8, <2>1 DEF HasFinalizer, PatchStatus
  <2>3. /\ rec.pc = "status" /\ pl.life # "None"
        /\ rec.pl.completionTime = Nil /\ rec.pl.life # "None" /\ Behind(rec.pl)
    BY <1>8 DEF PatchStatus, CoreInv, AtCall
  <2>4. CASE rec.pl.startTime = "unset" /\ rec.new = Started(rec.pl)
    <3>1. pl'.completionTime = pl.completionTime
      BY <1>0, <2>1, <2>3, <2>4, StartedFacts DEF Patched
    <3> QED BY <2>1, <2>2, <3>1 DEF MetricsInv, Tallied, Counted
  <2>5. CASE HasFinalizer(rec.pl)
    <3>1. CASE HasFinalizer(pl)
      BY <2>1, <2>2, <3>1 DEF MetricsInv, Tallied, Counted
    <3>2. CASE ~HasFinalizer(pl)
      <4>1. pl.completionTime # Nil /\ pl'.completionTime # Nil
        BY <2>1, <2>3, <2>5, <3>2 DEF Behind, Patched
      <4> QED BY <2>2, <3>2, <4>1 DEF MetricsInv, Tallied, Counted
    <3> QED BY <3>1, <3>2
  <2> QED BY <2>3, <2>4, <2>5 DEF CoreInv, AtStatus
<1>9. CASE \/ ReconcileNotFound \/ ReconcileDeleted \/ ReconcileExpired
           \/ ReconcileUnfinished \/ ReconcileFinished \/ CallFails \/ CreateOrUpdatePod
           \/ SyncPipeline \/ SyncPod \/ Tick \/ Kubelet \/ NodeUnreachable \/ LosePod
           \/ GarbageCollect \/ UNCHANGED vars
  BY <1>3, <1>9 DEF ReconcileNotFound, ReconcileDeleted, ReconcileExpired,
       ReconcileUnfinished, ReconcileFinished, Begin, Take, CallFails, CreateOrUpdatePod,
       SyncPipeline, SyncPod, Tick, Kubelet, NodeUnreachable, LosePod, GarbageCollect, vars
<1>10. CASE Restart
  <2>1. "restart" \in amiss'
    BY <1>10 DEF Restart
  <2> QED BY <2>1 DEF MetricsInv
<1> QED BY <1>4, <1>5, <1>6, <1>7, <1>8, <1>9, <1>10
        DEF Next, Controller, Watches, Environment

\* All of this holds throughout.
LEMMA FreshAlways == Spec => [](TypeOK /\ CoreInv /\ Fresh /\ MetricsInv)
<1>1. Init => Fresh /\ MetricsInv
  <2>1. Idle.pc = "idle"
    BY DEF Idle
  <2> QED BY <2>1, ObjectsWellFormed DEF Init, Fresh, MetricsInv, Tallied, Counted
<1>2. TypeOK /\ CoreInv /\ Fresh /\ [Next]_vars => Fresh'
  BY FreshStep
<1>3. TypeOK /\ CoreInv /\ Fresh /\ MetricsInv /\ [Next]_vars => MetricsInv'
  BY MetricsStep
<1> QED BY <1>1, <1>2, <1>3, CoreCorrect, PTL DEF Spec

\* No scan pod is created for a completed Pipeline but by a reconcile that began
\* before the cache showed the completion, through any number of failed calls,
\* lost replies, lost pods and restarts: every later one goes to
\* handlePostCompletion.
THEOREM RerunExcluded == Spec => NeverRerun
<1> DEFINE A == pod.phase = "None" /\ pod'.phase # "None" => pl.completionTime = Nil \/ behind
<1>1. TypeOK /\ CoreInv /\ Fresh /\ [Next]_vars => [A]_vars
  <2> SUFFICES ASSUME TypeOK, CoreInv, Fresh, [Next]_vars,
                      pod.phase = "None", pod'.phase # "None"
               PROVE  pl.completionTime = Nil \/ behind
    OBVIOUS
  <2> USE DEF server, caches, metrics, budget
  <2>1. ~KubeletStep
    BY DEF KubeletStep, Active, NewPod, PodOf
  <2>2. NoPod.phase = "None"
    BY DEF NoPod, PodOf
  <2>3. CreateOrUpdatePod
    BY <2>1, <2>2 DEF Next, Controller, Watches, Environment, ReconcileNotFound, ReconcileDeleted,
       ReconcileExpired, ReconcileUnfinished, ReconcileFinished, Begin, Take, CallFails,
       RemoveFinalizerOnDeletion, DeletePipeline, RemoveFinalizerOnCompletion,
       AddFinalizer, PatchStatus, SyncPipeline, SyncPod,
       Restart, Tick, UserDeletes, Kubelet, NodeUnreachable, LosePod, GarbageCollect, vars
  <2>4. pl.life = "None" => pl.completionTime = Nil
    BY ObjectsWellFormed DEF CoreInv, WellFormed
  <2> QED BY <2>3, <2>4 DEF CreateOrUpdatePod, Fresh
<1> QED BY <1>1, FreshAlways, PTL DEF Spec, NeverRerun

\* The gauge is 1 exactly while the Pipeline carries the finalizer, through every
\* stale read, failed call and lost pod, until a finalizer is patched on a
\* lagging cache, the reply to such a patch is lost, or the process restarts.
THEOREM GaugeCorrect == Spec => []GaugeExact
<1>1. MetricsInv => GaugeExact
  BY DEF MetricsInv, Tallied, GaugeExact
<1> QED BY <1>1, FreshAlways, PTL

\* A completion is never counted twice under the same exceptions, and never
\* missed, stale reads included, unless a reply or the process was lost.
THEOREM CompletionsCorrect == Spec => []CompletionCountedOnce
<1>1. MetricsInv => CompletionCountedOnce
  BY DEF MetricsInv, Tallied, Counted, CompletionCountedOnce
<1> QED BY <1>1, FreshAlways, PTL

=============================================================================
