-------------------------- MODULE SearchController --------------------------
(***************************************************************************)
(* The Search reconciler of the Ocular operator                            *)
(* (internal/controller/search_controller.go) for ONE Search, the service  *)
(* account, role binding and pod it creates, and the Pipelines and         *)
(* Searches the scheduler in that pod creates (`kids').                    *)
(*                                                                         *)
(* As in PipelineController there are the server's objects, the informer   *)
(* caches a reconcile reads, its entry in the work queue and the reconcile *)
(* in progress, cut at its reads and writes.  Status writes replace the    *)
(* whole status and carry the resource version of the object that was      *)
(* read.                                                                   *)
(***************************************************************************)
EXTENDS Integers, FiniteSets

CONSTANTS
  Kids,                     \* Pipelines and Searches the crawler may ask for
  TTLSecondsAfterFinished,  \* spec field, or Nil
  Requeue,                  \* RequeueAfter while children or the pod are open
  StaleReads,               \* may a cached read lag behind the API server?
  MaxTime,                  \* bound: the clock stops here, and timers expire
  MaxFaults                 \* bound: failed calls, lost replies, pods and nodes,
                            \* restarts, a deletion by the user

Nil == -1

ASSUME SearchAssumption ==
  TTLSecondsAfterFinished \in Nat \cup {Nil} /\ Requeue \in Nat \ {0}
ASSUME SearchBoundAssumption ==
  StaleReads \in BOOLEAN /\ MaxTime \in Nat /\ MaxFaults \in Nat

VARIABLES
  search,     \* the Search in the API server
  res,        \* its service account, role binding and pod in the API server
  kids,       \* its children in the API server
  searchCache, resCache, kidsCache,
  due,        \* when the queued request is ready, Nil if none is queued
  rec,        \* the reconcile in progress
  observed,   \* observations of searchDurationSeconds
  now, faults,
  blind,      \* has a reconcile overlooked a child, or the completion?
  slipped     \* did the TTL run out between two readings of the clock?

objects == <<search, res, kids>>
caches  == <<searchCache, resCache, kidsCache>>
clock   == <<now, faults>>
history == <<blind, slipped>>
vars == <<search, res, kids, searchCache, resCache, kidsCache, due, rec, observed,
          now, faults, blind, slipped>>

-----------------------------------------------------------------------------
(* The objects. *)

\* A pod that is deleted leaves its uid behind, so that a watch tells the pod
\* that comes after it, and the lack of one, from what it saw before.
PodPhase == {"Pending", "Running", "Succeeded", "Failed", "Unknown"}
Phase    == PodPhase \cup {"None"}
Terminal == {"Succeeded", "Failed"}
Pod      == [uid: Nat, phase: Phase]
NoPod    == [uid |-> 0, phase |-> "None"]

\* `account' is spec.serviceAccountName, `complete' the condition Complete.
SearchObject ==
  [life: {"Live", "None"}, account: {"unset", "set"}, startTime: {"unset", "set"},
   completionTime: 0..MaxTime \cup {Nil}, complete: {"unset", "True", "False"}, ver: Nat]

NoSearch == [life |-> "None", account |-> "unset", startTime |-> "unset",
             completionTime |-> Nil, complete |-> "unset", ver |-> 0]

Resources == [account: {"None", "Exists"}, binding: {"None", "Exists"}, pod: Pod]
NoResources == [account |-> "None", binding |-> "None", pod |-> NoPod]

\* A child is open until it has a completion time or is deleted.
KidState == {"none", "open", "closed"}
NoKids == [k \in Kids |-> "none"]

-----------------------------------------------------------------------------
(* The work queue and the control of one reconcile. *)

Earliest(d, t) == IF d = Nil \/ t < d THEN t ELSE d
Ready == due # Nil /\ (due <= now \/ now = MaxTime)

\* pc names the call that comes next; `pod' is the phase of the pod the
\* reconcile has read and `open' whether it has seen an open child.
Rec == [pc: {"idle", "name", "account", "binding", "pod", "start", "list", "judge",
             "complete", "requeue", "delete"},
        search: SearchObject, pod: Phase, open: BOOLEAN]

Idle == [pc |-> "idle", search |-> NoSearch, pod |-> "None", open |-> FALSE]

Goto(pc) == rec' = [rec EXCEPT !.pc = pc] /\ UNCHANGED due
ReturnError == rec' = Idle /\ due' = Earliest(due, now)
Return == rec' = Idle /\ UNCHANGED due
ReturnAfter(t) == rec' = Idle /\ due' = Earliest(due, t)

Fault == faults < MaxFaults /\ faults' = faults + 1
Replied == UNCHANGED faults
ReplyLost == Fault /\ ReturnError

\* The user may have named a service account, which has to exist.
Init ==
  /\ \/ search = [NoSearch EXCEPT !.life = "Live"] /\ res = NoResources
     \/ /\ search = [NoSearch EXCEPT !.life = "Live", !.account = "set"]
        /\ res = [NoResources EXCEPT !.account = "Exists"]
  /\ kids = NoKids
  /\ searchCache = NoSearch /\ resCache = NoResources /\ kidsCache = NoKids
  /\ due = Nil /\ rec = Idle /\ observed = 0 /\ now = 0 /\ faults = 0
  /\ blind = FALSE /\ slipped = FALSE

-----------------------------------------------------------------------------
(* Reconcile, up to its first call. *)

DeleteTime(s) == s.completionTime + TTLSecondsAfterFinished

\* Mutant: the TTL is not added to the completion time.
FirstCall_NoTTL(s) ==
  IF s.life = "None" THEN "idle"
  ELSE IF s.completionTime = Nil THEN (IF s.account = "unset" THEN "name" ELSE "account")
  ELSE IF TTLSecondsAfterFinished = Nil THEN "idle" ELSE "delete"

\* Where a reconcile of `s' goes first; "idle" if it ends at once.
FirstCall(s) ==
  IF s.life = "None" THEN "idle"
  ELSE IF s.completionTime = Nil THEN (IF s.account = "unset" THEN "name" ELSE "account")
  ELSE IF TTLSecondsAfterFinished = Nil THEN "idle"
  ELSE IF now > DeleteTime(s) THEN "delete" ELSE "requeue"

Reconcile ==
  /\ rec.pc = "idle" /\ Ready
  /\ StaleReads \/ (searchCache = search /\ resCache = res /\ kidsCache = kids)
  /\ LET pc == FirstCall(searchCache)
     IN  rec' = IF pc = "idle" THEN Idle ELSE [Idle EXCEPT !.pc = pc, !.search = searchCache]
  /\ due' = Nil /\ slipped' = FALSE
  /\ UNCHANGED <<objects, caches, observed, clock, blind>>

-----------------------------------------------------------------------------
(* The calls of Reconcile. *)

\* Any call may fail, the crawler may not resolve, and a patch or a deletion
\* of an object that is gone is NotFound.
CallFails ==
  /\ rec.pc \notin {"idle", "requeue", "judge"}
  /\ \/ Fault
     \/ rec.pc \in {"name", "delete"} /\ search.life = "None" /\ UNCHANGED faults
  /\ ReturnError
  /\ UNCHANGED <<objects, caches, observed, now, history>>

NameServiceAccount ==
  /\ rec.pc = "name" /\ search.life = "Live"
  /\ search' = IF search.account = "set" THEN search
               ELSE [search EXCEPT !.account = "set", !.ver = @ + 1]
  /\ (Replied /\ Return) \/ ReplyLost
  /\ UNCHANGED <<res, kids, caches, observed, now, history>>

\* controllerutil.CreateOrUpdate: what the cache has is left as it is, what it
\* does not have is created, unless the name is taken.
CreateServiceAccount ==
  /\ rec.pc = "account"
  /\ \/ resCache.account = "Exists" /\ Goto("binding") /\ UNCHANGED <<res, faults>>
     \/ /\ resCache.account = "None" /\ res.account = "None"
        /\ res' = [res EXCEPT !.account = "Exists"]
        /\ (Replied /\ Goto("binding")) \/ ReplyLost
     \/ /\ resCache.account = "None" /\ res.account = "Exists"
        /\ ReturnError /\ UNCHANGED <<res, faults>>
  /\ UNCHANGED <<search, kids, caches, observed, now, history>>

\* AlreadyExists is no error here: the reconcile ends and is not requeued.
CreateRoleBinding ==
  /\ rec.pc = "binding"
  /\ \/ resCache.binding = "Exists" /\ Goto("pod") /\ UNCHANGED <<res, faults>>
     \/ /\ resCache.binding = "None" /\ res.binding = "None"
        /\ res' = [res EXCEPT !.binding = "Exists"]
        /\ (Replied /\ Goto("pod")) \/ ReplyLost
     \/ /\ resCache.binding = "None" /\ res.binding = "Exists"
        /\ Return /\ UNCHANGED <<res, faults>>
  /\ UNCHANGED <<search, kids, caches, observed, now, history>>

AfterPod(phase) ==
  /\ rec' = [rec EXCEPT !.pod = phase,
                        !.pc = IF rec.search.startTime = "unset" THEN "start" ELSE "list"]
  /\ UNCHANGED due

CreatePod ==
  /\ rec.pc = "pod"
  /\ \/ /\ resCache.pod.phase # "None" /\ AfterPod(resCache.pod.phase)
        /\ UNCHANGED <<res, faults, blind>>
     \/ /\ resCache.pod.phase = "None" /\ res.pod.phase = "None"
        /\ res' = [res EXCEPT !.pod = [uid |-> @.uid + 1, phase |-> "Pending"]]
        /\ blind' = (blind \/ search.completionTime # Nil)
        /\ (Replied /\ AfterPod("Pending")) \/ ReplyLost
     \/ /\ resCache.pod.phase = "None" /\ res.pod.phase # "None"
        /\ Return /\ UNCHANGED <<res, faults, blind>>
  /\ UNCHANGED <<search, kids, caches, observed, now, slipped>>

\* Mutant: the status is written whatever the resource version.
Accepted_Always == search.life = "Live"

\* updateStatus is refused if the object is not the one that was read.
Accepted == search.life = "Live" /\ rec.search.ver = search.ver

\* The whole status is replaced.
Updated(startTime, completionTime, complete) ==
  [search EXCEPT !.startTime = startTime, !.completionTime = completionTime,
                 !.complete = complete, !.ver = @ + 1]

\* Mutant: the duration is observed before the update is known to succeed.
StatusRefused_Observes ==
  /\ rec.pc \in {"start", "complete"} /\ ~Accepted
  /\ ReturnError /\ observed' = IF rec.pc = "complete" THEN observed + 1 ELSE observed
  /\ UNCHANGED <<objects, caches, clock, history>>

StatusRefused ==
  /\ rec.pc \in {"start", "complete"} /\ ~Accepted
  /\ ReturnError
  /\ UNCHANGED <<objects, caches, observed, clock, history>>

MarkStarted ==
  /\ rec.pc = "start" /\ Accepted
  /\ search' = Updated("set", rec.search.completionTime, rec.search.complete)
  /\ (Replied /\ Return) \/ ReplyLost
  /\ UNCHANGED <<res, kids, caches, observed, now, history>>

-----------------------------------------------------------------------------
(* handleCompletion. *)

\* retrieveRunningScheduledResources, from the cache.
ListChildren ==
  /\ rec.pc = "list"
  /\ rec' = [rec EXCEPT !.pc = "judge", !.open = \E k \in Kids : kidsCache[k] = "open"]
  /\ blind' = (blind \/ \E k \in Kids : kids[k] = "open" /\ kidsCache[k] = "none")
  /\ UNCHANGED <<objects, caches, due, observed, clock, slipped>>

\* Mutant: the pod is read after the list of its children.
PodRead_Late == resCache.pod.phase

\* The pod was read before its children were listed.
PodRead == rec.pod

\* Mutant: open children end the reconcile, and nothing brings it back.
AwaitChildren_NoRequeue == Return

AwaitChildren == ReturnAfter(now + Requeue)

Judge ==
  /\ rec.pc = "judge"
  /\ \/ rec.open /\ AwaitChildren
     \/ ~rec.open /\ PodRead = "Unknown" /\ ReturnAfter(now + Requeue)
     \/ ~rec.open /\ PodRead \in {"Pending", "Running"} /\ Return
     \/ /\ ~rec.open /\ PodRead \in Terminal
        /\ rec' = [rec EXCEPT !.pc = "complete", !.pod = PodRead] /\ UNCHANGED due
  /\ UNCHANGED <<objects, caches, observed, clock, history>>

\* The duration is observed once the update has succeeded.
MarkCompleted ==
  /\ rec.pc = "complete" /\ Accepted
  /\ search' = Updated(rec.search.startTime, now, IF rec.pod = "Succeeded" THEN "True" ELSE "False")
  /\ \/ Replied /\ Return /\ observed' = observed + 1
     \/ ReplyLost /\ UNCHANGED observed
  /\ UNCHANGED <<res, kids, caches, now, history>>

-----------------------------------------------------------------------------
(* handlePostCompletion. *)

\* The clock is read again for RequeueAfter, and one that is not positive is
\* no requeue.  The queue adds it to a yet later reading, so that the request
\* is ready after the TTL, never at its end.
RequeueForTTL ==
  /\ rec.pc = "requeue"
  /\ \/ now < DeleteTime(rec.search) /\ ReturnAfter(DeleteTime(rec.search) + 1) /\ UNCHANGED slipped
     \/ now >= DeleteTime(rec.search) /\ Return /\ slipped' = TRUE
  /\ UNCHANGED <<objects, caches, observed, clock, blind>>

DeleteSearch ==
  /\ rec.pc = "delete" /\ search.life = "Live"
  /\ search' = NoSearch
  /\ (Replied /\ Return) \/ ReplyLost
  /\ UNCHANGED <<res, kids, caches, observed, now, history>>

Controller ==
  \/ Reconcile \/ CallFails \/ NameServiceAccount \/ CreateServiceAccount
  \/ CreateRoleBinding \/ CreatePod \/ StatusRefused \/ MarkStarted \/ ListChildren
  \/ Judge \/ MarkCompleted \/ RequeueForTTL \/ DeleteSearch

-----------------------------------------------------------------------------
(* Watches, and a new controller process. *)

SyncSearch ==
  /\ searchCache # search /\ searchCache' = search /\ due' = Earliest(due, now)
  /\ UNCHANGED <<objects, resCache, kidsCache, rec, observed, clock, history>>

\* Mutant: pods are watched for changes of their spec only.
SyncResource_Generation ==
  /\ \E f \in DOMAIN res :
       /\ res[f] # resCache[f] /\ resCache' = [resCache EXCEPT ![f] = res[f]]
       /\ due' = IF f # "pod" \/ res.pod.uid # resCache.pod.uid THEN Earliest(due, now) ELSE due
  /\ UNCHANGED <<objects, searchCache, kidsCache, rec, observed, clock, history>>

\* Owned objects wake the Search that owns them.
SyncResource ==
  /\ \E f \in DOMAIN res : res[f] # resCache[f] /\ resCache' = [resCache EXCEPT ![f] = res[f]]
  /\ due' = Earliest(due, now)
  /\ UNCHANGED <<objects, searchCache, kidsCache, rec, observed, clock, history>>

\* Children are not watched.
SyncKid ==
  /\ \E k \in Kids : kids[k] # kidsCache[k] /\ kidsCache' = [kidsCache EXCEPT ![k] = kids[k]]
  /\ UNCHANGED <<objects, searchCache, resCache, due, rec, observed, clock, history>>

Restart ==
  /\ Fault /\ rec' = Idle
  /\ searchCache' = search /\ resCache' = res /\ kidsCache' = kids
  /\ due' = IF search.life = "None" THEN Nil ELSE now
  /\ UNCHANGED <<objects, observed, now, history>>

-----------------------------------------------------------------------------
(* The environment: clock, user, kubelet, scheduler.  What a deleted Search *)
(* owns stays: nothing said below depends on the garbage collector.         *)

Tick ==
  /\ now < MaxTime /\ now' = now + 1
  /\ UNCHANGED <<objects, caches, due, rec, observed, faults, history>>

UserDeletes ==
  /\ search.life = "Live" /\ Fault /\ search' = NoSearch
  /\ UNCHANGED <<res, kids, caches, due, rec, observed, now, history>>

\* restartPolicy is Never; an unreachable pod may come back.
PodStep(phase) ==
  CASE phase = "Pending" -> {"Running", "Failed"}
    [] phase = "Running" -> {"Succeeded", "Failed"}
    [] phase = "Unknown" -> {"Running", "Failed"}
    [] OTHER             -> {}

Kubelet ==
  /\ \E p \in PodStep(res.pod.phase) : res' = [res EXCEPT !.pod.phase = p]
  /\ UNCHANGED <<search, kids, caches, due, rec, observed, clock, history>>

\* The pod is deleted, or its node is lost.
LosePod ==
  /\ res.pod.phase # "None" /\ Fault
  /\ \/ res' = [res EXCEPT !.pod.phase = "None"]
     \/ res.pod.phase = "Running" /\ res' = [res EXCEPT !.pod.phase = "Unknown"]
  /\ UNCHANGED <<search, kids, caches, due, rec, observed, now, history>>

\* The scheduler creates a child while its pod runs.
KidStep ==
  /\ \E k \in Kids :
       \/ kids[k] = "none" /\ res.pod.phase \in {"Running", "Unknown"} /\ kids' = [kids EXCEPT ![k] = "open"]
       \/ kids[k] = "open" /\ kids' = [kids EXCEPT ![k] = "closed"]
  /\ UNCHANGED <<search, res, caches, due, rec, observed, clock, history>>

Environment == Tick \/ UserDeletes \/ Kubelet \/ LosePod \/ KidStep

Next == Controller \/ SyncSearch \/ SyncResource \/ SyncKid \/ Restart \/ Environment

Spec == Init /\ [][Next]_vars

\* The worker and the informers run and time passes; nothing is assumed of the
\* kubelet, the children or the user.
FairSpec ==
  /\ Spec /\ WF_vars(Controller) /\ WF_vars(SyncSearch) /\ WF_vars(SyncResource)
  /\ WF_vars(SyncKid) /\ WF_vars(Tick)

-----------------------------------------------------------------------------
(* Properties. *)

\* Every variable keeps its type; in particular the duration is observed once
\* at most.
TypeOK ==
  /\ search \in SearchObject /\ searchCache \in SearchObject /\ rec \in Rec
  /\ res \in Resources /\ resCache \in Resources
  /\ kids \in [Kids -> KidState] /\ kidsCache \in [Kids -> KidState]
  /\ due \in Nat \cup {Nil} /\ observed \in 0..1 /\ now \in 0..MaxTime
  /\ faults \in 0..MaxFaults /\ {blind, slipped} \subseteq BOOLEAN

\* A completed Search has no open child, unless a list has overlooked one that
\* existed, or a lost pod was replaced by a reconcile that had not yet seen the
\* completion: no child is created after the list that found none, because the
\* pod had been seen to have ended before it.
CompletedAfterChildren ==
  search.completionTime # Nil /\ ~blind => \A k \in Kids : kids[k] # "open"

\* What is recorded stays: a started Search stays started, a completed one
\* keeps its completion time and its outcome, however stale the reconciles are
\* that follow.
RecordIsFinal ==
  [][search'.life = "Live" =>
       /\ search.startTime = "set" => search'.startTime = "set"
       /\ search.completionTime # Nil =>
            search'.completionTime = search.completionTime /\ search'.complete = search.complete]_vars

\* Nothing is deleted before its TTL has run out.
NoEarlyDeletion ==
  [][DeleteSearch => search.completionTime # Nil /\ now > DeleteTime(search)]_vars

AtRest == rec.pc = "idle" /\ due = Nil /\ searchCache = search /\ resCache = res

\* No wake-up is lost: a live Search for which nothing is queued is completed
\* and has no TTL to wait for, or it is started and its pod is still to end.
RestIsSettled ==
  AtRest /\ search.life = "Live" =>
    \/ search.completionTime # Nil /\ (TTLSecondsAfterFinished = Nil \/ slipped)
    \/ /\ search.completionTime = Nil /\ search.startTime = "set"
       /\ res.account = "Exists" /\ res.binding = "Exists"
       /\ res.pod.phase \in {"Pending", "Running"}

\* When the pod and all children have ended, the Search is completed, although
\* nothing tells the controller of the children.
CompletionFollows ==
  (/\ search.life = "Live" /\ res.pod.phase \in Terminal
   /\ \A k \in Kids : kids[k] # "open") ~>
  (search.completionTime # Nil \/ search.life = "None" \/ res.pod.phase \notin Terminal)

=============================================================================
