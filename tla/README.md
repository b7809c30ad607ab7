# Ocular: TLA+ models, checks and proofs

Ocular is a Kubernetes operator. Users declare what to scan (`Pipeline`), how to
find targets (`Search`, `CronSearch`) and the tools involved (`Profile`,
`Downloader`, `Uploader`, `Crawler`); controllers turn these objects into pods,
and two small binaries that wrap the containers of those pods coordinate them.
This directory holds TLA+ models of the parts of the operator whose correctness
depends on order, concurrency and failure, the TLC instances that check them, and
TLAPS proofs of the results that hold for every instance.

Sections: [inventory](#inventory), [plan](#plan), [models](#models),
[runs](#runs), [proofs](#proofs), [what is not shown](#what-is-not-shown).

## Inventory

| Part (source) | State | Operations | Interacts with | Hard part | Correct when |
|---|---|---|---|---|---|
| Pipeline controller (`internal/controller/pipeline_controller.go`, `helpers.go`, `constants.go`) | none of its own but three metrics; Pipeline status, metrics finalizer and scan pod live in the API server, copies in informer caches, requests in a work queue | `Reconcile`, `handleCompletion`, `handlePostCompletion`, `populateScanPod`, `SetupWithManager`, `podStateChangedPredicate` | API server (reads through caches, writes by merge patch), pod watches, clock | stale reads, patches without resource version, lost replies, restarts, wake-ups by watch only, TTL timers | the recorded outcome is the pod's; the lifecycle is walked once and in order; no wake-up is lost; deletions are due; metrics match the cluster |
| Pipeline API object (`api/v1beta1/pipeline_types.go`) | spec, status, conditions, finalizers | created, started, tracked, completed, released, deleted | controller, users | what a status may say and when | see the field comments |
| Sidecar (`cmd/sidecar/main.go`, `internal/process`) | a wrapper process per container, mark files in a shared directory | `init`, `scanner`, `await-scanners`; `HookCommand`, `AwaitScans`, `ScanCompleteHook`, `CancelContextSigterm` | the other containers through the marks, the kubelet through signals and exit codes | concurrent containers, signals at any point, killed wrappers | uploads follow scans; success means a complete run; waits end |
| Scheduler (`cmd/scheduler/main.go`, `internal/process`) | two FIFOs, two decoders, two channels, two creating goroutines | `Schedule`, `fifoDecoder`, post-stop hook | crawler (writes documents), API server (creates Pipelines and Searches) | FIFO end-of-file semantics, shutdown order, failed creations | a written document becomes an object, in order, once |
| Search controller (`search_controller.go`) | Search status, service account, role binding, search pod | `Reconcile`, `handleCompletion`, `retrieveRunningScheduledResources`, `handlePostCompletion` | API server, child Pipelines and Searches | stale lists of children, optimistic status updates, swallowed `AlreadyExists` | completes after its children, once |
| CronSearch controller (`cronsearch_controller.go`) | last schedule time, active children, history | `Reconcile`, `getNextSchedule`, `findExistingSearches`, `constructSearchForCronSearch` | API server, clock, child Searches | missed runs, concurrency policy on stale children, history limits | one Search per start; the policy is kept |
| Parameters, references, container options (`internal/containers`, `internal/resources`, `pkg/runtime`) | none | `ParseParameters`, `FilterConditionalContainers`, `*InvocationFromReference`, options, `populateScanPod`, `populateSearchPod` | controllers, validators, the sidecar through names and environment | several places compute the same values and names | the pod's parts agree with each other: conditions with environments, inherited values with the scanners', awaited names with marked ones |
| Admission (`internal/validators`, `internal/webhook/v1beta1`) | none; reads caches | `Default`, `ValidateCreate/Update/Delete` of ten kinds | API server, all definitions, the controllers' own writes | checks on stale reads of other objects, several requests in flight | references stay resolvable; definitions keep fitting those who use them |
| Manager, generated clients, chart tool | - | wiring, generated code, text processing | - | - | not modelled |

The parts meet as follows. A CronSearch creates Searches; a Search creates a pod
in which the scheduler wraps a crawler; the crawler writes targets to a FIFO and
the scheduler creates a Pipeline for each; the Pipeline controller creates the
scan pod; in the scan pod the sidecar orders scanners and uploaders; the kubelet
reports the pod's phase, which the Pipeline controller records; the Search
controller waits for the Pipelines its crawler caused.

`PROJECT.json` lists the hazards of this code at the lines where they bite, with
the properties that cover them or the reason why none does yet.

## Plan

1. `PipelineController` with its abstract specification `PipelineLifecycle`, and
   proofs. *Done.*
2. `Sidecar` and proofs. *Done.*
3. `Scheduler`. *Done, with proofs.*
4. `SearchController`: resources in order, optimistic updates, completion after
   the children seen in the cache, TTL. *Done, with proofs.*
5. `CronSearchController`: missed starts, concurrency policies, history limits,
   deterministic names against double creation. *Done, with proofs.*
6. `Invocation` and `ScanPod`: references, parameters, conditional containers and
   validators as operators, and the pods the controllers build with them. *Done, with
   proofs.*
7. `Admission`: create, update and delete of definitions and of their users, judged
   on cached reads, and the controllers that build pods from what was admitted.
   *Done, with proofs.*
8. Composition of `Scheduler` with `SearchController`: does a Search complete before
   a Pipeline its crawler asked for? *Open.*
9. Further proofs: the gauge, the completion counter and the rescans, whatever is
   stale; `Scheduler`'s order and loss properties; the Search and the CronSearch
   controller. *Done: every invariant and every action property of a passing run is
   stated by a theorem.*

Modules that are proved about declare their parameters as CONSTANTS with named
assumptions, have one action per operation and use no `RECURSIVE` operator.

## Models

### `PipelineController`

One Pipeline and its scan pod: different Pipelines touch disjoint objects, and
controller-runtime never runs two reconciles of one object at a time.

| Variable | Stands for |
|---|---|
| `pl`, `pod` | the objects in the API server |
| `plCache`, `podCache` | the informer caches that `r.Get` reads |
| `due` | this Pipeline's entry in the work queue: ready since, or ready at (`RequeueAfter`) |
| `rec` | the reconcile in progress: the API call that comes next, the snapshot it read, the status it is about to write |
| `running`, `podsCreated`, `completedTotal` | this Pipeline's share of the metrics |
| `now`, `faults`, `restarts`, `losses` | the clock and the used-up part of each bound |
| `behind`, `amiss` | history: whether the last reconcile began on a cache that did not show the finalizer or the completion that was there; what went wrong with the patches of the finalizer |

A reconcile is cut at its API writes. `ReconcileNotFound`, `...Deleted`,
`...Expired`, `...Finished` and `...Unfinished` are the ways from the cached read
to the first write; `RemoveFinalizerOnDeletion`, `DeletePipeline`,
`RemoveFinalizerOnCompletion`, `CreateOrUpdatePod`, `AddFinalizer` and
`PatchStatus` are the writes, each with what follows it up to the return. A write
works on the server's current object: a merge patch carries only the fields that
differ from the snapshot (`MergePatch`). It can be refused (`CallFails`), or take
effect with its reply lost (`ReplyLost`); both return an error and requeue.
`SyncPipeline` and `SyncPod` are the watches (a cache may jump over intermediate
states, and `PodStateChanged` filters as the predicate does), `Restart` is a new
controller process. Time, the user, the kubelet, node loss, pod deletion and
garbage collection are the environment.

Abstracted: the contents of the pod spec (only the number of scanners and
uploaders matters to the control), the rate limiter's back-off (a failed request
is ready at once), labels, messages and durations. Init has an empty status: the
defaulting webhook assigns one, but on the main resource, where the API server
drops it because status is a subresource.

The two history variables name what the code does not protect against. A reconcile
that is `behind` judges the completion, or the finalizer, on an object that is out of
date. If it then patches the finalizer, the gauge moves a second time and `amiss` has
`"stale"`; a finalizer patch whose reply is lost adds `"lost"`, since the retry finds
its work done and leaves the metrics alone; a new process starts from zeroed metrics
and adds `"restart"`. `NeverRerun`, `GaugeExact` and `CompletionCountedOnce` except
exactly these cases, and hold through every other stale read, failed call and lost pod.

`StaleReads = FALSE` is the idealisation in which a reconcile starts and reads the
pod only when the cache is current. Only the two violations use it, to show that
stale reads have no part in them.

### `PipelineLifecycle`

What users can rely on: created, started, tracked by the metrics finalizer,
completed with one outcome, released; each at most once, in this order; a tracked
Pipeline that is deleted stays until released. `PipelineController` maps to it by
`LifeStage`, `LifeDeleting` and `LifeOutcome`, read off the API server's object.

### `Sidecar`

All containers of a scan pod, for any sets of scanners and uploaders. `wrapper[c]`
is where `HookCommand` is (`prestart`, `wait`, `poststop`), `child[c]` the user
command, `marks` the files in the process directory, which is there if `dir` is
`"ok"`. A SIGTERM takes two ways, for `CancelContextSigterm` and `HookCommand` both
call `signal.Notify`: `term[c]` is its way into the context, on which `cmd.Cancel`
signals the command, and `sigCh[c]` its way through the channel of `HookCommand`
(`subprocess.go:51`), from which a goroutine forwards it. `told[c]` is history: who
signalled the command before `cmd.Wait` returned. `InitCommand` and `Download` are the init containers. `SeesMark`,
`NoMarkYet` and `StatFails` are one poll of one goroutine of `AwaitScans`;
`StartCommand`, `WaitCommand` and `PostStop` are the rest of `HookCommand`;
`CancelContext` and `WaitDelay` belong to the context, `ForwardSignal` is the
goroutine of `HookCommand`. A failed `chmod` or `MkdirAll` of `InitCommand` is logged
only; the wrappers then cannot be executed, or cannot leave marks. The kubelet starts
containers in the order of the pod spec, except that a container whose image
cannot be pulled is passed over (a fault). Signals other than SIGTERM, which the
kubelet does not send, would be forwarded in the same way; they can only make the
command end, which it may at any time (`CommandExits`).

The two ways are not ordered. A command stopped by the forwarded SIGTERM that exits
with 0 and is reaped before the context is cancelled gives exit code 0, like one that
ended by itself; `SuccessIsComplete` names this case, and shows that a command which
`cmd.Cancel` has stopped never passes for a success.

### `Scheduler`

One FIFO with its decoder and creating goroutine; the second FIFO runs the same
code on its own channel. `pipe` is the kernel's buffer, `buf` the JSON decoder's.
`OpenFIFOReader`, `Fill`, `DecodeDocument`, `DecodeError`, `CloseReader` and
`CheckContext` are `fifoDecoder`; `Receive`, `Create`, `SleepInterval` and
`ChannelClosed` the goroutine; `PostStop` and `Exit` the hook. The kernel's rules
are external: a writer blocks in `open` until there is a reader and in `write`
while the FIFO is full, a reader gets the end of the file when the FIFO is empty
and no writer is left, and a FIFO nobody has open keeps nothing. (The reader opens
with `O_NONBLOCK`, so it never waits for a writer: an idle FIFO is an end of file
each second.)

### `SearchController`

One Search, the three objects it creates, and the children its crawler asks for.
`search`, `res` and `kids` are the server's, `searchCache`, `resCache` and
`kidsCache` the caches'; `due` and `rec` are as in `PipelineController`. A child is
open until it has a completion time or is deleted, which is all
`retrieveRunningScheduledResources` looks at. A pod carries its uid: when one is lost
and another created, the watch tells the two apart even where their phases agree, and
`RestIsSettled` depends on it. `Reconcile` reads the Search and
chooses the first call; `NameServiceAccount`, `CreateServiceAccount`,
`CreateRoleBinding`, `CreatePod`, `MarkStarted`, `ListChildren`, `Judge`,
`MarkCompleted`, `RequeueForTTL` and `DeleteSearch` are the calls, in the order of
the code. Three differences from the Pipeline controller matter:

* A status update replaces the status and carries the resource version, so one
  from a stale object is refused (`Accepted`). This is what `RecordIsFinal` rests on.
* Children are not watched. While one is open the reconcile comes back every 10
  seconds (`Requeue`), and only that leads to the completion (`CompletionFollows`).
* `AlreadyExists` for the role binding and the pod ends the reconcile without an
  error; the watch event of the object that was there brings it back.

Two history variables name what the code does not protect against. `blind` is set
when the list of children comes from a cache that has not yet seen an open child,
or when a pod that was lost is created again by a reconcile that does not yet know
the Search is completed; in both cases a completed Search may have an open child
(the test `search_controller_test.go:341`, "Should only mark complete if child
resources are also complete", has fresh reads). `slipped` is set when the TTL runs
out between the two readings of the clock in `handlePostCompletion` (lines 512 and
523): the `RequeueAfter` is then not positive, which controller-runtime takes for
none. `handlePostCompletion` of the Pipeline controller reads the clock once and
has no such gap.

A service account that the user names is assumed to exist, as the documentation of
the field says. The garbage collector is left out: nothing that is stated about a
Search depends on it.

### `CronSearchController`

One CronSearch and its Searches, indexed by the start they were created for, which
is what their name is made of. `cs` and `kids` are the server's, `csCache` and
`kidsCache` the caches'. `ReconcileFound` reads both, `UpdateStatus` writes the last
schedule time and the active Searches, `PruneHistory` deletes one finished Search
beyond a limit, `GiveUp` and `GetNextSchedule` read the clock, `SleepUntilNext` and
`RunMissed` read it again and decide, `ReplaceActive` deletes one active Search, and
`CreateSearch` creates the new one. `MissedStarts`, `EarliestTime` and `TooMany` are
`getNextSchedule` as sets instead of a loop; the schedule is every `Period` units.
`blind` is set when a list overlooks a Search that exists, `slipped` when the next
start comes between the two readings of the clock (lines 148 and 154), `gaveUp` when
a reconcile ends because too many starts were missed. A Search is
assumed to take longer than the unit of the clock.

What a reader of the code may not expect, and the model shows:

* The last schedule time is not remembered but read off the Searches that still
  exist. With a history limit of 0 (`cron_rerun`), or after someone deletes the last
  Search by hand, the same start is found missed and is run again. With limits above
  0 the Search that carries it is kept, as long as Searches start in the order of
  their schedule (`RunOnce`); under `Allow` two may not.
* After more than 100 missed starts the reconcile returns neither error nor
  requeue. With a starting deadline the condition passes by itself, as the old starts
  leave the window, yet nothing wakes the controller up (`gaveUp` in
  `RestIsScheduled`).
* A `startingDeadlineSeconds` of 0 leaves the open interval (now, now], and so
  nothing is ever run.
* Under `Allow` the status update fails once more than 10 Searches are active (the
  limit of the list in the CRD), which stops scheduling until one finishes; so
  there are 11 at most (`PolicyKept`).

### `Invocation` and `ScanPod`

Operators without state. A cluster, or a cache of it, is a function from keys
`<<kind, name>>` to specs, so that the same operators serve the webhooks and the
controllers. `Invocation` has the API types, `*InvocationFromReference`,
`ParseParameters`, `FilterConditionalContainers` and the functions of
`internal/validators`. Lists that the API keeps unique by name are functions or sets,
and an error list is a Boolean. `ScanPod` has the container options in the order in
which `populateScanPod` and `populateSearchPod` apply them. A prefixed name is a pair,
and a container keeps its name, its entry point, the parameters in its environment, the
name it is told and the names it waits for; mounts, images, labels, arguments and the
fixed environment variables are left out. The prefix comes on before the names are
collected for the uploaders, and each container is told its name last: this order is
what `AwaitedAreMarked` is about. It links the two models of the scan pod: `Sidecar`
assumes that uploaders wait for its `Scanners`, and `ScanPod` shows that the pod spec
says so.

### `Admission`

All ten kinds and service accounts, in one namespace next to the cluster-scoped kinds.

| Variable | Stands for |
|---|---|
| `store` | the objects in the API server |
| `cache` | the informer caches that `mgr.GetClient()` reads, in webhooks and controllers |
| `inFlight` | requests that a webhook has admitted and the API server has not stored yet |
| `pods` | the pods the controllers built |
| `raced` | history: pairs of objects whose writes overlapped |
| `requests` | the used-up part of `MaxRequests` |

A write goes through three steps: `ReviewCreate`, `ReviewUpdate` or `ReviewDelete`
(default, then validate against the cache), `Commit` or `Conflict` (the API server
stores it if the object is still the one it was made for), and `Observe` (the cache
learns of it). A request that is refused changes nothing and is no step. Updates
include those of the controllers: the patches that add or remove the metrics finalizer
of a Pipeline and that name a Search's service account go through the same webhooks,
and a Pipeline with a finalizer is only marked when it is deleted. `StartPipeline` and
`StartSearch` are the reconciles that resolve the references and build a pod; the rest
of their controllers is in the other modules. The validators have the names of the
source's types; those of crawlers, downloaders and uploaders share `DefinitionVerdict`,
and the cluster-scoped ones are copies that match another kind.

A key is *busy* from the review of a write until the cache shows its result. Two
reviews overlap if one starts while the other's key is busy, and `raced` remembers the
pair. It is the exact price of validating against a cache: nothing locks the objects a
review looks at, so a Search and the deletion of its Crawler can both be admitted.
`RefsResolve`, `DeletedUnreferenced` and `UpdateKeepsDependants` except such pairs and
nothing else but the gaps they name. The three speak of what a reference resolves to
when the pod is built (`Uses`), not of what the webhooks' own `refMatches` finds
(`Dependants`). The two differ in one case, `Unseen`: an uploader reference of a Profile
without a kind. The candidates of the run include such a Profile.

What a reader of the code may not expect, and the model shows:

* The lookups of dependent Searches, CronSearches and Pipelines end at the first match
  (`crawler_webhook.go:170`). That is enough for deletions. For updates it is not: the
  other dependants may not set the newly required parameter
  (`admission_first_dependant`). The lookup of Profiles has its `break` in an inner
  loop and finds all.
* A parameter that becomes required after it was optional is not new by its name
  (`common.go:25`), so nobody's settings are looked at. `GetNewRequiredParameters` of
  `internal/validators` has the other meaning and no caller; the properties use it.
* The crawler of a CronSearch is never looked up, so a CronSearch may name one that
  does not exist, and each of its Searches is then refused.
* The Profile's defaulter does not run: its webhook is registered for the resource
  `profile` (`profile_webhook.go:42`, `config/webhook/manifests.yaml`), and the API
  server knows `profiles`. An uploader reference without a kind resolves, because
  `UploaderInvocationFromReference` defaults it itself, but `refMatches` does not find
  it, and the Uploader can be deleted or changed under the Profile without any race,
  against `uploader_webhook.go:43-47`.
* The update that removes a Pipeline's finalizer is validated in full
  (`pipeline_webhook.go:89`). `RefsResolve` says that its Profile and its downloader are
  still there, but the service account may be gone, and an edit of the Profile that
  leaves no scanner or takes a volume name of the downloader's is not refused; the
  deletion then hangs.
* Two references of a Profile to the same Uploader give two containers of one name, and
  volumes of uploaders are not compared with the downloader's: both are found only when
  the API server refuses the pod. In the model the references of a Profile are a set.
* Names: the message for Pipelines says 52 characters and the limit is 54; for
  containers the message says 51 and the limit is again 54 (`containers.go:23` uses the
  constant for Pipelines), so that `downloader-` and a name can exceed the 63 a pod
  allows. The scheduler adds 6 characters to the name of its Search, so a Search with
  a name of 49 or more has every Pipeline refused.

## Runs

| Run | Instance | Shows |
|---|---|---|
| `pipeline_metrics` | 1 scanner, max lifetime, stale reads, 1 fault, one pod loss | `GaugeExact`, `CompletionCountedOnce`, `NeverRerun` |
| `pipeline_stale` | 1+1 containers, TTL, stale reads, 1 fault, 1 restart | `TypeOK`, `RestIsSettled`, `OutcomeIsThePods`, `FollowsLifecycle`, `NoEarlyDeletion` |
| `pipeline_liveness` | 1 scanner, TTL, stale reads, 1 fault, fair | `FinishIsRecorded`, `DeletionFinishes`, `TTLIsHonoured` |
| `sidecar_wrapped` | 2 scanners, 1 uploader, SIGTERM on both its ways, 2 faults, fair | `TypeOK`, `UploadsAfterScans`, `SuccessIsComplete`, `WaitEndsUnlessFault`, `StopEnds` |
| `scheduler_drain` | 4 documents of which any one may be malformed, FIFO of 2, SIGTERM, 1 fault, fair | `TypeOK`, `InOrder`, `LossIsExplained`, `CrawlerExitEnds` |
| `search_stale` | 1 child, TTL, stale reads, 1 fault (failed call, lost reply, lost pod, restart or deletion), fair | `TypeOK`, `CompletedAfterChildren`, `RestIsSettled`, `RecordIsFinal`, `NoEarlyDeletion`, `CompletionFollows` |
| `cron_policy` | 2 starts, the three policies, starting deadlines of none, 1 and 3, history limits of 1, stale reads, 1 fault, 1 edit | `TypeOK`, `PolicyKept`, `RunOnce`, `RestIsScheduled` |
| `admission` | 12 objects of all kinds, 3 requests of which 2 in flight, one parameter with and without default, set, set empty, inherited or missing; one conditional scanner | `TypeOK`, `RefsResolve`, `DeletedUnreferenced`, `UpdateKeepsDependants`, `AwaitedAreMarked`, `UploadersSeeScanValues`, `ConditionsAgree` |

The other runs are violations: the code disagrees with a document or a comment.

| Run | The code | What is said |
|---|---|---|
| `pipeline_stages` | a downloader that exits with 0 gives the download stage `Failed`, a failing one `Completed` (`pipeline_controller.go:640`) | `pipeline_types.go:162-165` |
| `pipeline_max_lifetime` | no timer is armed for the maximum lifetime (`:140`) | `pipeline_types.go:74-77` |
| `cron_rerun` | a history limit of 0 deletes the Search the last schedule time is read from, and its start is run again (`cronsearch_controller.go:83`) | `cronsearch_controller.go:280` |
| `admission_first_dependant` | one of two Searches is checked when their Crawler requires a new parameter (`crawler_webhook.go:170`) | `crawler_webhook.go:43-44` |

Seven more disagreements were seen while modelling and have no run of their own:

* A scanner whose wrapper is killed (out of memory, for one) leaves no mark
  (`sidecar/main.go:155`), and the uploaders wait for it for ever, where the header
  says that they "wait until all scanners finish" (`:13-14`). `WaitEndsUnlessFault`
  holds because it excepts faults.
* A document written between the reader's end of file and its close is lost with the
  FIFO's buffer and without an error (`scheduler/main.go:339`), where `CHANGELOG.md:92`
  promises a Pipeline. `LossIsExplained` has it as the set `raced`.
* A pending pod gives phase `Succeeded` (`pipeline_controller.go:292`), which
  `pipeline_types.go:116-117` reserves for a Pipeline whose containers have all
  terminated in success. It masks the swapped download stage: a pending pod's status
  patch that is sent late writes `Succeeded`, and a repair of one line only changes
  which stale patches are harmless. `OutcomeIsThePods` should be checked again with
  any repair.
* A failed pod is recorded under the condition type `Complete` (`:263`), not under
  `PipelineCompletedSuccessful` as `pipeline_types.go:145-148` says.
* Whether the finalizer is there is decided on a cached object and the patch carries
  no resource version, so a reconcile on a lagging cache moves the gauge again
  (`pipeline_controller.go:197`, `:609`), and counts a completion again.
* The gauge is a variable of the process and the finalizer is persistent: after a
  restart the gauge misses the Pipelines tracked before and goes below 0 as they end.
  This and the one before are what `amiss` excepts in `GaugeExact`.
* `ParameterToEnvironmentVariable` is documented as converting to uppercase
  (`pkg/runtime/parameters.go:14`), and does not.

**Bounds.** One or two faults, one restart, two units of time and one or two containers
are the smallest values at which every branch is reached and a stale snapshot can
be overtaken by a newer reconcile, a restart and the TTL. `MaxPods = 2` allows a
second creation, so a rerun would show. `pipeline_metrics` has one scanner, no TTL and a
clock of one unit: the metrics do not depend on the containers, a lifetime of 0 ends
Pipelines at every stage, and the restart, which the properties except, is in
`pipeline_stale`. The four documents of the scheduler exceed
the FIFO's capacity and its decoder's buffer together. One child suffices for the
Search, whose rules say "no child is open"; its clock stops at 3, when pending timers
expire, which leaves time for a completion, a TTL of 1 and a deletion. Two starts and
`MaxMissed = 1`, `MaxActive = 1` (100 and 10 in the code) reach both limits of the
CronSearch; its clock stops one unit after the second start. Three requests are a
definition's change, a dependant's and a third that moves the first dependant out of
the way; two in flight are enough for a race, which is always between two objects.
The objects installed at first spare the requests that would create them. All passing
runs fire every action. For the properties with a theorem the bounds do not matter.

**Deadlock** is checked in `Sidecar` and `Scheduler` (`Finished` is their regular
end) and not in the controllers' runs, where the system ends when the object is gone
or settled and the clock of the instance has stopped, nor in `admission`, which ends
when the requests are used up.

**Fairness.** Pipeline: controller-runtime's workers take ready requests, informers
deliver what happened, time passes, the garbage collector runs. Nothing is assumed
of the kubelet, the user, or faults. Search: the same, without a garbage collector;
nothing is assumed of the children either. Sidecar: the wrappers run and the kubelet
starts containers and delivers signals; a user command may run for ever. Scheduler:
the goroutines run; the crawler may do nothing for ever.

Each property has a mutant of the code (the definitions that end in
`_<something>` next to the one they replace) under which TLC finds it violated.

## Proofs

Assumptions are those named in the modules: natural numbers of containers, TTLs
and bounds, at least one container, scanners and uploaders disjoint, a positive period
and positive requeue times. Where a theorem needs more (no pod lost, history
limits above 0) its statement says so, and a run or a finding shows what
happens otherwise. Each theorem rests on an invariant that TLC checked on the
instances of the runs before it was proved.

`PipelineSafetyProofs`: `TypeCorrect`, one step per action. `CoreCorrect` proves `CoreInv`, on which everything else
rests. Its heart is `Behind(q)`: a cached object or a snapshot `q` tells the truth
about the past, and the server is at most one write of the reconciler ahead of it
(so a snapshot of an untracked Pipeline excludes a completed one on the server).
This holds because a reconcile does one write per snapshot and the writes depend
on each other. The rest of `CoreInv` says under which conditions each call was
reached, in particular that a delete under way is due by the server's completion
time, which is `DeletionIsDue`. `NoLostWakeup` adds `WakeInv`: a reconcile in
progress works on what the caches hold, or its request has been queued again; and
when none is in progress and the cached Pipeline is current, a request is ready or
the Pipeline is quiet. `RestIsSettled` alone is not inductive: it says nothing of
the reconcile that is just about to end.

`PipelineOutcomeProofs`: `OutcomeInv` adds what any status patch still under way
may write: one that completes the Pipeline carries the phase of the pod, because a
terminal pod does not change and the cached pod is an earlier state of the only pod
there is; one that does not complete it is sent only while the Pipeline is not
completed. `OutcomeCorrect` and the refinement `LifecycleImplemented` follow, both
under `MaxPodLosses = 0`. The assumption is needed: a pod that is deleted behind a
controller with a stale cache is created again and may end differently. `OutcomeInv`
also shows a consequence of the swapped download stage: a running pod always gives
the scan stage `Skipped`, and no Pipeline ever shows the phase `Scanning` or
`Uploading`. The last section needs no assumption on reads, pods or restarts. `Fresh`
says that a reconcile that is not `behind` agrees with the server on the finalizer and on
the completion, until its own write; `RerunExcluded` follows. `Tallied` relates the gauge
and the counter to the finalizer and the completion time while `amiss` is empty, and
`Counted` says that with stale reads alone a completion is still counted once at least.
Together they are `MetricsInv`, from which `GaugeCorrect` and `CompletionsCorrect` follow.

`SidecarProofs`: `TypeCorrect`; `HandOverCorrect` from `HandOver` (a mark is only there once its
scanner is over; a scanner an uploader no longer awaits left a mark or could not
be looked up), `SuccessCorrect` from `Honest` (an exit code of 0 is the command's,
and of one that `cmd.Cancel` has not signalled).

`SchedulerProofs`: for any number of documents and any capacity of the FIFO. The
invariant `Drain` follows a document through the stages between the crawler and the
API server (FIFO, decoder's buffer, channel, creator's hand, created). `Staged` says that
each stage is sorted and that all of a later stage was written before all of an earlier
one, which gives `OrderCorrect`, "none twice" included. `Located` says that every
accepted document is at a stage or among the explained losses; `Emptied` and `ShutDown`
say that the stages are empty when the wrapper has exited, because the decoder ends
before the creator and the crawler before both. `LossCorrect` follows. What `Fill` and
`DecodeDocument` do to the sequences is in the lemmas at the beginning.

`SearchControllerProofs`: for any number of children. `Versions` (what was read is the
server's object or an older one, and equal versions are equal objects) makes the
optimistic updates safe: an update that is accepted comes from the current object. That
gives `RecordCorrect`, and `Control` together with it `DeletionCorrect`. `Pods` and
`Children` carry what a reconcile saw over to the present: a pod that was terminal stays
so or is lost, a cached child that is closed is closed, and a reconcile that has read a
terminal pod before it found no open child will not be surprised by one later, since
only a running pod creates children. That is the order hazard at line 366, and
`ChildrenCorrect` follows. `Woken` is the argument that no wake-up is lost: while
nothing is queued, a reconcile works on what the caches hold, so when it ends either a
watch has something to deliver (which queues a request) or the caches show a settled
Search. The swallowed `AlreadyExists` is covered by the same case: the object that was
there is one the cache has yet to see (`Made`).

`CronSearchControllerProofs`: for every period, policy, deadline and limit. `CronInv`
has the same `Versions` and `Control`; `Policy` says of a controller that has overlooked
nothing that its list contains all Searches there are and that what it saw finished is
not active, so that `Forbid` and `Replace` decide on the truth although they read a
cache (`PolicyCorrect`). `Woken` is as above, with the queue's time: at rest either a
watch is outstanding or no start lies between the last schedule time and the request
that is queued (`WakeUpsCorrect`). `RunOnceCorrect` needs history, in `Once`: under
`Forbid` and `Replace` Searches start and finish in the order of the schedule
(`Ordered`); of every start that was ever run there is a trace, a Search of that start
or a later one, or a later start is due (`Traces`); and the pruning spares the last
Search (`Spared`). The pruning looks at start times and the schedule time is read from
names, and `Ordered` is why the two agree. With a history limit of 0 `Spared` fails,
which is the run `cron_rerun`; hence the hypothesis `LimitsAboveZero`. That a non-empty
set of starts has a last one comes from the well-foundedness of the natural numbers,
applied to the distance from the end of the clock.

`AdmissionProofs`: for any sets of names, parameters, values, objects and candidate
specs and any bounds. `RefInv` is the inductive invariant. `RefsResolve` alone says
nothing of requests that are under way and were judged on an old cache; what carries
the argument is `BusyRaced` (two different keys that are busy at the same time are
recorded as raced), `Promised` (the references of an admitted object were resolvable
when it was reviewed, and are so still, or the two raced) and `Unreferenced` (a
deletion that is under way has no dependant in the store, or the two raced). A key that is not busy is the same in store and cache, so a review
saw the truth about it. Deletions need only one dependant to be refused, which is why
the lookup's `break` does no harm there (`DeletionsUnreferenced`). `Ready` says the same
of updates (`UpdatesKeepDependants`), up to the exceptions the property names. Both
theorems speak of resolved references; `Kinded` says that every stored, cached or
admitted reference has a kind unless `Unseen`, because the other defaulters do run, and
for a reference with a kind `refMatches` and `Resolve` agree (`KindedResolve`,
`UseFacts`). The initial objects are assumed to have been defaulted and admitted
(`AdmissionAssumption`).

`ScanPodProofs`: `AwaitedCorrect` and `ConditionsCorrect` follow from how
`populateScanPod` puts a pod together, for any definitions. `UploaderValuesCorrect`
also needs `SoundInv`: every Profile in the store, in the cache or on its way has
passed `ValidateParentParameters`, so an inherited parameter is one the Profile defines.

Model-checked only: the liveness properties `FinishIsRecorded`, `DeletionFinishes`,
`TTLIsHonoured`, `WaitEndsUnlessFault`, `StopEnds`, `CrawlerExitEnds` and
`CompletionFollows`, because liveness under fairness (and `ENABLED`) is outside what the
prover supports; and the four violations, which are counterexamples. Induction over
data is out of its reach as well; no theorem needs it, since the models have sets and
functions where the code has loops.

## What is not shown

The kubelet, the API server, the FIFO and the user commands are modelled from how
this code uses them. Not modelled: an object re-created under the name of an
earlier one (whose pod `CreateOrUpdate` may adopt, `pipeline_controller.go:171`),
leader election, the command-line errors of the binaries and the scheduler's setup; of
pod specs, the mounts, images, arguments, labels and annotations, which nothing in the
operator reads back. Several namespaces are not modelled: the namespaced kinds list
within one, the cluster-scoped kinds across all, and with one namespace the two are the
same. Without a model are the manager's wiring but for the webhooks it registers, the
generated clients and deep copies, the chart tool, and `validators/volumes.go` and
`validators/metadata.go`, which have no caller. Searches and
CronSearches are modelled one at a time; that a Search has a child only because its
scheduler created one, and that a CronSearch's Searches complete as `SearchController`
says, is assumed until the composition under 8 of the plan exists.
