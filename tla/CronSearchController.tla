------------------------ MODULE CronSearchController ------------------------
(***************************************************************************)
(* The CronSearch reconciler of the Ocular operator                        *)
(* (internal/controller/cronsearch_controller.go) for ONE CronSearch.  A   *)
(* child Search is named after the start it was created for, so `kids' is  *)
(* indexed by start.  The CronSearch was created at time 0.                *)
(*                                                                         *)
(* As in PipelineController there are the server's objects, the informer   *)
(* caches a reconcile reads, its entry in the work queue and the reconcile *)
(* in progress, cut at its API calls.  Status writes carry the resource    *)
(* version of the object that was read.                                    *)
(***************************************************************************)
EXTENDS Integers, FiniteSets, FiniteSetsExt

CONSTANTS
  Period,                      \* of the cron schedule
  SuccessfulJobsHistoryLimit,  \* spec field, or Nil
  FailedJobsHistoryLimit,      \* spec field, or Nil
  Specs,                       \* values of concurrencyPolicy and startingDeadlineSeconds
  MaxActive,                   \* MaxItems of the status list: 10 in the CRD
  MaxMissed,                   \* missed starts it will look at: 100 in the code
  StaleReads,                  \* may a cached read lag behind the API server?
  MaxTime,                     \* bound: the clock stops here
  MaxFaults,                   \* bound: failed calls, lost replies and restarts
  MaxEdits                     \* bound: changes of spec field suspend

Nil == -1

ASSUME ScheduleAssumption ==
  /\ Period \in Nat \ {0}
  /\ Specs \subseteq [policy: {"Allow", "Forbid", "Replace"}, deadline: Nat \cup {Nil}]
ASSUME HistoryAssumption ==
  SuccessfulJobsHistoryLimit \in Nat \cup {Nil} /\ FailedJobsHistoryLimit \in Nat \cup {Nil}
ASSUME LimitAssumption == MaxActive \in Nat \ {0} /\ MaxMissed \in Nat
ASSUME CronBoundAssumption ==
  StaleReads \in BOOLEAN /\ MaxTime \in Nat /\ MaxFaults \in Nat /\ MaxEdits \in Nat

VARIABLES
  cs,         \* the CronSearch in the API server
  kids,       \* its Searches in the API server
  csCache, kidsCache,
  due,        \* when the queued request is ready, Nil if none is queued
  rec,        \* the reconcile in progress
  spec,       \* the spec fields that do not change
  now,
  faults, edits,
  begun,      \* starts a Search was ever created for
  rerun,      \* has a start been run a second time?
  blind,      \* has a reconcile overlooked a Search that exists?
  gaveUp,     \* did the last reconcile find too many missed starts?
  slipped     \* did the next start come between two readings of the clock?

objects == <<cs, kids>>
caches  == <<csCache, kidsCache>>
history == <<begun, rerun, blind, gaveUp, slipped>>
vars == <<cs, kids, csCache, kidsCache, due, rec, spec, now, faults, edits,
          begun, rerun, blind, gaveUp, slipped>>

-----------------------------------------------------------------------------
(* The objects. *)

Starts == {t \in 1..MaxTime : t % Period = 0}
Time   == 0..MaxTime

NoSearch  == [state |-> "none", start |-> Nil]
NewSearch == [state |-> "active", start |-> Nil]

\* A Search is finished when it has the condition Complete, whose status says
\* whether it succeeded; startTime is set before that.
Search ==
  {NoSearch, NewSearch} \cup [state: {"active", "ok", "failed"}, start: Time]

CronSearch ==
  [life: {"Live", "None"}, suspend: BOOLEAN, last: Starts \cup {Nil},
   active: SUBSET Starts, ver: Nat]

InState(ks, state) == {t \in Starts : ks[t].state = state}
Existing(ks) == {t \in Starts : ks[t].state # "none"}

\* Mutant: the zero time for a missing one.
LastScheduleTime_Zero(ks) == IF Existing(ks) = {} THEN 0 ELSE Max(Existing(ks))

\* mostRecentTime, by the annotation each Search carries.
LastScheduleTime(ks) == IF Existing(ks) = {} THEN Nil ELSE Max(Existing(ks))

-----------------------------------------------------------------------------
(* getNextSchedule. *)

Next(t) == (t \div Period + 1) * Period

EarliestTime(last) ==
  LET seen == IF last = Nil THEN 0 ELSE last
  IN  IF spec.deadline # Nil /\ now - spec.deadline > seen THEN now - spec.deadline ELSE seen

MissedStarts(last) == {t \in Starts : EarliestTime(last) < t /\ t <= now}

TooMany(last) == Cardinality(MissedStarts(last)) > MaxMissed

\* Only the latest of the missed starts is run; Nil if there is none.
MissedRun(last) == IF MissedStarts(last) = {} THEN Nil ELSE Max(MissedStarts(last))

TooLate(start) == spec.deadline # Nil /\ start + spec.deadline < now

-----------------------------------------------------------------------------
(* The work queue and the control of one reconcile. *)

Earliest(d, t) == IF d = Nil \/ t < d THEN t ELSE d
Ready == due # Nil /\ due <= now

\* pc names what comes next; `todo' are the Searches left to delete, `target'
\* is missedRun and `delay' nextRun, and then the RequeueAfter it gives.
Rec == [pc: {"idle", "status", "prune", "schedule", "decide", "replace", "create"},
        cs: CronSearch, kids: [Starts -> Search], todo: SUBSET Starts,
        target: Starts \cup {Nil}, delay: Int]

NoCronSearch == [life |-> "None", suspend |-> FALSE, last |-> Nil, active |-> {}, ver |-> 0]
NoKids == [t \in Starts |-> NoSearch]
Idle == [pc |-> "idle", cs |-> NoCronSearch, kids |-> NoKids, todo |-> {},
         target |-> Nil, delay |-> 0]

ReturnError == rec' = Idle /\ due' = Earliest(due, now)
Return == rec' = Idle /\ UNCHANGED due

\* A RequeueAfter that is not positive is no requeue.
ScheduledResult(delay) ==
  /\ rec' = Idle
  /\ due' = IF delay > 0 THEN Earliest(due, now + delay) ELSE due
  /\ slipped' = (delay <= 0)

Fault == faults < MaxFaults /\ faults' = faults + 1
Replied == UNCHANGED faults
ReplyLost == Fault /\ ReturnError

Init ==
  /\ cs = [NoCronSearch EXCEPT !.life = "Live"] /\ kids = NoKids
  /\ csCache = NoCronSearch /\ kidsCache = NoKids
  /\ due = Nil /\ rec = Idle /\ spec \in Specs /\ now = 0
  /\ faults = 0 /\ edits = 0
  /\ begun = {} /\ rerun = FALSE /\ blind = FALSE /\ gaveUp = FALSE /\ slipped = FALSE

-----------------------------------------------------------------------------
(* Reconcile. *)

\* The CronSearch and the list of its Searches are read from the caches.
Take ==
  /\ rec.pc = "idle" /\ Ready
  /\ StaleReads \/ (csCache = cs /\ kidsCache = kids)
  /\ due' = Nil /\ gaveUp' = FALSE /\ slipped' = FALSE
  /\ UNCHANGED <<objects, caches, spec, now, faults, edits, begun, rerun>>

ReconcileNotFound == Take /\ csCache.life = "None" /\ rec' = Idle /\ UNCHANGED blind

ReconcileFound ==
  /\ Take /\ csCache.life = "Live"
  /\ rec' = [Idle EXCEPT !.pc = "status", !.cs = csCache, !.kids = kidsCache]
  /\ blind' = (blind \/ ~(Existing(kids) \subseteq Existing(kidsCache)))

\* Mutant: the newest are taken for the oldest.
Oldest_Newest(ks, old, new) == ks[old].start >= ks[new].start

\* In the order of their start times, whatever start they were created for.
Oldest(ks, old, new) == ks[old].start <= ks[new].start

\* The Searches beyond the history limit: the oldest, in either order if two
\* have the same start time.
Excess(ks, state, limit) ==
  LET finished == InState(ks, state)
  IN  IF limit = Nil THEN {{}}
      ELSE {D \in SUBSET finished :
              /\ Cardinality(D) = Max({0, Cardinality(finished) - limit})
              /\ \A d \in D, k \in finished \ D : Oldest(ks, d, k)}

NewStatus == [rec.cs EXCEPT !.last = LastScheduleTime(rec.kids),
                            !.active = InState(rec.kids, "active")]

\* r.Status().Update: refused if the object is not the one that was read, or
\* if the list of active Searches is too long.
StatusAccepted ==
  /\ cs.life = "Live" /\ rec.cs.ver = cs.ver
  /\ Cardinality(NewStatus.active) <= MaxActive

StatusRefused ==
  /\ rec.pc = "status" /\ ~StatusAccepted
  /\ ReturnError
  /\ UNCHANGED <<objects, caches, spec, now, faults, edits, history>>

UpdateStatus ==
  /\ rec.pc = "status" /\ StatusAccepted
  /\ cs' = IF NewStatus = cs THEN cs ELSE [NewStatus EXCEPT !.ver = @ + 1]
  /\ \/ /\ Replied /\ UNCHANGED due
        /\ \E f \in Excess(rec.kids, "failed", FailedJobsHistoryLimit),
              s \in Excess(rec.kids, "ok", SuccessfulJobsHistoryLimit) :
             rec' = [rec EXCEPT !.pc = "prune", !.cs = cs', !.todo = f \cup s]
     \/ ReplyLost
  /\ UNCHANGED <<kids, caches, spec, now, edits, history>>

\* Failed Searches are deleted first, and each kind from the oldest on.
Before(t, u) ==
  \/ rec.kids[t].state = "failed" /\ rec.kids[u].state = "ok"
  \/ rec.kids[t].state = rec.kids[u].state /\ Oldest(rec.kids, t, u)

\* An error is logged, and the next one tried.
PruneHistory ==
  /\ rec.pc = "prune"
  /\ \/ \E t \in rec.todo :
          /\ \A u \in rec.todo : Before(t, u)
          /\ rec' = [rec EXCEPT !.todo = @ \ {t}]
          /\ (kids' = [kids EXCEPT ![t] = NoSearch] /\ Replied) \/ (UNCHANGED kids /\ Fault)
     \/ rec.todo = {} /\ rec' = [rec EXCEPT !.pc = "schedule"] /\ UNCHANGED <<kids, faults>>
  /\ UNCHANGED <<cs, caches, due, spec, now, edits, history>>

\* Scheduling goes by the object that the status update returned.
Suspended == rec.cs.suspend

\* Suspended, or too many missed starts: the reconcile ends without a requeue.
GiveUp ==
  /\ rec.pc = "schedule" /\ (Suspended \/ TooMany(rec.cs.last))
  /\ Return /\ gaveUp' = ~Suspended
  /\ UNCHANGED <<objects, caches, spec, now, faults, edits, begun, rerun, blind, slipped>>

GetNextSchedule ==
  /\ rec.pc = "schedule" /\ ~Suspended /\ ~TooMany(rec.cs.last)
  /\ rec' = [rec EXCEPT !.pc = "decide", !.target = MissedRun(rec.cs.last), !.delay = Next(now)]
  /\ UNCHANGED <<objects, caches, due, spec, now, faults, edits, history>>

\* Mutant: Forbid is not looked at.
Blocked_Never(active) == FALSE

Blocked(active) == spec.policy = "Forbid" /\ active # {}

NothingToRun ==
  rec.target = Nil \/ TooLate(rec.target) \/ Blocked(InState(rec.kids, "active"))

\* The clock is read again for RequeueAfter.
Delay == rec.delay - now

\* Mutant: no RequeueAfter.
SleepUntilNext_Never ==
  /\ rec.pc = "decide" /\ NothingToRun
  /\ Return
  /\ UNCHANGED <<objects, caches, spec, now, faults, edits, history>>

SleepUntilNext ==
  /\ rec.pc = "decide" /\ NothingToRun
  /\ ScheduledResult(Delay)
  /\ UNCHANGED <<objects, caches, spec, now, faults, edits, begun, rerun, blind, gaveUp>>

RunMissed ==
  /\ rec.pc = "decide" /\ ~NothingToRun
  /\ rec' = [rec EXCEPT !.pc = "replace", !.delay = Delay,
                        !.todo = IF spec.policy = "Replace" THEN InState(rec.kids, "active") ELSE {}]
  /\ UNCHANGED <<objects, caches, due, spec, now, faults, edits, history>>

\* A Search that is gone already is as good as deleted; any other error ends
\* the reconcile.
ReplaceActive ==
  /\ rec.pc = "replace"
  /\ \/ \E t \in rec.todo :
          \/ /\ kids' = [kids EXCEPT ![t] = NoSearch]
             /\ \/ rec' = [rec EXCEPT !.todo = @ \ {t}] /\ Replied /\ UNCHANGED due
                \/ ReplyLost
          \/ UNCHANGED kids /\ Fault /\ ReturnError
     \/ /\ rec.todo = {} /\ rec' = [rec EXCEPT !.pc = "create"]
        /\ UNCHANGED <<kids, due, faults>>
  /\ UNCHANGED <<cs, caches, spec, now, edits, history>>

CreateSearch ==
  /\ rec.pc = "create" /\ kids[rec.target].state = "none"
  /\ kids' = [kids EXCEPT ![rec.target] = NewSearch]
  /\ begun' = begun \cup {rec.target} /\ rerun' = (rerun \/ rec.target \in begun)
  /\ (Replied /\ ScheduledResult(rec.delay)) \/ (ReplyLost /\ UNCHANGED slipped)
  /\ UNCHANGED <<cs, caches, spec, now, edits, blind, gaveUp>>

\* The name is taken, or the call fails.
CreateRefused ==
  /\ rec.pc = "create"
  /\ (kids[rec.target].state # "none" /\ UNCHANGED faults) \/ Fault
  /\ ReturnError
  /\ UNCHANGED <<objects, caches, spec, now, edits, history>>

Controller ==
  \/ ReconcileNotFound \/ ReconcileFound \/ StatusRefused \/ UpdateStatus
  \/ PruneHistory \/ GiveUp \/ GetNextSchedule \/ SleepUntilNext \/ RunMissed \/ ReplaceActive
  \/ CreateSearch \/ CreateRefused

-----------------------------------------------------------------------------
(* Watches, and a new controller process. *)

SyncCronSearch ==
  /\ csCache # cs /\ csCache' = cs /\ due' = Earliest(due, now)
  /\ UNCHANGED <<objects, kidsCache, rec, spec, now, faults, edits, history>>

\* Every event of a Search is one of its owner.
SyncSearches ==
  /\ kidsCache # kids /\ kidsCache' = kids /\ due' = Earliest(due, now)
  /\ UNCHANGED <<objects, csCache, rec, spec, now, faults, edits, history>>

Restart ==
  /\ Fault /\ rec' = Idle /\ csCache' = cs /\ kidsCache' = kids
  /\ due' = IF cs.life = "None" THEN Nil ELSE now
  /\ UNCHANGED <<objects, spec, now, edits, history>>

-----------------------------------------------------------------------------
(* The environment: clock, user, Search controller, garbage collector. *)

Tick ==
  /\ now < MaxTime /\ now' = now + 1
  /\ UNCHANGED <<objects, caches, due, rec, spec, faults, edits, history>>

Suspend ==
  /\ cs.life = "Live" /\ edits < MaxEdits /\ edits' = edits + 1
  /\ cs' = [cs EXCEPT !.suspend = ~@, !.ver = @ + 1]
  /\ UNCHANGED <<kids, caches, due, rec, spec, now, faults, history>>

UserDeletes ==
  /\ cs.life = "Live" /\ cs' = NoCronSearch
  /\ UNCHANGED <<kids, caches, due, rec, spec, now, faults, edits, history>>

\* A Search takes longer than the clock's unit, in which start times are kept.
SearchStep ==
  /\ \E t \in InState(kids, "active") :
       \/ kids[t].start = Nil /\ kids' = [kids EXCEPT ![t].start = now]
       \/ /\ kids[t].start # Nil /\ kids[t].start < now
          /\ \E s \in {"ok", "failed"} : kids' = [kids EXCEPT ![t].state = s]
  /\ UNCHANGED <<cs, caches, due, rec, spec, now, faults, edits, history>>

GarbageCollect ==
  /\ cs.life = "None" /\ \E t \in Existing(kids) : kids' = [kids EXCEPT ![t] = NoSearch]
  /\ UNCHANGED <<cs, caches, due, rec, spec, now, faults, edits, history>>

Environment == Tick \/ Suspend \/ UserDeletes \/ SearchStep \/ GarbageCollect

Step == Controller \/ SyncCronSearch \/ SyncSearches \/ Restart \/ Environment

Spec == Init /\ [][Step]_vars

-----------------------------------------------------------------------------
(* Properties. *)

\* Every variable keeps its type: the status has a start of the schedule or
\* none as its last schedule time, and the reconcile's target is a start.
TypeOK ==
  /\ cs \in CronSearch /\ csCache \in CronSearch /\ rec \in Rec
  /\ kids \in [Starts -> Search] /\ kidsCache \in [Starts -> Search]
  /\ due \in Nat \cup {Nil} /\ spec \in Specs /\ now \in Time
  /\ faults \in 0..MaxFaults /\ edits \in 0..MaxEdits
  /\ begun \subseteq Starts /\ {rerun, blind, gaveUp, slipped} \subseteq BOOLEAN

\* Forbid and Replace keep to one running Search, across errors and restarts,
\* unless a reconcile has overlooked one; Allow to one more than fit into the
\* status, whose update then fails and stops the scheduling.
PolicyKept ==
  cs.life = "Live" /\ ~blind =>
    Cardinality(InState(kids, "active")) <= (IF spec.policy = "Allow" THEN MaxActive + 1 ELSE 1)

\* With history limits above 0, and Searches that start in the order of their
\* schedule, as Forbid and Replace see to, no start is run a second time: the
\* Search the last schedule time is read from is never among those deleted.
RunOnce == spec.policy # "Allow" /\ ~blind => ~rerun

AtRest ==
  /\ rec.pc = "idle" /\ ~Ready
  /\ csCache = cs /\ kidsCache = kids

\* No wake-up is lost: a live CronSearch at rest has an up-to-date status, and
\* has no start left to run, unless it is suspended, its last reconcile gave up
\* for too many missed starts (nothing brings it back when the deadline has
\* made them few again), Forbid blocks it, or the start came while the last
\* reconcile was deciding how long to sleep.
RestIsScheduled ==
  AtRest /\ cs.life = "Live" =>
    /\ cs.last = LastScheduleTime(kids) /\ cs.active = InState(kids, "active")
    /\ \/ cs.suspend \/ gaveUp \/ MissedStarts(cs.last) = {}
       \/ Blocked(cs.active) \/ slipped

\* The comment in constructSearchForCronSearch: the deterministic name avoids
\* "the same search being created twice".
NeverTwice == ~rerun

=============================================================================
