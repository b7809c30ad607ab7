--------------------- MODULE CronSearchControllerProofs ---------------------
(* The CronSearch controller, for every schedule, policy, starting deadline *)
(* and limit, stale or fresh reads and any number of faults and restarts.   *)
EXTENDS CronSearchController, FiniteSetTheorems, WellFoundedInduction, TLAPS

Active(ks) == InState(ks, "active")
Finished(s) == s.state \in {"ok", "failed"}

-----------------------------------------------------------------------------
(* The inductive invariant. *)

\* What an object that was read says of the one in the API server: it is that
\* very object or an older one.
Older(o) ==
  o.life = "Live" /\ cs.life = "Live" => o.ver <= cs.ver /\ (o.ver = cs.ver => o = cs)

Versions == Older(csCache) /\ (rec.pc # "idle" => rec.cs.life = "Live" /\ Older(rec.cs))

Scheduling == rec.pc \in {"prune", "schedule", "decide", "replace", "create"}
Targeting == rec.pc \in {"decide", "replace", "create"} /\ rec.target # Nil
Running == rec.pc \in {"replace", "create"}

\* What a reconcile has found out by the time it makes its next call.
Control ==
  /\ Scheduling =>
       /\ rec.cs.last = LastScheduleTime(rec.kids)
       /\ rec.cs.active = Active(rec.kids) /\ Cardinality(Active(rec.kids)) <= MaxActive
  /\ Targeting => rec.target <= now /\ \A t \in Existing(rec.kids) : t < rec.target
  /\ Running => rec.target # Nil /\ ~Blocked(Active(rec.kids))

\* What the caches and the reconcile know of the Searches.  Only a reconcile
\* creates one, so that one which has read them all knows them all to its end.
\* A Search that was seen finished is not active, and the name of one that was
\* seen is not used again.
Seen ==
  /\ \A t \in Starts : Finished(kidsCache[t]) => kids[t].state # "active"
  /\ rec.pc # "idle" =>
       /\ Existing(kids) \subseteq Existing(rec.kids)
       /\ Existing(kidsCache) \subseteq Existing(rec.kids)
       /\ \A t \in Starts : Finished(rec.kids[t]) => kids[t].state # "active"

\* What Replace has still to delete.
Replaced ==
  spec.policy = "Replace" =>
    /\ rec.pc = "replace" => Active(kids) \subseteq rec.todo
    /\ rec.pc = "create" => Active(kids) = {}

Most == IF spec.policy = "Allow" THEN MaxActive + 1 ELSE 1

Policy == ~blind => Seen /\ Replaced /\ Cardinality(Active(kids)) <= Most

\* Without Allow the Searches start and finish in the order of the schedule.
Ordered(ks, time) ==
  /\ \A k, m \in Existing(ks) :
       k < m => Finished(ks[k]) /\ (ks[m].start # Nil => ks[k].start < ks[m].start)
  /\ \A k \in Existing(ks) : Finished(ks[k]) => ks[k].start < time

Recorded(ks) == Existing(ks) \subseteq begun /\ Ordered(ks, now)

Lists ==
  Recorded(kids) /\ Recorded(kidsCache) /\ (rec.pc # "idle" => Recorded(rec.kids))

\* The latest start missed since these Searches were created is later than b.
Covered(b, ks, time) ==
  (\E e \in Existing(ks) : b <= e) \/ (\E s \in Starts : b < s /\ s <= time)

\* Of a start that was ever run there is a trace, a Search or a later start.
Traces ==
  /\ cs.life = "Live" => \A b \in begun : Covered(b, kids, now)
  /\ (rec.pc = "status" /\ cs.life = "Live") \/ rec.pc \in {"prune", "schedule"} =>
       \A b \in begun : Covered(b, rec.kids, now)

\* The last one is not pruned, and none is the target.
Spared ==
  /\ rec.pc = "prune" => \A t \in rec.todo : \E b \in begun : t < b
  /\ Targeting => \A b \in begun : b < rec.target

History == Lists /\ Traces /\ Spared /\ ~rerun

Once == spec.policy # "Allow" /\ ~blind => History

\* A watch has yet to deliver something, whatever happens next.
Outstanding ==
  \/ csCache.life = "None" \/ csCache.ver < cs.ver
  \/ ~(Existing(kids) \subseteq Existing(kidsCache))

\* The caches leave nothing to do before the request that is queued.
SettledCache ==
  /\ csCache.last = LastScheduleTime(kidsCache) /\ csCache.active = Active(kidsCache)
  /\ \/ csCache.suspend \/ gaveUp \/ slipped \/ Blocked(csCache.active)
     \/ due # Nil /\ \A t \in Starts : t <= EarliestTime(csCache.last) \/ t >= due

\* While nothing is queued a reconcile works on what is in the caches.
InStep ==
  rec.pc # "idle" =>
    \/ due # Nil /\ due <= now
    \/ /\ due = Nil /\ kidsCache = rec.kids
       /\ rec.pc = "status" => rec.cs = csCache
       /\ cs.life = "None" \/ rec.cs = csCache \/ csCache.ver < cs.ver

\* The start it may sleep until is the first after the missed ones.
Ahead ==
  rec.pc = "decide" =>
    \A t \in Starts : \/ t <= EarliestTime(rec.cs.last) \/ t >= rec.delay
                      \/ rec.target # Nil /\ t <= rec.target

\* Once it is over something is outstanding or nothing is left to do.
Resting == rec.pc = "idle" /\ ~Ready /\ cs.life = "Live" => Outstanding \/ SettledCache

Woken == InStep /\ Ahead /\ Resting

CronInv == Versions /\ Control /\ Policy /\ Woken

-----------------------------------------------------------------------------
(* The schedule. *)

USE ScheduleAssumption, HistoryAssumption, LimitAssumption, CronBoundAssumption

\* There are finitely many starts, and all of them are times after 0.
LEMMA StartsFacts ==
  /\ Starts \subseteq 1..MaxTime /\ IsFiniteSet(Starts)
  /\ Nil \notin Starts /\ \A t \in Starts : t \in Nat /\ t > 0 /\ t <= MaxTime
<1>1. Starts \subseteq 1..MaxTime
  BY DEF Starts
<1>2. IsFiniteSet(1..MaxTime)
  BY FS_Interval
<1>3. IsFiniteSet(Starts)
  BY <1>1, <1>2, FS_Subset
<1> QED BY <1>1, <1>3 DEF Nil

\* Any starts have a latest one.
LEMMA MaxFacts ==
  ASSUME NEW S \in SUBSET Starts, S # {}
  PROVE  Max(S) \in S /\ \A t \in S : t <= Max(S)
<1> DEFINE T == {MaxTime - t : t \in S}
<1>1. \A t \in S : t \in Nat /\ t <= MaxTime
  BY StartsFacts
<1>2. T \subseteq Nat /\ T # {}
  BY <1>1
<1>3. PICK x \in T : \A y \in T : ~(<<y, x>> \in OpToRel(<, Nat))
  <2> HIDE DEF T
  <2> QED BY <1>2, WFMin, NatLessThanWellFounded
<1>4. \A y \in T : ~(y < x)
  BY <1>2, <1>3 DEF OpToRel
<1>5. PICK m \in S : x = MaxTime - m
  OBVIOUS
<1>6. \A t \in S : m >= t
  BY <1>1, <1>4, <1>5
<1>7. \E z \in S : \A t \in S : z >= t
  BY <1>6
<1>8. Max(S) \in S /\ \A t \in S : Max(S) >= t
  BY <1>7 DEF Max
<1> QED BY <1>1, <1>8

\* No start lies strictly between a time and what Next makes of it.
LEMMA NextFacts ==
  ASSUME NEW n \in Nat
  PROVE  Next(n) \in Nat /\ \A t \in Starts : t > n => t >= Next(n)
<1> DEFINE q == n \div Period
<1>1. q \in Nat /\ Period \in Nat /\ Period > 0
  BY Z3
<1>2. n < (q + 1) * Period
  BY Z3
<1>3. Next(n) \in Nat
  BY <1>1 DEF Next
<1>4. ASSUME NEW t \in Starts, t > n PROVE t >= Next(n)
  <2> DEFINE p == t \div Period
  <2>1. t \in Nat /\ t % Period = 0
    BY StartsFacts DEF Starts
  <2>2. p \in Nat /\ t = p * Period
    BY <2>1, Z3
  <2>3. n >= q * Period
    BY Z3
  <2> HIDE DEF p, q
  <2>4. p >= q + 1
    BY <1>1, <1>4, <2>1, <2>2, <2>3, Z3
  <2>5. p * Period >= (q + 1) * Period
    BY <1>1, <2>2, <2>4, Z3
  <2> QED BY <2>2, <2>5 DEF Next, q
<1> QED BY <1>3, <1>4

-----------------------------------------------------------------------------
(* Types. *)

\* The constant objects have their types.
LEMMA ObjectTypes ==
  /\ NoCronSearch \in CronSearch /\ NoSearch \in Search /\ NewSearch \in Search
  /\ NoKids \in [Starts -> Search] /\ Idle \in Rec
<1>1. NoCronSearch \in CronSearch
  BY DEF NoCronSearch, CronSearch
<1>2. NoSearch \in Search /\ NewSearch \in Search
  BY DEF Search
<1>3. NoKids \in [Starts -> Search]
  BY <1>2 DEF NoKids
<1>4. Idle \in Rec
  BY <1>1, <1>3 DEF Idle, Rec
<1> QED BY <1>1, <1>2, <1>3, <1>4

\* The fields of a CronSearch.
LEMMA CronFields ==
  ASSUME NEW o \in CronSearch
  PROVE  /\ o.ver \in Nat /\ o.life \in {"Live", "None"} /\ o.suspend \in BOOLEAN
         /\ o.last \in Starts \cup {Nil} /\ o.active \in SUBSET Starts
  BY DEF CronSearch

\* The fields of a Search: one that is finished has started.
LEMMA SearchFields ==
  ASSUME NEW s \in Search
  PROVE  /\ s.state \in {"none", "active", "ok", "failed"} /\ s.start \in Time \cup {Nil}
         /\ s.start \in Int
         /\ Finished(s) => s.start \in Nat
         /\ s.state # "active" /\ s.state # "none" => Finished(s)
<1>1. CASE s \in {NoSearch, NewSearch}
  BY <1>1 DEF NoSearch, NewSearch, Nil, Finished
<1>2. CASE s \in [state: {"active", "ok", "failed"}, start: Time]
  BY <1>2 DEF Time, Finished
<1> QED BY <1>1, <1>2 DEF Search

\* The fields of a reconcile.
LEMMA RecFields ==
  ASSUME NEW r \in Rec
  PROVE  /\ r.cs \in CronSearch /\ r.kids \in [Starts -> Search] /\ r.todo \in SUBSET Starts
         /\ r.target \in Starts \cup {Nil} /\ r.delay \in Int
  BY DEF Rec

\* Lists of Searches name starts of the schedule.
LEMMA ListTypes ==
  ASSUME NEW ks \in [Starts -> Search]
  PROVE  /\ Existing(ks) \in SUBSET Starts /\ Active(ks) \in SUBSET Existing(ks)
         /\ LastScheduleTime(ks) \in Starts \cup {Nil}
         /\ \A st : InState(ks, st) \in SUBSET Starts
<1>1. Existing(ks) \in SUBSET Starts /\ Active(ks) \in SUBSET Existing(ks)
  BY DEF Existing, Active, InState
<1>2. LastScheduleTime(ks) \in Starts \cup {Nil}
  BY <1>1, MaxFacts DEF LastScheduleTime
<1>3. \A st : InState(ks, st) \in SUBSET Starts
  BY DEF InState
<1> QED BY <1>1, <1>2, <1>3

\* So does what is deleted beyond a history limit.
LEMMA ExcessType ==
  ASSUME NEW ks, NEW st, NEW limit, NEW D \in Excess(ks, st, limit)
  PROVE  D \in SUBSET InState(ks, st)
  BY DEF Excess

\* The latest missed start is a start that has come.
LEMMA MissedTypes ==
  ASSUME NEW last
  PROVE  /\ MissedStarts(last) \in SUBSET Starts /\ MissedRun(last) \in Starts \cup {Nil}
         /\ MissedRun(last) # Nil =>
              /\ MissedRun(last) \in MissedStarts(last)
              /\ \A t \in MissedStarts(last) : t <= MissedRun(last)
         /\ MissedRun(last) = Nil => MissedStarts(last) = {}
<1>1. MissedStarts(last) \in SUBSET Starts
  BY DEF MissedStarts
<1>2. CASE MissedStarts(last) = {}
  BY <1>1, <1>2 DEF MissedRun
<1>3. CASE MissedStarts(last) # {}
  BY <1>1, <1>3, MaxFacts, StartsFacts DEF MissedRun
<1> QED BY <1>1, <1>2, <1>3

\* A due time is a time, and no later than the one that was queued.
LEMMA EarliestFacts ==
  ASSUME NEW d \in Nat \cup {Nil}, NEW t \in Nat
  PROVE  /\ Earliest(d, t) \in Nat /\ Earliest(d, t) <= t
         /\ d # Nil => Earliest(d, t) <= d
         /\ d = Nil => Earliest(d, t) = t
  BY DEF Earliest, Nil

\* The ways a reconcile ends keep the types.
LEMMA ReturnTypes ==
  ASSUME TypeOK, ReturnError \/ Return \/ \E d \in Int : ScheduledResult(d)
  PROVE  rec' \in Rec /\ due' \in Nat \cup {Nil}
<1>1. due \in Nat \cup {Nil} /\ now \in Nat
  BY DEF TypeOK, Time
<1>2. \A t \in Nat : Earliest(due, t) \in Nat
  BY <1>1, EarliestFacts
<1>3. CASE ReturnError
  BY <1>1, <1>2, <1>3, ObjectTypes DEF ReturnError
<1>4. CASE Return
  BY <1>1, <1>4, ObjectTypes DEF Return
<1>5. ASSUME NEW d \in Int, ScheduledResult(d) PROVE rec' \in Rec /\ due' \in Nat \cup {Nil}
  <2>1. d > 0 => now + d \in Nat
    BY <1>1
  <2> QED BY <1>1, <1>2, <1>5, <2>1, ObjectTypes DEF ScheduledResult
<1> QED BY <1>3, <1>4, <1>5

\* A fault is counted.
LEMMA FaultType == TypeOK /\ (Fault \/ UNCHANGED faults) => faults' \in 0..MaxFaults
  BY DEF TypeOK, Fault

\* The status that is written has its type.
LEMMA StatusType ==
  ASSUME TypeOK, rec.pc = "status"
  PROVE  /\ NewStatus \in CronSearch /\ [NewStatus EXCEPT !.ver = @ + 1] \in CronSearch
         /\ NewStatus.last = LastScheduleTime(rec.kids) /\ NewStatus.active = Active(rec.kids)
         /\ NewStatus.life = rec.cs.life /\ NewStatus.ver = rec.cs.ver
         /\ NewStatus.suspend = rec.cs.suspend
<1>1. rec.cs \in CronSearch /\ rec.kids \in [Starts -> Search]
  BY RecFields DEF TypeOK
<1>2. LastScheduleTime(rec.kids) \in Starts \cup {Nil} /\ InState(rec.kids, "active") \in SUBSET Starts
  BY <1>1, ListTypes
<1>3. NewStatus \in CronSearch
  BY <1>1, <1>2 DEF NewStatus, CronSearch
<1>4. NewStatus.ver + 1 \in Nat
  BY <1>3, CronFields
<1>5. [NewStatus EXCEPT !.ver = @ + 1] \in CronSearch
  BY <1>3, <1>4 DEF CronSearch
<1> QED BY <1>1, <1>3, <1>5 DEF NewStatus, CronSearch, Active

\* Deleting or creating a Search, and each of its own steps, keeps the types.
LEMMA KidTypes ==
  ASSUME NEW ks \in [Starts -> Search], NEW t \in Starts, NEW n \in Time
  PROVE  /\ [ks EXCEPT ![t] = NoSearch] \in [Starts -> Search]
         /\ [ks EXCEPT ![t] = NewSearch] \in [Starts -> Search]
         /\ ks[t].state = "active" => [ks EXCEPT ![t].start = n] \in [Starts -> Search]
         /\ \A s \in {"ok", "failed"} :
              ks[t].start \in Time => [ks EXCEPT ![t].state = s] \in [Starts -> Search]
<1>1. NoSearch \in Search /\ NewSearch \in Search /\ ks[t] \in Search
  BY ObjectTypes
<1>2. ks[t].state = "active" => [ks[t] EXCEPT !.start = n] \in Search
  BY <1>1 DEF Search, NoSearch, NewSearch
<1>3. \A s \in {"ok", "failed"} : ks[t].start \in Time => [ks[t] EXCEPT !.state = s] \in Search
  BY <1>1 DEF Search, NoSearch, NewSearch
<1> QED BY <1>1, <1>2, <1>3

\* Every step keeps the types.
LEMMA TypeStep == TypeOK /\ Control /\ [Step]_vars => TypeOK'
<1> SUFFICES ASSUME TypeOK, Control, [Step]_vars PROVE TypeOK'
  OBVIOUS
<1>r. /\ rec \in Rec /\ now \in Time /\ now \in Nat /\ due \in Nat \cup {Nil}
      /\ kids \in [Starts -> Search]
  BY DEF TypeOK, Time
<1>f. /\ rec.cs \in CronSearch /\ rec.kids \in [Starts -> Search] /\ rec.todo \in SUBSET Starts
      /\ rec.target \in Starts \cup {Nil} /\ rec.delay \in Int
  BY <1>r, RecFields
<1>e. Earliest(due, now) \in Nat
  BY <1>r, EarliestFacts
<1>k. \A t \in Starts : [kids EXCEPT ![t] = NoSearch] \in [Starts -> Search]
  BY <1>r, KidTypes
<1>1. CASE ReconcileNotFound
  BY <1>1, ObjectTypes DEF TypeOK, ReconcileNotFound, Take, objects, caches
<1>2. CASE ReconcileFound
  <2>1. rec' \in Rec
    BY <1>2, ObjectTypes DEF ReconcileFound, TypeOK, Idle, Rec
  <2>2. blind' \in BOOLEAN
    BY <1>2 DEF ReconcileFound, TypeOK
  <2> QED BY <1>2, <2>1, <2>2 DEF TypeOK, ReconcileFound, Take, objects, caches
<1>3. CASE StatusRefused
  BY <1>3, ReturnTypes DEF TypeOK, StatusRefused, objects, caches, history
<1>4. CASE UpdateStatus
  <2>1. rec.pc = "status" /\ cs' \in CronSearch
    BY <1>4, StatusType DEF UpdateStatus, TypeOK
  <2>2. rec' \in Rec /\ due' \in Nat \cup {Nil} /\ faults' \in 0..MaxFaults
    <3>1. CASE ReplyLost
      BY <3>1, ReturnTypes, FaultType DEF ReplyLost
    <3>2. ASSUME NEW f \in Excess(rec.kids, "failed", FailedJobsHistoryLimit),
                 NEW s \in Excess(rec.kids, "ok", SuccessfulJobsHistoryLimit),
                 rec' = [rec EXCEPT !.pc = "prune", !.cs = cs', !.todo = f \cup s]
          PROVE  rec' \in Rec
      <4>1. f \cup s \in SUBSET Starts
        BY ExcessType, ListTypes, <1>f
      <4> QED BY <1>r, <2>1, <3>2, <4>1 DEF Rec
    <3> QED BY <1>4, <3>1, <3>2, FaultType DEF UpdateStatus, Replied, TypeOK
  <2> QED BY <1>4, <2>1, <2>2 DEF TypeOK, UpdateStatus, caches, history
<1>5. CASE PruneHistory
  <2>1. kids' \in [Starts -> Search]
    BY <1>5, <1>f, <1>r, <1>k DEF PruneHistory
  <2>2. rec' \in Rec
    <3>1. ASSUME NEW t \in rec.todo, rec' = [rec EXCEPT !.todo = @ \ {t}] PROVE rec' \in Rec
      <4>1. rec.todo \ {t} \in SUBSET Starts
        BY <1>f
      <4> QED BY <1>r, <3>1, <4>1 DEF Rec
    <3>2. CASE rec' = [rec EXCEPT !.pc = "schedule"]
      BY <1>r, <3>2 DEF Rec
    <3> QED BY <1>5, <3>1, <3>2 DEF PruneHistory
  <2>3. faults' \in 0..MaxFaults
    BY <1>5, FaultType DEF PruneHistory, Replied
  <2> QED BY <1>5, <2>1, <2>2, <2>3 DEF TypeOK, PruneHistory, caches, history
<1>6. CASE GiveUp
  <2>1. gaveUp' \in BOOLEAN
    BY <1>6 DEF GiveUp
  <2> QED BY <1>6, <2>1, ReturnTypes DEF TypeOK, GiveUp, objects, caches
<1>7. CASE GetNextSchedule
  <2>1. Next(now) \in Int /\ MissedRun(rec.cs.last) \in Starts \cup {Nil}
    BY <1>r, NextFacts, MissedTypes
  <2>2. rec' \in Rec
    BY <1>7, <1>r, <2>1 DEF GetNextSchedule, Rec
  <2> QED BY <1>7, <2>2 DEF TypeOK, GetNextSchedule, objects, caches, history
<1>8. CASE SleepUntilNext
  <2>1. Delay \in Int
    BY <1>r, <1>f DEF Delay
  <2>2. rec' \in Rec /\ due' \in Nat \cup {Nil}
    BY <1>8, <2>1, ReturnTypes DEF SleepUntilNext
  <2>3. slipped' \in BOOLEAN
    BY <1>8, <2>1 DEF SleepUntilNext, ScheduledResult
  <2> QED BY <1>8, <2>2, <2>3 DEF TypeOK, SleepUntilNext, objects, caches
<1>9. CASE RunMissed
  <2>1. Delay \in Int /\ InState(rec.kids, "active") \in SUBSET Starts
    BY <1>r, <1>f, ListTypes DEF Delay
  <2>2. rec' \in Rec
    BY <1>9, <1>r, <2>1 DEF RunMissed, Rec
  <2> QED BY <1>9, <2>2 DEF TypeOK, RunMissed, objects, caches, history
<1>10. CASE ReplaceActive
  <2>1. kids' \in [Starts -> Search]
    BY <1>10, <1>f, <1>r, <1>k DEF ReplaceActive
  <2>2. rec' \in Rec /\ due' \in Nat \cup {Nil}
    <3>1. ASSUME NEW t \in rec.todo, rec' = [rec EXCEPT !.todo = @ \ {t}] PROVE rec' \in Rec
      <4>1. rec.todo \ {t} \in SUBSET Starts
        BY <1>f
      <4> QED BY <1>r, <3>1, <4>1 DEF Rec
    <3>2. ASSUME rec' = [rec EXCEPT !.pc = "create"] PROVE rec' \in Rec
      BY <1>r, <3>2 DEF Rec
    <3> QED BY <1>10, <1>r, <3>1, <3>2, ReturnTypes DEF ReplaceActive, ReplyLost
  <2>3. faults' \in 0..MaxFaults
    BY <1>10, FaultType DEF ReplaceActive, Replied, ReplyLost
  <2> QED BY <1>10, <2>1, <2>2, <2>3 DEF TypeOK, ReplaceActive, caches, history
<1>11. CASE CreateSearch
  <2>1. rec.target \in Starts
    BY <1>11, <1>f DEF CreateSearch, Control, Running
  <2>2. kids' \in [Starts -> Search]
    BY <1>11, <1>r, <2>1, KidTypes DEF CreateSearch
  <2>3. rec' \in Rec /\ due' \in Nat \cup {Nil}
    BY <1>11, <1>f, ReturnTypes DEF CreateSearch, ReplyLost
  <2>4. faults' \in 0..MaxFaults
    BY <1>11, FaultType DEF CreateSearch, Replied, ReplyLost
  <2>5. slipped' \in BOOLEAN
    <3>1. slipped \in BOOLEAN /\ (rec.delay <= 0) \in BOOLEAN
      BY <1>f DEF TypeOK
    <3> QED BY <1>11, <3>1 DEF CreateSearch, ScheduledResult
  <2>6. rerun' \in BOOLEAN /\ begun' \subseteq Starts
    BY <1>11, <2>1 DEF CreateSearch, TypeOK
  <2> QED BY <1>11, <2>2, <2>3, <2>4, <2>5, <2>6 DEF TypeOK, CreateSearch, caches
<1>12. CASE CreateRefused
  BY <1>12, ReturnTypes, FaultType DEF TypeOK, CreateRefused, objects, caches, history
<1>13. CASE SyncCronSearch
  BY <1>13, <1>e DEF TypeOK, SyncCronSearch, objects, history
<1>14. CASE SyncSearches
  BY <1>14, <1>e DEF TypeOK, SyncSearches, objects, history
<1>15. CASE Restart
  BY <1>15, <1>r, ObjectTypes, FaultType DEF TypeOK, Restart, objects, history
<1>16. CASE Tick
  BY <1>16 DEF TypeOK, Tick, objects, caches, history, Time
<1>17. CASE Suspend
  <2>1. cs \in CronSearch /\ cs.ver + 1 \in Nat
    <3>1. cs \in CronSearch
      BY DEF TypeOK
    <3> QED BY <3>1, CronFields
  <2>2. cs' \in CronSearch
    BY <1>17, <2>1 DEF Suspend, CronSearch
  <2> QED BY <1>17, <2>2 DEF TypeOK, Suspend, caches, history
<1>18. CASE UserDeletes
  BY <1>18, ObjectTypes DEF TypeOK, UserDeletes, caches, history
<1>19. CASE SearchStep
  <2>1. kids' \in [Starts -> Search]
    <3>1. PICK t \in InState(kids, "active") :
            \/ kids[t].start = Nil /\ kids' = [kids EXCEPT ![t].start = now]
            \/ /\ kids[t].start # Nil /\ kids[t].start < now
               /\ \E s \in {"ok", "failed"} : kids' = [kids EXCEPT ![t].state = s]
      BY <1>19 DEF SearchStep
    <3>2. t \in Starts /\ kids[t].state = "active" /\ kids \in [Starts -> Search]
      BY DEF InState, TypeOK
    <3>3. kids[t].start # Nil => kids[t].start \in Time
      BY <3>2, SearchFields
    <3>4. [kids EXCEPT ![t].start = now] \in [Starts -> Search]
      BY <1>r, <3>2, KidTypes
    <3>5. \A s \in {"ok", "failed"} :
            kids[t].start # Nil => [kids EXCEPT ![t].state = s] \in [Starts -> Search]
      BY <1>r, <3>2, <3>3, KidTypes
    <3> QED BY <3>1, <3>4, <3>5
  <2> QED BY <1>19, <2>1 DEF TypeOK, SearchStep, caches, history
<1>20. CASE GarbageCollect
  <2>1. kids' \in [Starts -> Search]
    BY <1>20, <1>k DEF GarbageCollect, Existing
  <2> QED BY <1>20, <2>1 DEF TypeOK, GarbageCollect, caches, history
<1>21. CASE UNCHANGED vars
  BY <1>21 DEF TypeOK, vars
<1> QED
  BY <1>1, <1>2, <1>3, <1>4, <1>5, <1>6, <1>7, <1>8, <1>9, <1>10, <1>11, <1>12, <1>13, <1>14,
     <1>15, <1>16, <1>17, <1>18, <1>19, <1>20, <1>21 DEF Step, Controller, Environment

-----------------------------------------------------------------------------
(* What the reconcile has read and found out. *)

\* A reconcile that returns is over.
LEMMA Ended ==
  ReturnError \/ Return \/ (\E d : ScheduledResult(d)) => rec'.pc = "idle" /\ rec' = Idle
  BY DEF ReturnError, Return, ScheduledResult, Idle

\* Scheduling never looks back beyond the last schedule time, nor beyond the
\* starting deadline.
LEMMA EarliestTimeFacts ==
  ASSUME TypeOK, NEW last \in Starts \cup {Nil}
  PROVE  /\ EarliestTime(last) \in Nat
         /\ last # Nil => last <= EarliestTime(last)
         /\ \A t \in Nat : TooLate(t) => t <= EarliestTime(last)
<1>1. now \in Nat /\ spec.deadline \in Nat \cup {Nil}
  BY DEF TypeOK, Time
<1>2. last # Nil => last \in Nat
  BY StartsFacts
<1>3. DEFINE seen == IF last = Nil THEN 0 ELSE last
<1>4. seen \in Nat /\ (last # Nil => seen = last)
  BY <1>2
<1>5. EarliestTime(last) = IF spec.deadline # Nil /\ now - spec.deadline > seen
                           THEN now - spec.deadline ELSE seen
  BY DEF EarliestTime
<1> HIDE DEF seen
<1> QED BY <1>1, <1>4, <1>5 DEF Nil, TooLate

\* The missed start that is run has come, and is later than that of every
\* Search the last schedule time was read from.
LEMMA TargetFacts ==
  ASSUME TypeOK, NEW ks \in [Starts -> Search], MissedRun(LastScheduleTime(ks)) # Nil
  PROVE  /\ MissedRun(LastScheduleTime(ks)) <= now
         /\ \A t \in Existing(ks) : t < MissedRun(LastScheduleTime(ks))
<1> DEFINE last == LastScheduleTime(ks)
<1>1. last \in Starts \cup {Nil} /\ Existing(ks) \in SUBSET Starts
  BY ListTypes
<1>2. \A t \in Existing(ks) : last # Nil /\ t <= last
  BY <1>1, MaxFacts, StartsFacts DEF LastScheduleTime
<1>3. /\ MissedRun(last) \in Starts /\ EarliestTime(last) < MissedRun(last)
      /\ MissedRun(last) <= now
  BY MissedTypes DEF MissedStarts
<1>4. EarliestTime(last) \in Nat /\ (last # Nil => last <= EarliestTime(last))
  BY <1>1, EarliestTimeFacts
<1>5. ASSUME NEW t \in Existing(ks) PROVE t < MissedRun(last)
  <2>1. t \in Nat /\ last \in Nat /\ MissedRun(last) \in Nat
    BY <1>1, <1>2, <1>3, StartsFacts
  <2> QED BY <1>2, <1>3, <1>4, <2>1
<1> QED BY <1>3, <1>5

\* What is written is the object that was read or its successor, and it is the
\* one the reconcile goes on with.
LEMMA Written ==
  ASSUME TypeOK, Versions, UpdateStatus
  PROVE  /\ cs.life = "Live" /\ rec.cs = cs /\ cs'.life = "Live"
         /\ cs'.last = LastScheduleTime(rec.kids) /\ cs'.active = Active(rec.kids)
         /\ cs' = cs \/ (cs'.ver = cs.ver + 1 /\ cs'.suspend = cs.suspend)
         /\ Cardinality(Active(rec.kids)) <= MaxActive
         /\ \/ /\ rec'.pc = "prune" /\ rec'.cs = cs' /\ rec'.kids = rec.kids
               /\ rec'.target = rec.target /\ UNCHANGED due
            \/ rec'.pc = "idle" /\ rec' = Idle /\ due' = Earliest(due, now)
<1>1. rec.pc = "status" /\ StatusAccepted /\ rec \in Rec
  BY DEF UpdateStatus, TypeOK
<1>2. cs.life = "Live" /\ rec.cs = cs
  BY <1>1 DEF StatusAccepted, Versions, Older
<1>3. /\ NewStatus \in CronSearch
      /\ NewStatus.last = LastScheduleTime(rec.kids) /\ NewStatus.active = Active(rec.kids)
      /\ NewStatus.life = "Live" /\ NewStatus.ver = cs.ver /\ NewStatus.suspend = cs.suspend
  BY <1>1, <1>2, StatusType
<1>4. Cardinality(Active(rec.kids)) <= MaxActive
  BY <1>1, <1>3 DEF StatusAccepted
<1>5. \/ /\ rec'.pc = "prune" /\ rec'.cs = cs' /\ rec'.kids = rec.kids
         /\ rec'.target = rec.target /\ UNCHANGED due
      \/ rec'.pc = "idle" /\ rec' = Idle /\ due' = Earliest(due, now)
  BY <1>1, Ended DEF UpdateStatus, ReplyLost, ReturnError, Rec
<1>6. /\ cs'.life = "Live" /\ cs'.last = LastScheduleTime(rec.kids) /\ cs'.active = Active(rec.kids)
      /\ cs' = cs \/ (cs'.ver = cs.ver + 1 /\ cs'.suspend = cs.suspend)
  <2>1. CASE NewStatus = cs
    BY <1>3, <2>1 DEF UpdateStatus
  <2>2. CASE NewStatus # cs
    <3>1. cs' = [NewStatus EXCEPT !.ver = @ + 1]
      BY <2>2 DEF UpdateStatus
    <3> QED BY <1>3, <3>1 DEF CronSearch
  <2> QED BY <2>1, <2>2
<1> QED BY <1>2, <1>4, <1>5, <1>6

\* The steps that leave the reconcile as it is.
Undisturbed ==
  \/ SyncCronSearch \/ SyncSearches \/ Tick \/ Suspend \/ UserDeletes
  \/ SearchStep \/ GarbageCollect \/ UNCHANGED vars

\* The steps that end it, other than by an error of a call it could go on after.
Ending ==
  \/ ReconcileNotFound \/ StatusRefused \/ GiveUp \/ SleepUntilNext \/ CreateSearch
  \/ CreateRefused \/ Restart

\* The steps that take it on.
Continuing == PruneHistory \/ GetNextSchedule \/ RunMissed \/ ReplaceActive

\* There are no other steps, save reading the objects and the status update.
LEMMA StepKinds ==
  [Step]_vars => Undisturbed \/ Ending \/ Continuing \/ ReconcileFound \/ UpdateStatus
  BY DEF Step, Controller, Environment, Undisturbed, Ending, Continuing

\* Beside the reconcile the clock may advance.
LEMMA UndisturbedFacts ==
  ASSUME TypeOK, Undisturbed
  PROVE  /\ rec' = rec /\ spec' = spec /\ now \in Nat /\ now' \in Nat /\ now <= now'
         /\ UNCHANGED history
<1>1. now \in Nat
  BY DEF TypeOK, Time
<1>2. rec' = rec /\ spec' = spec /\ UNCHANGED history
  BY DEF Undisturbed, SyncCronSearch, SyncSearches, Tick, Suspend, UserDeletes,
         SearchStep, GarbageCollect, vars, history
<1>3. now' = now \/ now' = now + 1
  BY DEF Undisturbed, SyncCronSearch, SyncSearches, Tick, Suspend, UserDeletes,
         SearchStep, GarbageCollect, vars
<1> QED BY <1>1, <1>2, <1>3

\* A reconcile that ends leaves the CronSearch alone.
LEMMA EndingFacts ==
  ASSUME Ending
  PROVE  rec' = Idle /\ rec'.pc = "idle" /\ UNCHANGED <<cs, spec, now, blind>>
<1>1. rec' = Idle
  BY Ended DEF Ending, ReconcileNotFound, StatusRefused, GiveUp, SleepUntilNext, CreateSearch,
         CreateRefused, Restart, ReplyLost
<1>2. UNCHANGED <<cs, spec, now, blind>>
  BY DEF Ending, ReconcileNotFound, Take, StatusRefused, GiveUp, SleepUntilNext, CreateSearch,
         CreateRefused, Restart, objects, history
<1> QED BY <1>1, <1>2 DEF Idle

\* One that goes on keeps what it has read.
LEMMA ContinuingFacts ==
  ASSUME TypeOK, Continuing
  PROVE  /\ UNCHANGED <<cs, csCache, kidsCache, spec, now, history>> /\ rec.pc # "idle"
         /\ \/ rec'.pc = "idle" /\ rec' = Idle /\ due' = Earliest(due, now)
            \/ rec'.cs = rec.cs /\ rec'.kids = rec.kids /\ rec'.pc # "idle" /\ UNCHANGED due
         /\ rec'.pc # "status"
<1>1. rec \in Rec
  BY DEF TypeOK
<1>2. UNCHANGED <<cs, csCache, kidsCache, spec, now, history>>
  BY DEF Continuing, PruneHistory, GetNextSchedule, RunMissed, ReplaceActive, objects, caches
<1>3. /\ rec.pc # "idle"
      /\ \/ rec'.pc = "idle" /\ rec' = Idle /\ due' = Earliest(due, now)
         \/ rec'.cs = rec.cs /\ rec'.kids = rec.kids /\ rec'.pc # "idle" /\ UNCHANGED due
      /\ rec'.pc # "status"
  <2>1. CASE PruneHistory
    BY <1>1, <2>1 DEF PruneHistory, Rec
  <2>2. CASE GetNextSchedule
    BY <1>1, <2>2 DEF GetNextSchedule, Rec
  <2>3. CASE RunMissed
    BY <1>1, <2>3 DEF RunMissed, Rec
  <2>4. CASE ReplaceActive
    BY <1>1, <2>4, Ended DEF ReplaceActive, ReplyLost, ReturnError, Rec
  <2> QED BY <2>1, <2>2, <2>3, <2>4 DEF Continuing
<1> QED BY <1>2, <1>3

\* The reconcile starts from what is in the caches.
LEMMA FoundFacts ==
  ASSUME ReconcileFound
  PROVE  /\ rec'.pc = "status" /\ rec'.cs = csCache /\ rec'.kids = kidsCache
         /\ UNCHANGED <<cs, kids, csCache, kidsCache, spec, now, begun, rerun>>
         /\ csCache.life = "Live" /\ rec.pc = "idle" /\ due' = Nil
  BY DEF ReconcileFound, Take, Idle, objects, caches

\* Every step keeps Versions.
LEMMA VersionsStep == TypeOK /\ Versions /\ [Step]_vars => Versions'
<1> SUFFICES ASSUME TypeOK, Versions, [Step]_vars PROVE Versions'
  OBVIOUS
<1>t. cs \in CronSearch /\ csCache \in CronSearch /\ rec.cs \in CronSearch
  BY RecFields DEF TypeOK
<1>v. cs.ver \in Nat /\ csCache.ver \in Nat /\ rec.cs.ver \in Nat
  BY <1>t, CronFields
<1>1. CASE Undisturbed
  <2>1. rec' = rec
    BY <1>1, UndisturbedFacts
  <2>2. CASE UNCHANGED <<cs, csCache>>
    BY <2>1, <2>2 DEF Versions, Older
  <2>3. CASE SyncCronSearch
    BY <2>1, <2>3, <1>v DEF Versions, Older, SyncCronSearch, objects
  <2>4. CASE Suspend
    <3>1. cs'.ver = cs.ver + 1 /\ UNCHANGED csCache
      BY <2>4, <1>t DEF Suspend, CronSearch, caches
    <3>2. cs.life = "Live"
      BY <2>4 DEF Suspend
    <3> QED BY <2>1, <3>1, <3>2, <1>v DEF Versions, Older
  <2>5. CASE UserDeletes
    <3>1. cs'.life = "None" /\ UNCHANGED csCache
      BY <2>5 DEF UserDeletes, NoCronSearch, caches
    <3> QED BY <2>1, <3>1 DEF Versions, Older
  <2> QED BY <1>1, <2>2, <2>3, <2>4, <2>5
        DEF Undisturbed, SyncSearches, Tick, SearchStep, GarbageCollect, vars, objects, caches
<1>2. CASE Ending
  <2>1. rec'.pc = "idle" /\ UNCHANGED cs
    BY <1>2, EndingFacts
  <2>2. csCache' = csCache \/ csCache' = cs
    BY <1>2 DEF Ending, ReconcileNotFound, Take, StatusRefused, GiveUp, SleepUntilNext,
         CreateSearch, CreateRefused, Restart, caches
  <2> QED BY <1>v, <2>1, <2>2 DEF Versions, Older
<1>3. CASE Continuing
  BY <1>3, ContinuingFacts DEF Versions, Older
<1>4. CASE ReconcileFound
  BY <1>4, FoundFacts DEF Versions, Older
<1>5. CASE UpdateStatus
  <2>1. UNCHANGED csCache
    BY <1>5 DEF UpdateStatus, caches
  <2> QED BY <1>5, <1>v, <2>1, Written DEF Versions, Older
<1> QED BY <1>1, <1>2, <1>3, <1>4, <1>5, StepKinds

\* Every step keeps Control.
LEMMA ControlStep == TypeOK /\ Versions /\ Control /\ [Step]_vars => Control'
<1> SUFFICES ASSUME TypeOK, Versions, Control, [Step]_vars PROVE Control'
  OBVIOUS
<1>r. /\ rec \in Rec /\ now \in Nat /\ rec.kids \in [Starts -> Search]
      /\ rec.target # Nil => rec.target \in Nat
  <2>1. rec \in Rec /\ now \in Nat
    BY DEF TypeOK, Time
  <2>2. rec.kids \in [Starts -> Search] /\ rec.target \in Starts \cup {Nil}
    BY <2>1, RecFields
  <2> QED BY <2>1, <2>2, StartsFacts
<1>i. ASSUME rec'.pc \in {"idle", "status"} PROVE Control'
  BY <1>i DEF Control, Scheduling, Targeting, Running
<1>1. CASE Undisturbed
  <2>1. rec' = rec /\ spec' = spec /\ now <= now' /\ now' \in Nat
    BY <1>1, UndisturbedFacts
  <2>2. Targeting => rec.target <= now'
    BY <1>r, <2>1 DEF Control, Targeting
  <2> QED BY <2>1, <2>2 DEF Control, Scheduling, Targeting, Running, Active, InState, Existing,
            LastScheduleTime, Blocked
<1>2. CASE Ending
  BY <1>2, <1>i, EndingFacts
<1>3. CASE Continuing
  <2>1. CASE rec'.pc = "idle"
    BY <2>1, <1>i
  <2>2. CASE rec'.pc # "idle"
    <3>1. rec'.cs = rec.cs /\ rec'.kids = rec.kids /\ UNCHANGED <<spec, now>>
      BY <1>3, <2>2, ContinuingFacts
    <3>2. Scheduling
      BY <1>3 DEF Continuing, PruneHistory, GetNextSchedule, RunMissed, ReplaceActive, Scheduling
    <3>3. CASE PruneHistory
      <4>1. rec'.pc \in {"prune", "schedule"}
        BY <1>r, <3>3 DEF PruneHistory, Rec
      <4> QED BY <3>1, <3>2, <4>1 DEF Control, Scheduling, Targeting, Running
    <3>4. CASE GetNextSchedule
      <4>1. rec'.pc = "decide" /\ rec'.target = MissedRun(LastScheduleTime(rec.kids))
        BY <1>r, <3>2, <3>4 DEF GetNextSchedule, Rec, Control
      <4>2. rec'.target # Nil => rec'.target <= now /\ \A t \in Existing(rec.kids) : t < rec'.target
        BY <1>r, <4>1, TargetFacts
      <4> QED BY <3>1, <3>2, <4>1, <4>2 DEF Control, Scheduling, Targeting, Running
    <3>5. CASE RunMissed
      <4>1. rec'.pc = "replace" /\ rec'.target = rec.target /\ rec.pc = "decide"
        BY <1>r, <3>5 DEF RunMissed, Rec
      <4>2. rec.target # Nil /\ ~Blocked(Active(rec.kids))
        BY <3>5 DEF RunMissed, NothingToRun, Active
      <4> QED BY <3>1, <3>2, <4>1, <4>2 DEF Control, Scheduling, Targeting, Running, Blocked
    <3>6. CASE ReplaceActive
      <4>1. rec'.pc \in {"replace", "create"} /\ rec'.target = rec.target /\ rec.pc = "replace"
        BY <1>r, <2>2, <3>6, Ended DEF ReplaceActive, ReplyLost, Rec
      <4> QED BY <3>1, <3>2, <4>1 DEF Control, Scheduling, Targeting, Running, Blocked
    <3> QED BY <1>3, <3>3, <3>4, <3>5, <3>6 DEF Continuing
  <2> QED BY <2>1, <2>2
<1>4. CASE ReconcileFound
  BY <1>4, <1>i, FoundFacts
<1>5. CASE UpdateStatus
  <2>1. CASE rec'.pc = "idle"
    BY <2>1, <1>i
  <2>2. CASE rec'.pc = "prune"
    BY <1>5, <2>2, Written DEF Control, Scheduling, Targeting, Running
  <2> QED BY <1>5, <2>1, <2>2, Written
<1> QED BY <1>1, <1>2, <1>3, <1>4, <1>5, StepKinds

-----------------------------------------------------------------------------
(* The Searches that run. *)

\* Counting starts.
LEMMA Counting ==
  ASSUME NEW S \in SUBSET Starts, NEW T \in SUBSET Starts
  PROVE  /\ Cardinality(S) \in Nat
         /\ S \subseteq T => Cardinality(S) <= Cardinality(T)
         /\ \A x \in Starts : S \subseteq T \cup {x} => Cardinality(S) <= Cardinality(T) + 1
         /\ S = {} => Cardinality(S) = 0
<1>1. IsFiniteSet(S) /\ IsFiniteSet(T)
  BY StartsFacts, FS_Subset
<1>2. Cardinality(S) \in Nat /\ Cardinality(T) \in Nat
  BY <1>1, FS_CardinalityType
<1>3. S \subseteq T => Cardinality(S) <= Cardinality(T)
  BY <1>1, FS_Subset
<1>4. ASSUME NEW x \in Starts, S \subseteq T \cup {x} PROVE Cardinality(S) <= Cardinality(T) + 1
  <2>1. /\ IsFiniteSet(T \cup {x})
        /\ Cardinality(T \cup {x}) = IF x \in T THEN Cardinality(T) ELSE Cardinality(T) + 1
    BY <1>1, FS_AddElement
  <2>2. Cardinality(S) <= Cardinality(T \cup {x})
    BY <1>4, <2>1, FS_Subset
  <2> QED BY <1>2, <2>1, <2>2
<1> QED BY <1>2, <1>3, <1>4, FS_EmptySet

\* Only CreateSearch makes a Search; any other step leaves it as it is, deletes
\* it, lets it start or lets it finish.
LEMMA Shrinking ==
  ASSUME TypeOK, [Step]_vars
  PROVE  \/ CreateSearch
         \/ \A t \in Starts :
              \/ kids'[t] = kids[t] \/ kids'[t] = NoSearch
              \/ kids[t].state = "active" /\ kids'[t].state = "active" /\ kids'[t].start = now
              \/ /\ kids[t].state = "active" /\ Finished(kids'[t])
                 /\ kids'[t].start = kids[t].start /\ kids[t].start < now
<1>t. kids \in [Starts -> Search]
  BY DEF TypeOK
<1>1. CASE UNCHANGED kids
  BY <1>1
<1>2. CASE \E u \in Starts : kids' = [kids EXCEPT ![u] = NoSearch]
  BY <1>2, <1>t
<1>3. CASE SearchStep
  <2>1. PICK u \in InState(kids, "active") :
            \/ kids[u].start = Nil /\ kids' = [kids EXCEPT ![u].start = now]
            \/ /\ kids[u].start # Nil /\ kids[u].start < now
               /\ \E s \in {"ok", "failed"} : kids' = [kids EXCEPT ![u].state = s]
    BY <1>3 DEF SearchStep
  <2>2. u \in Starts /\ kids[u].state = "active" /\ kids[u] \in Search
    BY <1>t DEF InState
  <2>3. /\ [kids[u] EXCEPT !.start = now].state = "active"
        /\ [kids[u] EXCEPT !.start = now].start = now
        /\ \A s \in {"ok", "failed"} : /\ [kids[u] EXCEPT !.state = s].state = s
                                       /\ [kids[u] EXCEPT !.state = s].start = kids[u].start
    BY <2>2 DEF Search, NoSearch, NewSearch
  <2> QED BY <1>t, <2>1, <2>2, <2>3 DEF Finished
<1>4. \/ UNCHANGED kids \/ (\E u \in Starts : kids' = [kids EXCEPT ![u] = NoSearch])
      \/ CreateSearch \/ SearchStep
  <2>1. rec.todo \in SUBSET Starts
    BY RecFields DEF TypeOK
  <2>2. CASE Undisturbed
    BY <2>2 DEF Undisturbed, SyncCronSearch, SyncSearches, Tick, Suspend, UserDeletes,
         GarbageCollect, vars, objects, Existing
  <2>3. CASE Ending
    BY <2>3 DEF Ending, ReconcileNotFound, Take, StatusRefused, GiveUp, SleepUntilNext,
         CreateRefused, Restart, objects
  <2>4. CASE Continuing
    BY <2>1, <2>4 DEF Continuing, PruneHistory, GetNextSchedule, RunMissed, ReplaceActive, objects
  <2>5. CASE ReconcileFound
    BY <2>5, FoundFacts
  <2>6. CASE UpdateStatus
    BY <2>6 DEF UpdateStatus
  <2> QED BY <2>2, <2>3, <2>4, <2>5, <2>6, StepKinds
<1> QED BY <1>1, <1>2, <1>3, <1>4

\* So but for CreateSearch there are never more of them, nor more that run.
LEMMA Fewer ==
  ASSUME TypeOK, [Step]_vars, ~CreateSearch
  PROVE  /\ Existing(kids') \subseteq Existing(kids) /\ Active(kids') \subseteq Active(kids)
         /\ \A t \in Starts : kids[t].state # "active" => kids'[t].state # "active"
<1>1. ASSUME NEW t \in Starts
      PROVE  /\ kids'[t].state # "none" => kids[t].state # "none"
             /\ kids'[t].state = "active" => kids[t].state = "active"
  BY Shrinking DEF NoSearch
<1> QED BY <1>1 DEF Existing, Active, InState

\* What CreateSearch does.
LEMMA Creation ==
  ASSUME TypeOK, Control, CreateSearch
  PROVE  /\ rec.target \in Starts /\ rec.pc = "create" /\ kids[rec.target].state = "none"
         /\ kids' = [kids EXCEPT ![rec.target] = NewSearch] /\ kids'[rec.target] = NewSearch
         /\ \A t \in Starts : t # rec.target => kids'[t] = kids[t]
         /\ rec.target \notin Existing(rec.kids)
         /\ Existing(kids') = Existing(kids) \cup {rec.target}
         /\ Active(kids') = Active(kids) \cup {rec.target}
         /\ UNCHANGED <<cs, csCache, kidsCache, spec, now, blind, gaveUp>>
         /\ begun' = begun \cup {rec.target} /\ rerun' = (rerun \/ rec.target \in begun)
<1>1. rec.pc = "create" /\ rec.target # Nil /\ rec.target \in Starts \cup {Nil} /\ Targeting
  BY RecFields DEF CreateSearch, Control, Running, Targeting, TypeOK
<1>2. kids \in [Starts -> Search] /\ rec.target \in Starts
  BY <1>1 DEF TypeOK
<1>3. kids' = [kids EXCEPT ![rec.target] = NewSearch] /\ kids[rec.target].state = "none"
  BY DEF CreateSearch
<1>4. kids'[rec.target] = NewSearch /\ \A t \in Starts : t # rec.target => kids'[t] = kids[t]
  BY <1>2, <1>3
<1>5. rec.target \notin Existing(rec.kids)
  <2>1. rec.target \in Nat
    BY <1>2, StartsFacts
  <2> QED BY <1>1, <2>1 DEF Control
<1>6. Existing(kids') = Existing(kids) \cup {rec.target}
  BY <1>2, <1>4 DEF Existing, NewSearch
<1>7. Active(kids') = Active(kids) \cup {rec.target}
  BY <1>2, <1>4 DEF Active, InState, NewSearch
<1>8. UNCHANGED <<cs, csCache, kidsCache, spec, now, blind, gaveUp>>
  BY DEF CreateSearch, caches
<1> QED BY <1>1, <1>2, <1>3, <1>4, <1>5, <1>6, <1>7, <1>8 DEF CreateSearch

\* What a reconcile has not seen finished or missing does not run.
LEMMA RunningIsSeen ==
  ASSUME TypeOK, Seen, rec.pc # "idle"
  PROVE  Active(kids) \subseteq Active(rec.kids)
<1>1. rec.kids \in [Starts -> Search]
  BY RecFields DEF TypeOK
<1>2. ASSUME NEW t \in Active(kids) PROVE t \in Active(rec.kids)
  <2>1. t \in Starts /\ kids[t].state = "active" /\ t \in Existing(kids)
    BY DEF Active, InState, Existing
  <2>2. rec.kids[t].state # "none" /\ ~Finished(rec.kids[t])
    BY <2>1 DEF Seen, Existing
  <2>3. rec.kids[t].state = "active"
    BY <1>1, <2>1, <2>2, SearchFields
  <2> QED BY <2>1, <2>3 DEF Active, InState
<1> QED BY <1>2

\* What a reconcile has overlooked stays overlooked.
LEMMA BlindStays == TypeOK /\ [Step]_vars /\ ~blind' => ~blind
<1> SUFFICES ASSUME TypeOK, [Step]_vars, ~blind' PROVE ~blind
  OBVIOUS
<1>1. CASE Undisturbed
  BY <1>1, UndisturbedFacts DEF history
<1>2. CASE Ending
  BY <1>2, EndingFacts
<1>3. CASE Continuing
  BY <1>3, ContinuingFacts DEF history
<1>4. CASE ReconcileFound
  BY <1>4 DEF ReconcileFound
<1>5. CASE UpdateStatus
  BY <1>5 DEF UpdateStatus, history
<1> QED BY <1>1, <1>2, <1>3, <1>4, <1>5, StepKinds

\* The cache of Searches is left alone or gets to be what the server has.
LEMMA CacheSteps ==
  ASSUME [Step]_vars
  PROVE  \/ kidsCache' = kidsCache
         \/ kidsCache' = kids /\ kids' = kids
<1>1. CASE Undisturbed
  BY <1>1 DEF Undisturbed, SyncCronSearch, SyncSearches, Tick, Suspend, UserDeletes,
         SearchStep, GarbageCollect, vars, objects, caches
<1>2. CASE Ending
  BY <1>2 DEF Ending, ReconcileNotFound, Take, StatusRefused, GiveUp, SleepUntilNext,
         CreateSearch, CreateRefused, Restart, objects, caches
<1>3. CASE Continuing
  BY <1>3 DEF Continuing, PruneHistory, GetNextSchedule, RunMissed, ReplaceActive, caches
<1>4. CASE ReconcileFound
  BY <1>4, FoundFacts
<1>5. CASE UpdateStatus
  BY <1>5 DEF UpdateStatus, caches
<1> QED BY <1>1, <1>2, <1>3, <1>4, <1>5, StepKinds

\* A reconcile in progress has its list of Searches since it started.
LEMMA ListSteps ==
  ASSUME TypeOK, Versions, [Step]_vars, rec'.pc # "idle"
  PROVE  ReconcileFound \/ (rec.pc # "idle" /\ rec'.kids = rec.kids /\ ~CreateSearch)
<1>0. ~CreateSearch
  BY Ended DEF CreateSearch, ReplyLost
<1>1. CASE Undisturbed
  BY <1>0, <1>1, UndisturbedFacts
<1>2. CASE Ending
  BY <1>2, EndingFacts
<1>3. CASE Continuing
  BY <1>0, <1>3, ContinuingFacts
<1>4. CASE UpdateStatus
  BY <1>0, <1>4, Written DEF UpdateStatus
<1> QED BY <1>1, <1>2, <1>3, <1>4, StepKinds

\* Every step keeps Seen, unless a reconcile starts from a list that lacks one.
LEMMA SeenStep ==
  ASSUME TypeOK, Versions, Control, [Step]_vars, Seen, ~blind'
  PROVE  Seen'
<1>t. kids \in [Starts -> Search] /\ kidsCache \in [Starts -> Search]
  BY DEF TypeOK
<1>1. CASE CreateSearch
  <2>1. rec'.pc = "idle" /\ kidsCache' = kidsCache
    BY <1>1, Creation, EndingFacts DEF Ending
  <2>2. rec.target \in Starts /\ rec.target \notin Existing(kidsCache)
    BY <1>1, Creation DEF Seen
  <2>3. ~Finished(kidsCache[rec.target])
    BY <2>2 DEF Existing, Finished
  <2>4. \A t \in Starts : Finished(kidsCache[t]) => kids'[t] = kids[t]
    BY <1>1, <2>3, Creation
  <2> QED BY <2>1, <2>4 DEF Seen, Finished
<1>2. CASE ~CreateSearch
  <2>1. /\ Existing(kids') \subseteq Existing(kids)
        /\ \A t \in Starts : kids[t].state # "active" => kids'[t].state # "active"
    BY <1>2, Fewer
  <2>2. \A t \in Starts : Finished(kidsCache'[t]) => kids'[t].state # "active"
    BY <2>1, CacheSteps DEF Seen, Finished
  <2>3. ASSUME rec'.pc # "idle"
        PROVE  /\ Existing(kids') \subseteq Existing(rec'.kids)
               /\ Existing(kidsCache') \subseteq Existing(rec'.kids)
               /\ \A t \in Starts : Finished(rec'.kids[t]) => kids'[t].state # "active"
    <3>1. CASE ReconcileFound
      <4>1. Existing(kids) \subseteq Existing(kidsCache)
        BY <3>1 DEF ReconcileFound
      <4> QED BY <3>1, <4>1, <2>2, FoundFacts DEF Seen
    <3>2. CASE rec.pc # "idle" /\ rec'.kids = rec.kids
      BY <2>1, <3>2, CacheSteps DEF Seen
    <3> QED BY <2>3, <3>1, <3>2, ListSteps
  <2> QED BY <2>2, <2>3 DEF Seen, Existing, Finished
<1> QED BY <1>1, <1>2

\* Every step keeps Replaced.
LEMMA ReplacedStep ==
  ASSUME TypeOK, Versions, Control, [Step]_vars, Seen, Replaced
  PROVE  Replaced'
<1>t. rec \in Rec /\ kids \in [Starts -> Search]
  BY DEF TypeOK
<1>i. ASSUME rec'.pc \notin {"replace", "create"} PROVE Replaced'
  BY <1>i DEF Replaced
<1>1. CASE Undisturbed /\ ~CreateSearch
  <2>1. Active(kids') \subseteq Active(kids)
    BY <1>1, Fewer
  <2> QED BY <1>1, <2>1, UndisturbedFacts DEF Replaced, Active, InState
<1>2. CASE Ending \/ CreateSearch
  BY <1>2, <1>i, EndingFacts DEF Ending
<1>3. CASE PruneHistory
  BY <1>3, <1>i, <1>t DEF PruneHistory, Rec
<1>4. CASE GetNextSchedule
  BY <1>4, <1>i, <1>t DEF GetNextSchedule, Rec
<1>5. CASE RunMissed
  <2>1. /\ rec'.pc = "replace" /\ UNCHANGED <<kids, spec>>
        /\ spec.policy = "Replace" => rec'.todo = Active(rec.kids)
    BY <1>5, <1>t DEF RunMissed, Rec, objects, Active
  <2>2. Active(kids) \subseteq Active(rec.kids)
    BY <1>5, RunningIsSeen DEF RunMissed
  <2> QED BY <2>1, <2>2 DEF Replaced, Active, InState
<1>6. CASE ReplaceActive
  <2>1. CASE rec'.pc = "idle"
    BY <2>1, <1>i
  <2>2. ASSUME NEW t \in rec.todo, kids' = [kids EXCEPT ![t] = NoSearch],
               rec' = [rec EXCEPT !.todo = @ \ {t}]
        PROVE  Replaced'
    <3>1. rec'.pc = "replace" /\ rec.pc = "replace" /\ rec'.todo = rec.todo \ {t} /\ spec' = spec
      BY <1>6, <1>t, <2>2 DEF Rec, ReplaceActive
    <3>2. Active(kids') \subseteq Active(kids) \ {t}
      BY <1>t, <2>2 DEF Active, InState, NoSearch
    <3> QED BY <3>1, <3>2 DEF Replaced, Active, InState
  <2>3. CASE rec.todo = {} /\ rec' = [rec EXCEPT !.pc = "create"] /\ UNCHANGED kids
    <3>1. rec'.pc = "create" /\ rec.pc = "replace" /\ spec' = spec
      BY <1>6, <1>t, <2>3 DEF Rec, ReplaceActive
    <3> QED BY <2>3, <3>1 DEF Replaced, Active, InState
  <2> QED BY <1>6, <2>1, <2>2, <2>3, Ended DEF ReplaceActive, ReplyLost
<1>7. CASE ReconcileFound
  BY <1>7, <1>i, FoundFacts
<1>8. CASE UpdateStatus
  BY <1>8, <1>i, Written
<1> QED BY <1>1, <1>2, <1>3, <1>4, <1>5, <1>6, <1>7, <1>8, StepKinds DEF Continuing

\* Every step keeps Policy.
LEMMA PolicyStep == TypeOK /\ Versions /\ Control /\ Policy /\ [Step]_vars => Policy'
<1> SUFFICES ASSUME TypeOK, Versions, Control, Policy, [Step]_vars, ~blind'
             PROVE  Seen' /\ Replaced' /\ (Cardinality(Active(kids)) <= Most)'
  BY DEF Policy
<1>1. ~blind
  BY BlindStays
<1>2. Seen /\ Replaced /\ Cardinality(Active(kids)) <= Most
  BY <1>1 DEF Policy
<1>3. Seen' /\ Replaced'
  BY <1>2, SeenStep, ReplacedStep
<1>u. Active(kids) \in SUBSET Starts /\ Active(kids') \in SUBSET Starts /\ Active(rec.kids) \in SUBSET Starts
  BY DEF Active, InState
<1>s. spec' = spec
  BY UndisturbedFacts, EndingFacts, ContinuingFacts, FoundFacts, StepKinds DEF UpdateStatus
<1>m. Most \in Nat
  BY DEF Most
<1>4. Cardinality(Active(kids')) <= Most
  <2>1. CASE CreateSearch
    <3>1. /\ Active(kids') = Active(kids) \cup {rec.target} /\ rec.target \in Starts
          /\ rec.pc = "create"
      BY <2>1, Creation
    <3>2. Active(kids) \subseteq Active(rec.kids)
      BY <1>2, <3>1, RunningIsSeen
    <3>3. Cardinality(Active(rec.kids)) <= MaxActive /\ ~Blocked(Active(rec.kids))
      BY <3>1 DEF Control, Scheduling, Running
    <3>4. CASE spec.policy = "Allow"
      <4>1. Cardinality(Active(kids')) <= Cardinality(Active(rec.kids)) + 1
        <5>1. Active(kids') \subseteq Active(rec.kids) \cup {rec.target}
          BY <3>1, <3>2
        <5> QED BY <1>u, <3>1, <5>1, Counting
      <4>2. Cardinality(Active(kids')) \in Nat /\ Cardinality(Active(rec.kids)) \in Nat
        BY <1>u, Counting
      <4> QED BY <3>3, <3>4, <4>1, <4>2 DEF Most
    <3>5. CASE spec.policy # "Allow"
      <4>1. spec.policy \in {"Forbid", "Replace"}
        BY <3>5 DEF TypeOK
      <4>2. Active(kids) = {}
        BY <1>2, <3>1, <3>2, <3>3, <4>1 DEF Blocked, Replaced
      <4>3. Active(kids') = {rec.target}
        BY <3>1, <4>2
      <4>4. Cardinality({rec.target}) = 1
        BY FS_Singleton
      <4> QED BY <3>5, <4>3, <4>4 DEF Most
    <3> QED BY <3>4, <3>5
  <2>2. CASE ~CreateSearch
    <3>1. Active(kids') \subseteq Active(kids)
      BY <2>2, Fewer
    <3>2. /\ Cardinality(Active(kids')) <= Cardinality(Active(kids))
          /\ Cardinality(Active(kids')) \in Nat /\ Cardinality(Active(kids)) \in Nat
      BY <1>u, <3>1, Counting
    <3> QED BY <1>2, <1>m, <3>2
  <2> QED BY <2>1, <2>2
<1>5. (Cardinality(Active(kids)) <= Most)'
  BY <1>4, <1>s DEF Most, Active, InState
<1> QED BY <1>3, <1>5

-----------------------------------------------------------------------------
(* The wake-ups. *)

\* EarliestTime, as an operator of the clock.
LooksBack(n, last) ==
  LET seen == IF last = Nil THEN 0 ELSE last
  IN  IF spec.deadline # Nil /\ n - spec.deadline > seen THEN n - spec.deadline ELSE seen

\* It never goes back.
LEMMA Advancing ==
  ASSUME TypeOK, NEW last \in Starts \cup {Nil}, NEW m \in Nat, NEW n \in Nat, m <= n
  PROVE  /\ LooksBack(m, last) \in Nat /\ LooksBack(n, last) \in Nat
         /\ LooksBack(m, last) <= LooksBack(n, last)
<1>1. spec.deadline \in Nat \cup {Nil}
  BY DEF TypeOK
<1>2. last # Nil => last \in Nat
  BY StartsFacts
<1> QED BY <1>1, <1>2 DEF LooksBack, Nil

\* A start that has been looked back beyond once is so for good.
LEMMA PastStays ==
  ASSUME TypeOK, [Step]_vars, NEW last \in Starts \cup {Nil}, NEW t \in Starts,
         t <= LooksBack(now, last)
  PROVE  t <= LooksBack(now', last)
<1>1. now \in Nat /\ now' \in Nat /\ now <= now' /\ t \in Nat
  <2>1. now \in Nat /\ t \in Nat
    BY StartsFacts DEF TypeOK, Time
  <2>2. now' = now \/ (now' \in Nat /\ now <= now')
    BY UndisturbedFacts, EndingFacts, ContinuingFacts, FoundFacts, StepKinds DEF UpdateStatus
  <2> QED BY <2>1, <2>2
<1> QED BY <1>1, Advancing

\* A request that is ready stays so, and an error queues one that is.
LEMMA ReadyFacts ==
  ASSUME TypeOK, now' = now, due' = Earliest(due, now)
  PROVE  Ready'
<1>1. due \in Nat \cup {Nil} /\ now \in Nat
  BY DEF TypeOK, Time
<1>2. Earliest(due, now) \in Nat /\ Earliest(due, now) <= now
  BY <1>1, EarliestFacts
<1> QED BY <1>2 DEF Ready, Nil

\* Every step keeps InStep.
LEMMA InStepStep == TypeOK /\ Versions /\ InStep /\ [Step]_vars => InStep'
<1> SUFFICES ASSUME TypeOK, Versions, InStep, [Step]_vars, rec'.pc # "idle" PROVE InStep'
  BY DEF InStep
<1>t. /\ cs \in CronSearch /\ csCache \in CronSearch /\ due \in Nat \cup {Nil} /\ now \in Nat
  BY DEF TypeOK, Time
<1>v. cs.ver \in Nat /\ csCache.ver \in Nat
  BY <1>t, CronFields
<1>1. CASE Undisturbed
  <2>1. rec' = rec /\ now' \in Nat /\ now <= now'
    BY <1>1, UndisturbedFacts
  <2>2. CASE SyncCronSearch \/ SyncSearches
    <3>1. Ready'
      BY <2>2, ReadyFacts DEF SyncCronSearch, SyncSearches
    <3> QED BY <3>1 DEF InStep, Ready
  <2>3. CASE UNCHANGED <<cs, csCache, kidsCache, due>>
    BY <1>t, <2>1, <2>3 DEF InStep
  <2>4. CASE Suspend
    <3>1. /\ cs'.ver = cs.ver + 1 /\ UNCHANGED <<csCache, kidsCache, due, now>>
          /\ cs.life = "Live"
      BY <2>4, <1>t DEF Suspend, CronSearch, caches
    <3>2. rec.cs = csCache => csCache.ver <= cs.ver
      BY <2>1, <3>1 DEF Versions, Older
    <3> QED BY <1>v, <2>1, <3>1, <3>2 DEF InStep
  <2>5. CASE UserDeletes
    <3>1. cs'.life = "None" /\ UNCHANGED <<csCache, kidsCache, due, now>>
      BY <2>5 DEF UserDeletes, NoCronSearch, caches
    <3> QED BY <2>1, <3>1 DEF InStep
  <2> QED BY <1>1, <2>2, <2>3, <2>4, <2>5
        DEF Undisturbed, Tick, SearchStep, GarbageCollect, vars, objects, caches
<1>2. CASE Ending
  BY <1>2, EndingFacts
<1>3. CASE Continuing
  BY <1>3, ContinuingFacts DEF InStep
<1>4. CASE ReconcileFound
  BY <1>4, FoundFacts DEF InStep
<1>5. CASE UpdateStatus
  <2>1. rec.pc = "status" /\ UNCHANGED <<csCache, kidsCache, now>>
    BY <1>5 DEF UpdateStatus, caches
  <2>2. /\ rec'.pc = "prune" /\ rec'.cs = cs' /\ rec'.kids = rec.kids /\ UNCHANGED due
        /\ rec.cs = cs /\ (cs' = cs \/ cs'.ver = cs.ver + 1)
    BY <1>5, Written
  <2> QED BY <1>v, <2>1, <2>2 DEF InStep
<1> QED BY <1>1, <1>2, <1>3, <1>4, <1>5, StepKinds

\* Every step keeps Ahead.
LEMMA AheadStep == TypeOK /\ Versions /\ Control /\ Ahead /\ [Step]_vars => Ahead'
<1> SUFFICES ASSUME TypeOK, Versions, Control, Ahead, [Step]_vars, rec'.pc = "decide" PROVE Ahead'
  BY DEF Ahead
<1>t. rec \in Rec /\ now \in Nat /\ rec.cs.last \in Starts \cup {Nil}
  <2>1. rec \in Rec /\ now \in Nat
    BY DEF TypeOK, Time
  <2>2. rec.cs \in CronSearch
    BY <2>1, RecFields
  <2> QED BY <2>1, <2>2, CronFields
<1>1. CASE Undisturbed
  <2>1. rec' = rec /\ spec' = spec
    BY <1>1, UndisturbedFacts
  <2>2. /\ EarliestTime(rec.cs.last) = LooksBack(now, rec.cs.last)
        /\ EarliestTime(rec.cs.last)' = LooksBack(now', rec.cs.last)
    BY <2>1 DEF EarliestTime, LooksBack
  <2>3. \A t \in Starts : t <= LooksBack(now, rec.cs.last) => t <= LooksBack(now', rec.cs.last)
    BY <1>t, PastStays
  <2> QED BY <2>1, <2>2, <2>3 DEF Ahead
<1>2. CASE GetNextSchedule
  <2>1. /\ rec'.delay = Next(now) /\ rec'.target = MissedRun(rec.cs.last) /\ rec'.cs = rec.cs
        /\ UNCHANGED <<now, spec>>
    BY <1>2, <1>t DEF GetNextSchedule, Rec
  <2>2. ASSUME NEW t \in Starts
        PROVE  \/ t <= EarliestTime(rec.cs.last) \/ t >= Next(now)
               \/ MissedRun(rec.cs.last) # Nil /\ t <= MissedRun(rec.cs.last)
    <3>1. t \in Nat /\ EarliestTime(rec.cs.last) \in Nat
      BY <1>t, StartsFacts, EarliestTimeFacts
    <3>2. CASE t > now
      BY <1>t, <3>2, NextFacts
    <3>3. CASE t <= now /\ EarliestTime(rec.cs.last) < t
      <4>1. t \in MissedStarts(rec.cs.last)
        BY <3>3 DEF MissedStarts
      <4> QED BY <4>1, MissedTypes
    <3> QED BY <1>t, <3>1, <3>2, <3>3
  <2>3. EarliestTime(rec.cs.last)' = EarliestTime(rec.cs.last)
    BY <2>1 DEF EarliestTime
  <2> QED BY <2>1, <2>2, <2>3 DEF Ahead
<1>3. CASE Ending
  BY <1>3, EndingFacts
<1>4. CASE PruneHistory \/ RunMissed \/ ReplaceActive
  BY <1>4, <1>t, Ended DEF PruneHistory, RunMissed, ReplaceActive, ReplyLost, Rec
<1>5. CASE ReconcileFound
  BY <1>5, FoundFacts
<1>6. CASE UpdateStatus
  BY <1>6, Written
<1> QED BY <1>1, <1>2, <1>3, <1>4, <1>5, <1>6, StepKinds DEF Continuing

\* Starting and finishing, a Search does not go away.
LEMMA StepKeepsSearches == TypeOK /\ SearchStep => Existing(kids') = Existing(kids)
<1> SUFFICES ASSUME TypeOK, SearchStep PROVE Existing(kids') = Existing(kids)
  OBVIOUS
<1>1. kids \in [Starts -> Search]
  BY DEF TypeOK
<1>2. PICK u \in InState(kids, "active") :
          \/ kids' = [kids EXCEPT ![u].start = now]
          \/ \E s \in {"ok", "failed"} : kids' = [kids EXCEPT ![u].state = s]
  BY DEF SearchStep
<1>3. u \in Starts /\ kids[u].state = "active" /\ kids[u] \in Search
  BY <1>1 DEF InState
<1>4. /\ [kids[u] EXCEPT !.start = now].state = "active"
      /\ \A s \in {"ok", "failed"} : [kids[u] EXCEPT !.state = s].state = s
  BY <1>3 DEF Search, NoSearch, NewSearch
<1>5. \A t \in Starts : kids'[t].state # "none" <=> kids[t].state # "none"
  BY <1>1, <1>2, <1>3, <1>4
<1> QED BY <1>5 DEF Existing

\* While it sleeps, the steps beside the reconcile keep Resting.
LEMMA RestingUndisturbed ==
  ASSUME TypeOK, Versions, Resting, [Step]_vars, Undisturbed
  PROVE  Resting'
<1> SUFFICES ASSUME rec'.pc = "idle", ~Ready', cs'.life = "Live"
             PROVE  Outstanding' \/ SettledCache'
  BY DEF Resting
<1>t. /\ cs \in CronSearch /\ csCache \in CronSearch /\ due \in Nat \cup {Nil} /\ now \in Nat
  BY DEF TypeOK, Time
<1>v. /\ cs.ver \in Nat /\ csCache.ver \in Nat /\ csCache.life \in {"Live", "None"}
      /\ csCache.last \in Starts \cup {Nil}
  BY <1>t, CronFields
<1>u. rec' = rec /\ spec' = spec /\ now' \in Nat /\ now <= now' /\ UNCHANGED history
  BY UndisturbedFacts
<1>1. CASE SyncCronSearch \/ SyncSearches
  BY <1>1, ReadyFacts DEF SyncCronSearch, SyncSearches
<1>2. CASE UNCHANGED <<cs, csCache, kidsCache, due>> /\ Existing(kids') = Existing(kids)
  <2>1. ~Ready
    BY <1>t, <1>u, <1>2 DEF Ready
  <2>2. Outstanding \/ SettledCache
    BY <1>u, <1>2, <2>1 DEF Resting
  <2>3. CASE Outstanding
    BY <1>2, <2>3 DEF Outstanding, Existing
  <2>4. CASE SettledCache
    <3>1. /\ EarliestTime(csCache.last) = LooksBack(now, csCache.last)
          /\ EarliestTime(csCache.last)' = LooksBack(now', csCache.last)
      BY <1>u, <1>2 DEF EarliestTime, LooksBack
    <3>2. \A t \in Starts : t <= LooksBack(now, csCache.last) => t <= LooksBack(now', csCache.last)
      BY <1>v, PastStays
    <3> QED BY <1>u, <1>2, <2>4, <3>1, <3>2
          DEF SettledCache, LastScheduleTime, Existing, Active, InState, Blocked, history
  <2> QED BY <2>2, <2>3, <2>4
<1>3. CASE Suspend
  <2>1. cs'.ver = cs.ver + 1 /\ UNCHANGED csCache /\ cs.life = "Live"
    BY <1>3, <1>t DEF Suspend, CronSearch, caches
  <2>2. csCache.life = "Live" => csCache.ver <= cs.ver
    BY <2>1 DEF Versions, Older
  <2> QED BY <1>v, <2>1, <2>2 DEF Outstanding
<1>4. CASE UserDeletes
  BY <1>4 DEF UserDeletes, NoCronSearch
<1>5. CASE SearchStep
  BY <1>2, <1>5, StepKeepsSearches DEF SearchStep, caches
<1>6. CASE GarbageCollect
  BY <1>6 DEF GarbageCollect
<1>7. CASE Tick \/ UNCHANGED vars
  BY <1>2, <1>7 DEF Tick, vars, objects, caches, Existing
<1> QED BY <1>1, <1>3, <1>4, <1>5, <1>6, <1>7 DEF Undisturbed

\* A reconcile that has got past its status update goes by an up-to-date one, or
\* the watch has yet to tell.
LEMMA CurrentStatus ==
  ASSUME InStep, Control, Scheduling, due = Nil, cs.life = "Live"
  PROVE  /\ kidsCache = rec.kids
         /\ \/ csCache.ver < cs.ver
            \/ /\ csCache = rec.cs /\ csCache.last = LastScheduleTime(kidsCache)
               /\ csCache.active = Active(kidsCache)
<1>1. rec.pc # "idle"
  BY DEF Scheduling
<1> QED BY <1>1 DEF InStep, Control

\* Every step keeps Resting.
LEMMA RestingStep == TypeOK /\ Versions /\ Control /\ Woken /\ [Step]_vars => Resting'
<1> SUFFICES ASSUME TypeOK, Versions, Control, Woken, [Step]_vars,
                    rec'.pc = "idle", ~Ready', cs'.life = "Live"
             PROVE  Outstanding' \/ SettledCache'
  BY DEF Resting
<1>w. InStep /\ Ahead /\ Resting
  BY DEF Woken
<1>t. /\ due \in Nat \cup {Nil} /\ now \in Nat /\ rec \in Rec /\ csCache \in CronSearch
      /\ rec.delay \in Int /\ rec.cs.last \in Starts \cup {Nil}
      /\ rec.target # Nil => rec.target \in Nat
  <2>1. due \in Nat \cup {Nil} /\ now \in Nat /\ rec \in Rec /\ csCache \in CronSearch
    BY DEF TypeOK, Time
  <2>2. rec.delay \in Int /\ rec.cs \in CronSearch /\ rec.target \in Starts \cup {Nil}
    BY <2>1, RecFields
  <2> QED BY <2>1, <2>2, CronFields, StartsFacts
<1>1. CASE Undisturbed
  BY <1>1, <1>w, RestingUndisturbed DEF Resting
<1>2. CASE ReconcileNotFound
  BY <1>2 DEF ReconcileNotFound, Take, caches, Outstanding
<1>3. CASE StatusRefused
  BY <1>3, ReadyFacts DEF StatusRefused, ReturnError
<1>4. CASE GiveUp
  <2>1. /\ rec.pc = "schedule" /\ UNCHANGED <<cs, csCache, kids, kidsCache, due, now, spec>>
        /\ gaveUp' = ~rec.cs.suspend
    BY <1>4 DEF GiveUp, Return, Suspended, objects, caches
  <2>2. due = Nil /\ Scheduling /\ cs.life = "Live"
    BY <1>w, <2>1 DEF InStep, Ready, Scheduling
  <2>3. CASE csCache.ver < cs.ver
    BY <2>1, <2>3 DEF Outstanding
  <2>4. CASE /\ csCache = rec.cs /\ csCache.last = LastScheduleTime(kidsCache)
             /\ csCache.active = Active(kidsCache)
    BY <2>1, <2>4 DEF SettledCache, LastScheduleTime, Existing, Active, InState
  <2> QED BY <1>w, <2>2, <2>3, <2>4, CurrentStatus
<1>5. CASE SleepUntilNext
  <2>1. /\ rec.pc = "decide" /\ UNCHANGED <<cs, csCache, kids, kidsCache, now, spec>>
        /\ NothingToRun /\ ScheduledResult(Delay) /\ Delay \in Int /\ Delay = rec.delay - now
    BY <1>5, <1>t DEF SleepUntilNext, objects, caches, Delay
  <2>2. due = Nil
    <3>1. ASSUME due # Nil PROVE FALSE
      <4>1. due <= now
        BY <1>w, <2>1, <3>1 DEF InStep
      <4>2. Delay > 0 => /\ Earliest(due, now + Delay) <= due
                         /\ Earliest(due, now + Delay) \in Nat
        <5>1. Delay > 0 => now + Delay \in Nat
          BY <1>t, <2>1
        <5> QED BY <1>t, <3>1, <5>1, EarliestFacts
      <4>3. due' \in Nat /\ due' <= now
        BY <1>t, <2>1, <3>1, <4>1, <4>2 DEF ScheduledResult
      <4> QED BY <2>1, <4>3 DEF Ready, Nil
    <3> QED BY <3>1
  <2>3. Scheduling /\ cs.life = "Live"
    BY <2>1 DEF Scheduling
  <2>4. CASE csCache.ver < cs.ver
    BY <2>1, <2>4 DEF Outstanding
  <2>5. CASE /\ csCache = rec.cs /\ csCache.last = LastScheduleTime(kidsCache)
             /\ csCache.active = Active(kidsCache) /\ kidsCache = rec.kids
    <3>1. CASE Delay <= 0
      BY <2>1, <2>5, <3>1
         DEF SettledCache, LastScheduleTime, Existing, Active, InState, ScheduledResult
    <3>2. CASE Blocked(InState(rec.kids, "active"))
      BY <2>1, <2>5, <3>2
         DEF SettledCache, LastScheduleTime, Existing, Active, InState, Blocked
    <3>3. CASE Delay > 0 /\ (rec.target = Nil \/ TooLate(rec.target))
      <4>1. due' = rec.delay /\ due' # Nil
        <5>1. now + Delay = rec.delay /\ now + Delay \in Nat
          BY <1>t, <2>1, <3>3
        <5> QED BY <2>1, <2>2, <3>3, <5>1 DEF ScheduledResult, Earliest, Nil
      <4>2. \A t \in Starts : t <= EarliestTime(rec.cs.last) \/ t >= rec.delay
        <5>1. rec.target # Nil => rec.target <= EarliestTime(rec.cs.last)
          BY <1>t, <3>3, EarliestTimeFacts
        <5>2. EarliestTime(rec.cs.last) \in Nat
          BY <1>t, EarliestTimeFacts
        <5> QED BY <1>t, <1>w, <2>1, <5>1, <5>2, StartsFacts DEF Ahead
      <4>3. EarliestTime(csCache.last)' = EarliestTime(rec.cs.last)
        BY <2>1, <2>5 DEF EarliestTime
      <4> QED BY <2>1, <2>5, <4>1, <4>2, <4>3
            DEF SettledCache, LastScheduleTime, Existing, Active, InState
    <3> QED BY <2>1, <3>1, <3>2, <3>3 DEF NothingToRun
  <2> QED BY <1>w, <2>2, <2>3, <2>4, <2>5, CurrentStatus
<1>6. CASE CreateSearch
  <2>1. /\ rec.target \in Starts /\ rec.pc = "create" /\ rec.target \notin Existing(rec.kids)
        /\ Existing(kids') = Existing(kids) \cup {rec.target} /\ UNCHANGED <<cs, kidsCache, now>>
    BY <1>6, Creation
  <2>2. CASE ReplyLost
    BY <2>1, <2>2, ReadyFacts DEF ReplyLost, ReturnError
  <2>3. CASE ScheduledResult(rec.delay)
    <3>1. ASSUME due # Nil PROVE FALSE
      <4>1. due <= now
        BY <1>w, <2>1, <3>1 DEF InStep
      <4>2. rec.delay > 0 => /\ Earliest(due, now + rec.delay) <= due
                             /\ Earliest(due, now + rec.delay) \in Nat
        BY <1>t, <3>1, EarliestFacts
      <4>3. due' \in Nat /\ due' <= now
        BY <1>t, <2>3, <3>1, <4>1, <4>2 DEF ScheduledResult
      <4> QED BY <2>1, <4>3 DEF Ready, Nil
    <3>2. kidsCache = rec.kids
      BY <1>w, <2>1, <3>1 DEF InStep
    <3>3. ~(Existing(kids') \subseteq Existing(kidsCache'))
      BY <2>1, <3>2
    <3> QED BY <3>3 DEF Outstanding, Existing
  <2> QED BY <1>6, <2>2, <2>3 DEF CreateSearch
<1>7. CASE CreateRefused
  BY <1>7, ReadyFacts DEF CreateRefused, ReturnError
<1>8. CASE Restart
  BY <1>8, <1>t DEF Restart, objects, Ready, Nil
<1>9. CASE Continuing
  BY <1>9, ContinuingFacts, ReadyFacts
<1>10. CASE ReconcileFound
  BY <1>10, FoundFacts
<1>11. CASE UpdateStatus
  BY <1>11, Written, ReadyFacts DEF UpdateStatus
<1> QED
  BY <1>1, <1>2, <1>3, <1>4, <1>5, <1>6, <1>7, <1>8, <1>9, <1>10, <1>11, StepKinds DEF Ending

-----------------------------------------------------------------------------
(* No start is run twice. *)

\* Spec fields successfulJobsHistoryLimit and failedJobsHistoryLimit are not 0.
LimitsAboveZero == SuccessfulJobsHistoryLimit # 0 /\ FailedJobsHistoryLimit # 0

\* The clock never goes back, and the spec does not change.
LEMMA ClockFacts ==
  ASSUME TypeOK, [Step]_vars
  PROVE  now \in Nat /\ now' \in Nat /\ now <= now' /\ spec' = spec
<1>1. now \in Nat
  BY DEF TypeOK, Time
<1>2. spec' = spec /\ (now' = now \/ (now' \in Nat /\ now <= now'))
  BY UndisturbedFacts, EndingFacts, ContinuingFacts, FoundFacts, StepKinds DEF UpdateStatus
<1> QED BY <1>1, <1>2

\* Which starts were run is recorded by CreateSearch only.
LEMMA RecordSteps ==
  ASSUME TypeOK, [Step]_vars, ~CreateSearch
  PROVE  UNCHANGED <<begun, rerun>>
<1>1. CASE Undisturbed
  BY <1>1, UndisturbedFacts DEF history
<1>2. CASE Ending
  BY <1>2 DEF Ending, ReconcileNotFound, Take, StatusRefused, GiveUp, SleepUntilNext,
         CreateRefused, Restart, history
<1>3. CASE Continuing
  BY <1>3, ContinuingFacts DEF history
<1>4. CASE ReconcileFound
  BY <1>4, FoundFacts
<1>5. CASE UpdateStatus
  BY <1>5 DEF UpdateStatus, history
<1> QED BY <1>1, <1>2, <1>3, <1>4, <1>5, StepKinds

\* A deleted CronSearch does not come back.
LEMMA LifeSteps ==
  ASSUME TypeOK, Versions, [Step]_vars, cs'.life = "Live"
  PROVE  cs.life = "Live"
<1>1. CASE Undisturbed
  <2>1. cs' = cs \/ cs.life = "Live"
    BY <1>1 DEF Undisturbed, SyncCronSearch, SyncSearches, Tick, Suspend, UserDeletes,
         SearchStep, GarbageCollect, vars, objects
  <2> QED BY <2>1
<1>2. CASE Ending
  BY <1>2, EndingFacts
<1>3. CASE Continuing
  BY <1>3, ContinuingFacts
<1>4. CASE ReconcileFound
  BY <1>4, FoundFacts
<1>5. CASE UpdateStatus
  BY <1>5, Written
<1> QED BY <1>1, <1>2, <1>3, <1>4, <1>5, StepKinds

\* A time that comes later only makes more starts past, and a list with more
\* Searches only leaves more traces.
LEMMA Later ==
  ASSUME NEW ks \in [Starts -> Search], NEW m \in Nat, NEW n \in Nat, m <= n
  PROVE  /\ Ordered(ks, m) => Ordered(ks, n)
         /\ \A b \in Starts, ls \in [Starts -> Search] :
              Existing(ks) \subseteq Existing(ls) /\ Covered(b, ks, m) => Covered(b, ls, n)
<1>1. ASSUME Ordered(ks, m) PROVE Ordered(ks, n)
  <2>1. ASSUME NEW k \in Existing(ks), Finished(ks[k]) PROVE ks[k].start < n
    <3>1. ks[k].start < m /\ ks[k] \in Search
      BY <1>1, <2>1 DEF Ordered, Existing
    <3>2. ks[k].start \in Int
      BY <3>1, SearchFields
    <3> QED BY <3>1, <3>2
  <2> QED BY <1>1, <2>1 DEF Ordered
<1>2. ASSUME NEW b \in Starts, NEW ls \in [Starts -> Search],
             Existing(ks) \subseteq Existing(ls), Covered(b, ks, m)
      PROVE  Covered(b, ls, n)
  <2>1. CASE \E e \in Existing(ks) : b <= e
    BY <1>2, <2>1 DEF Covered
  <2>2. ASSUME NEW s \in Starts, b < s, s <= m PROVE Covered(b, ls, n)
    <3>1. s \in Nat
      BY StartsFacts
    <3>2. s <= n
      BY <2>2, <3>1
    <3> QED BY <2>2, <3>2 DEF Covered
  <2> QED BY <1>2, <2>1, <2>2 DEF Covered
<1> QED BY <1>1, <1>2

\* The larger of two numbers.
LEMMA MaxOfTwo ==
  ASSUME NEW x \in Int
  PROVE  Max({0, x}) = IF x > 0 THEN x ELSE 0
<1>1. \E z \in {0, x} : \A y \in {0, x} : z >= y
  OBVIOUS
<1>2. Max({0, x}) \in {0, x} /\ \A y \in {0, x} : Max({0, x}) >= y
  BY <1>1 DEF Max
<1> QED BY <1>2

\* With a limit above 0, what is deleted is older than one that is kept.
LEMMA ExcessIsOld ==
  ASSUME NEW ks \in [Starts -> Search], NEW time, Ordered(ks, time),
         NEW st \in {"ok", "failed"}, NEW limit \in Nat \cup {Nil}, limit # 0,
         NEW D \in Excess(ks, st, limit), NEW t \in D
  PROVE  \E k \in Existing(ks) : t < k
<1> DEFINE finished == InState(ks, st)
<1>1. limit # Nil
  BY DEF Excess
<1>2. /\ D \in SUBSET finished /\ Cardinality(D) = Max({0, Cardinality(finished) - limit})
      /\ \A d \in D, k \in finished \ D : Oldest(ks, d, k)
  BY <1>1 DEF Excess
<1>3. finished \in SUBSET Starts /\ IsFiniteSet(finished) /\ IsFiniteSet(D)
  BY <1>2, StartsFacts, FS_Subset DEF InState
<1>4. Cardinality(finished) \in Nat /\ Cardinality(D) \in Nat /\ Cardinality(D) # 0
  BY <1>3, FS_CardinalityType, FS_EmptySet
<1>5. Cardinality(finished) - limit \in Int /\ limit \in Nat \ {0}
  BY <1>1, <1>4
<1>6. Cardinality(D) < Cardinality(finished)
  <2>1. Cardinality(D) = Cardinality(finished) - limit
    BY <1>2, <1>4, <1>5, MaxOfTwo
  <2> QED BY <1>4, <1>5, <2>1
<1>7. PICK k \in finished : k \notin D
  BY <1>2, <1>4, <1>6
<1>8. Oldest(ks, t, k) /\ t # k /\ t \in finished
  BY <1>2, <1>7
<1>9. /\ t \in Existing(ks) /\ k \in Existing(ks) /\ t \in Nat /\ k \in Nat
      /\ Finished(ks[t]) /\ ks[t] \in Search /\ ks[k] \in Search
  BY <1>3, <1>7, <1>8, StartsFacts DEF InState, Existing, Finished
<1>10. ks[t].start \in Nat /\ ks[k].start \in Int
  BY <1>9, SearchFields
<1>11. ~(k < t)
  BY <1>8, <1>9, <1>10 DEF Ordered, Oldest, Nil
<1> QED BY <1>8, <1>9, <1>11

\* When Forbid or Replace let a Search be created, none runs.
LEMMA NoneRuns ==
  ASSUME TypeOK, Control, Seen, Replaced, rec.pc = "create", spec.policy # "Allow"
  PROVE  Active(kids) = {}
<1>1. spec.policy \in {"Forbid", "Replace"}
  BY DEF TypeOK
<1>2. Active(kids) \subseteq Active(rec.kids)
  BY RunningIsSeen
<1>3. ~Blocked(Active(rec.kids))
  BY DEF Control, Running
<1> QED BY <1>1, <1>2, <1>3 DEF Blocked, Replaced

\* The Searches stay in order, and are recorded.
LEMMA KidsRecorded ==
  ASSUME TypeOK, Control, [Step]_vars, Seen, Replaced, spec.policy # "Allow", Recorded(kids)
  PROVE  Existing(kids') \subseteq begun' /\ Ordered(kids', now')
<1>c. now \in Nat /\ now' \in Nat /\ now <= now'
  BY ClockFacts
<1>t. kids \in [Starts -> Search] /\ Existing(kids) \in SUBSET Starts
  BY ListTypes DEF TypeOK
<1>f. \A t \in Starts : /\ kids[t].start \in Int /\ (Finished(kids[t]) => kids[t].start \in Nat)
                        /\ Finished(kids[t]) \/ kids[t].state \in {"active", "none"}
  BY <1>t, SearchFields
<1>o. Existing(kids) \subseteq begun /\ Ordered(kids, now)
  BY DEF Recorded
<1>1. CASE CreateSearch
  <2>1. /\ rec.target \in Starts /\ kids'[rec.target] = NewSearch /\ rec.pc = "create"
        /\ \A t \in Starts : t # rec.target => kids'[t] = kids[t]
        /\ Existing(kids') = Existing(kids) \cup {rec.target}
        /\ begun' = begun \cup {rec.target} /\ now' = now
    BY <1>1, Creation
  <2>2. \A t \in Existing(kids) : t < rec.target /\ t # rec.target /\ t \in Nat /\ rec.target \in Nat
    <3>1. Targeting
      BY <2>1 DEF Control, Running, Targeting
    <3>2. Existing(kids) \subseteq Existing(rec.kids)
      BY <2>1 DEF Seen
    <3>3. \A t \in Existing(rec.kids) : t < rec.target
      BY <3>1 DEF Control
    <3>4. rec.target \in Nat /\ \A t \in Existing(kids) : t \in Nat
      BY <1>t, <2>1, StartsFacts
    <3> QED BY <3>2, <3>3, <3>4
  <2>3. \A t \in Existing(kids) : Finished(kids[t])
    <3>1. Active(kids) = {}
      BY <2>1, NoneRuns
    <3> QED BY <1>f, <3>1 DEF Active, InState, Existing
  <2>4. \A t \in Existing(kids) : kids'[t] = kids[t]
    BY <1>t, <2>1, <2>2
  <2>5. ~Finished(NewSearch) /\ NewSearch.start = Nil
    BY DEF NewSearch, Finished
  <2>6. ASSUME NEW k \in Existing(kids'), NEW m \in Existing(kids'), k < m
        PROVE  Finished(kids'[k]) /\ (kids'[m].start # Nil => kids'[k].start < kids'[m].start)
    <3>1. k \in Existing(kids)
      <4>1. CASE k = rec.target
        <5>1. rec.target \in Nat
          BY <2>1, StartsFacts
        <5>2. m \in Existing(kids)
          BY <2>1, <2>6, <4>1, <5>1
        <5>3. m \in Nat /\ m < rec.target
          BY <2>2, <5>2
        <5> QED BY <2>6, <4>1, <5>1, <5>3
      <4> QED BY <2>1, <4>1
    <3>2. CASE m = rec.target
      BY <2>1, <2>3, <2>4, <2>5, <3>1, <3>2
    <3>3. CASE m \in Existing(kids)
      BY <1>o, <2>4, <2>6, <3>1, <3>3 DEF Ordered
    <3> QED BY <2>1, <3>2, <3>3
  <2>7. \A k \in Existing(kids') : Finished(kids'[k]) => kids'[k].start < now'
    BY <1>o, <2>1, <2>4, <2>5 DEF Ordered
  <2> QED BY <1>o, <2>1, <2>6, <2>7 DEF Ordered
<1>2. CASE ~CreateSearch
  <2>1. Existing(kids') \subseteq Existing(kids) /\ begun' = begun
    BY <1>2, Fewer, RecordSteps
  <2>2. ASSUME NEW t \in Existing(kids')
        PROVE  /\ t \in Existing(kids) /\ t \in Starts
               /\ Finished(kids[t]) => kids'[t] = kids[t]
               /\ Finished(kids'[t]) => /\ kids'[t].start = kids[t].start /\ kids'[t].start < now
                                        /\ kids'[t].start \in Nat
               /\ \/ kids'[t].start = kids[t].start
                  \/ kids'[t].start = now
    <3>1. t \in Existing(kids) /\ t \in Starts /\ kids'[t] # NoSearch
      BY <1>t, <2>1 DEF Existing, NoSearch
    <3>2. \/ kids'[t] = kids[t]
          \/ kids[t].state = "active" /\ kids'[t].state = "active" /\ kids'[t].start = now
          \/ /\ kids[t].state = "active" /\ Finished(kids'[t])
             /\ kids'[t].start = kids[t].start /\ kids[t].start < now
      BY <1>2, <3>1, Shrinking
    <3>3. Finished(kids'[t]) => kids'[t].start \in Nat
      <4>1. kids'[t] \in Search
        BY <3>1, TypeStep DEF TypeOK
      <4> QED BY <4>1, SearchFields
    <3> QED BY <1>o, <3>1, <3>2, <3>3 DEF Finished, Ordered
  <2>3. ASSUME NEW k \in Existing(kids'), NEW m \in Existing(kids'), k < m
        PROVE  Finished(kids'[k]) /\ (kids'[m].start # Nil => kids'[k].start < kids'[m].start)
    <3>1. /\ k \in Existing(kids) /\ m \in Existing(kids)
          /\ Finished(kids[k]) /\ (kids[m].start # Nil => kids[k].start < kids[m].start)
          /\ kids[k].start < now
      BY <1>o, <2>2, <2>3 DEF Ordered
    <3>2. kids'[k] = kids[k] /\ (kids'[m].start = kids[m].start \/ kids'[m].start = now)
      BY <2>2, <3>1
    <3> QED BY <3>1, <3>2
  <2>4. ASSUME NEW k \in Existing(kids'), Finished(kids'[k]) PROVE kids'[k].start < now'
    <3>1. kids'[k].start \in Nat /\ kids'[k].start < now
      BY <2>2, <2>4
    <3> QED BY <1>c, <3>1
  <2> QED BY <1>o, <2>1, <2>3, <2>4 DEF Ordered
<1> QED BY <1>1, <1>2

\* What was recorded of a list stays recorded.
LEMMA StaysRecorded ==
  ASSUME TypeOK, Control, [Step]_vars, NEW ks \in [Starts -> Search], Recorded(ks)
  PROVE  Existing(ks) \subseteq begun' /\ Ordered(ks, now')
<1>1. begun \subseteq begun'
  BY Creation, RecordSteps
<1>2. now \in Nat /\ now' \in Nat /\ now <= now'
  BY ClockFacts
<1> QED BY <1>1, <1>2, Later DEF Recorded

\* Every step keeps Lists.
LEMMA ListsStep ==
  ASSUME TypeOK, Versions, Control, [Step]_vars, Seen, Replaced, spec.policy # "Allow", Lists
  PROVE  Lists'
<1>t. kidsCache \in [Starts -> Search] /\ rec.kids \in [Starts -> Search]
  BY RecFields DEF TypeOK
<1>1. Existing(kids') \subseteq begun' /\ Ordered(kids', now')
  BY KidsRecorded DEF Lists
<1>2. Existing(kidsCache) \subseteq begun' /\ Ordered(kidsCache, now')
  BY <1>t, StaysRecorded DEF Lists
<1>3. Existing(kidsCache') \subseteq begun' /\ Ordered(kidsCache', now')
  BY <1>1, <1>2, CacheSteps
<1>4. ASSUME rec'.pc # "idle"
      PROVE  Existing(rec'.kids) \subseteq begun' /\ Ordered(rec'.kids, now')
  <2>1. CASE ReconcileFound
    BY <1>2, <2>1, FoundFacts
  <2>2. CASE rec.pc # "idle" /\ rec'.kids = rec.kids
    BY <1>t, <2>2, StaysRecorded DEF Lists
  <2> QED BY <1>4, <2>1, <2>2, ListSteps
<1> QED BY <1>1, <1>3, <1>4 DEF Lists, Recorded, Ordered, Existing, Finished

\* Unless it deletes a CronSearch's Searches, a step leaves every trace.
LEMMA KidsTraced ==
  ASSUME TypeOK, Versions, Control, [Step]_vars, Traces, Spared, cs'.life = "Live"
  PROVE  \A b \in begun' : Covered(b, kids', now')
<1>c. now \in Nat /\ now' \in Nat /\ now <= now'
  BY ClockFacts
<1>t. /\ kids \in [Starts -> Search] /\ begun \in SUBSET Starts /\ rec.todo \in SUBSET Starts
      /\ rec.target \in Starts \cup {Nil}
  BY RecFields DEF TypeOK
<1>u. kids' \in [Starts -> Search]
  BY TypeStep DEF TypeOK
<1>l. cs.life = "Live" /\ \A b \in begun : Covered(b, kids, now)
  BY LifeSteps DEF Traces
<1>n. \A t \in Starts : t \in Nat
  BY StartsFacts
<1>1. CASE CreateSearch
  <2>1. /\ rec.target \in Starts /\ rec.pc = "create" /\ begun' = begun \cup {rec.target}
        /\ rec.target \in Existing(kids')
    BY <1>1, Creation
  <2>2. \A b \in begun : b < rec.target
    BY <2>1, StartsFacts DEF Spared, Targeting
  <2>3. \A b \in begun' : b <= rec.target
    BY <1>n, <1>t, <2>1, <2>2
  <2> QED BY <2>1, <2>3 DEF Covered
<1>2. CASE Existing(kids) \subseteq Existing(kids') /\ ~CreateSearch
  BY <1>2, <1>c, <1>t, <1>u, <1>l, Later, RecordSteps
<1>3. ASSUME NEW t \in rec.todo, rec.pc = "prune", kids' = [kids EXCEPT ![t] = NoSearch],
             now' = now, begun' = begun
      PROVE  \A b \in begun' : Covered(b, kids', now')
  <2>1. \A e \in Existing(kids) : e # t => e \in Existing(kids')
    BY <1>3, <1>t DEF Existing
  <2>2. PICK y \in begun : t < y
    BY <1>3 DEF Spared
  <2>3. t \in Nat /\ y \in Nat
    BY <1>n, <1>t
  <2>4. ASSUME NEW b \in begun PROVE Covered(b, kids', now)
    <3>0. b \in Nat
      BY <1>n, <1>t
    <3>1. CASE b <= t
      <4>1. ASSUME NEW e \in Existing(kids), y <= e PROVE Covered(b, kids', now)
        <5>1. e \in Nat
          BY <1>n DEF Existing
        <5>2. e # t /\ b <= e
          BY <2>2, <2>3, <3>0, <3>1, <4>1, <5>1
        <5> QED BY <2>1, <5>2 DEF Covered
      <4>2. ASSUME NEW s \in Starts, y < s, s <= now PROVE Covered(b, kids', now)
        <5>1. b < s
          BY <1>n, <2>2, <2>3, <3>0, <3>1, <4>2
        <5> QED BY <4>2, <5>1 DEF Covered
      <4> QED BY <1>l, <4>1, <4>2 DEF Covered
    <3>2. CASE ~(b <= t)
      <4>1. ASSUME NEW e \in Existing(kids), b <= e PROVE Covered(b, kids', now)
        BY <2>1, <3>2, <4>1 DEF Covered
      <4> QED BY <1>l, <4>1 DEF Covered
    <3> QED BY <3>1, <3>2
  <2> QED BY <1>3, <2>4
<1>4. ASSUME rec.pc = "replace", now' = now, begun' = begun
      PROVE  \A b \in begun' : Covered(b, kids', now')
  <2>1. Targeting
    BY <1>4 DEF Control, Running, Targeting
  <2>2. rec.target \in Starts /\ rec.target <= now /\ \A b \in begun : b < rec.target
    BY <1>t, <2>1 DEF Control, Spared, Targeting
  <2> QED BY <1>4, <2>2 DEF Covered
<1>5. CASE UNCHANGED kids
  <2>1. Existing(kids) \subseteq Existing(kids')
    BY <1>5
  <2> QED BY <1>1, <1>2, <2>1
<1>6. CASE Undisturbed
  <2>1. CASE SearchStep
    BY <1>1, <1>2, <2>1, StepKeepsSearches
  <2>2. ~GarbageCollect
    BY <1>l DEF GarbageCollect
  <2> QED BY <1>5, <1>6, <2>1, <2>2
        DEF Undisturbed, SyncCronSearch, SyncSearches, Tick, Suspend, UserDeletes, vars, objects
<1>7. CASE Ending
  BY <1>1, <1>5, <1>7 DEF Ending, ReconcileNotFound, Take, StatusRefused, GiveUp, SleepUntilNext,
         CreateRefused, Restart, objects
<1>8. CASE Continuing
  <2>1. now' = now /\ begun' = begun
    BY <1>8, ContinuingFacts DEF history
  <2>2. CASE PruneHistory
    BY <1>3, <1>5, <2>1, <2>2 DEF PruneHistory
  <2>3. CASE ReplaceActive
    BY <1>4, <2>1, <2>3 DEF ReplaceActive
  <2> QED BY <1>5, <1>8, <2>2, <2>3 DEF Continuing, GetNextSchedule, RunMissed, objects
<1>9. CASE ReconcileFound \/ UpdateStatus
  BY <1>5, <1>9, FoundFacts DEF UpdateStatus
<1> QED BY <1>6, <1>7, <1>8, <1>9, StepKinds

\* Every step keeps Traces.
LEMMA TracesStep ==
  ASSUME TypeOK, Versions, Control, [Step]_vars, ~blind', Traces, Spared
  PROVE  Traces'
<1>c. now \in Nat /\ now' \in Nat /\ now <= now'
  BY ClockFacts
<1>t. /\ kids \in [Starts -> Search] /\ begun \in SUBSET Starts /\ rec \in Rec
      /\ kidsCache \in [Starts -> Search] /\ rec.kids \in [Starts -> Search]
  BY RecFields DEF TypeOK
<1>1. cs'.life = "Live" => \A b \in begun' : Covered(b, kids', now')
  BY KidsTraced
<1>2. ASSUME (rec'.pc = "status" /\ cs'.life = "Live") \/ rec'.pc \in {"prune", "schedule"}
      PROVE  \A b \in begun' : Covered(b, rec'.kids, now')
  <2>1. rec'.pc # "idle"
    BY <1>2
  <2>2. ~CreateSearch /\ begun' = begun
    BY <2>1, ListSteps, RecordSteps, Ended DEF CreateSearch, ReplyLost
  <2>3. CASE ReconcileFound
    <3>1. Existing(kids) \subseteq Existing(kidsCache) /\ rec'.kids = kidsCache
      BY <2>3, FoundFacts DEF ReconcileFound
    <3>2. cs.life = "Live"
      BY <1>2, <2>3, LifeSteps, FoundFacts
    <3> QED BY <1>c, <1>t, <2>2, <3>1, <3>2, Later DEF Traces
  <2>4. CASE rec'.kids = rec.kids /\ ~ReconcileFound
    <3>1. (rec.pc = "status" /\ cs.life = "Live") \/ rec.pc \in {"prune", "schedule"}
      <4>1. CASE Undisturbed
        BY <1>2, <4>1, UndisturbedFacts, LifeSteps
      <4>2. CASE Ending
        BY <2>1, <4>2, EndingFacts
      <4>3. CASE UpdateStatus
        BY <4>3, Written DEF UpdateStatus
      <4>4. CASE PruneHistory
        BY <4>4 DEF PruneHistory
      <4>5. CASE GetNextSchedule \/ RunMissed \/ ReplaceActive
        BY <1>2, <1>t, <4>5, Ended DEF GetNextSchedule, RunMissed, ReplaceActive, ReplyLost, Rec
      <4> QED BY <2>4, <4>1, <4>2, <4>3, <4>4, <4>5, StepKinds DEF Continuing
    <3> QED BY <1>c, <1>t, <2>2, <2>4, <3>1, Later DEF Traces
  <2> QED BY <2>1, <2>3, <2>4, ListSteps
<1> QED BY <1>1, <1>2 DEF Traces, Covered, Existing

\* Every step keeps Spared.
LEMMA SparedStep ==
  ASSUME LimitsAboveZero, TypeOK, Versions, Control, [Step]_vars, Lists, Traces, Spared
  PROVE  Spared'
<1>t. rec \in Rec /\ rec.kids \in [Starts -> Search] /\ begun \in SUBSET Starts
  BY RecFields DEF TypeOK
<1>i. ASSUME rec'.pc = "idle" PROVE Spared'
  BY <1>i DEF Spared, Targeting
<1>1. CASE Undisturbed
  BY <1>1, UndisturbedFacts DEF Spared, Targeting, history
<1>2. CASE Ending
  BY <1>2, <1>i, EndingFacts
<1>3. CASE PruneHistory
  <2>1. rec'.pc \in {"prune", "schedule"} /\ rec'.todo \subseteq rec.todo /\ rec.pc = "prune"
    BY <1>3, <1>t DEF PruneHistory, Rec
  <2>2. begun' = begun
    BY <1>3, ContinuingFacts DEF Continuing, history
  <2> QED BY <2>1, <2>2 DEF Spared, Targeting
<1>4. CASE GetNextSchedule
  <2> DEFINE last == LastScheduleTime(rec.kids)
  <2>1. rec.pc = "schedule" /\ rec.cs.last = last /\ rec'.pc = "decide" /\ rec'.target = MissedRun(last)
    BY <1>4, <1>t DEF GetNextSchedule, Rec, Control, Scheduling
  <2>2. begun' = begun
    BY <1>4, ContinuingFacts DEF Continuing, history
  <2>3. ASSUME MissedRun(last) # Nil, NEW b \in begun PROVE b < MissedRun(last)
    <3>1. Covered(b, rec.kids, now)
      BY <2>1 DEF Traces
    <3>2. \A e \in Existing(rec.kids) : e < MissedRun(last)
      BY <1>t, <2>3, TargetFacts
    <3>3. last \in Starts \cup {Nil} /\ MissedRun(last) \in Starts /\ Existing(rec.kids) \in SUBSET Starts
      BY <1>t, <2>3, ListTypes, MissedTypes
    <3>4. /\ EarliestTime(last) \in Nat /\ EarliestTime(last) < MissedRun(last)
          /\ \A t \in MissedStarts(last) : t <= MissedRun(last)
      BY <2>3, <3>3, EarliestTimeFacts, MissedTypes DEF MissedStarts
    <3>5. b \in Nat /\ MissedRun(last) \in Nat
      BY <1>t, <3>3, StartsFacts
    <3>6. ASSUME NEW e \in Existing(rec.kids), b <= e PROVE b < MissedRun(last)
      <4>1. e \in Nat
        BY <3>3, StartsFacts
      <4> QED BY <3>2, <3>5, <3>6, <4>1
    <3>7. ASSUME NEW s \in Starts, b < s, s <= now PROVE b < MissedRun(last)
      <4>1. s \in Nat
        BY StartsFacts
      <4>2. s <= MissedRun(last)
        <5>1. CASE EarliestTime(last) < s
          BY <3>4, <3>7, <5>1 DEF MissedStarts
        <5>2. CASE ~(EarliestTime(last) < s)
          BY <3>4, <3>5, <4>1, <5>2
        <5> QED BY <5>1, <5>2
      <4> QED BY <3>5, <3>7, <4>1, <4>2
    <3> QED BY <3>1, <3>6, <3>7 DEF Covered
  <2> QED BY <2>1, <2>2, <2>3 DEF Spared, Targeting
<1>5. CASE RunMissed
  <2>1. rec.pc = "decide" /\ rec'.pc = "replace" /\ rec'.target = rec.target
    BY <1>5, <1>t DEF RunMissed, Rec
  <2>2. begun' = begun
    BY <1>5, ContinuingFacts DEF Continuing, history
  <2> QED BY <2>1, <2>2 DEF Spared, Targeting
<1>6. CASE ReplaceActive
  <2>1. CASE rec'.pc # "idle"
    <3>1. rec.pc = "replace" /\ rec'.pc \in {"replace", "create"} /\ rec'.target = rec.target
      BY <1>6, <1>t, <2>1, Ended DEF ReplaceActive, ReplyLost, Rec
    <3>2. begun' = begun
      BY <1>6, ContinuingFacts DEF Continuing, history
    <3> QED BY <3>1, <3>2 DEF Spared, Targeting
  <2> QED BY <1>i, <2>1
<1>7. CASE ReconcileFound
  BY <1>7, FoundFacts DEF Spared, Targeting
<1>8. CASE UpdateStatus
  <2>1. CASE rec'.pc = "prune"
    <3>1. rec.pc = "status" /\ begun' = begun
      BY <1>8 DEF UpdateStatus, history
    <3>2. PICK f \in Excess(rec.kids, "failed", FailedJobsHistoryLimit),
               s \in Excess(rec.kids, "ok", SuccessfulJobsHistoryLimit) :
            rec' = [rec EXCEPT !.pc = "prune", !.cs = cs', !.todo = f \cup s]
      BY <1>8, <2>1, Ended DEF UpdateStatus, ReplyLost
    <3>3. rec'.todo = f \cup s
      BY <1>t, <3>2 DEF Rec
    <3>4. Existing(rec.kids) \subseteq begun /\ Ordered(rec.kids, now)
      BY <3>1 DEF Lists, Recorded
    <3>5. \A t \in f : \E k \in Existing(rec.kids) : t < k
      BY <1>t, <3>4, ExcessIsOld DEF LimitsAboveZero
    <3>6. \A t \in s : \E k \in Existing(rec.kids) : t < k
      BY <1>t, <3>4, ExcessIsOld DEF LimitsAboveZero
    <3> QED BY <2>1, <3>1, <3>3, <3>4, <3>5, <3>6 DEF Spared, Targeting
  <2> QED BY <1>8, <1>i, <2>1, Written
<1> QED BY <1>1, <1>2, <1>3, <1>4, <1>5, <1>6, <1>7, <1>8, StepKinds DEF Continuing

\* Every step keeps Once, and so no start is run twice.
LEMMA OnceStep ==
  ASSUME LimitsAboveZero, TypeOK, CronInv, Once, [Step]_vars
  PROVE  Once'
<1> SUFFICES ASSUME (spec.policy # "Allow")', ~blind' PROVE History'
  BY DEF Once
<1>1. ~blind /\ spec.policy # "Allow" /\ Versions /\ Control /\ Policy
  BY BlindStays, ClockFacts DEF CronInv
<1>2. Seen /\ Replaced /\ Lists /\ Traces /\ Spared /\ ~rerun
  BY <1>1 DEF Policy, Once, History
<1>3. Lists' /\ Traces' /\ Spared'
  BY <1>1, <1>2, ListsStep, TracesStep, SparedStep
<1>4. CASE CreateSearch
  <2>1. /\ rec.target \in Starts /\ rec.pc = "create"
        /\ rerun' = (rerun \/ rec.target \in begun)
    BY <1>1, <1>4, Creation
  <2>2. Targeting /\ rec.target \in Nat
    BY <2>1, StartsFacts DEF Targeting
  <2>3. rec.target \notin begun
    BY <1>2, <2>2 DEF Spared
  <2> QED BY <1>2, <1>3, <2>1, <2>3 DEF History
<1>5. CASE ~CreateSearch
  BY <1>2, <1>3, <1>5, RecordSteps DEF History
<1> QED BY <1>4, <1>5

-----------------------------------------------------------------------------
(* The theorems. *)

\* The invariant holds of the initial states.
LEMMA InvInit == Init => TypeOK /\ CronInv
<1> SUFFICES ASSUME Init PROVE TypeOK /\ CronInv
  OBVIOUS
<1>1. cs \in CronSearch /\ cs.life = "Live"
  BY ObjectTypes DEF Init, CronSearch, NoCronSearch
<1>2. TypeOK
  <2>1. /\ csCache \in CronSearch /\ rec \in Rec
        /\ kids \in [Starts -> Search] /\ kidsCache \in [Starts -> Search]
    BY ObjectTypes DEF Init
  <2>2. /\ due \in Nat \cup {Nil} /\ spec \in Specs /\ now \in Time
        /\ faults \in 0..MaxFaults /\ edits \in 0..MaxEdits
    BY DEF Init, Time
  <2>3. begun \subseteq Starts /\ {rerun, blind, gaveUp, slipped} \subseteq BOOLEAN
    BY DEF Init
  <2> QED BY <1>1, <2>1, <2>2, <2>3 DEF TypeOK
<1>3. rec.pc = "idle" /\ csCache.life = "None"
  BY DEF Init, Idle, NoCronSearch
<1>4. Versions /\ Control /\ Woken
  BY <1>3 DEF Versions, Older, Control, Scheduling, Targeting, Running, Woken, InStep, Ahead,
              Resting, Outstanding
<1>5. Policy
  <2>1. \A t \in Starts : ~Finished(kidsCache[t])
    BY DEF Init, NoKids, NoSearch, Finished
  <2>2. Active(kids) = {}
    BY DEF Init, NoKids, NoSearch, Active, InState
  <2>3. Cardinality(Active(kids)) = 0
    BY <2>2, FS_EmptySet
  <2> QED BY <1>3, <2>1, <2>2, <2>3 DEF Policy, Seen, Replaced, Most
<1> QED BY <1>2, <1>4, <1>5 DEF CronInv

\* Every step keeps it.
LEMMA InvStep == TypeOK /\ CronInv /\ [Step]_vars => (TypeOK /\ CronInv)'
<1> SUFFICES ASSUME TypeOK, CronInv, [Step]_vars PROVE TypeOK' /\ CronInv'
  OBVIOUS
<1>1. Versions /\ Control /\ Policy /\ Woken
  BY DEF CronInv
<1>2. TypeOK'
  BY <1>1, TypeStep
<1>3. Versions' /\ Control' /\ Policy'
  BY <1>1, VersionsStep, ControlStep, PolicyStep
<1>4. Woken'
  <2>1. InStep /\ Ahead /\ Resting
    BY <1>1 DEF Woken
  <2>2. InStep' /\ Ahead' /\ Resting'
    BY <1>1, <2>1, InStepStep, AheadStep, RestingStep
  <2> QED BY <2>2 DEF Woken
<1> QED BY <1>2, <1>3, <1>4 DEF CronInv

\* The invariant of the reconciler, its queue entry and its caches.
LEMMA Invariance == Spec => [](TypeOK /\ CronInv)
  BY InvInit, InvStep, PTL DEF Spec

\* The objects, the caches, the queue entry and the reconcile keep their types:
\* the target of a reconcile that creates a Search is a start of the schedule.
THEOREM TypeCorrect == Spec => []TypeOK
  BY Invariance, PTL

\* Forbid and Replace never have two Searches running, and Allow never more than
\* one beyond the status limit, through any faults, restarts and stale reads,
\* unless a reconcile has overlooked one that exists.
THEOREM PolicyCorrect == Spec => []PolicyKept
<1>1. CronInv => PolicyKept
  BY DEF CronInv, Policy, PolicyKept, Most, Active
<1> QED BY <1>1, Invariance, PTL

\* No wake-up is lost: at rest the status is up to date and no start is waiting,
\* but for the exceptions RestIsScheduled names.
THEOREM WakeUpsCorrect == Spec => []RestIsScheduled
<1>1. TypeOK /\ CronInv => RestIsScheduled
  <2> SUFFICES ASSUME TypeOK, CronInv, AtRest, cs.life = "Live"
               PROVE  /\ cs.last = LastScheduleTime(kids) /\ cs.active = InState(kids, "active")
                      /\ \/ cs.suspend \/ gaveUp \/ MissedStarts(cs.last) = {}
                         \/ Blocked(cs.active) \/ slipped
    BY DEF RestIsScheduled
  <2>t. cs \in CronSearch /\ now \in Nat /\ due \in Nat \cup {Nil}
    BY DEF TypeOK, Time
  <2>1. csCache = cs /\ kidsCache = kids /\ ~Ready /\ rec.pc = "idle" /\ cs.ver \in Nat
    BY <2>t, CronFields DEF AtRest
  <2>2. ~Outstanding
    BY <2>1 DEF Outstanding
  <2>3. SettledCache
    BY <2>1, <2>2 DEF CronInv, Woken, Resting
  <2>4. ASSUME due # Nil, \A t \in Starts : t <= EarliestTime(cs.last) \/ t >= due
        PROVE  MissedStarts(cs.last) = {}
    <3>1. due \in Nat /\ now < due
      BY <2>t, <2>1, <2>4 DEF Ready
    <3>2. cs.last \in Starts \cup {Nil}
      BY <2>t, CronFields
    <3>3. EarliestTime(cs.last) \in Nat
      BY <3>2, EarliestTimeFacts
    <3>4. ASSUME NEW t \in Starts PROVE ~(EarliestTime(cs.last) < t /\ t <= now)
      <4>1. t \in Nat /\ (t <= EarliestTime(cs.last) \/ t >= due)
        BY <2>4, StartsFacts
      <4> QED BY <2>t, <3>1, <3>3, <4>1
    <3> QED BY <3>4 DEF MissedStarts
  <2> QED BY <2>1, <2>3, <2>4 DEF SettledCache, Active
<1> QED BY <1>1, Invariance, PTL

\* With history limits above 0, Forbid and Replace run no start a second time,
\* through any faults, restarts and stale reads, unless a reconcile has
\* overlooked a Search that exists.
THEOREM RunOnceCorrect ==
  ASSUME LimitsAboveZero
  PROVE  Spec => []RunOnce
<1>1. Init => Once
  <2> SUFFICES ASSUME Init PROVE History
    BY DEF Once
  <2>1. Existing(kids) = {} /\ Existing(kidsCache) = {} /\ begun = {} /\ ~rerun
    BY DEF Init, NoKids, NoSearch, Existing
  <2>2. rec.pc = "idle"
    BY DEF Init, Idle
  <2> QED BY <2>1, <2>2 DEF History, Lists, Recorded, Ordered, Traces, Spared, Targeting
<1>2. TypeOK /\ CronInv /\ Once /\ [Step]_vars => Once'
  BY OnceStep
<1>3. Once => RunOnce
  BY DEF Once, History, RunOnce
<1> QED BY <1>1, <1>2, <1>3, Invariance, PTL DEF Spec

=============================================================================
