----------------------- MODULE SearchControllerProofs -----------------------
(* The Search controller, for any number of children, any TTL, stale or fresh *)
(* reads and any number of faults and restarts.                              *)
EXTENDS SearchController, TLAPS

Ended == Terminal \cup {"None"}
NoneOpen == \A k \in Kids : kids[k] # "open"

\* What an object that was read says of the one in the API server: it is that
\* very object or an older one, and its completion is the completion.
Older(o) ==
  o.life = "Live" /\ search.life = "Live" =>
    /\ o.ver <= search.ver /\ (o.ver = search.ver => o = search)
    /\ o.completionTime # Nil => search.completionTime = o.completionTime

Versions ==
  Older(searchCache) /\ (rec.pc # "idle" => rec.search.life = "Live" /\ Older(rec.search))

\* What a reconcile has found out by the time it makes its next call.
Control ==
  /\ rec.pc \in {"name", "account", "binding", "pod", "start", "list", "judge", "complete"} =>
       rec.search.completionTime = Nil
  /\ rec.pc \in {"requeue", "delete"} =>
       rec.search.completionTime # Nil /\ TTLSecondsAfterFinished # Nil
  /\ rec.pc = "delete" => now > DeleteTime(rec.search)
  /\ rec.pc = "name" => rec.search.account = "unset"
  /\ rec.pc \in {"list", "judge", "complete"} => rec.search.startTime = "set"
  /\ rec.pc = "complete" => rec.pod \in Terminal /\ ~rec.open

\* The duration is observed for a completion only.
Counted == observed = 1 => search.completionTime # Nil \/ search.life = "None"

\* What the caches and the reconcile know of the pod, and of the children.
Pods ==
  /\ resCache.pod.uid <= res.pod.uid
  /\ resCache.pod.uid = res.pod.uid /\ resCache.pod.phase = "None" => res.pod.phase = "None"
  /\ resCache.pod.phase \in Terminal => res.pod.phase \in Ended
  /\ rec.pc \in {"start", "list", "judge", "complete"} /\ rec.pod \in Terminal =>
       res.pod.phase \in Ended

Children ==
  /\ \A k \in Kids : kidsCache[k] = "closed" => kids[k] = "closed"
  /\ rec.pc \in {"judge", "complete"} /\ ~rec.open /\ rec.pod \in Terminal /\ ~blind => NoneOpen
  /\ search.completionTime # Nil /\ ~blind => NoneOpen /\ res.pod.phase \in Ended

\* The server has what the reconcile has created or found.
Made ==
  /\ resCache.account = "Exists" => res.account = "Exists"
  /\ resCache.binding = "Exists" => res.binding = "Exists"
  /\ rec.pc \in {"binding", "pod", "start", "list", "judge", "complete"} => res.account = "Exists"
  /\ rec.pc \in {"pod", "start", "list", "judge", "complete"} => res.binding = "Exists"

\* A watch has yet to deliver something, whatever happens next.
Outstanding ==
  \/ searchCache.life = "None" \/ searchCache.ver < search.ver
  \/ resCache.account # res.account \/ resCache.binding # res.binding
  \/ resCache.pod.uid < res.pod.uid

\* The caches leave nothing to do.
SettledCache ==
  \/ searchCache.completionTime # Nil /\ (TTLSecondsAfterFinished = Nil \/ slipped)
  \/ /\ searchCache.completionTime = Nil /\ searchCache.startTime = "set"
     /\ res.account = "Exists" /\ res.binding = "Exists"
     /\ resCache.pod.phase \in {"Pending", "Running"}

\* While nothing is queued the reconcile works on what is in the caches, and
\* once it is over something is outstanding or nothing is left to do.
Woken ==
  due = Nil =>
    /\ rec.pc # "idle" => rec.search = searchCache
    /\ rec.pc \in {"start", "list", "judge", "complete"} =>
         rec.pod = resCache.pod.phase \/ resCache.pod.uid < res.pod.uid
    /\ rec.pc = "idle" /\ search.life = "Live" => Outstanding \/ SettledCache

SearchInv == Versions /\ Control /\ Counted /\ Pods /\ Children /\ Made /\ Woken
-----------------------------------------------------------------------------
(* Types. *)

USE SearchAssumption, SearchBoundAssumption

\* The constant objects have their types.
LEMMA ObjectTypes ==
  NoSearch \in SearchObject /\ NoResources \in Resources /\ NoKids \in [Kids -> KidState]
  /\ Idle \in Rec
<1>1. NoSearch \in SearchObject
  BY DEF NoSearch, SearchObject, Nil
<1>2. NoResources \in Resources
  BY DEF NoResources, Resources, NoPod, Pod, Phase
<1>3. NoKids \in [Kids -> KidState]
  BY DEF NoKids, KidState
<1>4. Idle \in Rec
  BY <1>1 DEF Idle, Rec, Phase
<1> QED BY <1>1, <1>2, <1>3, <1>4

\* A due time is a time.
LEMMA EarliestType ==
  ASSUME NEW d \in Nat \cup {Nil}, NEW t \in Nat
  PROVE  Earliest(d, t) \in Nat
  BY DEF Earliest, Nil

\* The ways a reconcile ends or goes on keep the types.
LEMMA ReturnTypes ==
  ASSUME TypeOK,
         \/ ReturnError \/ Return \/ \E t \in Nat : ReturnAfter(t)
         \/ \E pc \in {"binding", "pod", "judge"} : Goto(pc)
  PROVE  rec' \in Rec /\ due' \in Nat \cup {Nil}
<1>1. CASE ReturnError \/ \E t \in Nat : ReturnAfter(t)
  <2>1. due \in Nat \cup {Nil} /\ now \in Nat
    BY DEF TypeOK
  <2>2. \A t \in Nat : Earliest(due, t) \in Nat
    BY <2>1, EarliestType
  <2> QED BY <1>1, <2>1, <2>2, ObjectTypes DEF ReturnError, ReturnAfter
<1>2. CASE Return
  BY <1>2, ObjectTypes DEF Return, TypeOK
<1>3. CASE \E pc \in {"binding", "pod", "judge"} : Goto(pc)
  BY <1>3 DEF Goto, TypeOK, Rec
<1> QED BY <1>1, <1>2, <1>3

\* A fault is counted.
LEMMA FaultType == TypeOK /\ (Fault \/ UNCHANGED faults) => faults' \in 0..MaxFaults
  BY DEF TypeOK, Fault

\* The fields of a Search.
LEMMA ObjectFields ==
  ASSUME NEW o \in SearchObject
  PROVE  /\ o.ver \in Nat /\ o.life \in {"Live", "None"} /\ o.startTime \in {"unset", "set"}
         /\ o.completionTime \in 0..MaxTime \cup {Nil} /\ o.complete \in {"unset", "True", "False"}
  BY DEF SearchObject

\* An object whose status or account is written keeps its type.
LEMMA WriteTypes ==
  ASSUME TypeOK
  PROVE  /\ [search EXCEPT !.account = "set", !.ver = @ + 1] \in SearchObject
         /\ \A st \in {"unset", "set"}, ct \in 0..MaxTime \cup {Nil}, c \in {"unset", "True", "False"} :
              Updated(st, ct, c) \in SearchObject
<1>1. search \in SearchObject
  BY DEF TypeOK
<1>a. search.ver + 1 \in Nat
  BY <1>1, ObjectFields
<1>2. [search EXCEPT !.account = "set", !.ver = @ + 1] \in SearchObject
  BY <1>1, <1>a DEF SearchObject
<1>3. ASSUME NEW st \in {"unset", "set"}, NEW ct \in 0..MaxTime \cup {Nil},
             NEW c \in {"unset", "True", "False"}
      PROVE  Updated(st, ct, c) \in SearchObject
  BY <1>1, <1>a DEF SearchObject, Updated
<1> QED BY <1>2, <1>3

\* What was read of the Search has the types of its fields.
LEMMA ReadTypes ==
  TypeOK => /\ rec.search \in SearchObject /\ rec.search.startTime \in {"unset", "set"}
            /\ rec.search.completionTime \in 0..MaxTime \cup {Nil}
            /\ rec.search.complete \in {"unset", "True", "False"}
  BY DEF TypeOK, Rec, SearchObject

\* A refused status is one that was read too early.
LEMMA AcceptedFacts ==
  TypeOK /\ Versions /\ Accepted /\ rec.pc # "idle" => rec.search = search /\ search.life = "Live"
  BY DEF Versions, Older, Accepted

\* Every step of the controller keeps the types.
LEMMA ControllerTypes ==
  ASSUME TypeOK, Versions, Control, Counted, Controller PROVE TypeOK'
<1> USE DEF objects, caches, clock, history
<1>1. CASE Reconcile
  <2>1. rec' \in Rec
    <3>1. searchCache \in SearchObject /\ FirstCall(searchCache) \in
            {"idle", "delete", "requeue", "name", "account"}
      BY DEF TypeOK, FirstCall
    <3> QED BY <1>1, <3>1, ObjectTypes DEF Reconcile, Rec, Idle
  <2> QED BY <1>1, <2>1 DEF Reconcile, TypeOK
<1>2. CASE CallFails
  BY <1>2, ReturnTypes, FaultType DEF CallFails, TypeOK
<1>3. CASE NameServiceAccount
  <2>1. search' \in SearchObject
    BY <1>3, WriteTypes DEF NameServiceAccount, TypeOK
  <2>2. rec' \in Rec /\ due' \in Nat \cup {Nil} /\ faults' \in 0..MaxFaults
    BY <1>3, ReturnTypes, FaultType DEF NameServiceAccount, ReplyLost, Replied
  <2> QED BY <1>3, <2>1, <2>2 DEF NameServiceAccount, TypeOK
<1>4. CASE CreateServiceAccount
  <2>1. res' \in Resources
    BY <1>4 DEF CreateServiceAccount, TypeOK, Resources
  <2>2. rec' \in Rec /\ due' \in Nat \cup {Nil} /\ faults' \in 0..MaxFaults
    BY <1>4, ReturnTypes, FaultType DEF CreateServiceAccount, ReplyLost, Replied
  <2> QED BY <1>4, <2>1, <2>2 DEF CreateServiceAccount, TypeOK
<1>5. CASE CreateRoleBinding
  <2>1. res' \in Resources
    BY <1>5 DEF CreateRoleBinding, TypeOK, Resources
  <2>2. rec' \in Rec /\ due' \in Nat \cup {Nil} /\ faults' \in 0..MaxFaults
    BY <1>5, ReturnTypes, FaultType DEF CreateRoleBinding, ReplyLost, Replied
  <2> QED BY <1>5, <2>1, <2>2 DEF CreateRoleBinding, TypeOK
<1>6. CASE CreatePod
  <2>1. res' \in Resources
    BY <1>6 DEF CreatePod, TypeOK, Resources, Pod, Phase, PodPhase
  <2>2. ASSUME NEW ph \in Phase, AfterPod(ph) PROVE rec' \in Rec /\ due' \in Nat \cup {Nil}
    BY <2>2 DEF AfterPod, TypeOK, Rec
  <2>3. "Pending" \in Phase /\ resCache.pod.phase \in Phase
    BY DEF Phase, PodPhase, TypeOK, Resources, Pod
  <2>4. rec' \in Rec /\ due' \in Nat \cup {Nil} /\ faults' \in 0..MaxFaults
    BY <1>6, <2>2, <2>3, ReturnTypes, FaultType DEF CreatePod, ReplyLost, Replied
  <2>5. blind' \in BOOLEAN
    BY <1>6 DEF CreatePod, TypeOK
  <2> QED BY <1>6, <2>1, <2>4, <2>5 DEF CreatePod, TypeOK
<1>7. CASE StatusRefused
  BY <1>7, ReturnTypes DEF StatusRefused, TypeOK
<1>8. CASE MarkStarted
  <2>1. search' \in SearchObject
    BY <1>8, WriteTypes, ReadTypes DEF MarkStarted
  <2>2. rec' \in Rec /\ due' \in Nat \cup {Nil} /\ faults' \in 0..MaxFaults
    BY <1>8, ReturnTypes, FaultType DEF MarkStarted, ReplyLost, Replied
  <2> QED BY <1>8, <2>1, <2>2 DEF MarkStarted, TypeOK
<1>9. CASE ListChildren
  <2>1. rec' \in Rec
    BY <1>9 DEF ListChildren, TypeOK, Rec
  <2>2. blind' \in BOOLEAN
    BY <1>9 DEF ListChildren, TypeOK
  <2> QED BY <1>9, <2>1, <2>2 DEF ListChildren, TypeOK
<1>10. CASE Judge
  <2>1. now + Requeue \in Nat
    BY DEF TypeOK
  <2>2. rec' \in Rec /\ due' \in Nat \cup {Nil}
    <3>1. CASE ReturnAfter(now + Requeue) \/ Return
      BY <2>1, <3>1, ReturnTypes
    <3>2. CASE rec' = [rec EXCEPT !.pc = "complete", !.pod = PodRead] /\ UNCHANGED due
      BY <3>2 DEF PodRead, TypeOK, Rec
    <3> QED BY <1>10, <3>1, <3>2 DEF Judge, AwaitChildren
  <2> QED BY <1>10, <2>2 DEF Judge, TypeOK
<1>11. CASE MarkCompleted
  <2>1. search' \in SearchObject
    BY <1>11, WriteTypes, ReadTypes DEF MarkCompleted, TypeOK
  <2>2. rec' \in Rec /\ due' \in Nat \cup {Nil} /\ faults' \in 0..MaxFaults
    BY <1>11, ReturnTypes, FaultType DEF MarkCompleted, ReplyLost, Replied
  <2>3. search.completionTime = Nil /\ search.life = "Live"
    BY <1>11, AcceptedFacts DEF MarkCompleted, Control
  <2>4. observed' \in 0..1
    BY <1>11, <2>3 DEF MarkCompleted, Counted, TypeOK
  <2> QED BY <1>11, <2>1, <2>2, <2>4 DEF MarkCompleted, TypeOK
<1>12. CASE RequeueForTTL
  <2>1. DeleteTime(rec.search) + 1 \in Nat
    BY <1>12, ReadTypes DEF RequeueForTTL, Control, DeleteTime, Nil
  <2>2. rec' \in Rec /\ due' \in Nat \cup {Nil}
    BY <1>12, <2>1, ReturnTypes DEF RequeueForTTL
  <2> QED BY <1>12, <2>2 DEF RequeueForTTL, TypeOK
<1>13. CASE DeleteSearch
  <2>1. rec' \in Rec /\ due' \in Nat \cup {Nil} /\ faults' \in 0..MaxFaults
    BY <1>13, ReturnTypes, FaultType DEF DeleteSearch, ReplyLost, Replied
  <2> QED BY <1>13, <2>1, ObjectTypes DEF DeleteSearch, TypeOK
<1> QED
  BY <1>1, <1>2, <1>3, <1>4, <1>5, <1>6, <1>7, <1>8, <1>9, <1>10, <1>11, <1>12, <1>13
     DEF Controller

\* Every step keeps the types.
LEMMA TypeStep ==
  ASSUME TypeOK, Versions, Control, Counted, [Next]_vars PROVE TypeOK'
<1> USE DEF objects, caches, clock, history
<1>1. CASE Controller
  BY <1>1, ControllerTypes
<1>2. CASE SyncSearch
  <2>1. Earliest(due, now) \in Nat
    BY EarliestType DEF TypeOK
  <2> QED BY <1>2, <2>1 DEF SyncSearch, TypeOK
<1>3. CASE SyncResource
  <2>1. resCache' \in Resources
    BY <1>3 DEF SyncResource, TypeOK, Resources
  <2> QED BY <1>3, <2>1, EarliestType DEF SyncResource, TypeOK
<1>4. CASE SyncKid
  <2>1. kidsCache' \in [Kids -> KidState]
    BY <1>4 DEF SyncKid, TypeOK
  <2> QED BY <1>4, <2>1 DEF SyncKid, TypeOK
<1>5. CASE Restart
  BY <1>5, ObjectTypes, FaultType DEF Restart, TypeOK
<1>6. CASE Tick
  BY <1>6 DEF Tick, TypeOK
<1>7. CASE UserDeletes
  BY <1>7, ObjectTypes, FaultType DEF UserDeletes, TypeOK
<1>8. CASE Kubelet \/ LosePod
  <2>1. res' \in Resources
    BY <1>8 DEF Kubelet, LosePod, PodStep, TypeOK, Resources, Pod, Phase, PodPhase
  <2> QED BY <1>8, <2>1, FaultType DEF Kubelet, LosePod, TypeOK
<1>9. CASE KidStep
  <2>1. kids' \in [Kids -> KidState]
    BY <1>9 DEF KidStep, TypeOK, KidState
  <2> QED BY <1>9, <2>1 DEF KidStep, TypeOK
<1>10. CASE UNCHANGED vars
  BY <1>10 DEF vars, TypeOK
<1> QED BY <1>1, <1>2, <1>3, <1>4, <1>5, <1>6, <1>7, <1>8, <1>9, <1>10 DEF Next, Environment

-----------------------------------------------------------------------------
(* The parts of the invariant. *)

USE DEF objects, caches, clock, history

\* How each call of a reconcile ends: it goes on, or the reconcile is over.
LEMMA ReturnFacts ==
  /\ Return => rec'.pc = "idle" /\ due' = due
  /\ ReturnError \/ ReplyLost => rec'.pc = "idle"
  /\ \A t : ReturnAfter(t) => rec'.pc = "idle"
  BY DEF Return, ReturnError, ReplyLost, ReturnAfter, Idle

\* While a reconcile goes on it keeps the Search it has read.
LEMMA KeptRead ==
  ASSUME TypeOK, Controller, ~Reconcile, rec'.pc # "idle"
  PROVE  rec'.search = rec.search /\ rec.pc # "idle"
<1>1. rec \in Rec
  BY DEF TypeOK
<1>2. CASE CallFails \/ NameServiceAccount \/ StatusRefused \/ MarkStarted \/ MarkCompleted
           \/ RequeueForTTL \/ DeleteSearch
  BY <1>2, ReturnFacts DEF CallFails, NameServiceAccount, StatusRefused, MarkStarted, MarkCompleted,
                           RequeueForTTL, DeleteSearch
<1>3. CASE CreateServiceAccount \/ CreateRoleBinding
  BY <1>1, <1>3, ReturnFacts DEF CreateServiceAccount, CreateRoleBinding, Goto, Rec
<1>4. CASE CreatePod
  BY <1>1, <1>4, ReturnFacts DEF CreatePod, AfterPod, Rec
<1>5. CASE ListChildren
  BY <1>1, <1>5 DEF ListChildren, Rec
<1>6. CASE Judge
  BY <1>1, <1>6, ReturnFacts DEF Judge, AwaitChildren, Rec
<1> QED BY <1>2, <1>3, <1>4, <1>5, <1>6 DEF Controller

\* How the Search changes: not at all, to a newer one that is not completed
\* before, or it goes.
LEMMA SearchChanges ==
  ASSUME TypeOK, Versions, Control, [Next]_vars
  PROVE  \/ search' = search \/ search'.life = "None"
         \/ /\ search'.life = "Live" /\ search.life = "Live" /\ search'.ver = search.ver + 1
            /\ \/ /\ search'.completionTime = search.completionTime
                  /\ search'.complete = search.complete /\ search'.startTime = search.startTime
               \/ /\ search.completionTime = Nil
                  /\ search'.startTime = "set" \/ search'.startTime = search.startTime
<1>0. search \in SearchObject
  BY DEF TypeOK
<1>1. CASE NameServiceAccount
  BY <1>0, <1>1 DEF NameServiceAccount, SearchObject
<1>2. CASE MarkStarted
  BY <1>0, <1>2, AcceptedFacts DEF MarkStarted, Control, Updated, SearchObject
<1>3. CASE MarkCompleted
  BY <1>0, <1>3, AcceptedFacts DEF MarkCompleted, Control, Updated, SearchObject
<1>4. CASE DeleteSearch \/ UserDeletes
  <2>1. search' = NoSearch
    BY <1>4 DEF DeleteSearch, UserDeletes
  <2> QED BY <2>1 DEF NoSearch
<1>5. CASE Controller /\ ~(NameServiceAccount \/ MarkStarted \/ MarkCompleted \/ DeleteSearch)
  BY <1>5 DEF Controller, Reconcile, CallFails, CreateServiceAccount, CreateRoleBinding, CreatePod,
              StatusRefused, ListChildren, Judge, RequeueForTTL
<1>6. CASE SyncSearch \/ SyncResource \/ SyncKid \/ Restart \/ Tick \/ Kubelet \/ LosePod \/ KidStep
  BY <1>6 DEF SyncSearch, SyncResource, SyncKid, Restart, Tick, Kubelet, LosePod, KidStep
<1>7. CASE UNCHANGED vars
  BY <1>7 DEF vars
<1> QED BY <1>1, <1>2, <1>3, <1>4, <1>5, <1>6, <1>7 DEF Next, Controller, Environment

\* An object that was read stays an older one.
LEMMA OlderStep ==
  ASSUME TypeOK, Versions, Control, [Next]_vars, NEW o \in SearchObject, Older(o)
  PROVE  (Older(o))'
<1>1. search \in SearchObject
  BY DEF TypeOK
<1>2. search.ver \in Nat /\ o.ver \in Nat
  BY <1>1, ObjectFields
<1> QED BY <1>2, SearchChanges DEF Older

\* Every step keeps what was read older.
LEMMA VersionsStep ==
  ASSUME TypeOK, Versions, Control, [Next]_vars PROVE Versions'
<1>0. search \in SearchObject /\ searchCache \in SearchObject /\ rec.search \in SearchObject
  BY DEF TypeOK, Rec
<1>1. Older(search)
  BY <1>0, ObjectFields DEF Older
<1>2. \A o \in SearchObject : Older(o) => (Older(o))'
  BY OlderStep
<1>3. CASE Reconcile
  <2>1. searchCache' = searchCache /\ (rec'.pc # "idle" => rec'.search = searchCache)
    BY <1>3 DEF Reconcile, Idle
  <2>2. rec'.pc # "idle" => searchCache.life = "Live"
    BY <1>0, <1>3, ObjectFields DEF Reconcile, FirstCall, Idle
  <2>3. (Older(searchCache))'
    <3>1. UNCHANGED search
      BY <1>3 DEF Reconcile
    <3> QED BY <2>1, <3>1 DEF Versions, Older
  <2> QED BY <2>1, <2>2, <2>3 DEF Versions, Older
<1>4. CASE Controller /\ ~Reconcile
  <2>1. searchCache' = searchCache
    BY <1>4 DEF Controller, Reconcile, CallFails, NameServiceAccount, CreateServiceAccount,
                CreateRoleBinding, CreatePod, StatusRefused, MarkStarted, ListChildren, Judge,
                MarkCompleted, RequeueForTTL, DeleteSearch
  <2>2. rec'.pc # "idle" => rec'.search = rec.search /\ rec.pc # "idle"
    BY <1>4, KeptRead
  <2> QED BY <1>0, <1>2, <2>1, <2>2 DEF Versions, Older
<1>5. CASE SyncSearch \/ Restart
  <2>1. searchCache' = search /\ search' = search /\ (rec' = rec \/ rec'.pc = "idle")
    BY <1>5 DEF SyncSearch, Restart, Idle
  <2> QED BY <1>0, <1>1, <1>2, <2>1 DEF Versions, Older
<1>6. CASE SyncResource \/ SyncKid \/ Environment \/ UNCHANGED vars
  <2>1. searchCache' = searchCache /\ rec' = rec
    BY <1>6 DEF SyncResource, SyncKid, Environment, Tick, UserDeletes, Kubelet, LosePod, KidStep, vars
  <2> QED BY <1>0, <1>2, <2>1 DEF Versions, Older
<1> QED BY <1>3, <1>4, <1>5, <1>6 DEF Next

\* Every step keeps what a reconcile has found out.
LEMMA ControlStep ==
  ASSUME TypeOK, Control, [Next]_vars PROVE Control'
<1>0. rec \in Rec /\ now \in Nat
  BY DEF TypeOK
<1>1. CASE rec'.pc = "idle"
  BY <1>1 DEF Control
<1>2. CASE Reconcile /\ rec'.pc # "idle"
  <2>1. rec' = [Idle EXCEPT !.pc = FirstCall(searchCache), !.search = searchCache]
    BY <1>2 DEF Reconcile, Idle
  <2>2. rec'.pc = FirstCall(searchCache) /\ rec'.search = searchCache
    BY <2>1 DEF Idle
  <2>3. now' = now
    BY <1>2 DEF Reconcile
  <2> QED BY <1>2, <2>2, <2>3 DEF Control, FirstCall, DeleteTime
<1>3. CASE Controller /\ ~Reconcile /\ rec'.pc # "idle"
  <2>1. rec'.search = rec.search /\ now' = now
    BY <1>3, KeptRead DEF Controller, Reconcile, CallFails, NameServiceAccount, CreateServiceAccount,
                CreateRoleBinding, CreatePod, StatusRefused, MarkStarted, ListChildren, Judge,
                MarkCompleted, RequeueForTTL, DeleteSearch
  <2>2. CASE CreateServiceAccount \/ CreateRoleBinding
    BY <1>0, <1>3, <2>1, <2>2, ReturnFacts
       DEF CreateServiceAccount, CreateRoleBinding, Goto, Rec, Control
  <2>3. CASE CreatePod
    BY <1>0, <1>3, <2>1, <2>3, ReturnFacts, ReadTypes DEF CreatePod, AfterPod, Rec, Control
  <2>4. CASE ListChildren
    BY <1>0, <2>1, <2>4 DEF ListChildren, Rec, Control
  <2>5. CASE Judge
    BY <1>0, <1>3, <2>1, <2>5, ReturnFacts DEF Judge, AwaitChildren, Rec, Control, PodRead
  <2>6. CASE CallFails \/ NameServiceAccount \/ StatusRefused \/ MarkStarted \/ MarkCompleted
             \/ RequeueForTTL \/ DeleteSearch
    BY <1>3, <2>6, ReturnFacts DEF CallFails, NameServiceAccount, StatusRefused, MarkStarted,
                                   MarkCompleted, RequeueForTTL, DeleteSearch
  <2> QED BY <1>3, <2>2, <2>3, <2>4, <2>5, <2>6 DEF Controller
<1>4. CASE SyncSearch \/ SyncResource \/ SyncKid \/ Environment \/ UNCHANGED vars
  <2>1. rec' = rec /\ (now' = now \/ now' = now + 1)
    BY <1>4 DEF SyncSearch, SyncResource, SyncKid, Environment, Tick, UserDeletes, Kubelet, LosePod,
                KidStep, vars
  <2>2. ASSUME rec.pc = "delete" PROVE now' > DeleteTime(rec.search)
    <3>1. now > DeleteTime(rec.search) /\ DeleteTime(rec.search) \in Nat
      BY <2>2, ReadTypes DEF Control, DeleteTime, Nil
    <3> QED BY <1>0, <2>1, <3>1
  <2> QED BY <2>1, <2>2 DEF Control, DeleteTime
<1>5. CASE Restart
  BY <1>1, <1>5 DEF Restart, Idle
<1> QED BY <1>1, <1>2, <1>3, <1>4, <1>5 DEF Next

\* Every step keeps the observations to completions.
LEMMA CountedStep ==
  ASSUME TypeOK, Versions, Control, Counted, [Next]_vars PROVE Counted'
<1>1. CASE MarkCompleted
  <2>1. search'.completionTime = now /\ now \in Nat
    BY <1>1 DEF MarkCompleted, Updated, TypeOK, SearchObject
  <2> QED BY <2>1 DEF Counted, Nil
<1>2. CASE ~MarkCompleted
  <2>1. observed' = observed
    BY <1>2 DEF Next, Controller, Environment, Reconcile, CallFails, NameServiceAccount,
          CreateServiceAccount, CreateRoleBinding, CreatePod, StatusRefused, MarkStarted,
          ListChildren, Judge, RequeueForTTL, DeleteSearch, SyncSearch, SyncResource, SyncKid,
          Restart, Tick, UserDeletes, Kubelet, LosePod, KidStep, vars
  <2> QED BY <2>1, SearchChanges DEF Counted
<1> QED BY <1>1, <1>2

\* Every step keeps what is known of the pod.
LEMMA PodsStep ==
  ASSUME TypeOK, Pods, [Next]_vars PROVE Pods'
<1>0. /\ rec \in Rec /\ res.pod.uid \in Nat /\ resCache.pod.uid \in Nat
      /\ res.pod \in Pod /\ resCache.pod \in Pod /\ res \in Resources /\ resCache \in Resources
  BY DEF TypeOK, Resources, Pod
<1> USE DEF Ended, Terminal
<1>1. CASE CreatePod
  <2>1. CASE UNCHANGED res /\ AfterPod(resCache.pod.phase)
    BY <1>0, <1>1, <2>1 DEF CreatePod, AfterPod, Pods, Rec
  <2>2. CASE UNCHANGED res /\ Return
    BY <1>1, <2>2, ReturnFacts DEF CreatePod, Pods
  <2>3. CASE /\ resCache.pod.phase = "None" /\ (AfterPod("Pending") \/ ReplyLost)
             /\ res' = [res EXCEPT !.pod = [uid |-> @.uid + 1, phase |-> "Pending"]]
    <3>1. res'.pod.uid = res.pod.uid + 1 /\ resCache' = resCache
      BY <1>0, <1>1, <2>3 DEF CreatePod, Resources, Pod
    <3>2. rec'.pc = "idle" \/ rec'.pod = "Pending"
      BY <1>0, <2>3, ReturnFacts DEF AfterPod, Rec
    <3> QED BY <1>0, <2>3, <3>1, <3>2 DEF Pods
  <2> QED BY <1>1, <2>1, <2>2, <2>3 DEF CreatePod
<1>2. CASE SyncResource
  <2>1. PICK f \in DOMAIN res : resCache' = [resCache EXCEPT ![f] = res[f]]
    BY <1>2 DEF SyncResource
  <2>2. resCache'.pod = resCache.pod \/ resCache'.pod = res.pod
    BY <1>0, <2>1 DEF Resources
  <2>3. res' = res /\ rec' = rec
    BY <1>2 DEF SyncResource
  <2> QED BY <1>0, <2>2, <2>3 DEF Pods
<1>3. CASE Restart
  BY <1>0, <1>3 DEF Restart, Idle, Pods
<1>4. CASE Kubelet \/ LosePod
  <2>1. /\ resCache' = resCache /\ rec' = rec /\ res'.pod.uid = res.pod.uid
        /\ res.pod.phase \in {"Pending", "Running", "Unknown"} \/ res'.pod.phase = "None"
        /\ res.pod.phase # "None"
    BY <1>0, <1>4 DEF Kubelet, LosePod, PodStep, Resources, Pod
  <2> QED BY <1>0, <2>1 DEF Pods
<1>5. CASE CreateServiceAccount \/ CreateRoleBinding
  <2>1. res'.pod = res.pod /\ resCache' = resCache
    BY <1>0, <1>5 DEF CreateServiceAccount, CreateRoleBinding, Resources
  <2>2. rec'.pc \in {"idle", "binding", "pod"}
    BY <1>0, <1>5, ReturnFacts DEF CreateServiceAccount, CreateRoleBinding, Goto, Rec
  <2> QED BY <2>1, <2>2 DEF Pods
<1>6. CASE Controller /\ ~(CreateServiceAccount \/ CreateRoleBinding \/ CreatePod)
  <2>1. res' = res /\ resCache' = resCache
    BY <1>6 DEF Controller, Reconcile, CallFails, NameServiceAccount, StatusRefused, MarkStarted,
                ListChildren, Judge, MarkCompleted, RequeueForTTL, DeleteSearch
  <2>2. CASE ListChildren
    BY <1>0, <2>1, <2>2 DEF ListChildren, Rec, Pods
  <2>3. CASE Judge
    <3>1. rec'.pc = "idle" \/ (rec'.pod = rec.pod /\ rec.pc = "judge")
      BY <1>0, <2>3, ReturnFacts DEF Judge, AwaitChildren, Rec, PodRead
    <3> QED BY <2>1, <3>1 DEF Pods
  <2>4. CASE Reconcile
    <3>1. rec'.pc \notin {"start", "list", "judge", "complete"}
      BY <2>4 DEF Reconcile, FirstCall, Idle
    <3> QED BY <2>1, <3>1 DEF Pods
  <2>5. CASE rec'.pc = "idle"
    BY <2>1, <2>5 DEF Pods
  <2> QED BY <1>6, <2>2, <2>3, <2>4, <2>5, ReturnFacts
       DEF Controller, CallFails, NameServiceAccount, StatusRefused, MarkStarted, MarkCompleted,
           RequeueForTTL, DeleteSearch
<1>7. CASE SyncSearch \/ SyncKid \/ Tick \/ UserDeletes \/ KidStep \/ UNCHANGED vars
  BY <1>7 DEF SyncSearch, SyncKid, Tick, UserDeletes, KidStep, vars, Pods
<1> QED BY <1>1, <1>2, <1>3, <1>4, <1>5, <1>6, <1>7 DEF Next, Controller, Environment

\* Every step keeps the children of a completed Search closed.
LEMMA ChildrenStep ==
  ASSUME TypeOK, Versions, Control, Pods, Children, [Next]_vars PROVE Children'
<1>0. /\ rec \in Rec /\ res \in Resources /\ res.pod \in Pod
      /\ kids \in [Kids -> KidState] /\ kidsCache \in [Kids -> KidState]
  BY DEF TypeOK, Resources
<1> USE DEF Ended, Terminal, NoneOpen
<1>1. CASE ListChildren
  <2>1. UNCHANGED <<search, res, kids, kidsCache>> /\ rec'.pod = rec.pod
    BY <1>0, <1>1 DEF ListChildren, Rec
  <2>2. ASSUME ~rec'.open, ~blind' PROVE NoneOpen
    <3>1. \A k \in Kids : kidsCache[k] # "open"
      BY <1>0, <1>1, <2>2 DEF ListChildren, Rec
    <3>2. \A k \in Kids : ~(kids[k] = "open" /\ kidsCache[k] = "none")
      BY <1>1, <2>2 DEF ListChildren
    <3> QED BY <1>0, <3>1, <3>2 DEF Children, KidState
  <2>3. ~blind' => ~blind
    BY <1>1 DEF ListChildren
  <2> QED BY <2>1, <2>2, <2>3 DEF Children
<1>2. CASE Judge
  <2>1. UNCHANGED <<search, res, kids, kidsCache, blind>>
    BY <1>2 DEF Judge
  <2>2. rec'.pc = "idle" \/ (rec'.pod = rec.pod /\ rec'.open = rec.open /\ rec.pc = "judge")
    BY <1>0, <1>2, ReturnFacts DEF Judge, AwaitChildren, Rec, PodRead
  <2> QED BY <2>1, <2>2 DEF Children
<1>3. CASE MarkCompleted
  <2>1. UNCHANGED <<res, kids, kidsCache, blind>> /\ rec'.pc = "idle" /\ rec.pc = "complete"
    BY <1>3, ReturnFacts DEF MarkCompleted
  <2>2. rec.pod \in Terminal /\ ~rec.open
    BY <2>1 DEF Control
  <2>3. ~blind => NoneOpen /\ res.pod.phase \in Ended
    BY <2>1, <2>2 DEF Children, Pods
  <2> QED BY <2>1, <2>3 DEF Children
<1>4. CASE CreatePod
  <2>1. /\ UNCHANGED <<search, kids, kidsCache>>
        /\ \/ blind' = blind /\ res' = res
           \/ blind' = (blind \/ search.completionTime # Nil)
    BY <1>4 DEF CreatePod
  <2>2. rec'.pc \notin {"judge", "complete"}
    BY <1>0, <1>4, ReturnFacts DEF CreatePod, AfterPod, Rec
  <2> QED BY <2>1, <2>2 DEF Children
<1>5. CASE Controller /\ ~(ListChildren \/ Judge \/ MarkCompleted \/ CreatePod)
  <2>1. UNCHANGED <<kids, kidsCache, blind>>
    BY <1>5 DEF Controller, Reconcile, CallFails, NameServiceAccount, CreateServiceAccount,
                CreateRoleBinding, StatusRefused, MarkStarted, RequeueForTTL, DeleteSearch
  <2>2. rec'.pc \notin {"judge", "complete"}
    <3>1. CASE Reconcile
      BY <3>1 DEF Reconcile, FirstCall, Idle
    <3>2. CASE CreateServiceAccount \/ CreateRoleBinding
      BY <1>0, <3>2, ReturnFacts DEF CreateServiceAccount, CreateRoleBinding, Goto, Rec
    <3> QED BY <1>5, <3>1, <3>2, ReturnFacts
         DEF Controller, CallFails, NameServiceAccount, StatusRefused, MarkStarted, RequeueForTTL,
             DeleteSearch
  <2>3. res'.pod = res.pod
    BY <1>0, <1>5 DEF Controller, Reconcile, CallFails, NameServiceAccount, CreateServiceAccount,
          CreateRoleBinding, StatusRefused, MarkStarted, RequeueForTTL, DeleteSearch, Resources
  <2>4. search'.completionTime = search.completionTime \/ search'.completionTime = Nil
    <3>1. search \in SearchObject
      BY DEF TypeOK
    <3>2. CASE NameServiceAccount
      BY <3>1, <3>2 DEF NameServiceAccount, SearchObject
    <3>3. CASE MarkStarted
      <4>1. rec.search.completionTime = Nil
        BY <3>3 DEF MarkStarted, Control
      <4> QED BY <3>1, <3>3, <4>1 DEF MarkStarted, Updated, SearchObject
    <3>4. CASE DeleteSearch
      BY <3>4 DEF DeleteSearch, NoSearch
    <3> QED BY <1>5, <3>2, <3>3, <3>4 DEF Controller, Reconcile, CallFails, CreateServiceAccount,
          CreateRoleBinding, StatusRefused, RequeueForTTL
  <2> QED BY <2>1, <2>2, <2>3, <2>4 DEF Children
<1>6. CASE KidStep
  <2>1. UNCHANGED <<search, res, rec, kidsCache, blind>>
    BY <1>6 DEF KidStep
  <2>2. PICK k \in Kids :
          \/ /\ kids[k] = "none" /\ res.pod.phase \in {"Running", "Unknown"}
             /\ kids' = [kids EXCEPT ![k] = "open"]
          \/ kids[k] = "open" /\ kids' = [kids EXCEPT ![k] = "closed"]
    BY <1>6 DEF KidStep
  <2>3. CASE kids[k] = "none" /\ res.pod.phase \in {"Running", "Unknown"}
             /\ kids' = [kids EXCEPT ![k] = "open"]
    <3>1. res.pod.phase \notin Ended
      BY <2>3
    <3> QED BY <1>0, <2>1, <2>3, <3>1 DEF Children, Pods
  <2>4. CASE kids[k] = "open" /\ kids' = [kids EXCEPT ![k] = "closed"]
    BY <1>0, <2>1, <2>4 DEF Children
  <2> QED BY <2>2, <2>3, <2>4
<1>7. CASE SyncKid
  BY <1>0, <1>7 DEF SyncKid, Children
<1>8. CASE Kubelet \/ LosePod
  <2>1. UNCHANGED <<search, kids, kidsCache, rec, blind>>
        /\ (res.pod.phase \in Ended => res'.pod.phase = "None")
    BY <1>0, <1>8 DEF Kubelet, LosePod, PodStep, Resources, Pod
  <2> QED BY <2>1 DEF Children
<1>9. CASE Restart
  BY <1>9 DEF Restart, Idle, Children
<1>10. CASE UserDeletes
  <2>1. search'.completionTime = Nil
    BY <1>10 DEF UserDeletes, NoSearch
  <2> QED BY <1>10, <2>1 DEF UserDeletes, Children
<1>11. CASE SyncSearch \/ SyncResource \/ Tick \/ UNCHANGED vars
  BY <1>11 DEF SyncSearch, SyncResource, Tick, vars, Children
<1> QED BY <1>1, <1>2, <1>3, <1>4, <1>5, <1>6, <1>7, <1>8, <1>9, <1>10, <1>11
     DEF Next, Controller, Environment

\* How the objects of a Search change: what exists stays, and the pods count up.
LEMMA ResourceChanges ==
  ASSUME TypeOK, [Next]_vars
  PROVE  /\ res.account = "Exists" => res'.account = "Exists"
         /\ res.binding = "Exists" => res'.binding = "Exists"
         /\ res.pod.uid <= res'.pod.uid
<1>0. res \in Resources /\ res.pod \in Pod /\ res.pod.uid \in Nat
  BY DEF TypeOK, Resources, Pod
<1>1. CASE res' = res
  BY <1>0, <1>1
<1>2. CASE CreateServiceAccount \/ CreateRoleBinding
  BY <1>0, <1>2 DEF CreateServiceAccount, CreateRoleBinding, Resources
<1>3. CASE CreatePod
  BY <1>0, <1>3 DEF CreatePod, Resources, Pod
<1>4. CASE Kubelet \/ LosePod
  BY <1>0, <1>4 DEF Kubelet, LosePod, Resources, Pod
<1> QED BY <1>1, <1>2, <1>3, <1>4 DEF Next, Controller, Environment, Reconcile, CallFails,
      NameServiceAccount, StatusRefused, MarkStarted, ListChildren, Judge, MarkCompleted,
      RequeueForTTL, DeleteSearch, SyncSearch, SyncResource, SyncKid, Restart, Tick, UserDeletes,
      KidStep, vars

\* Every step keeps what is known to be made.
LEMMA MadeStep ==
  ASSUME TypeOK, Made, [Next]_vars PROVE Made'
<1>0. rec \in Rec /\ res \in Resources /\ resCache \in Resources
  BY DEF TypeOK
<1>a. /\ res.account = "Exists" => res'.account = "Exists"
      /\ res.binding = "Exists" => res'.binding = "Exists"
  BY ResourceChanges
<1>1. CASE CreateServiceAccount
  <2>1. resCache' = resCache
        /\ (rec'.pc = "idle" \/ (rec'.pc = "binding" /\ res'.account = "Exists"))
    BY <1>0, <1>1, ReturnFacts DEF CreateServiceAccount, Goto, Rec, Resources, Made
  <2> QED BY <1>a, <2>1 DEF Made
<1>2. CASE CreateRoleBinding
  <2>1. resCache' = resCache /\ rec.pc = "binding"
        /\ (rec'.pc = "idle" \/ (rec'.pc = "pod" /\ res'.binding = "Exists"))
    BY <1>0, <1>2, ReturnFacts DEF CreateRoleBinding, Goto, Rec, Resources, Made
  <2> QED BY <1>a, <2>1 DEF Made
<1>3. CASE CreatePod \/ ListChildren \/ Judge
  <2>1. resCache' = resCache /\ rec.pc \in {"pod", "list", "judge"}
    BY <1>3 DEF CreatePod, ListChildren, Judge
  <2> QED BY <1>a, <2>1 DEF Made
<1>4. CASE Reconcile
  <2>1. resCache' = resCache /\ rec'.pc \in {"idle", "name", "account", "delete", "requeue"}
    BY <1>4 DEF Reconcile, FirstCall, Idle
  <2> QED BY <1>a, <2>1 DEF Made
<1>5. CASE CallFails \/ NameServiceAccount \/ StatusRefused \/ MarkStarted \/ MarkCompleted
           \/ RequeueForTTL \/ DeleteSearch
  <2>1. resCache' = resCache /\ rec'.pc = "idle"
    BY <1>5, ReturnFacts DEF CallFails, NameServiceAccount, StatusRefused, MarkStarted,
                             MarkCompleted, RequeueForTTL, DeleteSearch
  <2> QED BY <1>a, <2>1 DEF Made
<1>6. CASE SyncResource
  <2>1. PICK f \in DOMAIN res : resCache' = [resCache EXCEPT ![f] = res[f]]
    BY <1>6 DEF SyncResource
  <2>2. /\ resCache'.account \in {resCache.account, res.account}
        /\ resCache'.binding \in {resCache.binding, res.binding}
    BY <1>0, <2>1 DEF Resources
  <2>3. rec' = rec /\ res' = res
    BY <1>6 DEF SyncResource
  <2> QED BY <2>2, <2>3 DEF Made
<1>7. CASE Restart
  BY <1>7 DEF Restart, Idle, Made
<1>8. CASE SyncSearch \/ SyncKid \/ Environment \/ UNCHANGED vars
  <2>1. resCache' = resCache /\ rec' = rec
    BY <1>8 DEF SyncSearch, SyncKid, Environment, Tick, UserDeletes, Kubelet, LosePod, KidStep, vars
  <2> QED BY <1>a, <2>1 DEF Made
<1> QED BY <1>1, <1>2, <1>3, <1>4, <1>5, <1>6, <1>7, <1>8 DEF Next, Controller

\* What is outstanding stays outstanding until a watch delivers it.
LEMMA OutstandingStep ==
  ASSUME TypeOK, TypeOK', Versions, Control, Pods, Made, [Next]_vars, Outstanding,
         searchCache' = searchCache, resCache' = resCache, search'.life = "Live"
  PROVE  Outstanding'
<1>0. /\ search.ver \in Nat /\ searchCache.ver \in Nat /\ res.pod.uid \in Nat
      /\ resCache.pod.uid \in Nat /\ res'.pod.uid >= res.pod.uid
      /\ res.account \in {"None", "Exists"} /\ resCache.account \in {"None", "Exists"}
      /\ res.binding \in {"None", "Exists"} /\ resCache.binding \in {"None", "Exists"}
  BY ResourceChanges DEF TypeOK, SearchObject, Resources, Pod
<1>1. search' = search \/ search'.ver = search.ver + 1
  BY SearchChanges
<1>2. /\ res.account = "Exists" => res'.account = "Exists"
      /\ res.binding = "Exists" => res'.binding = "Exists"
  BY ResourceChanges
<1>3. CASE searchCache.life = "None" \/ searchCache.ver < search.ver
  BY <1>0, <1>1, <1>3 DEF Outstanding
<1>4. CASE resCache.account # res.account \/ resCache.binding # res.binding
  BY <1>0, <1>2, <1>4 DEF Outstanding, Made
<1>5. CASE resCache.pod.uid < res.pod.uid
  <2>1. res'.pod.uid \in Nat
    BY DEF TypeOK, Resources, Pod
  <2> QED BY <1>0, <1>5, <2>1 DEF Outstanding
<1> QED BY <1>3, <1>4, <1>5 DEF Outstanding

\* Every step keeps the wake-ups: a reconcile that ends without a request in
\* the queue leaves something outstanding or nothing to do.
LEMMA WokenStep ==
  ASSUME TypeOK, TypeOK', Versions, Control, Pods, Made, Made', Woken, [Next]_vars PROVE Woken'
<1> SUFFICES ASSUME due' = Nil PROVE Woken'
  BY DEF Woken
<1>0. /\ rec \in Rec /\ res \in Resources /\ resCache \in Resources /\ search \in SearchObject
      /\ searchCache \in SearchObject /\ due \in Nat \cup {Nil} /\ now \in Nat
      /\ res.pod \in Pod /\ resCache.pod \in Pod
      /\ res.pod.uid \in Nat /\ resCache.pod.uid \in Nat /\ res'.pod.uid \in Nat
      /\ search.ver \in Nat /\ searchCache.ver \in Nat
  BY DEF TypeOK, Resources, Pod, SearchObject
<1>a. \A t \in Nat : Earliest(due, t) # Nil
  <2>1. \A t \in Nat : Earliest(due, t) \in Nat
    BY <1>0, EarliestType
  <2> QED BY <2>1 DEF Nil
<1>b. ~ReturnError /\ ~ReplyLost /\ \A t \in Nat : ~ReturnAfter(t)
  BY <1>0, <1>a DEF ReturnError, ReplyLost, ReturnAfter
<1>1. CASE Reconcile
  <2>1. UNCHANGED <<search, res, searchCache, resCache>> /\ (rec'.pc # "idle" => rec'.search = searchCache)
        /\ rec'.pc \in {"idle", "name", "account", "delete", "requeue"}
    BY <1>1 DEF Reconcile, FirstCall, Idle
  <2>2. ASSUME rec'.pc = "idle", search.life = "Live" PROVE Outstanding' \/ SettledCache'
    <3>1. \/ searchCache.life = "None"
          \/ searchCache.completionTime # Nil /\ TTLSecondsAfterFinished = Nil
      BY <1>1, <2>2 DEF Reconcile, FirstCall, Idle
    <3> QED BY <2>1, <3>1 DEF Outstanding, SettledCache
  <2> QED BY <2>1, <2>2 DEF Woken
<1>2. CASE Restart
  <2>1. search'.life = "None" /\ rec'.pc = "idle"
    BY <1>0, <1>2 DEF Restart, Idle, Nil
  <2> QED BY <2>1 DEF Woken
<1>3. CASE SyncSearch \/ SyncResource
  BY <1>0, <1>3, <1>a DEF SyncSearch, SyncResource
<1>4. CASE CallFails \/ StatusRefused
  BY <1>4, <1>b DEF CallFails, StatusRefused
<1>5. CASE NameServiceAccount \/ MarkStarted \/ MarkCompleted
  <2>1. Return /\ UNCHANGED <<searchCache, resCache, res>> /\ rec.pc # "idle"
    BY <1>5, <1>b DEF NameServiceAccount, MarkStarted, MarkCompleted
  <2>2. rec'.pc = "idle" /\ due = Nil
    BY <2>1, ReturnFacts
  <2>3. rec.search = searchCache
    BY <2>1, <2>2 DEF Woken
  <2>4. search.life = "Live"
    BY <1>5 DEF NameServiceAccount, MarkStarted, MarkCompleted, Accepted
  <2>5. searchCache.life = "Live" /\ searchCache.ver <= search.ver
        /\ (searchCache.ver = search.ver => searchCache = search)
    BY <2>1, <2>3, <2>4 DEF Versions, Older
  <2>6. CASE search'.ver = search.ver + 1
    BY <1>0, <2>1, <2>2, <2>5, <2>6 DEF Woken, Outstanding
  <2>7. CASE NameServiceAccount /\ search' = search /\ search.account = "set"
    <3>1. searchCache.account = "unset"
      BY <2>3, <2>7 DEF NameServiceAccount, Control
    <3>2. searchCache.ver < search.ver
      BY <1>0, <2>5, <2>7, <3>1
    <3> QED BY <2>1, <2>2, <2>7, <3>2 DEF Woken, Outstanding
  <2> QED BY <1>0, <1>5, <2>6, <2>7 DEF NameServiceAccount, MarkStarted, MarkCompleted, Updated, SearchObject
<1>6. CASE CreateServiceAccount
  <2>1. Goto("binding") /\ UNCHANGED <<searchCache, resCache>> /\ rec.pc # "idle"
    BY <1>6, <1>b DEF CreateServiceAccount
  <2>2. rec'.pc = "binding" /\ rec'.search = rec.search /\ due = Nil
    BY <1>0, <2>1 DEF Goto, Rec
  <2> QED BY <2>1, <2>2 DEF Woken
<1>7. CASE CreateRoleBinding
  <2>1. UNCHANGED <<searchCache, resCache>> /\ rec.pc = "binding"
    BY <1>7 DEF CreateRoleBinding
  <2>2. CASE Goto("pod")
    <3>1. rec'.pc = "pod" /\ rec'.search = rec.search /\ due = Nil
      BY <1>0, <2>2 DEF Goto, Rec
    <3> QED BY <2>1, <3>1 DEF Woken
  <2>3. CASE Return /\ UNCHANGED res /\ resCache.binding = "None" /\ res.binding = "Exists"
    BY <2>1, <2>3, ReturnFacts DEF Woken, Outstanding
  <2> QED BY <1>7, <1>b, <2>2, <2>3 DEF CreateRoleBinding
<1>8. CASE CreatePod
  <2>1. UNCHANGED <<searchCache, resCache>> /\ rec.pc = "pod"
    BY <1>8 DEF CreatePod
  <2>2. CASE AfterPod(resCache.pod.phase) /\ UNCHANGED res
    <3>1. rec'.pc \in {"start", "list"} /\ rec'.search = rec.search /\ rec'.pod = resCache.pod.phase
          /\ due = Nil
      BY <1>0, <2>2 DEF AfterPod, Rec
    <3> QED BY <2>1, <3>1 DEF Woken
  <2>3. CASE AfterPod("Pending") /\ res' = [res EXCEPT !.pod = [uid |-> @.uid + 1, phase |-> "Pending"]]
    <3>1. rec'.pc \in {"start", "list"} /\ rec'.search = rec.search /\ due = Nil
      BY <1>0, <2>3 DEF AfterPod, Rec
    <3>2. resCache.pod.uid < res'.pod.uid
      BY <1>0, <2>3 DEF Pods, Resources
    <3> QED BY <2>1, <3>1, <3>2 DEF Woken
  <2>4. CASE Return /\ UNCHANGED res /\ resCache.pod.phase = "None" /\ res.pod.phase # "None"
    <3>1. resCache.pod.uid < res.pod.uid
      BY <1>0, <2>4 DEF Pods
    <3> QED BY <2>1, <2>4, <3>1, ReturnFacts DEF Woken, Outstanding
  <2> QED BY <1>8, <1>b, <2>2, <2>3, <2>4 DEF CreatePod
<1>9. CASE ListChildren
  <2>1. UNCHANGED <<searchCache, resCache, res, due>> /\ rec.pc = "list" /\ rec'.pc = "judge"
        /\ rec'.search = rec.search /\ rec'.pod = rec.pod
    BY <1>0, <1>9 DEF ListChildren, Rec
  <2> QED BY <2>1 DEF Woken
<1>10. CASE Judge
  <2>1. UNCHANGED <<search, searchCache, resCache, res>> /\ rec.pc = "judge" /\ now + Requeue \in Nat
    BY <1>0, <1>10 DEF Judge
  <2>2. CASE Return /\ rec.pod \in {"Pending", "Running"}
    <3>1. due = Nil /\ rec'.pc = "idle"
      BY <2>2, ReturnFacts
    <3>2. rec.search = searchCache /\ (rec.pod = resCache.pod.phase \/ resCache.pod.uid < res.pod.uid)
      BY <2>1, <3>1 DEF Woken
    <3>3. searchCache.completionTime = Nil /\ searchCache.startTime = "set"
          /\ res.account = "Exists" /\ res.binding = "Exists"
      BY <2>1, <3>2 DEF Control, Made
    <3> QED BY <2>1, <2>2, <3>1, <3>2, <3>3 DEF Woken, Outstanding, SettledCache
  <2>3. CASE rec' = [rec EXCEPT !.pc = "complete", !.pod = PodRead] /\ UNCHANGED due
    <3>1. rec'.pc = "complete" /\ rec'.search = rec.search /\ rec'.pod = rec.pod
      BY <1>0, <2>3 DEF Rec, PodRead
    <3> QED BY <2>1, <2>3, <3>1 DEF Woken
  <2> QED BY <1>10, <1>b, <2>1, <2>2, <2>3 DEF Judge, AwaitChildren, PodRead
<1>11. CASE RequeueForTTL
  <2>1. DeleteTime(rec.search) + 1 \in Nat
    BY <1>11, ReadTypes DEF RequeueForTTL, Control, DeleteTime, Nil
  <2>2. Return /\ slipped' /\ UNCHANGED <<search, searchCache, resCache, res>> /\ rec.pc = "requeue"
    BY <1>11, <1>b, <2>1 DEF RequeueForTTL
  <2>3. rec'.pc = "idle" /\ due = Nil
    BY <2>2, ReturnFacts
  <2>4. searchCache.completionTime # Nil
    BY <2>2, <2>3 DEF Woken, Control
  <2> QED BY <2>2, <2>3, <2>4 DEF Woken, SettledCache
<1>12. CASE DeleteSearch
  <2>1. search'.life = "None" /\ rec'.pc = "idle"
    BY <1>12, ReturnFacts DEF DeleteSearch, NoSearch
  <2> QED BY <2>1 DEF Woken
<1>13. CASE SyncKid \/ Environment \/ UNCHANGED vars
  <2>1. UNCHANGED <<searchCache, resCache, rec, due, slipped>>
    BY <1>13 DEF SyncKid, Environment, Tick, UserDeletes, Kubelet, LosePod, KidStep, vars
  <2>2. search'.life = "Live" => search.life = "Live"
    BY SearchChanges
  <2>3. ASSUME search'.life = "Live", Outstanding PROVE Outstanding'
    BY <2>1, <2>3, OutstandingStep
  <2>4. SettledCache => SettledCache'
    BY <2>1, ResourceChanges DEF SettledCache
  <2>5. resCache.pod.uid < res.pod.uid => resCache.pod.uid < res'.pod.uid
    BY <1>0, ResourceChanges
  <2> QED BY <2>1, <2>2, <2>3, <2>4, <2>5 DEF Woken
<1> QED BY <1>1, <1>2, <1>3, <1>4, <1>5, <1>6, <1>7, <1>8, <1>9, <1>10, <1>11, <1>12, <1>13
     DEF Next, Controller

-----------------------------------------------------------------------------
(* The results. *)

\* The invariant holds throughout.
LEMMA SearchInvariant == Spec => [](TypeOK /\ SearchInv)
<1>1. Init => TypeOK
  <2> SUFFICES ASSUME Init PROVE TypeOK
    OBVIOUS
  <2>1. search \in SearchObject
    BY ObjectTypes DEF Init, SearchObject, NoSearch
  <2>2. res \in Resources
    BY ObjectTypes DEF Init, Resources, NoResources
  <2>3. {blind, slipped} \subseteq BOOLEAN
    BY DEF Init
  <2>4. observed \in 0..1 /\ now \in 0..MaxTime /\ faults \in 0..MaxFaults /\ due \in Nat \cup {Nil}
    BY DEF Init
  <2> QED BY <2>1, <2>2, <2>3, <2>4, ObjectTypes DEF Init, TypeOK
<1>2. Init => SearchInv
  <2> SUFFICES ASSUME Init PROVE SearchInv
    OBVIOUS
  <2>1. rec.pc = "idle" /\ searchCache.life = "None" /\ search.completionTime = Nil
    BY DEF Init, Idle, NoSearch
  <2>2. Versions /\ Control /\ Counted
    BY <2>1 DEF Init, Versions, Older, Control, Counted
  <2>3. Pods /\ Made
    <3>1. /\ resCache.pod = NoPod /\ res.pod = NoPod
          /\ resCache.account = "None" /\ resCache.binding = "None"
      BY DEF Init, NoResources
    <3> QED BY <2>1, <3>1 DEF Pods, Made, NoPod, Terminal
  <2>4. Children
    BY <2>1 DEF Init, NoKids, Children
  <2>5. Woken
    BY <2>1 DEF Woken, Outstanding
  <2> QED BY <2>2, <2>3, <2>4, <2>5 DEF SearchInv
<1>3. TypeOK /\ SearchInv /\ [Next]_vars => TypeOK' /\ SearchInv'
  BY TypeStep, VersionsStep, ControlStep, CountedStep, PodsStep, ChildrenStep, MadeStep, WokenStep
     DEF SearchInv
<1> QED BY <1>1, <1>2, <1>3, PTL DEF Spec

\* Every variable keeps its type; the duration of a Search is observed once at
\* most, whatever is retried.
THEOREM TypeCorrect == Spec => []TypeOK
  BY SearchInvariant, PTL

\* A completed Search has no open child, but for the two named ways to overlook
\* one, for any number of children.
THEOREM ChildrenCorrect == Spec => []CompletedAfterChildren
<1>1. SearchInv => CompletedAfterChildren
  BY DEF SearchInv, Children, NoneOpen, CompletedAfterChildren
<1> QED BY <1>1, SearchInvariant, PTL

\* No wake-up is lost: a Search for which nothing is queued is settled.
THEOREM WakeUpsCorrect == Spec => []RestIsSettled
<1>1. TypeOK /\ SearchInv => RestIsSettled
  <2> SUFFICES ASSUME TypeOK, SearchInv, AtRest, search.life = "Live"
               PROVE  \/ search.completionTime # Nil /\ (TTLSecondsAfterFinished = Nil \/ slipped)
                      \/ /\ search.completionTime = Nil /\ search.startTime = "set"
                         /\ res.account = "Exists" /\ res.binding = "Exists"
                         /\ res.pod.phase \in {"Pending", "Running"}
    BY DEF RestIsSettled
  <2>1. search.ver \in Nat /\ res.pod.uid \in Nat
    BY DEF TypeOK, SearchObject, Resources, Pod
  <2>2. ~Outstanding
    BY <2>1 DEF Outstanding, AtRest
  <2> QED BY <2>2 DEF SearchInv, Woken, AtRest, SettledCache
<1> QED BY <1>1, SearchInvariant, PTL

\* What is recorded of a Search stays, however stale the reconciles that follow.
THEOREM RecordCorrect == Spec => RecordIsFinal
<1>1. TypeOK /\ SearchInv /\ [Next]_vars =>
        [search'.life = "Live" =>
           /\ search.startTime = "set" => search'.startTime = "set"
           /\ search.completionTime # Nil =>
                search'.completionTime = search.completionTime /\ search'.complete = search.complete]_vars
  BY SearchChanges DEF SearchInv
<1> QED BY <1>1, SearchInvariant, PTL DEF Spec, RecordIsFinal

\* Nothing is deleted before its TTL has run out.
THEOREM DeletionCorrect == Spec => NoEarlyDeletion
<1>1. TypeOK /\ SearchInv /\ [Next]_vars =>
        [DeleteSearch => search.completionTime # Nil /\ now > DeleteTime(search)]_vars
  <2> SUFFICES ASSUME TypeOK, SearchInv, DeleteSearch
               PROVE  search.completionTime # Nil /\ now > DeleteTime(search)
    OBVIOUS
  <2>1. rec.pc = "delete" /\ search.life = "Live"
    BY DEF DeleteSearch
  <2>2. rec.search.life = "Live" /\ rec.search.completionTime # Nil /\ now > DeleteTime(rec.search)
    BY <2>1 DEF SearchInv, Versions, Control
  <2>3. search.completionTime = rec.search.completionTime
    BY <2>1, <2>2 DEF SearchInv, Versions, Older
  <2> QED BY <2>2, <2>3 DEF DeleteTime
<1> QED BY <1>1, SearchInvariant, PTL DEF Spec, NoEarlyDeletion

=============================================================================
