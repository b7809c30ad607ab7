------------------------------ MODULE Admission ------------------------------
(***************************************************************************)
(* The admission webhooks (internal/webhook/v1beta1) between the users and  *)
(* controllers who write objects and the API server that stores them.       *)
(*                                                                          *)
(* A write is reviewed, then committed, then seen by the webhooks' cache.   *)
(* The three are separate steps: the webhooks read the cache, several       *)
(* requests may be in flight, and nothing locks the objects a review looks  *)
(* at.  A refused request leaves no trace, so only accepted ones are steps. *)
(* The controllers then build pods from what their cache holds.             *)
(***************************************************************************)
EXTENDS ScanPod

CONSTANTS
  Keys,         \* the objects <<kind, name>> that may exist
  Candidates,   \* Candidates[kind]: the specs that requests carry
  Installed,    \* the objects there are in the beginning
  MaxRequests,  \* bound on the number of requests accepted for review
  MaxInFlight   \* bound on the requests reviewed and not committed

VARIABLES
  store,      \* the API server's objects: a function on the existing keys
  cache,      \* what the manager's informers have delivered of it
  inFlight,   \* requests that were admitted and are not yet committed
  raced,      \* pairs of objects whose writes overlapped (history)
  pods,       \* the pods the controllers built for Pipelines and Searches
  requests    \* the number of requests reviewed so far

vars == <<store, cache, inFlight, raced, pods, requests>>

DefinitionKinds == CrawlerKinds \cup DownloaderKinds \cup UploaderKinds
Kinds == DefinitionKinds \cup
  {"Profile", "Search", "CronSearch", "Pipeline", "ServiceAccount"}

SearchSpec == [crawlerRef : References(CrawlerKinds),
               serviceAccountName : Names \cup {Empty}]
\* Of the template only the crawler reference matters here; scheduleOK says
\* that the schedule parses, ttl that the template sets a TTL.
CronSearchSpec == [crawlerRef : References(CrawlerKinds),
                   scheduleOK : BOOLEAN, ttl : BOOLEAN]
PipelineSpec == [profileRef : References({"Profile"}),
                 downloaderRef : References(DownloaderKinds),
                 serviceAccountName : Names \cup {Empty},
                 finalizer : BOOLEAN, deleting : BOOLEAN]

SpecOf(kind) ==
  CASE kind \in CrawlerKinds    -> CrawlerSpec
    [] kind \in DownloaderKinds -> DownloaderSpec
    [] kind \in UploaderKinds   -> UploaderSpec
    [] kind = "Profile"         -> ProfileSpec
    [] kind = "Search"          -> SearchSpec
    [] kind = "CronSearch"      -> CronSearchSpec
    [] kind = "Pipeline"        -> PipelineSpec
    [] OTHER                    -> [present : {TRUE}]

Objects(f) == DOMAIN f \subseteq Keys /\ \A k \in DOMAIN f : f[k] \in SpecOf(k[1])

-----------------------------------------------------------------------------
(* References between objects. *)

\* The references of an object of the given kind.
RefsOf(kind, obj) ==
  CASE kind \in {"Search", "CronSearch"} -> {obj.crawlerRef}
    [] kind = "Pipeline" -> {obj.profileRef, obj.downloaderRef}
    [] kind = "Profile"  -> obj.uploaderRefs
    [] OTHER             -> {}

\* The kinds with references, and of these the ones whose references are
\* looked up on admission.
DependantKinds == {"Search", "CronSearch", "Profile", "Pipeline"}
Referrers      == {"Search", "Profile", "Pipeline"}

refMatches(ref, key) == ref.name = key[2] /\ ref.kind = key[1]

\* The objects of a kind in c with a reference that names key.
Dependants(c, kind, key) ==
  {d \in DOMAIN c : d[1] = kind /\ \E ref \in RefsOf(kind, c[d]) : refMatches(ref, key)}

\* The loops over Searches, CronSearches and Pipelines break after the first
\* match: what they return has one element, and the order of a cached list is
\* any order.
FirstDependant(c, kind, key) ==
  LET all == Dependants(c, kind, key)
  IN IF all = {} THEN {{}} ELSE {{d} : d \in all}

\* Mutant: old and new are swapped.
parseNewRequiredParameters_Swapped(old, new) ==
  [q \in {p \in DOMAIN old \ DOMAIN new : old[p] = Nil} |-> Nil]

\* New are the parameters whose name is new.
parseNewRequiredParameters(old, new) ==
  [q \in {p \in DOMAIN new \ DOMAIN old : new[p] = Nil} |-> Nil]

\* Every reference of the dependants to the updated object sets the parameters
\* that its update newly requires.
NewlyRequiredSet(c, dependants, r) ==
  LET new == parseNewRequiredParameters(r.old.parameters, r.obj.parameters)
  IN \A d \in dependants : \A ref \in RefsOf(d[1], c[d]) :
       refMatches(ref, r.key) => ParseSetParameters(ref, new) = {}

-----------------------------------------------------------------------------
(* The validators.  c is the cache, r the request: its op, the key of its   *)
(* object, the stored object old and the wanted object obj (the two are the *)
(* same where there is only one).                                           *)

\* What the webhooks of crawlers, downloaders and uploaders share.
DefinitionVerdict(c, r, dependants) ==
  \/ r.op = "Create" /\ ValidateContainerDefinition(r.obj.container)
  \/ /\ r.op = "Update" /\ NewlyRequiredSet(c, dependants, r)
     /\ ValidateContainerDefinition(r.obj.container)
  \/ r.op = "Delete" /\ dependants = {}

\* Mutant: CronSearches are not looked at.
CrawlerValidator_SearchesOnly(c, r) ==
  \E searches \in FirstDependant(c, "Search", r.key) : DefinitionVerdict(c, r, searches)

CrawlerValidator(c, r) ==
  \E searches \in FirstDependant(c, "Search", r.key),
     cronSearches \in FirstDependant(c, "CronSearch", r.key) :
       DefinitionVerdict(c, r, searches \cup cronSearches)

DownloaderValidator(c, r) ==
  \E pipelines \in FirstDependant(c, "Pipeline", r.key) : DefinitionVerdict(c, r, pipelines)

\* The break ends the loop over one Profile's references: all Profiles are found.
UploaderValidator(c, r) == DefinitionVerdict(c, r, Dependants(c, "Profile", r.key))

\* The cluster-scoped kinds have copies of these webhooks that match their own
\* kind (a part of r.key) and list the dependants of all namespaces.
ClusterCrawlerValidator(c, r)    == CrawlerValidator(c, r)
ClusterUploaderValidator(c, r)   == UploaderValidator(c, r)

\* Mutant: the copy still matches the namespaced kind.
ClusterDownloaderValidator_Copied(c, r) ==
  DownloaderValidator(c, [r EXCEPT !.key[1] = "Downloader"])

ClusterDownloaderValidator(c, r) == DownloaderValidator(c, r)

\* getPipelineReferences compares names only.
ProfileValidator(c, r) ==
  LET pipelines == {d \in DOMAIN c : d[1] = "Pipeline" /\ c[d].profileRef.name = r.key[2]}
  IN \/ r.op = "Create" /\ ValidateProfile(c, r.obj)
     \/ /\ r.op = "Update" /\ ValidateProfile(c, r.obj)
        /\ \A d \in pipelines : ParseSetParameters(c[d].profileRef,
             parseNewRequiredParameters(r.old.parameters, r.obj.parameters)) = {}
     \/ r.op = "Delete" /\ pipelines = {}

validateSearch(c, search) ==
  /\ \E k \in CrawlerInvocationFromReference(c, search.crawlerRef) :
       ValidateParameterReference(search.crawlerRef, c[k].parameters)
  /\ ValidateNoParentParameters(search.crawlerRef)

\* Deletions of a Search, CronSearch or Pipeline are not sent to a webhook.
SearchValidator(c, r) ==
  \/ r.op = "Create" /\ validateSearch(c, r.obj)
  \/ /\ r.op = "Update" /\ validateSearch(c, r.obj)
     /\ r.old.serviceAccountName \in {Empty, r.obj.serviceAccountName}
  \/ r.op = "Delete"

\* The crawler of a CronSearch is not looked at.
CronSearchValidator(r) ==
  r.op # "Delete" =>
    /\ LengthOf[r.key[2]] <= DNS1035LabelMaxLength - 11
    /\ r.obj.scheduleOK /\ ~r.obj.ttl

\* The update that removes the metrics finalizer is validated like any other.
PipelineValidator(c, r) == r.op # "Delete" => ValidatePipeline(c, r.key[2], r.obj)

Validates(c, r) ==
  LET kind == r.key[1] IN
  CASE kind = "Crawler"           -> CrawlerValidator(c, r)
    [] kind = "ClusterCrawler"    -> ClusterCrawlerValidator(c, r)
    [] kind = "Downloader"        -> DownloaderValidator(c, r)
    [] kind = "ClusterDownloader" -> ClusterDownloaderValidator(c, r)
    [] kind = "Uploader"          -> UploaderValidator(c, r)
    [] kind = "ClusterUploader"   -> ClusterUploaderValidator(c, r)
    [] kind = "Profile"           -> ProfileValidator(c, r)
    [] kind = "Search"            -> SearchValidator(c, r)
    [] kind = "CronSearch"        -> CronSearchValidator(r)
    [] kind = "Pipeline"          -> PipelineValidator(c, r)
    [] OTHER                      -> TRUE

-----------------------------------------------------------------------------
(* The defaulters, which run before the validators.                         *)

PipelineDefault(pipeline) ==
  [pipeline EXCEPT
     !.serviceAccountName = IF @ = Empty THEN "default" ELSE @,
     !.downloaderRef = ReferenceDefaulter(@, "Downloader"),
     !.profileRef = ReferenceDefaulter(@, "Profile")]

SearchDefault(search) ==
  [search EXCEPT !.crawlerRef = ReferenceDefaulter(@, "Crawler")]

\* Mutant: the constant is that of another kind.
CronSearchDefault_Search(cronSearch) ==
  [cronSearch EXCEPT !.crawlerRef = ReferenceDefaulter(@, "Search")]

\* The defaults of the policy, the limits and suspend have no reader here.
CronSearchDefault(cronSearch) ==
  [cronSearch EXCEPT !.crawlerRef = ReferenceDefaulter(@, "Crawler")]

\* The Profile's defaulter is registered for the resource "profile", which the
\* API server does not have (it serves "profiles"), and never runs.
Default(kind, obj) ==
  CASE kind = "Pipeline"   -> PipelineDefault(obj)
    [] kind = "Search"     -> SearchDefault(obj)
    [] kind = "CronSearch" -> CronSearchDefault(obj)
    [] OTHER               -> obj

-----------------------------------------------------------------------------
(* Requests. *)

\* What is installed at first went through the webhooks.
ASSUME AdmissionAssumption ==
  /\ Keys \subseteq Kinds \X Names /\ "default" \in Names
  /\ MaxRequests \in Nat /\ MaxInFlight \in Nat \ {0}
  /\ \A kind \in Kinds : Candidates[kind] \subseteq SpecOf(kind)
  /\ Objects(Installed)
  /\ \A k \in DOMAIN Installed : Default(k[1], Installed[k]) = Installed[k]
  /\ \A k \in DOMAIN Installed : Validates(Installed,
       [op |-> "Create", key |-> k, old |-> Installed[k], obj |-> Installed[k]])

Put(f, k, v)  == [x \in DOMAIN f \cup {k} |-> IF x = k THEN v ELSE f[x]]
Without(f, k) == [x \in DOMAIN f \ {k} |-> f[x]]

Init ==
  /\ store = Installed /\ cache = Installed
  /\ inFlight = {} /\ raced = {} /\ requests = 0
  /\ pods = [k \in {} |-> Nil]

\* Objects whose last write the cache may not show.
Lagging ==
  {k \in Keys : \/ (k \in DOMAIN store) # (k \in DOMAIN cache)
                \/ k \in DOMAIN store /\ k \in DOMAIN cache /\ store[k] # cache[k]}

Busy == {x.key : x \in inFlight} \cup Lagging

\* A review that accepts: its answer is based on the cache.  From here on it
\* overlaps with every write that is in flight or unseen.
Review(r) ==
  /\ requests < MaxRequests /\ requests' = requests + 1
  /\ Cardinality(inFlight) < MaxInFlight
  /\ Validates(cache, r)
  /\ inFlight' = inFlight \cup {r}
  /\ raced' = raced \cup {{r.key, k} : k \in Busy}
  /\ UNCHANGED <<store, cache, pods>>

\* Objects come without a finalizer and are not being deleted at first.
ReviewCreate ==
  \E k \in Keys \ DOMAIN store : \E obj \in Candidates[k[1]] :
    /\ k[1] = "Pipeline" => ~obj.finalizer /\ ~obj.deleting
    /\ Review([op |-> "Create", key |-> k, old |-> Default(k[1], obj),
                    obj |-> Default(k[1], obj)])

\* The deletion timestamp is not the client's to write.
ReviewUpdate ==
  \E k \in DOMAIN store : \E obj \in Candidates[k[1]] :
    /\ Default(k[1], obj) # store[k]
    /\ k[1] = "Pipeline" => obj.deleting = store[k].deleting
    /\ Review([op |-> "Update", key |-> k, old |-> store[k], obj |-> Default(k[1], obj)])

ReviewDelete ==
  \E k \in DOMAIN store :
    Review([op |-> "Delete", key |-> k, old |-> store[k], obj |-> store[k]])

\* The object is still the one the request was made for.
Applies(r) ==
  IF r.op = "Create" THEN r.key \notin DOMAIN store
  ELSE r.key \in DOMAIN store /\ store[r.key] = r.old

\* The API server stores the result.  A Pipeline with a finalizer is only
\* marked when it is deleted, and goes when the finalizer is removed.
Commit ==
  \E r \in inFlight :
    /\ Applies(r)
    /\ \/ r.op = "Create" /\ store' = Put(store, r.key, r.obj)
       \/ /\ r.op = "Update"
          /\ store' = IF r.key[1] = "Pipeline" /\ r.obj.deleting /\ ~r.obj.finalizer
                       THEN Without(store, r.key) ELSE Put(store, r.key, r.obj)
       \/ /\ r.op = "Delete"
          /\ store' = IF r.key[1] = "Pipeline" /\ r.old.finalizer
                       THEN Put(store, r.key, [r.old EXCEPT !.deleting = TRUE])
                       ELSE Without(store, r.key)
    /\ inFlight' = inFlight \ {r}
    /\ UNCHANGED <<cache, raced, pods, requests>>

\* A conflict.  A request that fails after its review for another reason might
\* as well have been refused.
Conflict ==
  /\ \E r \in inFlight : ~Applies(r) /\ inFlight' = inFlight \ {r}
  /\ UNCHANGED <<store, cache, raced, pods, requests>>

\* An informer delivers the present state of an object.
Observe ==
  \E k \in Lagging :
    /\ cache' = IF k \in DOMAIN store THEN Put(cache, k, store[k]) ELSE Without(cache, k)
    /\ UNCHANGED <<store, inFlight, raced, pods, requests>>

-----------------------------------------------------------------------------
(* The controllers. *)

\* Reconcile of a Pipeline without a pod: the definitions are fetched, and a
\* missing one is an error that is retried.
StartPipeline ==
  \E k \in DOMAIN cache \ DOMAIN pods : LET pipeline == cache[k] IN
    /\ k[1] = "Pipeline" /\ ~pipeline.deleting
    /\ DownloaderInvocationFromReference(cache, pipeline.downloaderRef) # {}
    /\ \E p \in ProfileInvocationFromReference(cache, pipeline.profileRef) :
         \A ref \in cache[p].uploaderRefs : UploaderInvocationFromReference(cache, ref) # {}
    /\ pods' = Put(pods, k, populateScanPod(cache, pipeline))
    /\ UNCHANGED <<store, cache, inFlight, raced, requests>>

\* Reconcile of a Search, once it has a service account.
StartSearch ==
  \E k \in DOMAIN cache \ DOMAIN pods :
    /\ k[1] = "Search" /\ cache[k].serviceAccountName # Empty
    /\ CrawlerInvocationFromReference(cache, cache[k].crawlerRef) # {}
    /\ pods' = Put(pods, k, populateSearchPod(cache, cache[k]))
    /\ UNCHANGED <<store, cache, inFlight, raced, requests>>

\* The pod of an owner that is gone is collected.
Collect ==
  \E k \in DOMAIN pods \ DOMAIN store :
    pods' = Without(pods, k) /\ UNCHANGED <<store, cache, inFlight, raced, requests>>

Next ==
  \/ ReviewCreate \/ ReviewUpdate \/ ReviewDelete
  \/ Commit \/ Conflict \/ Observe
  \/ StartPipeline \/ StartSearch \/ Collect

Spec == Init /\ [][Next]_vars

-----------------------------------------------------------------------------
(* Properties. *)

\* Whatever is stored, cached or on its way is an object of its kind.
TypeOK ==
  /\ Objects(store) /\ Objects(cache)
  /\ \A r \in inFlight :
       /\ r.op \in {"Create", "Update", "Delete"} /\ r.key \in Keys
       /\ r.old \in SpecOf(r.key[1]) /\ r.obj \in SpecOf(r.key[1])
  /\ raced \subseteq SUBSET Keys /\ DOMAIN pods \subseteq Keys
  /\ requests \in 0..MaxRequests

\* Some writes of the two objects overlapped.
Raced(d, k) == {d, k} \in raced

\* What an object uses: each of its references, with the key of the object that
\* a controller fetches for it.  The code that resolves a reference supplies a
\* missing kind; the webhooks' refMatches does not.
Use(ref, default) ==
  [ref |-> ref, key |-> <<ReferenceDefaulter(ref, default).kind, ref.name>>]

Uses(kind, obj) ==
  CASE kind \in {"Search", "CronSearch"} -> {Use(obj.crawlerRef, "Crawler")}
    [] kind = "Pipeline" -> {Use(obj.profileRef, "Profile"), Use(obj.downloaderRef, "Downloader")}
    [] kind = "Profile"  -> {Use(ref, "Uploader") : ref \in obj.uploaderRefs}
    [] OTHER             -> {}

\* The one reference that no lookup sees: the Profile's defaulter never runs, so
\* its uploader references may be stored without a kind.
Unseen(d, ref) == d[1] = "Profile" /\ ref.kind = Empty

\* The webhooks of definitions and of their users together keep references
\* alive: what a Search, Profile or Pipeline uses exists, unless the two were
\* written at the same time or the reference is one that no lookup sees.
RefsResolve ==
  \A d \in DOMAIN store : d[1] \in Referrers =>
    \A u \in Uses(d[1], store[d]) :
      u.key \in DOMAIN store \/ Raced(d, u.key) \/ Unseen(d, u.ref)

GoneUnreferenced ==
  \A k \in DOMAIN store \ DOMAIN store', d \in DOMAIN store' :
    \A u \in Uses(d[1], store'[d]) :
      u.key = k => Raced(d, k) \/ Unseen(d, u.ref)

\* ValidateDelete: nothing is deleted under an object that uses it, also not
\* under a CronSearch, with two exceptions: the two were written at the same
\* time, or a Profile uses an uploader by a reference without a kind.
DeletedUnreferenced == [][GoneUnreferenced]_vars

\* Another object of d's kind may have been the first dependant of k that the
\* webhook came across.
Shadowed(c, d, k) ==
  /\ k[1] \in CrawlerKinds \cup DownloaderKinds
  /\ \E e \in Keys \ {d} : e[1] = d[1] /\ (e \in Dependants(c, d[1], k) \/ Raced(e, k))

\* The reference ref of d to k sets q, or is one that the webhook of k need not
\* have looked at.
Prepared(c, d, ref, k, old, q) ==
  \/ q \in DOMAIN ref.parameters
  \/ q \in DOMAIN old.parameters \/ Shadowed(c, d, k) \/ Raced(d, k) \/ Unseen(d, ref)

DependantsPrepared ==
  \A k \in DOMAIN store \cap DOMAIN store', d \in DOMAIN store :
    k[1] \in DefinitionKinds \cup {"Profile"} /\ store[k] # store'[k] =>
      \A u \in Uses(d[1], store[d]),
         q \in GetNewRequiredParameters(store[k].parameters, store'[k].parameters) :
        u.key = k => Prepared(store, d, u.ref, k, store[k], q)

\* ValidateUpdate: a parameter that an update newly requires is set by those
\* who use the definition, but for the cases the webhooks do not look at: it
\* was optional before, another dependant was found first, the two were written
\* at the same time, or the reference has no kind and is found by no lookup.
UpdateKeepsDependants == [][DependantsPrepared]_vars

ScanPods == {pods[k] : k \in {x \in DOMAIN pods : x[1] = "Pipeline"}}

\* The names that an uploader's sidecar waits for are the names under which the
\* scanners' sidecars leave their marks.
AwaitedAreMarked ==
  \A pod \in ScanPods : \A u \in pod.uploaders :
    u.container.awaits = {s.self : s \in pod.scanners}

\* A parameter that an uploader takes from its Profile has the value that the
\* scanners of the same pod see.
UploadersSeeScanValues ==
  \A pod \in ScanPods : \A u \in pod.uploaders, s \in pod.scanners :
    \A q \in DOMAIN u.ref.parameters :
      LET env == ParameterToEnvironmentVariable(q)
          parent == u.ref.parameters[q].valueFrom
      IN parent # Nil /\ env \in DOMAIN u.container.env =>
           /\ ParameterToEnvironmentVariable(parent) \in DOMAIN s.env
           /\ u.container.env[env] = s.env[ParameterToEnvironmentVariable(parent)]

\* The value of container c's condition in the environment of its pod.
ConditionHolds(profile, ref, c) ==
  LET env == ParseParameterEnvVars(profile.parameters, ref.parameters, {})
      v   == ParameterToEnvironmentVariable(c.includeIf)
  IN c.includeIf = Nil \/ (v \in DOMAIN env /\ env[v] # Empty)

FilteredByEnv ==
  \A k \in DOMAIN pods' \ DOMAIN pods : k[1] = "Pipeline" =>
    \A p \in ProfileInvocationFromReference(cache, cache[k].profileRef) :
      \A c \in cache[p].containers :
        (\E s \in pods'[k].scanners : s.name = <<"scanner-", c.name>>)
          <=> ConditionHolds(cache[p], cache[k].profileRef, c)

\* The filter of conditional scanners and the environment they get are computed
\* apart and agree: a scanner is in the pod exactly if the parameter that it
\* depends on has a value there.
ConditionsAgree == [][FilteredByEnv]_vars

-----------------------------------------------------------------------------
(* What the comments of the webhooks say. *)

\* crawler_webhook.go: "no new required parameters have been added that are not
\* defined in existing (Cron)?Search resources that reference it (on update)".
NewRequiredAreSet ==
  [][\A k \in DOMAIN store \cap DOMAIN store', d \in DOMAIN store :
       k[1] \in CrawlerKinds =>
         \A u \in Uses(d[1], store[d]),
            q \in GetNewRequiredParameters(store[k].parameters, store'[k].parameters) :
           u.key = k => q \in DOMAIN u.ref.parameters \/ Raced(d, k)]_vars

=============================================================================
