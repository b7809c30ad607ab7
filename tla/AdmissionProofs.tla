--------------------------- MODULE AdmissionProofs ---------------------------
(***************************************************************************)
(* Type correctness of Admission, and that the webhooks keep references     *)
(* alive, for any cluster and any number of concurrent requests.            *)
(***************************************************************************)
EXTENDS Admission, TLAPS

-----------------------------------------------------------------------------
(* Types. *)

\* SpecOf, kind by kind.
LEMMA SpecOfKinds ==
  /\ \A kind \in CrawlerKinds : SpecOf(kind) = CrawlerSpec
  /\ \A kind \in DownloaderKinds : SpecOf(kind) = DownloaderSpec
  /\ \A kind \in UploaderKinds : SpecOf(kind) = UploaderSpec
  /\ SpecOf("Profile") = ProfileSpec /\ SpecOf("Search") = SearchSpec
  /\ SpecOf("CronSearch") = CronSearchSpec /\ SpecOf("Pipeline") = PipelineSpec
  /\ SpecOf("ServiceAccount") = [present : {TRUE}]
BY DEF SpecOf, CrawlerKinds, DownloaderKinds, UploaderKinds

\* RefsOf, kind by kind.
LEMMA RefsOfKinds ==
  ASSUME NEW obj
  PROVE  /\ RefsOf("Search", obj) = {obj.crawlerRef}
         /\ RefsOf("CronSearch", obj) = {obj.crawlerRef}
         /\ RefsOf("Pipeline", obj) = {obj.profileRef, obj.downloaderRef}
         /\ RefsOf("Profile", obj) = obj.uploaderRefs
BY DEF RefsOf

\* The kinds that an object of a kind may refer to.
TargetKinds(kind) ==
  CASE kind \in {"Search", "CronSearch"} -> CrawlerKinds
    [] kind = "Pipeline" -> DownloaderKinds \cup {"Profile"}
    [] OTHER -> UploaderKinds

\* A reference has a name, and the kind of a target or none.
LEMMA RefTypes ==
  ASSUME NEW kind \in DependantKinds, NEW obj \in SpecOf(kind), NEW ref \in RefsOf(kind, obj)
  PROVE  ref.name \in Names /\ ref.kind \in TargetKinds(kind) \cup {Empty}
<1>1. CASE kind \in {"Search", "CronSearch"}
  <2>0. obj \in SearchSpec \/ obj \in CronSearchSpec
    BY <1>1, SpecOfKinds
  <2>1. ref \in References(CrawlerKinds)
    BY <1>1, <2>0, RefsOfKinds DEF SearchSpec, CronSearchSpec
  <2> QED BY <1>1, <2>1 DEF TargetKinds, References
<1>2. CASE kind = "Pipeline"
  <2>0. obj \in PipelineSpec
    BY <1>2, SpecOfKinds
  <2>1. obj.profileRef \in References({"Profile"}) /\ obj.downloaderRef \in References(DownloaderKinds)
    BY <2>0 DEF PipelineSpec
  <2> QED BY <1>2, <2>1, RefsOfKinds DEF TargetKinds, References
<1>3. CASE kind = "Profile"
  <2>0. obj \in ProfileSpec
    BY <1>3, SpecOfKinds
  <2>1. ref \in References(UploaderKinds)
    BY <1>3, <2>0, RefsOfKinds DEF ProfileSpec
  <2> QED BY <1>3, <2>1 DEF TargetKinds, References
<1> QED BY <1>1, <1>2, <1>3 DEF DependantKinds

\* ReferenceDefaulter yields a reference of the same kinds.
LEMMA DefaulterType ==
  ASSUME NEW kinds, NEW kind \in kinds, NEW ref \in References(kinds)
  PROVE  ReferenceDefaulter(ref, kind) \in References(kinds)
BY DEF ReferenceDefaulter, References

\* The defaulters keep the type of an object.
LEMMA DefaultType ==
  ASSUME NEW kind \in Kinds, NEW obj \in SpecOf(kind)
  PROVE  Default(kind, obj) \in SpecOf(kind)
<1>1. CASE kind = "Pipeline"
  <2>1. obj \in PipelineSpec
    BY <1>1, SpecOfKinds
  <2>2. /\ ReferenceDefaulter(obj.downloaderRef, "Downloader") \in References(DownloaderKinds)
        /\ ReferenceDefaulter(obj.profileRef, "Profile") \in References({"Profile"})
    BY <2>1, DefaulterType DEF PipelineSpec, DownloaderKinds
  <2>3. PipelineDefault(obj) \in PipelineSpec
    BY <2>1, <2>2, AdmissionAssumption DEF PipelineDefault, PipelineSpec
  <2> QED BY <1>1, <2>3, SpecOfKinds DEF Default
<1>2. CASE kind = "Search"
  <2>1. obj \in SearchSpec
    BY <1>2, SpecOfKinds
  <2>2. ReferenceDefaulter(obj.crawlerRef, "Crawler") \in References(CrawlerKinds)
    BY <2>1, DefaulterType DEF SearchSpec, CrawlerKinds
  <2>3. SearchDefault(obj) \in SearchSpec
    BY <2>1, <2>2 DEF SearchDefault, SearchSpec
  <2> QED BY <1>2, <2>3, SpecOfKinds DEF Default
<1>3. CASE kind = "CronSearch"
  <2>1. obj \in CronSearchSpec
    BY <1>3, SpecOfKinds
  <2>2. ReferenceDefaulter(obj.crawlerRef, "Crawler") \in References(CrawlerKinds)
    BY <2>1, DefaulterType DEF CronSearchSpec, CrawlerKinds
  <2>3. CronSearchDefault(obj) \in CronSearchSpec
    BY <2>1, <2>2 DEF CronSearchDefault, CronSearchSpec
  <2> QED BY <1>3, <2>3, SpecOfKinds DEF Default
<1>4. CASE kind \notin {"Pipeline", "Search", "CronSearch"}
  BY <1>4 DEF Default
<1> QED BY <1>1, <1>2, <1>3, <1>4

\* Put and Without keep a set of typed objects.
LEMMA PutObjects ==
  ASSUME NEW f, Objects(f), NEW k \in Keys, NEW v \in SpecOf(k[1])
  PROVE  /\ Objects(Put(f, k, v)) /\ DOMAIN Put(f, k, v) = DOMAIN f \cup {k}
         /\ Put(f, k, v)[k] = v
         /\ \A x \in DOMAIN f : x # k => Put(f, k, v)[x] = f[x]
BY DEF Objects, Put

\* What is left when an object is removed.
LEMMA WithoutObjects ==
  ASSUME NEW f, Objects(f), NEW k
  PROVE  /\ Objects(Without(f, k)) /\ DOMAIN Without(f, k) = DOMAIN f \ {k}
         /\ \A x \in DOMAIN f : x # k => Without(f, k)[x] = f[x]
BY DEF Objects, Without

\* A key is a pair of a kind and a name.
LEMMA KeyParts ==
  ASSUME NEW k \in Keys
  PROVE  k[1] \in Kinds /\ k[2] \in Names /\ k = <<k[1], k[2]>>
BY AdmissionAssumption

\* Keys in flight or lagging are keys.
LEMMA BusyKeys ==
  ASSUME TypeOK
  PROVE  Busy \subseteq Keys
BY DEF TypeOK, Busy, Lagging

\* The installed objects are of their kinds.
LEMMA TypeInit == Init => TypeOK
<1> SUFFICES ASSUME Init PROVE TypeOK
  OBVIOUS
<1>1. Objects(store) /\ Objects(cache)
  BY AdmissionAssumption DEF Init
<1>2. DOMAIN pods \subseteq Keys
  BY DEF Init
<1>3. requests \in 0..MaxRequests
  BY AdmissionAssumption DEF Init
<1> QED BY <1>1, <1>2, <1>3 DEF Init, TypeOK

\* The type of a request.
Request(r) ==
  /\ r.op \in {"Create", "Update", "Delete"} /\ r.key \in Keys
  /\ r.old \in SpecOf(r.key[1]) /\ r.obj \in SpecOf(r.key[1])

\* What a step of the API server's users reviews is a request.
LEMMA ReviewType ==
  ASSUME TypeOK, NEW r, Request(r), Review(r)
  PROVE  TypeOK'
<1>1. {{r.key, k} : k \in Busy} \subseteq SUBSET Keys
  BY BusyKeys DEF Request
<1>2. raced' \subseteq SUBSET Keys
  BY <1>1 DEF TypeOK, Review
<1>3. requests' \in 0..MaxRequests
  BY AdmissionAssumption DEF TypeOK, Review
<1>4. UNCHANGED <<store, cache, pods>> /\ inFlight' = inFlight \cup {r}
  BY DEF Review
<1>5. \A x \in inFlight' : Request(x)
  BY <1>4 DEF TypeOK, Request
<1>6. Objects(store') /\ Objects(cache') /\ DOMAIN pods' \subseteq Keys
  BY <1>4 DEF TypeOK
<1> QED BY <1>2, <1>3, <1>5, <1>6 DEF TypeOK, Request, Objects

\* The steps Review is taken with are requests.
LEMMA CreateIsReview ==
  ASSUME TypeOK, ReviewCreate
  PROVE  \E r : /\ Request(r) /\ Review(r) /\ r.op = "Create"
                /\ r.key \notin DOMAIN store
                /\ \E obj \in SpecOf(r.key[1]) : r.obj = Default(r.key[1], obj)
<1>0. PICK k \in Keys \ DOMAIN store : \E obj \in Candidates[k[1]] :
        Review([op |-> "Create", key |-> k, old |-> Default(k[1], obj), obj |-> Default(k[1], obj)])
  BY DEF ReviewCreate
<1>1. PICK obj \in Candidates[k[1]] :
        Review([op |-> "Create", key |-> k, old |-> Default(k[1], obj), obj |-> Default(k[1], obj)])
  BY <1>0
<1>2. obj \in SpecOf(k[1])
  BY KeyParts, AdmissionAssumption
<1>3. Default(k[1], obj) \in SpecOf(k[1])
  BY <1>2, KeyParts, DefaultType
<1> DEFINE r == [op |-> "Create", key |-> k, old |-> Default(k[1], obj), obj |-> Default(k[1], obj)]
<1>4. Request(r)
  BY <1>3 DEF Request
<1> QED BY <1>1, <1>2, <1>4

\* An update is the review of a request made for the stored object.
LEMMA UpdateIsReview ==
  ASSUME TypeOK, ReviewUpdate
  PROVE  \E r : /\ Request(r) /\ Review(r) /\ r.op = "Update"
                /\ r.key \in DOMAIN store /\ r.old = store[r.key]
                /\ \E obj \in SpecOf(r.key[1]) : r.obj = Default(r.key[1], obj)
<1>0. PICK k \in DOMAIN store : \E obj \in Candidates[k[1]] :
        Review([op |-> "Update", key |-> k, old |-> store[k], obj |-> Default(k[1], obj)])
  BY DEF ReviewUpdate
<1>1. PICK obj \in Candidates[k[1]] :
        Review([op |-> "Update", key |-> k, old |-> store[k], obj |-> Default(k[1], obj)])
  BY <1>0
<1>2. k \in Keys /\ store[k] \in SpecOf(k[1])
  BY DEF TypeOK, Objects
<1>3. obj \in SpecOf(k[1])
  BY <1>2, KeyParts, AdmissionAssumption
<1>4. Default(k[1], obj) \in SpecOf(k[1])
  BY <1>2, <1>3, KeyParts, DefaultType
<1> DEFINE r == [op |-> "Update", key |-> k, old |-> store[k], obj |-> Default(k[1], obj)]
<1>5. Request(r)
  BY <1>2, <1>4 DEF Request
<1> QED BY <1>1, <1>3, <1>5

\* A deletion is the review of a request made for the stored object.
LEMMA DeleteIsReview ==
  ASSUME TypeOK, ReviewDelete
  PROVE  \E r : /\ Request(r) /\ Review(r) /\ r.op = "Delete"
                /\ r.key \in DOMAIN store /\ r.old = store[r.key] /\ r.obj = store[r.key]
<1>1. PICK k \in DOMAIN store :
        Review([op |-> "Delete", key |-> k, old |-> store[k], obj |-> store[k]])
  BY DEF ReviewDelete
<1>2. k \in Keys /\ store[k] \in SpecOf(k[1])
  BY DEF TypeOK, Objects
<1> DEFINE r == [op |-> "Delete", key |-> k, old |-> store[k], obj |-> store[k]]
<1>3. Request(r)
  BY <1>2 DEF Request
<1> QED BY <1>1, <1>3

\* What a commit does to the store: it writes the object it was reviewed with,
\* or the marked Pipeline, or it removes the object.
Writes(r, v) ==
  /\ v \in SpecOf(r.key[1]) /\ store' = Put(store, r.key, v)
  /\ \/ r.op # "Delete" /\ v = r.obj
     \/ /\ r.key \in DOMAIN store /\ r.key[1] = "Pipeline"
        /\ RefsOf("Pipeline", v) = RefsOf("Pipeline", store[r.key])
        /\ v.profileRef = store[r.key].profileRef

Removes(r) ==
  /\ r.key \in DOMAIN store /\ store' = Without(store, r.key)
  /\ r.op = "Delete" \/ r.key[1] = "Pipeline"

Commits(r) ==
  /\ r \in inFlight /\ inFlight' = inFlight \ {r} /\ UNCHANGED <<cache, raced, pods, requests>>
  /\ Request(r) /\ Applies(r)
  /\ (\E v : Writes(r, v)) \/ Removes(r)
  /\ r.op = "Update" /\ r.key[1] # "Pipeline" => Writes(r, r.obj)

\* Commit does one of these.
LEMMA CommitCases ==
  ASSUME TypeOK, Commit
  PROVE  \E r : Commits(r)
<1>1. PICK r \in inFlight :
        /\ Applies(r)
        /\ \/ r.op = "Create" /\ store' = Put(store, r.key, r.obj)
           \/ /\ r.op = "Update"
              /\ store' = IF r.key[1] = "Pipeline" /\ r.obj.deleting /\ ~r.obj.finalizer
                          THEN Without(store, r.key) ELSE Put(store, r.key, r.obj)
           \/ /\ r.op = "Delete"
              /\ store' = IF r.key[1] = "Pipeline" /\ r.old.finalizer
                          THEN Put(store, r.key, [r.old EXCEPT !.deleting = TRUE])
                          ELSE Without(store, r.key)
        /\ inFlight' = inFlight \ {r}
        /\ UNCHANGED <<cache, raced, pods, requests>>
  BY DEF Commit
<1>2. Request(r)
  BY DEF TypeOK, Request
<1>3. CASE r.op = "Create"
  <2>1. Writes(r, r.obj)
    BY <1>1, <1>2, <1>3 DEF Writes, Request
  <2> QED BY <1>1, <1>2, <1>3, <2>1 DEF Commits
<1>4. CASE r.op = "Update"
  <2>1. r.key \in DOMAIN store
    BY <1>1, <1>4 DEF Applies
  <2>2. CASE store' = Put(store, r.key, r.obj)
    <3>1. Writes(r, r.obj)
      BY <1>2, <1>4, <2>2 DEF Writes, Request
    <3> QED BY <1>1, <1>2, <1>4, <3>1 DEF Commits
  <2>3. CASE r.key[1] = "Pipeline" /\ store' = Without(store, r.key)
    BY <1>1, <1>2, <1>4, <2>1, <2>3 DEF Commits, Removes
  <2> QED BY <1>1, <1>4, <2>2, <2>3
<1>5. CASE r.op = "Delete"
  <2>1. r.key \in DOMAIN store /\ store[r.key] = r.old
    BY <1>1, <1>5 DEF Applies
  <2>2. CASE r.key[1] = "Pipeline" /\ store' = Put(store, r.key, [r.old EXCEPT !.deleting = TRUE])
    <3> DEFINE v == [r.old EXCEPT !.deleting = TRUE]
    <3>1. r.old \in PipelineSpec
      BY <1>2, <2>2, SpecOfKinds DEF Request
    <3>2. v \in PipelineSpec
      BY <3>1 DEF PipelineSpec
    <3>3. v.profileRef = r.old.profileRef /\ v.downloaderRef = r.old.downloaderRef
      BY <3>1 DEF PipelineSpec
    <3>4. RefsOf("Pipeline", v) = RefsOf("Pipeline", store[r.key])
      BY <2>1, <3>3, RefsOfKinds
    <3>5. v \in SpecOf(r.key[1])
      BY <2>2, <3>2, SpecOfKinds
    <3>6. Writes(r, v)
      BY <2>1, <2>2, <3>3, <3>4, <3>5 DEF Writes
    <3> QED BY <1>1, <1>2, <1>5, <3>6 DEF Commits
  <2>3. CASE store' = Without(store, r.key)
    BY <1>1, <1>2, <1>5, <2>1, <2>3 DEF Commits, Removes
  <2> QED BY <1>1, <1>5, <2>2, <2>3
<1> QED BY <1>2, <1>3, <1>4, <1>5 DEF Request

\* Every step keeps the types.
LEMMA TypeNext == TypeOK /\ [Next]_vars => TypeOK'
<1> SUFFICES ASSUME TypeOK, [Next]_vars PROVE TypeOK'
  OBVIOUS
<1>1. CASE ReviewCreate
  BY <1>1, CreateIsReview, ReviewType
<1>2. CASE ReviewUpdate
  BY <1>2, UpdateIsReview, ReviewType
<1>3. CASE ReviewDelete
  BY <1>3, DeleteIsReview, ReviewType
<1>4. CASE Commit
  <2>1. PICK r : Commits(r)
    BY <1>4, CommitCases
  <2>2. Objects(store')
    <3>1. CASE \E v : Writes(r, v)
      <4>1. PICK v : Writes(r, v)
        BY <3>1
      <4>2. r.key \in Keys /\ v \in SpecOf(r.key[1]) /\ Objects(store)
        BY <2>1, <4>1 DEF Commits, Writes, TypeOK, Request
      <4>3. Objects(Put(store, r.key, v))
        BY <4>2, PutObjects
      <4> QED BY <4>1, <4>3 DEF Writes
    <3>2. CASE Removes(r)
      BY <3>2, WithoutObjects DEF Removes, TypeOK
    <3> QED BY <2>1, <3>1, <3>2 DEF Commits
  <2>3. inFlight' \subseteq inFlight /\ UNCHANGED <<cache, raced, pods, requests>>
    BY <2>1 DEF Commits
  <2> QED BY <2>2, <2>3 DEF TypeOK, Objects
<1>5. CASE Conflict
  BY <1>5 DEF Conflict, TypeOK, Objects
<1>6. CASE Observe
  <2>1. PICK k \in Lagging :
          /\ cache' = IF k \in DOMAIN store THEN Put(cache, k, store[k]) ELSE Without(cache, k)
          /\ UNCHANGED <<store, inFlight, raced, pods, requests>>
    BY <1>6 DEF Observe
  <2>2. k \in Keys
    BY DEF Lagging
  <2>3. Objects(cache')
    <3>1. CASE k \in DOMAIN store
      <4>1. store[k] \in SpecOf(k[1]) /\ Objects(cache)
        BY <3>1 DEF TypeOK, Objects
      <4>2. Objects(Put(cache, k, store[k]))
        BY <2>2, <4>1, PutObjects
      <4> QED BY <2>1, <3>1, <4>2
    <3>2. CASE k \notin DOMAIN store
      BY <2>1, <3>2, WithoutObjects DEF TypeOK
    <3> QED BY <3>1, <3>2
  <2> QED BY <2>1, <2>3 DEF TypeOK, Objects
<1>7. CASE StartPipeline
  <2>1. PICK k \in DOMAIN cache \ DOMAIN pods :
          /\ pods' = Put(pods, k, populateScanPod(cache, cache[k]))
          /\ UNCHANGED <<store, cache, inFlight, raced, requests>>
    BY <1>7 DEF StartPipeline
  <2>2. DOMAIN pods' \subseteq Keys
    BY <2>1 DEF TypeOK, Objects, Put
  <2> QED BY <2>1, <2>2 DEF TypeOK, Objects
<1>8. CASE StartSearch
  <2>1. PICK k \in DOMAIN cache \ DOMAIN pods :
          /\ pods' = Put(pods, k, populateSearchPod(cache, cache[k]))
          /\ UNCHANGED <<store, cache, inFlight, raced, requests>>
    BY <1>8 DEF StartSearch
  <2>2. DOMAIN pods' \subseteq Keys
    BY <2>1 DEF TypeOK, Objects, Put
  <2> QED BY <2>1, <2>2 DEF TypeOK, Objects
<1>9. CASE Collect
  <2>1. DOMAIN pods' \subseteq Keys
    BY <1>9 DEF Collect, Without, TypeOK
  <2> QED BY <1>9, <2>1 DEF Collect, TypeOK, Objects
<1>10. CASE UNCHANGED vars
  BY <1>10 DEF vars, TypeOK, Objects
<1> QED BY <1>1, <1>2, <1>3, <1>4, <1>5, <1>6, <1>7, <1>8, <1>9, <1>10 DEF Next

\* Whatever is stored, cached or in flight has the type of its kind: the
\* defaulters, the API server's writes and the informers keep it.
THEOREM TypeCorrect == Spec => []TypeOK
<1> QED BY TypeInit, TypeNext, PTL DEF Spec

-----------------------------------------------------------------------------
(* The inductive invariant. *)

\* Two objects that are both being written, or whose writes are not yet seen,
\* are recorded as raced.
BusyRaced == \A d, k \in Busy : d # k => Raced(d, k)

\* The references with a kind resolve.
KindedResolve ==
  \A d \in DOMAIN store : d[1] \in Referrers =>
    \A ref \in RefsOf(d[1], store[d]) : LET k == <<ref.kind, ref.name>> IN
      ref.kind # Empty => k \in DOMAIN store \/ Raced(d, k)

\* The references of an object about to be written resolve.
Promised ==
  \A r \in inFlight : r.op # "Delete" /\ r.key[1] \in Referrers =>
    \A ref \in RefsOf(r.key[1], r.obj) : ref.kind # Empty =>
      <<ref.kind, ref.name>> \in DOMAIN store \/ Raced(r.key, <<ref.kind, ref.name>>)

\* Nothing refers to an object about to be deleted.
Unreferenced ==
  \A r \in inFlight : r.op = "Delete" =>
    \A kind \in DependantKinds : \A d \in Dependants(store, kind, r.key) : Raced(d, r.key)

RefInv == TypeOK /\ BusyRaced /\ KindedResolve /\ Promised /\ Unreferenced

\* Every reference of d that the webhook of k matches sets parameter q.
Sets(c, d, k, q) ==
  \A ref \in RefsOf(d[1], c[d]) : refMatches(ref, k) => q \in DOMAIN ref.parameters

\* A dependant found by the webhook of k is ready for parameter q, or in one of
\* the cases the webhook passes over.
LookedAfter(c, d, k, old, q) ==
  \/ Sets(c, d, k, q) \/ q \in DOMAIN old.parameters
  \/ Shadowed(c, d, k) \/ Raced(d, k)

\* Those who use a definition about to be updated are ready for the update.
Ready ==
  \A r \in inFlight : r.op = "Update" /\ r.key[1] \in DefinitionKinds \cup {"Profile"} =>
    \A kind \in DependantKinds : \A d \in Dependants(store, kind, r.key) :
      \A q \in GetNewRequiredParameters(r.old.parameters, r.obj.parameters) :
        LookedAfter(store, d, r.key, r.old, q)

-----------------------------------------------------------------------------
(* What an accepting review has seen. *)

\* Validates, kind by kind.
LEMMA ValidatesKinds ==
  ASSUME NEW c, NEW r, Validates(c, r)
  PROVE  /\ r.key[1] \in CrawlerKinds => CrawlerValidator(c, r)
         /\ r.key[1] \in DownloaderKinds => DownloaderValidator(c, r)
         /\ r.key[1] \in UploaderKinds => UploaderValidator(c, r)
         /\ r.key[1] = "Profile" => ProfileValidator(c, r)
         /\ r.key[1] = "Search" => SearchValidator(c, r)
         /\ r.key[1] = "Pipeline" => PipelineValidator(c, r)
BY DEF Validates, CrawlerKinds, DownloaderKinds, UploaderKinds, ClusterCrawlerValidator,
       ClusterDownloaderValidator, ClusterUploaderValidator

\* A reference with a kind that resolves names an existing object.
LEMMA ResolveFinds ==
  ASSUME NEW c, Objects(c), NEW ref, NEW default, NEW kinds, ref.kind # Empty,
         NEW k \in Resolve(c, ref, default, kinds)
  PROVE  <<ref.kind, ref.name>> \in DOMAIN c
<1>1. k \in DOMAIN c /\ k[2] = ref.name /\ k[1] = ReferenceDefaulter(ref, default).kind
  BY DEF Resolve
<1>2. ReferenceDefaulter(ref, default) = ref
  BY DEF ReferenceDefaulter
<1>3. k \in Keys
  BY <1>1 DEF Objects
<1> QED BY <1>1, <1>2, <1>3, KeyParts

\* What an admitted Search, Profile or Pipeline names exists where the review looks.
LEMMA AcceptedRefs ==
  ASSUME NEW c, Objects(c), NEW r, Request(r), r.op # "Delete", r.key[1] \in Referrers,
         Validates(c, r), NEW ref \in RefsOf(r.key[1], r.obj), ref.kind # Empty
  PROVE  <<ref.kind, ref.name>> \in DOMAIN c
<1>1. CASE r.key[1] = "Search"
  <2>1. SearchValidator(c, r)
    BY <1>1, ValidatesKinds
  <2>2. ref = r.obj.crawlerRef
    BY <1>1, RefsOfKinds
  <2>3. PICK k : k \in Resolve(c, ref, "Crawler", CrawlerKinds)
    BY <2>1, <2>2 DEF SearchValidator, validateSearch, CrawlerInvocationFromReference
  <2> QED BY <2>3, ResolveFinds
<1>2. CASE r.key[1] = "Profile"
  <2>1. ProfileValidator(c, r)
    BY <1>2, ValidatesKinds
  <2>2. ref \in r.obj.uploaderRefs
    BY <1>2, RefsOfKinds
  <2>3. ValidateProfile(c, r.obj)
    BY <2>1 DEF ProfileValidator
  <2>4. PICK k : k \in Resolve(c, ref, "Uploader", UploaderKinds)
    BY <2>2, <2>3 DEF ValidateProfile, UploaderInvocationFromReference
  <2> QED BY <2>4, ResolveFinds
<1>3. CASE r.key[1] = "Pipeline"
  <2>1. ValidatePipeline(c, r.key[2], r.obj)
    BY <1>3, ValidatesKinds DEF PipelineValidator
  <2>2. ref = r.obj.profileRef \/ ref = r.obj.downloaderRef
    BY <1>3, RefsOfKinds
  <2>3. /\ \E p : p \in Resolve(c, r.obj.profileRef, "Profile", {"Profile"})
        /\ \E d : d \in Resolve(c, r.obj.downloaderRef, "Downloader", DownloaderKinds)
    BY <2>1 DEF ValidatePipeline, ProfileInvocationFromReference, DownloaderInvocationFromReference
  <2>4. CASE ref = r.obj.profileRef
    BY <2>3, <2>4, ResolveFinds
  <2>5. CASE ref = r.obj.downloaderRef
    BY <2>3, <2>5, ResolveFinds
  <2> QED BY <2>2, <2>4, <2>5
<1> QED BY <1>1, <1>2, <1>3 DEF Referrers

\* Dependants of a definition are of the kinds that may refer to it.
LEMMA DependantTypes ==
  ASSUME NEW c, Objects(c), NEW kind \in DependantKinds, NEW k \in Keys,
         NEW d \in Dependants(c, kind, k)
  PROVE  /\ d \in DOMAIN c /\ d \in Keys /\ d[1] = kind /\ d # k
         /\ \E ref \in RefsOf(kind, c[d]) : refMatches(ref, k)
         /\ k[1] \in TargetKinds(kind)
<1>1. PICK ref \in RefsOf(kind, c[d]) : refMatches(ref, k)
  BY DEF Dependants
<1>2. d \in DOMAIN c /\ d \in Keys /\ d[1] = kind /\ c[d] \in SpecOf(kind)
  BY DEF Dependants, Objects
<1>3. ref.kind \in TargetKinds(kind) \cup {Empty} /\ ref.kind = k[1]
  BY <1>1, <1>2, RefTypes DEF refMatches
<1>4. k[1] \in TargetKinds(kind)
  BY <1>3, KeyParts DEF Kinds, DefinitionKinds, CrawlerKinds, DownloaderKinds, UploaderKinds, Empty
<1>5. d # k
  BY <1>2, <1>4 DEF TargetKinds, DependantKinds, CrawlerKinds, DownloaderKinds, UploaderKinds
<1> QED BY <1>1, <1>2, <1>4, <1>5

\* The first dependant is none only if there is none.
LEMMA FirstIsNone ==
  ASSUME NEW c, NEW kind, NEW k, NEW f \in FirstDependant(c, kind, k), f = {}
  PROVE  Dependants(c, kind, k) = {}
BY DEF FirstDependant

\* Nothing in the cache refers to what a review lets go.
LEMMA AcceptedDelete ==
  ASSUME TypeOK, NEW r, Request(r), r.op = "Delete", Validates(cache, r),
         NEW kind \in DependantKinds, NEW d \in Dependants(cache, kind, r.key)
  PROVE  FALSE
<1>0. Objects(cache) /\ r.key \in Keys
  BY DEF TypeOK, Request
<1>1. r.key[1] \in TargetKinds(kind) /\ Dependants(cache, kind, r.key) # {}
  BY <1>0, DependantTypes
<1>2. CASE kind \in {"Search", "CronSearch"}
  <2>1. CrawlerValidator(cache, r)
    BY <1>1, <1>2, ValidatesKinds DEF TargetKinds
  <2>2. PICK s \in FirstDependant(cache, "Search", r.key), t \in FirstDependant(cache, "CronSearch", r.key) :
          DefinitionVerdict(cache, r, s \cup t)
    BY <2>1 DEF CrawlerValidator
  <2>3. s = {} /\ t = {}
    BY <2>2 DEF DefinitionVerdict
  <2> QED BY <1>1, <1>2, <2>3, FirstIsNone
<1>3. CASE kind = "Pipeline" /\ r.key[1] \in DownloaderKinds
  <2>1. DownloaderValidator(cache, r)
    BY <1>3, ValidatesKinds
  <2>2. PICK s \in FirstDependant(cache, "Pipeline", r.key) : DefinitionVerdict(cache, r, s)
    BY <2>1 DEF DownloaderValidator
  <2>3. s = {}
    BY <2>2 DEF DefinitionVerdict
  <2> QED BY <1>1, <1>3, <2>3, FirstIsNone
<1>4. CASE kind = "Pipeline" /\ r.key[1] = "Profile"
  <2>1. ProfileValidator(cache, r)
    BY <1>4, ValidatesKinds
  <2>2. d \in DOMAIN cache /\ d[1] = "Pipeline" /\ cache[d] \in PipelineSpec
    BY <1>0, <1>4, SpecOfKinds, DependantTypes DEF Objects
  <2>3. PICK ref \in {cache[d].profileRef, cache[d].downloaderRef} : refMatches(ref, r.key)
    BY <1>0, <1>4, RefsOfKinds, DependantTypes
  <2>4. cache[d].downloaderRef.kind \in DownloaderKinds \cup {Empty}
    BY <2>2 DEF PipelineSpec, References
  <2>5. ref = cache[d].profileRef
    BY <1>4, <2>3, <2>4 DEF refMatches, DownloaderKinds, Empty
  <2> QED BY <2>1, <2>2, <2>3, <2>5 DEF ProfileValidator, refMatches
<1>5. CASE kind = "Profile"
  <2>1. UploaderValidator(cache, r)
    BY <1>1, <1>5, ValidatesKinds DEF TargetKinds
  <2> QED BY <1>1, <1>5, <2>1 DEF UploaderValidator, DefinitionVerdict
<1> QED BY <1>1, <1>2, <1>3, <1>4, <1>5 DEF DependantKinds, TargetKinds

-----------------------------------------------------------------------------
(* Referential integrity. *)

\* The cache shows an object that is not busy as it is.
LEMMA NotBusy ==
  ASSUME NEW x \in Keys, x \notin Busy
  PROVE  /\ x \in DOMAIN store <=> x \in DOMAIN cache
         /\ x \in DOMAIN store => store[x] = cache[x]
BY DEF Busy, Lagging

\* A commit leaves the other objects alone.
LEMMA CommitElsewhere ==
  ASSUME TypeOK, NEW r, Commits(r), NEW x, x # r.key
  PROVE  /\ x \in DOMAIN store' <=> x \in DOMAIN store
         /\ x \in DOMAIN store => store'[x] = store[x]
<1>2. CASE \E v : Writes(r, v)
  <2>1. PICK v : Writes(r, v)
    BY <1>2
  <2>2. store' = Put(store, r.key, v) /\ v \in SpecOf(r.key[1])
    BY <2>1 DEF Writes
  <2> QED BY <2>2 DEF Put
<1>3. CASE Removes(r)
  BY <1>3 DEF Removes, Without
<1> QED BY <1>2, <1>3 DEF Commits

\* Only a review makes an object busy.
LEMMA CommitBusy ==
  ASSUME TypeOK, NEW r, Commits(r)
  PROVE  r.key \in Busy /\ Busy' \subseteq Busy
<1>1. r.key \in Busy
  BY DEF Busy, Commits
<1>2. ASSUME NEW x \in Lagging', x # r.key PROVE x \in Lagging
  <2>1. x \in Keys /\ cache' = cache
    BY DEF Lagging, Commits
  <2> QED BY <1>2, <2>1, CommitElsewhere DEF Lagging
<1>3. {x.key : x \in inFlight'} \subseteq {x.key : x \in inFlight}
  BY DEF Commits
<1> QED BY <1>1, <1>2, <1>3 DEF Busy

\* What the cache learns makes no object busy.
LEMMA ObserveBusy ==
  ASSUME TypeOK, Observe
  PROVE  Busy' \subseteq Busy
<1>1. PICK k \in Lagging :
        /\ cache' = IF k \in DOMAIN store THEN Put(cache, k, store[k]) ELSE Without(cache, k)
        /\ UNCHANGED <<store, inFlight, raced, pods, requests>>
  BY DEF Observe
<1>2. store' = store /\ inFlight' = inFlight
  BY <1>1
<1>3. ASSUME NEW x \in Lagging', x # k PROVE x \in Lagging
  <2>1. x \in DOMAIN cache' <=> x \in DOMAIN cache
    BY <1>1, <1>3 DEF Put, Without
  <2>2. x \in DOMAIN cache => cache'[x] = cache[x]
    BY <1>1, <1>3 DEF Put, Without
  <2>3. /\ x \in Keys
        /\ \/ (x \in DOMAIN store) # (x \in DOMAIN cache')
           \/ x \in DOMAIN store /\ x \in DOMAIN cache' /\ store[x] # cache'[x]
    BY <1>2 DEF Lagging
  <2> QED BY <2>1, <2>2, <2>3 DEF Lagging
<1>4. Lagging' \subseteq Lagging
  BY <1>3
<1> QED BY <1>2, <1>4 DEF Busy

\* What an accepting review adds to the record of races.
LEMMA ReviewRaces ==
  ASSUME TypeOK, NEW r, Request(r), Review(r)
  PROVE  /\ \A x \in Busy : {x, r.key} \in raced'
         /\ raced \subseteq raced' /\ Busy' = Busy \cup {r.key}
         /\ UNCHANGED <<store, cache, pods>> /\ inFlight' = inFlight \cup {r}
         /\ Validates(cache, r)
<1>1. \A x \in Busy : {x, r.key} = {r.key, x}
  OBVIOUS
<1>2. raced' = raced \cup {{r.key, x} : x \in Busy}
  BY DEF Review
<1>3. UNCHANGED <<store, cache, pods>> /\ inFlight' = inFlight \cup {r}
  BY DEF Review
<1>4. Busy' = Busy \cup {r.key}
  BY <1>3 DEF Busy, Lagging
<1>5. \A x \in Busy : {x, r.key} \in raced'
  BY <1>1, <1>2
<1> QED BY <1>2, <1>3, <1>4, <1>5 DEF Review

\* A review keeps the invariant: of every object that is not busy it saw the
\* truth, and with every busy one it is recorded as raced.
LEMMA RefReview ==
  ASSUME RefInv, NEW r, Request(r), Review(r)
  PROVE  BusyRaced' /\ KindedResolve' /\ Promised' /\ Unreferenced'
<1> USE DEF RefInv
<1>0. /\ \A x \in Busy : {x, r.key} \in raced'
      /\ raced \subseteq raced' /\ Busy' = Busy \cup {r.key}
      /\ UNCHANGED <<store, cache, pods>> /\ inFlight' = inFlight \cup {r}
      /\ Validates(cache, r)
  BY ReviewRaces
<1>1. BusyRaced'
  <2> SUFFICES ASSUME NEW d \in Busy', NEW k \in Busy', d # k PROVE {d, k} \in raced'
    BY DEF BusyRaced, Raced
  <2>1. CASE d \in Busy /\ k \in Busy
    BY <1>0, <2>1 DEF BusyRaced, Raced
  <2>2. CASE k = r.key
    BY <1>0, <2>2
  <2>3. CASE d = r.key
    <3>1. {k, d} \in raced' /\ {k, d} = {d, k}
      BY <1>0, <2>3
    <3> QED BY <3>1
  <2> QED BY <1>0, <2>1, <2>2, <2>3
<1>2. KindedResolve'
  BY <1>0 DEF KindedResolve, Raced
<1>3. Promised'
  <2> SUFFICES ASSUME NEW x \in inFlight', x.op # "Delete", x.key[1] \in Referrers,
                      NEW ref \in RefsOf(x.key[1], x.obj), ref.kind # Empty
               PROVE  <<ref.kind, ref.name>> \in DOMAIN store' \/ {x.key, <<ref.kind, ref.name>>} \in raced'
    BY DEF Promised, Raced
  <2>1. CASE x \in inFlight
    BY <1>0, <2>1 DEF Promised, Raced
  <2>2. CASE x = r
    <3> DEFINE k == <<ref.kind, ref.name>>
    <3>1. k \in DOMAIN cache
      BY <1>0, <2>2, AcceptedRefs DEF TypeOK
    <3>2. k \in Keys
      BY <3>1 DEF TypeOK, Objects
    <3>3. CASE k \in Busy
      <4>1. {k, r.key} = {r.key, k}
        OBVIOUS
      <4> QED BY <1>0, <2>2, <3>3, <4>1
    <3>4. CASE k \notin Busy
      BY <1>0, <3>1, <3>2, <3>4, NotBusy
    <3> QED BY <3>3, <3>4
  <2> QED BY <1>0, <2>1, <2>2
<1>4. Unreferenced'
  <2> SUFFICES ASSUME NEW x \in inFlight', x.op = "Delete", NEW kind \in DependantKinds,
                      NEW d \in Dependants(store', kind, x.key)
               PROVE  {d, x.key} \in raced'
    BY DEF Unreferenced, Raced
  <2>0. d \in Dependants(store, kind, x.key)
    BY <1>0
  <2>1. CASE x \in inFlight
    BY <1>0, <2>0, <2>1 DEF Unreferenced, Raced
  <2>2. CASE x = r
    <3>1. d \in DOMAIN store /\ d \in Keys /\ d[1] = kind
      BY <2>0 DEF Dependants, TypeOK, Objects
    <3>2. CASE d \notin Busy
      <4>1. d \in DOMAIN cache /\ store[d] = cache[d]
        BY <3>1, <3>2, NotBusy
      <4>2. d \in Dependants(cache, kind, r.key)
        BY <2>0, <2>2, <4>1 DEF Dependants
      <4> QED BY <1>0, <2>2, <4>2, AcceptedDelete
    <3> QED BY <1>0, <2>2, <3>2
  <2> QED BY <1>0, <2>1, <2>2
<1> QED BY <1>1, <1>2, <1>3, <1>4

\* An object refers to objects of other kinds only.
LEMMA RefElsewhere ==
  ASSUME NEW d \in Keys, d[1] \in DependantKinds, NEW obj \in SpecOf(d[1]),
         NEW ref \in RefsOf(d[1], obj), ref.kind # Empty
  PROVE  d # <<ref.kind, ref.name>> /\ ref.kind # "Pipeline"
<1>1. ref.kind \in TargetKinds(d[1])
  BY RefTypes
<1> QED BY <1>1 DEF TargetKinds, DependantKinds, CrawlerKinds, DownloaderKinds, UploaderKinds

\* The object that a commit writes is there.
LEMMA CommitHere ==
  ASSUME TypeOK, NEW r, Commits(r), r.key \in DOMAIN store'
  PROVE  \E v : Writes(r, v) /\ store'[r.key] = v
<1>1. ~Removes(r)
  BY DEF Removes, Without
<1>2. PICK v : Writes(r, v)
  BY <1>1 DEF Commits
<1> QED BY <1>2 DEF Writes, Put

\* A commit keeps the invariant: what its review promised still holds.
LEMMA RefCommit ==
  ASSUME RefInv, TypeOK', NEW r, Commits(r)
  PROVE  BusyRaced' /\ KindedResolve' /\ Promised' /\ Unreferenced'
<1> USE DEF RefInv
<1>0. /\ r.key \in Busy /\ Busy' \subseteq Busy /\ raced' = raced
      /\ inFlight' \subseteq inFlight /\ r \in inFlight
      /\ \A x \in inFlight : x.key \in Busy /\ Request(x)
  BY CommitBusy DEF Commits, Busy, TypeOK, Request
<1>1. BusyRaced'
  BY <1>0 DEF BusyRaced, Raced
<1>2. KindedResolve'
  <2> SUFFICES ASSUME NEW d \in DOMAIN store', d[1] \in Referrers,
                      NEW ref \in RefsOf(d[1], store'[d]), ref.kind # Empty
               PROVE  <<ref.kind, ref.name>> \in DOMAIN store' \/ {d, <<ref.kind, ref.name>>} \in raced
    BY <1>0 DEF KindedResolve, Raced
  <2> DEFINE k == <<ref.kind, ref.name>>
  <2>0. d \in Keys /\ d[1] \in DependantKinds /\ store'[d] \in SpecOf(d[1])
    BY DEF TypeOK, Objects, Referrers, DependantKinds
  <2>1. d # k /\ ref.kind # "Pipeline"
    BY <2>0, RefElsewhere
  <2>2. CASE d = r.key
    <3>1. PICK v : Writes(r, v) /\ store'[d] = v
      BY <2>2, CommitHere
    <3>2. k \in DOMAIN store \/ {d, k} \in raced
      <4>1. CASE r.op # "Delete" /\ v = r.obj
        BY <1>0, <2>2, <3>1, <4>1 DEF Promised, Raced
      <4>2. CASE /\ r.key \in DOMAIN store /\ r.key[1] = "Pipeline"
                 /\ RefsOf("Pipeline", v) = RefsOf("Pipeline", store[r.key])
        BY <2>2, <3>1, <4>2 DEF KindedResolve, Raced
      <4> QED BY <3>1, <4>1, <4>2 DEF Writes
    <3>3. k \in DOMAIN store => k \in DOMAIN store'
      BY <2>1, <2>2, CommitElsewhere
    <3> QED BY <3>2, <3>3
  <2>3. CASE d # r.key
    <3>1. d \in DOMAIN store /\ store'[d] = store[d]
      BY <2>3, CommitElsewhere
    <3>2. k \in DOMAIN store \/ {d, k} \in raced
      BY <3>1 DEF KindedResolve, Raced
    <3>3. CASE k # r.key
      BY <3>2, <3>3, CommitElsewhere
    <3>4. CASE k = r.key /\ Removes(r)
      <4>1. r.op = "Delete"
        BY <2>1, <3>4 DEF Removes
      <4>2. refMatches(ref, r.key)
        BY <3>4 DEF refMatches
      <4>3. d \in Dependants(store, d[1], r.key)
        BY <3>1, <4>2 DEF Dependants
      <4> QED BY <1>0, <2>0, <3>4, <4>1, <4>3 DEF Unreferenced, Raced
    <3>5. CASE k = r.key /\ \E v : Writes(r, v)
      BY <3>5 DEF Writes, Put
    <3> QED BY <3>3, <3>4, <3>5 DEF Commits
  <2> QED BY <2>2, <2>3
<1>3. Promised'
  <2> SUFFICES ASSUME NEW x \in inFlight, x.op # "Delete", x.key[1] \in Referrers,
                      NEW ref \in RefsOf(x.key[1], x.obj), ref.kind # Empty
               PROVE  <<ref.kind, ref.name>> \in DOMAIN store' \/ {x.key, <<ref.kind, ref.name>>} \in raced
    BY <1>0 DEF Promised, Raced
  <2> DEFINE k == <<ref.kind, ref.name>>
  <2>1. x.key # k
    BY <1>0, RefElsewhere DEF Request, Referrers, DependantKinds
  <2>2. k \in DOMAIN store \/ {x.key, k} \in raced
    BY DEF Promised, Raced
  <2>3. CASE k # r.key
    BY <2>2, <2>3, CommitElsewhere
  <2>4. CASE k = r.key
    BY <1>0, <2>1, <2>4 DEF BusyRaced, Raced
  <2> QED BY <2>3, <2>4
<1>4. Unreferenced'
  <2> SUFFICES ASSUME NEW x \in inFlight, x.op = "Delete", NEW kind \in DependantKinds,
                      NEW d \in Dependants(store', kind, x.key)
               PROVE  {d, x.key} \in raced
    BY <1>0 DEF Unreferenced, Raced
  <2>0. x.key \in Keys /\ Objects(store')
    BY <1>0 DEF Request, TypeOK, Objects
  <2>1. d \in DOMAIN store' /\ d # x.key
    BY <2>0, DependantTypes
  <2>2. CASE d = r.key
    BY <1>0, <2>1, <2>2 DEF BusyRaced, Raced
  <2>3. CASE d # r.key
    <3>1. d \in DOMAIN store /\ store'[d] = store[d]
      BY <2>1, <2>3, CommitElsewhere
    <3>2. d \in Dependants(store, kind, x.key)
      BY <3>1 DEF Dependants
    <3> QED BY <3>2 DEF Unreferenced, Raced
  <2> QED BY <2>2, <2>3
<1> QED BY <1>1, <1>2, <1>3, <1>4

\* The installed objects were admitted, so their references resolve.
LEMMA RefInit == Init => RefInv
<1> SUFFICES ASSUME Init PROVE RefInv
  OBVIOUS
<1>1. Busy = {}
  BY DEF Init, Busy, Lagging
<1>2. ASSUME NEW d \in DOMAIN Installed, d[1] \in Referrers,
             NEW ref \in RefsOf(d[1], Installed[d]), ref.kind # Empty
      PROVE  <<ref.kind, ref.name>> \in DOMAIN Installed
  <2> DEFINE r == [op |-> "Create", key |-> d, old |-> Installed[d], obj |-> Installed[d]]
  <2>1. Request(r) /\ Validates(Installed, r) /\ Objects(Installed)
    BY AdmissionAssumption DEF Objects, Request
  <2>2. r.op # "Delete" /\ r.key[1] \in Referrers /\ ref \in RefsOf(r.key[1], r.obj)
    BY <1>2
  <2> HIDE DEF r
  <2> QED BY <1>2, <2>1, <2>2, AcceptedRefs
<1>3. KindedResolve
  BY <1>2 DEF Init, KindedResolve
<1> QED BY <1>1, <1>3, TypeInit DEF Init, RefInv, BusyRaced, Promised, Unreferenced

\* The steps that touch neither the store nor the requests in flight, or only
\* drop one.
LEMMA RefQuiet ==
  ASSUME RefInv, store' = store, raced' = raced, inFlight' \subseteq inFlight, Busy' \subseteq Busy
  PROVE  BusyRaced' /\ KindedResolve' /\ Promised' /\ Unreferenced'
<1> USE DEF RefInv
<1>1. BusyRaced'
  BY DEF BusyRaced, Raced
<1>2. KindedResolve'
  BY DEF KindedResolve, Raced
<1>3. Promised'
  BY DEF Promised, Raced
<1>4. Unreferenced'
  BY DEF Unreferenced, Raced, Dependants
<1> QED BY <1>1, <1>2, <1>3, <1>4

\* The invariant is inductive.
LEMMA RefNext == RefInv /\ [Next]_vars => RefInv'
<1> SUFFICES ASSUME RefInv, [Next]_vars PROVE RefInv'
  OBVIOUS
<1>0. TypeOK /\ TypeOK'
  BY TypeNext DEF RefInv
<1> SUFFICES BusyRaced' /\ KindedResolve' /\ Promised' /\ Unreferenced'
  BY <1>0 DEF RefInv
<1>1. CASE ReviewCreate
  BY <1>0, <1>1, CreateIsReview, RefReview
<1>2. CASE ReviewUpdate
  BY <1>0, <1>2, UpdateIsReview, RefReview
<1>3. CASE ReviewDelete
  BY <1>0, <1>3, DeleteIsReview, RefReview
<1>4. CASE Commit
  BY <1>0, <1>4, CommitCases, RefCommit
<1>5. CASE Conflict
  <2>1. store' = store /\ cache' = cache /\ raced' = raced /\ inFlight' \subseteq inFlight
    BY <1>5 DEF Conflict
  <2>2. Busy' \subseteq Busy
    BY <2>1 DEF Busy, Lagging
  <2> QED BY <2>1, <2>2, RefQuiet
<1>6. CASE Observe
  <2>1. store' = store /\ raced' = raced /\ inFlight' = inFlight
    BY <1>6 DEF Observe
  <2> QED BY <1>0, <1>6, <2>1, ObserveBusy, RefQuiet
<1>7. CASE UNCHANGED <<store, cache, inFlight, raced>>
  <2>1. Busy' = Busy
    BY <1>7 DEF Busy, Lagging
  <2> QED BY <1>7, <2>1, RefQuiet
<1>8. CASE StartPipeline \/ StartSearch \/ Collect \/ UNCHANGED vars
  BY <1>7, <1>8 DEF StartPipeline, StartSearch, Collect, vars
<1> QED BY <1>1, <1>2, <1>3, <1>4, <1>5, <1>6, <1>8 DEF Next

\* The invariant behind it, for the other theorems.
LEMMA RefCorrect == Spec => []RefInv
<1> QED BY RefInit, RefNext, PTL DEF Spec

-----------------------------------------------------------------------------
(* From references with a kind to what objects use. *)

\* All references of an object have a kind, but for those of a Profile.
HasKinds(kind, obj) == kind # "Profile" => \A ref \in RefsOf(kind, obj) : ref.kind # Empty

\* The defaulters see to it, and nothing takes it back.
Kinded ==
  /\ \A d \in DOMAIN store : HasKinds(d[1], store[d])
  /\ \A r \in inFlight : HasKinds(r.key[1], r.obj)

\* What the defaulters return has kinds.
LEMMA DefaultKinded ==
  ASSUME NEW kind \in Kinds, NEW obj \in SpecOf(kind)
  PROVE  HasKinds(kind, Default(kind, obj))
<1>0. ASSUME NEW ref, NEW default, default # Empty, NEW kinds, ref \in References(kinds)
      PROVE  ReferenceDefaulter(ref, default).kind # Empty
  BY <1>0 DEF ReferenceDefaulter, References
<1>1. CASE kind = "Pipeline"
  <2>1. obj \in PipelineSpec
    BY <1>1, SpecOfKinds
  <2> DEFINE new == PipelineDefault(obj)
  <2>2. /\ new.profileRef = ReferenceDefaulter(obj.profileRef, "Profile")
        /\ new.downloaderRef = ReferenceDefaulter(obj.downloaderRef, "Downloader")
    BY <2>1 DEF PipelineDefault, PipelineSpec
  <2>3. new.profileRef.kind # Empty /\ new.downloaderRef.kind # Empty
    <3>1. /\ obj.profileRef \in References({"Profile"})
          /\ obj.downloaderRef \in References(DownloaderKinds)
      BY <2>1 DEF PipelineSpec
    <3>2. "Profile" # Empty /\ "Downloader" # Empty
      BY DEF Empty
    <3> HIDE DEF new
    <3> QED BY <1>0, <2>2, <3>1, <3>2
  <2>4. Default(kind, obj) = new
    BY <1>1 DEF Default
  <2> QED BY <1>1, <2>3, <2>4, RefsOfKinds DEF HasKinds
<1>2. CASE kind = "Search"
  <2>1. obj \in SearchSpec
    BY <1>2, SpecOfKinds
  <2>2. SearchDefault(obj).crawlerRef = ReferenceDefaulter(obj.crawlerRef, "Crawler")
    BY <2>1 DEF SearchDefault, SearchSpec
  <2>3. SearchDefault(obj).crawlerRef.kind # Empty
    BY <1>0, <2>1, <2>2 DEF SearchSpec, Empty
  <2>4. Default(kind, obj) = SearchDefault(obj)
    BY <1>2 DEF Default
  <2> QED BY <1>2, <2>3, <2>4, RefsOfKinds DEF HasKinds
<1>3. CASE kind = "CronSearch"
  <2>1. obj \in CronSearchSpec
    BY <1>3, SpecOfKinds
  <2>2. CronSearchDefault(obj).crawlerRef = ReferenceDefaulter(obj.crawlerRef, "Crawler")
    BY <2>1 DEF CronSearchDefault, CronSearchSpec
  <2>3. CronSearchDefault(obj).crawlerRef.kind # Empty
    BY <1>0, <2>1, <2>2 DEF CronSearchSpec, Empty
  <2>4. Default(kind, obj) = CronSearchDefault(obj)
    BY <1>3 DEF Default
  <2> QED BY <1>3, <2>3, <2>4, RefsOfKinds DEF HasKinds
<1>4. CASE kind \notin {"Pipeline", "Search", "CronSearch"}
  BY <1>4 DEF HasKinds, RefsOf
<1> QED BY <1>1, <1>2, <1>3, <1>4

\* The installed objects went through the defaulters.
LEMMA KindedInit == Init => Kinded
<1> SUFFICES ASSUME Init PROVE Kinded
  OBVIOUS
<1>1. ASSUME NEW d \in DOMAIN Installed PROVE HasKinds(d[1], Installed[d])
  <2>1. /\ d[1] \in Kinds /\ Installed[d] \in SpecOf(d[1])
        /\ Default(d[1], Installed[d]) = Installed[d]
    BY AdmissionAssumption, KeyParts DEF Objects
  <2> QED BY <2>1, DefaultKinded
<1> QED BY <1>1 DEF Init, Kinded

\* Every step keeps the kinds.
LEMMA KindedNext == TypeOK /\ Kinded /\ [Next]_vars => Kinded'
<1> SUFFICES ASSUME TypeOK, Kinded, [Next]_vars PROVE Kinded'
  OBVIOUS
<1>0. ASSUME NEW r, Request(r), Review(r), HasKinds(r.key[1], r.obj) PROVE Kinded'
  BY <1>0 DEF Kinded, Review
<1>1. ASSUME NEW r, Request(r), NEW obj \in SpecOf(r.key[1]), r.obj = Default(r.key[1], obj)
      PROVE  HasKinds(r.key[1], r.obj)
  BY <1>1, KeyParts, DefaultKinded DEF Request
<1>2. CASE ReviewCreate
  BY <1>0, <1>1, <1>2, CreateIsReview
<1>3. CASE ReviewUpdate
  BY <1>0, <1>1, <1>3, UpdateIsReview
<1>4. CASE ReviewDelete
  <2>1. PICK r : Request(r) /\ Review(r) /\ r.key \in DOMAIN store /\ r.obj = store[r.key]
    BY <1>4, DeleteIsReview
  <2> QED BY <1>0, <2>1 DEF Kinded
<1>5. CASE Commit
  <2>1. PICK r : Commits(r)
    BY <1>5, CommitCases
  <2>2. inFlight' \subseteq inFlight /\ r \in inFlight
    BY <2>1 DEF Commits
  <2>3. ASSUME NEW d \in DOMAIN store', d # r.key PROVE HasKinds(d[1], store'[d])
    BY <2>1, <2>3, CommitElsewhere DEF Kinded
  <2>4. ASSUME r.key \in DOMAIN store' PROVE HasKinds(r.key[1], store'[r.key])
    <3>1. PICK v : Writes(r, v) /\ store'[r.key] = v
      BY <2>1, <2>4, CommitHere
    <3> QED BY <2>2, <3>1 DEF Writes, Kinded, HasKinds
  <2> QED BY <2>2, <2>3, <2>4 DEF Kinded
<1>6. CASE UNCHANGED store /\ inFlight' \subseteq inFlight
  BY <1>6 DEF Kinded
<1>7. CASE Conflict \/ Observe \/ StartPipeline \/ StartSearch \/ Collect \/ UNCHANGED vars
  BY <1>6, <1>7 DEF Conflict, Observe, StartPipeline, StartSearch, Collect, vars
<1> QED BY <1>2, <1>3, <1>4, <1>5, <1>7 DEF Next

\* A use is a reference, and refMatches sees it unless its kind is missing.
LEMMA UseFacts ==
  ASSUME NEW kind, NEW obj, NEW u \in Uses(kind, obj)
  PROVE  /\ kind \in DependantKinds /\ u.ref \in RefsOf(kind, obj)
         /\ u.ref.kind # Empty => u.key = <<u.ref.kind, u.ref.name>> /\ refMatches(u.ref, u.key)
<1>1. CASE kind \in {"Search", "CronSearch"}
  BY <1>1, RefsOfKinds DEF Uses, Use, DependantKinds, ReferenceDefaulter, refMatches
<1>2. CASE kind = "Pipeline"
  BY <1>2, RefsOfKinds DEF Uses, Use, DependantKinds, ReferenceDefaulter, refMatches
<1>3. CASE kind = "Profile"
  BY <1>3, RefsOfKinds DEF Uses, Use, DependantKinds, ReferenceDefaulter, refMatches
<1> QED BY <1>1, <1>2, <1>3 DEF Uses

\* What an object of store f uses is seen by the webhooks' lookups, or Unseen.
LEMMA SeenOrNot ==
  ASSUME NEW f, NEW d \in DOMAIN f, HasKinds(d[1], f[d]), NEW u \in Uses(d[1], f[d])
  PROVE  \/ Unseen(d, u.ref)
         \/ /\ u.ref.kind # Empty /\ u.key = <<u.ref.kind, u.ref.name>>
            /\ refMatches(u.ref, u.key) /\ u.ref \in RefsOf(d[1], f[d])
            /\ d[1] \in DependantKinds /\ d \in Dependants(f, d[1], u.key)
<1>1. CASE u.ref.kind = Empty
  BY <1>1, UseFacts DEF HasKinds, Unseen
<1>2. CASE u.ref.kind # Empty
  BY <1>2, UseFacts DEF Dependants
<1> QED BY <1>1, <1>2

\* The kinds hold throughout.
LEMMA KindedCorrect == Spec => [](RefInv /\ Kinded)
<1>1. RefInv /\ Kinded /\ [Next]_vars => Kinded'
  BY KindedNext DEF RefInv
<1> QED BY <1>1, KindedInit, RefCorrect, PTL DEF Spec

\* What a Search, Profile or Pipeline uses exists unless the two were written at
\* the same time or a Profile names an uploader without a kind, for any cluster
\* and any number of requests in flight: the webhooks of definitions
\* (ValidateDelete) and of their users (ValidateCreate and ValidateUpdate) have
\* no other gap.
THEOREM ReferencesResolve == Spec => []RefsResolve
<1>1. ASSUME RefInv, Kinded PROVE RefsResolve
  <2> SUFFICES ASSUME NEW d \in DOMAIN store, d[1] \in Referrers, NEW u \in Uses(d[1], store[d])
               PROVE  u.key \in DOMAIN store \/ Raced(d, u.key) \/ Unseen(d, u.ref)
    BY DEF RefsResolve
  <2>1. HasKinds(d[1], store[d])
    BY <1>1 DEF Kinded
  <2> QED BY <1>1, <2>1, SeenOrNot DEF RefInv, KindedResolve
<1>2. RefInv /\ Kinded => RefsResolve
  BY <1>1
<1> QED BY <1>2, KindedCorrect, PTL

\* No lookup of the webhooks finds an object that goes.
LEMMA GoneUnmatched ==
  ASSUME RefInv, [Next]_vars, NEW k \in DOMAIN store \ DOMAIN store',
         NEW kind \in DependantKinds, NEW d \in Dependants(store', kind, k)
  PROVE  {d, k} \in raced
<1> USE DEF RefInv
<1>1. Commit
  BY DEF Next, vars, ReviewCreate, ReviewUpdate, ReviewDelete, Review, Conflict, Observe,
         StartPipeline, StartSearch, Collect
<1>2. PICK r : Commits(r)
  BY <1>1, CommitCases
<1>3. k = r.key
  BY <1>2, CommitElsewhere
<1>4. Removes(r)
  BY <1>2, <1>3 DEF Commits, Writes, Put
<1>5. k \in Keys /\ Objects(store')
  BY TypeNext DEF TypeOK, Objects
<1>6. d \in DOMAIN store' /\ d # k /\ k[1] \in TargetKinds(kind)
  BY <1>5, DependantTypes
<1>7. r.op = "Delete"
  BY <1>3, <1>4, <1>6 DEF Removes, TargetKinds, CrawlerKinds, DownloaderKinds, UploaderKinds
<1>8. d \in DOMAIN store /\ store'[d] = store[d]
  BY <1>2, <1>3, <1>6, CommitElsewhere
<1>9. d \in Dependants(store, kind, r.key)
  BY <1>3, <1>8 DEF Dependants
<1> QED BY <1>2, <1>3, <1>7, <1>9 DEF Commits, Unreferenced, Raced

\* ValidateDelete keeps every definition that something uses, CronSearches
\* included, unless the two were written at the same time or a Profile names the
\* uploader without a kind.
THEOREM DeletionsUnreferenced == Spec => DeletedUnreferenced
<1>1. ASSUME RefInv, Kinded, [Next]_vars PROVE [GoneUnreferenced]_vars
  <2> SUFFICES ASSUME NEW k \in DOMAIN store \ DOMAIN store', NEW d \in DOMAIN store',
                      NEW u \in Uses(d[1], store'[d]), u.key = k
               PROVE  {d, k} \in raced \/ Unseen(d, u.ref)
    BY DEF GoneUnreferenced, Raced
  <2>1. HasKinds(d[1], store'[d])
    BY <1>1, KindedNext DEF RefInv, Kinded
  <2>2. Unseen(d, u.ref) \/ (d[1] \in DependantKinds /\ d \in Dependants(store', d[1], k))
    BY <2>1, SeenOrNot
  <2> QED BY <1>1, <2>2, GoneUnmatched
<1>2. RefInv /\ Kinded /\ [Next]_vars => [GoneUnreferenced]_vars
  BY <1>1
<1> QED BY <1>2, KindedCorrect, PTL DEF DeletedUnreferenced, Spec

-----------------------------------------------------------------------------
(* Updates. *)

\* A parameter that is new and required is one of those the webhooks look for.
LEMMA NewIsParsed ==
  ASSUME NEW old, NEW new, NEW q \in GetNewRequiredParameters(old, new), q \notin DOMAIN old
  PROVE  q \in DOMAIN parseNewRequiredParameters(old, new)
BY DEF GetNewRequiredParameters, parseNewRequiredParameters

\* A dependant that the review came across sets what it newly requires.
LEMMA LookedAtSets ==
  ASSUME NEW c, NEW r, NEW deps, NewlyRequiredSet(c, deps, r), NEW d \in deps,
         NEW q \in DOMAIN parseNewRequiredParameters(r.old.parameters, r.obj.parameters)
  PROVE  Sets(c, d, r.key, q)
BY DEF NewlyRequiredSet, Sets, ParseSetParameters

\* What an admitted update leaves to chance: dependants of crawlers and
\* downloaders that were not the first.
LEMMA AcceptedUpdate ==
  ASSUME TypeOK, NEW r, Request(r), r.op = "Update", Validates(cache, r),
         NEW kind \in DependantKinds, NEW d \in Dependants(cache, kind, r.key),
         NEW q \in DOMAIN parseNewRequiredParameters(r.old.parameters, r.obj.parameters)
  PROVE  \/ Sets(cache, d, r.key, q)
         \/ /\ r.key[1] \in CrawlerKinds \cup DownloaderKinds
            /\ \E e \in Dependants(cache, kind, r.key) : e # d
<1>0. Objects(cache) /\ r.key \in Keys
  BY DEF TypeOK, Request
<1>1. /\ r.key[1] \in TargetKinds(kind) /\ d \in DOMAIN cache /\ d[1] = kind
      /\ \E ref \in RefsOf(kind, cache[d]) : refMatches(ref, r.key)
  BY <1>0, DependantTypes
<1>2. ASSUME NEW f \in FirstDependant(cache, kind, r.key), d \notin f
      PROVE  \E e \in Dependants(cache, kind, r.key) : e # d
  BY <1>2 DEF FirstDependant
<1>3. CASE kind \in {"Search", "CronSearch"}
  <2>1. r.key[1] \in CrawlerKinds /\ CrawlerValidator(cache, r)
    BY <1>1, <1>3, ValidatesKinds DEF TargetKinds
  <2>2. PICK s \in FirstDependant(cache, "Search", r.key), t \in FirstDependant(cache, "CronSearch", r.key) :
          DefinitionVerdict(cache, r, s \cup t)
    BY <2>1 DEF CrawlerValidator
  <2>3. NewlyRequiredSet(cache, s \cup t, r)
    BY <2>2 DEF DefinitionVerdict
  <2>4. CASE d \in s \cup t
    BY <2>3, <2>4, LookedAtSets
  <2>5. CASE d \notin s \cup t
    BY <1>2, <1>3, <2>1, <2>2, <2>5
  <2> QED BY <2>4, <2>5
<1>4. CASE kind = "Pipeline" /\ r.key[1] \in DownloaderKinds
  <2>1. DownloaderValidator(cache, r)
    BY <1>4, ValidatesKinds
  <2>2. PICK s \in FirstDependant(cache, "Pipeline", r.key) : DefinitionVerdict(cache, r, s)
    BY <2>1 DEF DownloaderValidator
  <2>3. NewlyRequiredSet(cache, s, r)
    BY <2>2 DEF DefinitionVerdict
  <2>4. CASE d \in s
    BY <2>3, <2>4, LookedAtSets
  <2>5. CASE d \notin s
    BY <1>2, <1>4, <2>2, <2>5
  <2> QED BY <2>4, <2>5
<1>5. CASE kind = "Pipeline" /\ r.key[1] = "Profile"
  <2>1. ProfileValidator(cache, r)
    BY <1>5, ValidatesKinds
  <2>2. cache[d] \in PipelineSpec /\ d[1] = "Pipeline"
    BY <1>0, <1>1, <1>5, SpecOfKinds DEF Objects
  <2>3. cache[d].downloaderRef.kind \in DownloaderKinds \cup {Empty}
    BY <2>2 DEF PipelineSpec, References
  <2>4. ASSUME NEW ref \in RefsOf("Pipeline", cache[d]), refMatches(ref, r.key)
        PROVE  ref = cache[d].profileRef
    BY <1>5, <2>3, <2>4, RefsOfKinds DEF refMatches, DownloaderKinds, Empty
  <2>5. cache[d].profileRef.name = r.key[2]
    BY <1>1, <1>5, <2>4 DEF refMatches
  <2>6. q \in DOMAIN cache[d].profileRef.parameters
    BY <1>1, <2>1, <2>2, <2>5 DEF ProfileValidator, ParseSetParameters
  <2> QED BY <2>2, <2>4, <2>6 DEF Sets
<1>6. CASE kind = "Profile"
  <2>1. UploaderValidator(cache, r)
    BY <1>1, <1>6, ValidatesKinds DEF TargetKinds
  <2>2. NewlyRequiredSet(cache, Dependants(cache, "Profile", r.key), r)
    BY <2>1 DEF UploaderValidator, DefinitionVerdict
  <2> QED BY <1>6, <2>2, LookedAtSets
<1> QED BY <1>1, <1>3, <1>4, <1>5, <1>6 DEF DependantKinds, TargetKinds

\* Being recorded as raced, prepared or shadowed does not wear off while the
\* store keeps the objects concerned.
LEMMA PreparedStays ==
  ASSUME raced \subseteq raced', store' = store, NEW d, NEW k, NEW old, NEW q,
         LookedAfter(store, d, k, old, q)
  PROVE  LookedAfter(store, d, k, old, q)'
<1>1. CASE Shadowed(store, d, k)
  BY <1>1 DEF Shadowed, Raced, LookedAfter
<1>2. CASE Raced(d, k)
  BY <1>2 DEF Raced, LookedAfter
<1>3. CASE Sets(store, d, k, q) \/ q \in DOMAIN old.parameters
  BY <1>3 DEF Sets, LookedAfter
<1> QED BY <1>1, <1>2, <1>3 DEF LookedAfter

\* A review of an update has found its dependants ready.
LEMMA ReadyReview ==
  ASSUME RefInv, Ready, NEW r, Request(r), Review(r)
  PROVE  Ready'
<1> USE DEF RefInv
<1>0. /\ \A x \in Busy : {x, r.key} \in raced'
      /\ raced \subseteq raced' /\ store' = store /\ inFlight' = inFlight \cup {r}
      /\ Validates(cache, r)
  BY ReviewRaces
<1> SUFFICES ASSUME NEW x \in inFlight', x.op = "Update",
                    x.key[1] \in DefinitionKinds \cup {"Profile"},
                    NEW kind \in DependantKinds, NEW d \in Dependants(store', kind, x.key),
                    NEW q \in GetNewRequiredParameters(x.old.parameters, x.obj.parameters)
             PROVE  LookedAfter(store, d, x.key, x.old, q)'
  BY DEF Ready
<1>1. d \in Dependants(store, kind, x.key)
  BY <1>0
<1>2. CASE x \in inFlight
  <2>1. LookedAfter(store, d, x.key, x.old, q)
    BY <1>1, <1>2 DEF Ready
  <2> QED BY <1>0, <2>1, PreparedStays
<1>3. CASE x = r
  <2>0. r.key \in Keys /\ Objects(store) /\ Objects(cache)
    BY DEF Request, TypeOK
  <2>1. d \in DOMAIN store /\ d \in Keys /\ d[1] = kind
    BY <1>1, <1>3, <2>0, DependantTypes
  <2>2. CASE d \in Busy
    BY <1>0, <1>3, <2>2 DEF LookedAfter, Raced
  <2>3. CASE q \in DOMAIN r.old.parameters
    BY <1>3, <2>3 DEF LookedAfter
  <2>4. CASE d \notin Busy /\ q \notin DOMAIN r.old.parameters
    <3>1. d \in DOMAIN cache /\ store[d] = cache[d]
      BY <2>1, <2>4, NotBusy
    <3>2. d \in Dependants(cache, kind, r.key)
      BY <1>1, <1>3, <3>1 DEF Dependants
    <3>3. q \in DOMAIN parseNewRequiredParameters(r.old.parameters, r.obj.parameters)
      BY <1>3, <2>4, NewIsParsed
    <3>4. CASE Sets(cache, d, r.key, q)
      <4>1. Sets(store, d, r.key, q)
        BY <3>1, <3>4 DEF Sets
      <4>2. LookedAfter(store, d, r.key, r.old, q)
        BY <4>1 DEF LookedAfter
      <4> QED BY <1>0, <1>3, <4>2, PreparedStays
    <3>5. ASSUME r.key[1] \in CrawlerKinds \cup DownloaderKinds,
                 NEW e \in Dependants(cache, kind, r.key), e # d
          PROVE  Shadowed(store, d, r.key)'
      <4>1. e \in Keys /\ e \in DOMAIN cache /\ e[1] = kind
        BY <2>0, DependantTypes
      <4>2. CASE e \in Busy
        BY <1>0, <2>1, <3>5, <4>1, <4>2 DEF Shadowed, Raced
      <4>3. CASE e \notin Busy
        <5>1. e \in DOMAIN store /\ store[e] = cache[e]
          BY <4>1, <4>3, NotBusy
        <5>2. e \in Dependants(store, kind, r.key)
          BY <5>1 DEF Dependants
        <5> QED BY <1>0, <2>1, <3>5, <4>1, <5>2 DEF Shadowed
      <4> QED BY <4>2, <4>3
    <3>6. CASE Shadowed(store, d, r.key)'
      BY <1>3, <3>6 DEF LookedAfter
    <3> QED BY <1>0, <1>3, <3>2, <3>3, <3>4, <3>5, <3>6, AcceptedUpdate
  <2> QED BY <2>2, <2>3, <2>4
<1> QED BY <1>0, <1>2, <1>3

\* A commit leaves the dependants of the updates under way ready.
LEMMA ReadyCommit ==
  ASSUME RefInv, Ready, TypeOK', NEW r, Commits(r)
  PROVE  Ready'
<1> USE DEF RefInv
<1>0. /\ raced' = raced /\ inFlight' \subseteq inFlight /\ r.key \in Busy
      /\ \A x \in inFlight : x.key \in Busy /\ Request(x)
  BY CommitBusy DEF Commits, Busy, TypeOK, Request
<1> SUFFICES ASSUME NEW x \in inFlight, x.op = "Update",
                    x.key[1] \in DefinitionKinds \cup {"Profile"},
                    NEW kind \in DependantKinds, NEW d \in Dependants(store', kind, x.key),
                    NEW q \in GetNewRequiredParameters(x.old.parameters, x.obj.parameters)
             PROVE  LookedAfter(store, d, x.key, x.old, q)'
  BY <1>0 DEF Ready
<1>1. x.key \in Keys /\ Objects(store') /\ Objects(store)
  BY <1>0 DEF Request, TypeOK, Objects
<1>2. d \in DOMAIN store' /\ d # x.key /\ d[1] = kind
  BY <1>1, DependantTypes
<1>3. CASE d = r.key
  <2>1. {d, x.key} \in raced'
    BY <1>0, <1>2, <1>3 DEF BusyRaced, Raced
  <2> QED BY <2>1 DEF LookedAfter, Raced
<1>4. CASE d # r.key
  <2>1. d \in DOMAIN store /\ store'[d] = store[d]
    BY <1>2, <1>4, CommitElsewhere
  <2>2. d \in Dependants(store, kind, x.key)
    BY <2>1 DEF Dependants
  <2>3. LookedAfter(store, d, x.key, x.old, q)
    BY <2>2 DEF Ready
  <2>4. CASE Sets(store, d, x.key, q) \/ q \in DOMAIN x.old.parameters \/ Raced(d, x.key)
    BY <1>0, <2>1, <2>4 DEF LookedAfter, Sets, Raced
  <2>5. CASE Shadowed(store, d, x.key)
    <3>1. PICK e \in Keys \ {d} : e[1] = d[1] /\ (e \in Dependants(store, d[1], x.key) \/ {e, x.key} \in raced)
      BY <2>5 DEF Shadowed, Raced
    <3>2. CASE {e, x.key} \in raced
      BY <1>0, <2>5, <3>1, <3>2 DEF Shadowed, Raced, LookedAfter
    <3>3. CASE e \in Dependants(store, d[1], x.key) /\ e # r.key
      <4>1. e \in DOMAIN store' /\ store'[e] = store[e]
        BY <3>3, CommitElsewhere DEF Dependants
      <4>2. e \in Dependants(store', d[1], x.key)
        BY <3>3, <4>1 DEF Dependants
      <4> QED BY <2>5, <3>1, <4>2 DEF Shadowed, LookedAfter
    <3>4. CASE e \in Dependants(store, d[1], x.key) /\ e = r.key
      <4>1. e # x.key
        BY <1>1, <1>2, <3>4, DependantTypes
      <4>2. {e, x.key} \in raced
        BY <1>0, <3>4, <4>1 DEF BusyRaced, Raced
      <4> QED BY <3>2, <4>2
    <3> QED BY <3>1, <3>2, <3>3, <3>4
  <2> QED BY <2>3, <2>4, <2>5 DEF LookedAfter
<1> QED BY <1>3, <1>4

\* Ready is inductive relative to RefInv.
LEMMA ReadyNext == RefInv /\ Ready /\ [Next]_vars => Ready'
<1> SUFFICES ASSUME RefInv, Ready, [Next]_vars PROVE Ready'
  OBVIOUS
<1>0. TypeOK /\ TypeOK'
  BY TypeNext DEF RefInv
<1>1. CASE ReviewCreate
  BY <1>0, <1>1, CreateIsReview, ReadyReview
<1>2. CASE ReviewUpdate
  BY <1>0, <1>2, UpdateIsReview, ReadyReview
<1>3. CASE ReviewDelete
  BY <1>0, <1>3, DeleteIsReview, ReadyReview
<1>4. CASE Commit
  BY <1>0, <1>4, CommitCases, ReadyCommit
<1>5. CASE store' = store /\ raced' = raced /\ inFlight' \subseteq inFlight
  BY <1>5 DEF Ready, LookedAfter, Sets, Shadowed, Raced, Dependants
<1>6. CASE Conflict \/ Observe \/ StartPipeline \/ StartSearch \/ Collect \/ UNCHANGED vars
  BY <1>5, <1>6 DEF Conflict, Observe, StartPipeline, StartSearch, Collect, vars
<1> QED BY <1>1, <1>2, <1>3, <1>4, <1>6 DEF Next

\* An update leaves those alone that the webhook found and had to look at.
LEMMA UpdateLookedAfter ==
  ASSUME RefInv, Ready, [Next]_vars, NEW k \in DOMAIN store \cap DOMAIN store',
         NEW kind \in DependantKinds,
         k[1] \in DefinitionKinds \cup {"Profile"}, store[k] # store'[k],
         NEW d \in Dependants(store, kind, k),
         NEW q \in GetNewRequiredParameters(store[k].parameters, store'[k].parameters)
  PROVE  LookedAfter(store, d, k, store[k], q)
<1> USE DEF RefInv
<1>1. Commit
  BY DEF Next, vars, ReviewCreate, ReviewUpdate, ReviewDelete, Review, Conflict, Observe,
         StartPipeline, StartSearch, Collect
<1>2. PICK r : Commits(r)
  BY <1>1, CommitCases
<1>3. k = r.key
  BY <1>2, CommitElsewhere
<1>4. PICK v : Writes(r, v) /\ store'[k] = v
  BY <1>2, <1>3, CommitHere
<1>5. k[1] # "Pipeline"
  BY DEF DefinitionKinds, CrawlerKinds, DownloaderKinds, UploaderKinds
<1>6. r.op # "Delete" /\ v = r.obj
  BY <1>3, <1>4, <1>5 DEF Writes
<1>7. r.op = "Update" /\ store[k] = r.old
  BY <1>2, <1>3, <1>6 DEF Commits, Applies, Request
<1> QED BY <1>2, <1>3, <1>4, <1>6, <1>7 DEF Commits, Ready

\* ValidateUpdate lets no new required parameter through that a user of the
\* definition does not set, but for the four cases that Prepared names: an
\* optional parameter made required (common.go:25), a dependant behind the first
\* one (crawler_webhook.go:170, downloader_webhook.go:137), a race, and an
\* uploader reference without a kind (common.go:32, manifests.yaml:65).
THEOREM UpdatesKeepDependants == Spec => UpdateKeepsDependants
<1>1. ASSUME RefInv, Kinded, Ready, [Next]_vars PROVE [DependantsPrepared]_vars
  <2> SUFFICES ASSUME NEW k \in DOMAIN store \cap DOMAIN store', NEW d \in DOMAIN store,
                      k[1] \in DefinitionKinds \cup {"Profile"}, store[k] # store'[k],
                      NEW u \in Uses(d[1], store[d]), u.key = k,
                      NEW q \in GetNewRequiredParameters(store[k].parameters, store'[k].parameters)
               PROVE  Prepared(store, d, u.ref, k, store[k], q)
    BY DEF DependantsPrepared
  <2>1. HasKinds(d[1], store[d])
    BY <1>1 DEF Kinded
  <2>2. CASE Unseen(d, u.ref)
    BY <2>2 DEF Prepared
  <2>3. CASE /\ refMatches(u.ref, k) /\ u.ref \in RefsOf(d[1], store[d])
             /\ d[1] \in DependantKinds /\ d \in Dependants(store, d[1], k)
    <3>1. LookedAfter(store, d, k, store[k], q)
      BY <1>1, <2>3, UpdateLookedAfter
    <3> QED BY <2>3, <3>1 DEF LookedAfter, Sets, Prepared
  <2> QED BY <2>1, <2>2, <2>3, SeenOrNot
<1>2. RefInv /\ Kinded /\ Ready /\ [Next]_vars => [DependantsPrepared]_vars
  BY <1>1
<1>3. Init => Ready
  BY DEF Init, Ready
<1> QED BY <1>2, <1>3, ReadyNext, KindedCorrect, PTL DEF UpdateKeepsDependants, Spec

=============================================================================
