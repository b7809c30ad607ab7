---------------------------- MODULE ScanPodProofs ----------------------------
(***************************************************************************)
(* What holds of every scan pod the Pipeline controller builds from         *)
(* admitted objects.                                                        *)
(***************************************************************************)
EXTENDS AdmissionProofs

-----------------------------------------------------------------------------
(* Pods. *)

\* In the pod of any Pipeline the uploaders wait for the names that the
\* scanners were told.
LEMMA PodAwaits ==
  ASSUME NEW c, NEW pipeline, NEW u \in populateScanPod(c, pipeline).uploaders
  PROVE  u.container.awaits = {s.self : s \in populateScanPod(c, pipeline).scanners}
<1> DEFINE profile  == c[CHOOSE k \in ProfileInvocationFromReference(c, pipeline.profileRef) : TRUE]
           scanners == scannerContainers(profile, pipeline.profileRef)
           pod == populateScanPod(c, pipeline)
<1>1. pod.scanners = {WithContainerNameEnvVar(s) : s \in scanners}
  BY DEF populateScanPod
<1>2. \A s \in scanners : WithContainerNameEnvVar(s).self = s.name
  BY DEF scannerContainers, WithContainerNameEnvVar, WithNamePrefix, WithParameters, WrapCommand, Base
<1>3. {s.self : s \in pod.scanners} = {s.name : s \in scanners}
  <2> HIDE DEF pod, scanners
  <2>1. \A x : x \in {s.self : s \in pod.scanners} <=> \E s \in pod.scanners : x = s.self
    OBVIOUS
  <2>2. \A t : t \in pod.scanners <=> \E s \in scanners : t = WithContainerNameEnvVar(s)
    BY <1>1
  <2>3. \A x : x \in {s.self : s \in pod.scanners} <=> \E s \in scanners : x = s.name
    BY <1>2, <2>1, <2>2
  <2> QED BY <2>3
<1>4. u.container.awaits = {s.name : s \in scanners}
  <2> DEFINE uploader(r) == c[CHOOSE k \in UploaderInvocationFromReference(c, r) : TRUE]
             names == scanContainerNames(profile, scanners)
  <2>1. PICK r \in profile.uploaderRefs :
          u = [ref |-> r, container |->
                 uploaderContainer(uploader(r), r, parentParams(profile, pipeline.profileRef), names)]
    BY DEF populateScanPod
  <2>2. \A x, y, z : uploaderContainer(x, y, z, names).awaits = names
    BY DEF uploaderContainer, WithContainerNameEnvVar,
           WithNamePrefix, WithScanContainerNames, WrapCommand, WithParameters, Base
  <2> QED BY <2>1, <2>2 DEF scanContainerNames
<1> QED BY <1>3, <1>4

\* The steps that change the pods.
LEMMA PodSteps ==
  ASSUME [Next]_vars, NEW k \in DOMAIN pods', k[1] = "Pipeline",
         k \notin DOMAIN pods \/ pods'[k] # pods[k]
  PROVE  /\ k \in DOMAIN cache \ DOMAIN pods /\ pods'[k] = populateScanPod(cache, cache[k])
         /\ \E p \in ProfileInvocationFromReference(cache, cache[k].profileRef) :
              \A ref \in cache[p].uploaderRefs : UploaderInvocationFromReference(cache, ref) # {}
<1>1. CASE StartPipeline
  BY <1>1 DEF StartPipeline, Put
<1>2. CASE StartSearch
  <2>1. PICK x \in DOMAIN cache \ DOMAIN pods :
          x[1] = "Search" /\ pods' = Put(pods, x, populateSearchPod(cache, cache[x]))
    BY <1>2 DEF StartSearch
  <2>2. k # x
    BY <2>1
  <2> QED BY <2>1, <2>2 DEF Put
<1>3. CASE Collect
  BY <1>3 DEF Collect, Without
<1>4. CASE UNCHANGED pods
  BY <1>4
<1> QED BY <1>1, <1>2, <1>3, <1>4 DEF Next, vars, ReviewCreate, ReviewUpdate, ReviewDelete, Review,
        Commit, Conflict, Observe

\* In every scan pod, whatever the Profile and the parameters, the uploaders
\* wait for exactly the names under which the scanners mark their end, so that
\* neither prefix nor filter can leave an uploader waiting for a mark that
\* nobody writes.
THEOREM AwaitedCorrect == Spec => []AwaitedAreMarked
<1> DEFINE Awaits(pod) == \A u \in pod.uploaders : u.container.awaits = {s.self : s \in pod.scanners}
<1>1. Init => AwaitedAreMarked
  BY DEF Init, AwaitedAreMarked, ScanPods
<1>2. ASSUME AwaitedAreMarked, [Next]_vars PROVE AwaitedAreMarked'
  <2> SUFFICES ASSUME NEW k \in DOMAIN pods', k[1] = "Pipeline" PROVE Awaits(pods'[k])
    BY DEF AwaitedAreMarked, ScanPods
  <2>1. CASE k \notin DOMAIN pods \/ pods'[k] # pods[k]
    <3>1. pods'[k] = populateScanPod(cache, cache[k])
      BY <1>2, <2>1, PodSteps
    <3> QED BY <3>1, PodAwaits
  <2>2. CASE k \in DOMAIN pods /\ pods'[k] = pods[k]
    BY <1>2, <2>2 DEF AwaitedAreMarked, ScanPods
  <2> QED BY <2>1, <2>2
<1> QED BY <1>1, <1>2, PTL DEF Spec

-----------------------------------------------------------------------------
(* Values. *)

\* The environment has a variable for each parameter, with its value.
LEMMA EnvValue ==
  ASSUME NEW definitions, NEW settings, NEW parent, NEW q
  PROVE  LET env == ParseParameterEnvVars(definitions, settings, parent)
             v   == ParameterToEnvironmentVariable(q)
         IN /\ v \in DOMAIN env <=> q \in DOMAIN definitions
            /\ v \in DOMAIN env => env[v] = ParseParameters(definitions, settings, parent)[q]
<1> DEFINE params == ParseParameters(definitions, settings, parent)
<1>1. DOMAIN params = DOMAIN definitions
  BY DEF ParseParameters
<1>2. \A x : ParameterToEnvironmentVariable(x)[2] = x
  BY DEF ParameterToEnvironmentVariable
<1> HIDE DEF params
<1> DEFINE env == [v \in {ParameterToEnvironmentVariable(x) : x \in DOMAIN params} |-> params[v[2]]]
<1>3. env = ParseParameterEnvVars(definitions, settings, parent)
  BY DEF ParseParameterEnvVars, params
<1>4. ParameterToEnvironmentVariable(q) \in DOMAIN env <=> q \in DOMAIN params
  <2>1. DOMAIN env = {ParameterToEnvironmentVariable(x) : x \in DOMAIN params}
    OBVIOUS
  <2>2. \A x : ParameterToEnvironmentVariable(x) = ParameterToEnvironmentVariable(q) => x = q
    BY <1>2
  <2> HIDE DEF env
  <2> QED BY <2>1, <2>2
<1>5. ParameterToEnvironmentVariable(q) \in DOMAIN env =>
        env[ParameterToEnvironmentVariable(q)] = params[q]
  BY <1>2
<1> QED BY <1>1, <1>3, <1>4, <1>5 DEF params

\* A setting that asks for a parent's value gets it.
LEMMA ParentValue ==
  ASSUME NEW definitions, NEW settings, NEW parent, NEW q \in DOMAIN definitions,
         q \in DOMAIN settings, settings[q].valueFrom # Nil,
         settings[q].valueFrom \in DOMAIN parent
  PROVE  ParseParameters(definitions, settings, {parent})[q] = parent[settings[q].valueFrom]
<1>1. (CHOOSE m \in {parent} : settings[q].valueFrom \in DOMAIN m) = parent
  OBVIOUS
<1>2. {parent} # {} /\ \E m \in {parent} : settings[q].valueFrom \in DOMAIN m
  OBVIOUS
<1> QED BY <1>1, <1>2 DEF ParseParameters

-----------------------------------------------------------------------------
(* What the webhooks guarantee of every Profile and Pipeline. *)

\* A Profile's uploaders take parameters that the Profile has, and a Pipeline
\* takes none from a parent.
Sound(kind, obj) ==
  /\ kind = "Profile" =>
       \A ref \in obj.uploaderRefs : ValidateParentParameters(ref, obj.parameters)
  /\ kind = "Pipeline" => ValidateNoParentParameters(obj.profileRef)

AllSound(f) == \A k \in DOMAIN f : Sound(k[1], f[k])

SoundInv ==
  /\ AllSound(store) /\ AllSound(cache)
  /\ \A r \in inFlight : r.op # "Delete" => Sound(r.key[1], r.obj)

\* What a validator admits is sound.
LEMMA AdmittedSound ==
  ASSUME NEW c, NEW r, r.op # "Delete", Validates(c, r)
  PROVE  Sound(r.key[1], r.obj)
<1>1. CASE r.key[1] = "Profile"
  BY <1>1, ValidatesKinds DEF ProfileValidator, ValidateProfile, Sound
<1>2. CASE r.key[1] = "Pipeline"
  BY <1>2, ValidatesKinds DEF PipelineValidator, ValidatePipeline, Sound
<1> QED BY <1>1, <1>2 DEF Sound

\* What is installed was admitted.
LEMMA SoundInit == Init => SoundInv
<1> SUFFICES ASSUME Init PROVE SoundInv
  OBVIOUS
<1>1. ASSUME NEW k \in DOMAIN Installed PROVE Sound(k[1], Installed[k])
  <2> DEFINE r == [op |-> "Create", key |-> k, old |-> Installed[k], obj |-> Installed[k]]
  <2>1. Validates(Installed, r) /\ r.op # "Delete"
    BY AdmissionAssumption
  <2>2. Sound(r.key[1], r.obj)
    BY <2>1, AdmittedSound
  <2> QED BY <2>2
<1> QED BY <1>1 DEF Init, SoundInv, AllSound

\* A review lets only sound objects through.
LEMMA SoundReview ==
  ASSUME SoundInv, NEW r, Review(r)
  PROVE  SoundInv'
<1>1. r.op # "Delete" => Sound(r.key[1], r.obj)
  BY AdmittedSound DEF Review
<1> QED BY <1>1 DEF Review, SoundInv, AllSound

\* Soundness is inductive.
LEMMA SoundNext == TypeOK /\ SoundInv /\ [Next]_vars => SoundInv'
<1> SUFFICES ASSUME TypeOK, SoundInv, [Next]_vars PROVE SoundInv'
  OBVIOUS
<1>1. CASE ReviewCreate
  BY <1>1, CreateIsReview, SoundReview
<1>2. CASE ReviewUpdate
  BY <1>2, UpdateIsReview, SoundReview
<1>3. CASE ReviewDelete
  BY <1>3, DeleteIsReview, SoundReview
<1>4. CASE Commit
  <2>1. PICK r : Commits(r)
    BY <1>4, CommitCases
  <2>2. ASSUME NEW k \in DOMAIN store' PROVE Sound(k[1], store'[k])
    <3>1. CASE k # r.key
      BY <2>1, <3>1, CommitElsewhere DEF SoundInv, AllSound
    <3>2. CASE k = r.key
      <4>1. PICK v : Writes(r, v) /\ store'[k] = v
        BY <2>1, <3>2, CommitHere
      <4>2. CASE r.op # "Delete" /\ v = r.obj
        BY <2>1, <3>2, <4>1, <4>2 DEF Commits, SoundInv
      <4>3. CASE /\ r.key \in DOMAIN store /\ r.key[1] = "Pipeline"
                 /\ v.profileRef = store[r.key].profileRef
        BY <3>2, <4>1, <4>3 DEF SoundInv, AllSound, Sound
      <4> QED BY <4>1, <4>2, <4>3 DEF Writes
    <3> QED BY <3>1, <3>2
  <2> QED BY <2>1, <2>2 DEF Commits, SoundInv, AllSound
<1>5. CASE Observe
  <2>1. PICK k \in Lagging :
          /\ cache' = IF k \in DOMAIN store THEN Put(cache, k, store[k]) ELSE Without(cache, k)
          /\ UNCHANGED <<store, inFlight, raced, pods, requests>>
    BY <1>5 DEF Observe
  <2>2. ASSUME NEW x \in DOMAIN cache' PROVE Sound(x[1], cache'[x])
    <3>1. CASE x = k
      BY <2>1, <3>1 DEF Put, Without, SoundInv, AllSound
    <3>2. CASE x # k
      BY <2>1, <3>2 DEF Put, Without, SoundInv, AllSound
    <3> QED BY <3>1, <3>2
  <2> QED BY <2>1, <2>2 DEF SoundInv, AllSound
<1>6. CASE store' = store /\ cache' = cache /\ inFlight' \subseteq inFlight
  BY <1>6 DEF SoundInv, AllSound
<1>7. CASE Conflict \/ StartPipeline \/ StartSearch \/ Collect \/ UNCHANGED vars
  BY <1>6, <1>7 DEF Conflict, StartPipeline, StartSearch, Collect, vars
<1> QED BY <1>1, <1>2, <1>3, <1>4, <1>5, <1>7 DEF Next

\* Whatever is stored, cached or under way is sound.
LEMMA SoundCorrect == Spec => []SoundInv
<1> QED BY SoundInit, SoundNext, TypeCorrect, PTL DEF Spec

-----------------------------------------------------------------------------
(* Values and conditions in the pods. *)

Choose(S) == CHOOSE x \in S : TRUE

\* The parts of a pod, by name.
LEMMA PodParts ==
  ASSUME NEW c, NEW pipeline
  PROVE  LET pod == populateScanPod(c, pipeline)
             profile == c[Choose(ProfileInvocationFromReference(c, pipeline.profileRef))]
             scanners == scannerContainers(profile, pipeline.profileRef)
             env == ParseParameterEnvVars(profile.parameters, pipeline.profileRef.parameters, {})
         IN /\ pod.scanners = {WithContainerNameEnvVar(s) : s \in scanners}
            /\ \A s \in pod.scanners : s.env = env
            /\ \A u \in pod.uploaders : u.ref \in profile.uploaderRefs /\ \E uploader :
                 u.container.env = ParseParameterEnvVars(uploader.parameters, u.ref.parameters,
                                     {parentParams(profile, pipeline.profileRef)})
<1> DEFINE pod == populateScanPod(c, pipeline)
           profile == c[Choose(ProfileInvocationFromReference(c, pipeline.profileRef))]
           scanners == scannerContainers(profile, pipeline.profileRef)
           env == ParseParameterEnvVars(profile.parameters, pipeline.profileRef.parameters, {})
           parent == parentParams(profile, pipeline.profileRef)
           names == scanContainerNames(profile, scanners)
           uploader(r) == c[CHOOSE k \in UploaderInvocationFromReference(c, r) : TRUE]
<1>1. pod.scanners = {WithContainerNameEnvVar(s) : s \in scanners}
  BY DEF populateScanPod, Choose
<1>2. \A s \in scanners : WithContainerNameEnvVar(s).env = env
  BY DEF scannerContainers, WithContainerNameEnvVar, WithNamePrefix, WithParameters, WrapCommand, Base
<1>3. \A s \in pod.scanners : s.env = env
  BY <1>1, <1>2
<1>4. ASSUME NEW u \in pod.uploaders
      PROVE  u.ref \in profile.uploaderRefs /\ \E x :
               u.container.env = ParseParameterEnvVars(x.parameters, u.ref.parameters, {parent})
  <2>1. PICK r \in profile.uploaderRefs :
          u = [ref |-> r, container |-> uploaderContainer(uploader(r), r, parent, names)]
    BY DEF populateScanPod, Choose
  <2>2. \A x, y, z : uploaderContainer(x, y, z, names).env =
                      ParseParameterEnvVars(x.parameters, y.parameters, {z})
    BY DEF uploaderContainer, WithContainerNameEnvVar,
           WithNamePrefix, WithScanContainerNames, WrapCommand, WithParameters, Base
  <2>3. PICK up : u = [ref |-> r, container |-> uploaderContainer(up, r, parent, names)]
    BY <2>1
  <2> HIDE DEF parent, names, profile
  <2>4. u.ref = r /\ u.container = uploaderContainer(up, r, parent, names)
    BY <2>3
  <2>5. u.container.env = ParseParameterEnvVars(up.parameters, u.ref.parameters, {parent})
    BY <2>2, <2>4
  <2> QED BY <2>4, <2>5
<1> QED BY <1>1, <1>3, <1>4

\* The Profile a pod is built from is a cached one.
LEMMA PodProfile ==
  ASSUME TypeOK, NEW ref, NEW p \in ProfileInvocationFromReference(cache, ref)
  PROVE  /\ Choose(ProfileInvocationFromReference(cache, ref)) = p
         /\ p \in DOMAIN cache /\ p[1] = "Profile"
<1>1. \A x \in ProfileInvocationFromReference(cache, ref) :
        x \in DOMAIN cache /\ x[1] = "Profile" /\ x[2] = ref.name /\ x = <<x[1], x[2]>>
  BY KeyParts DEF ProfileInvocationFromReference, Resolve, TypeOK, Objects
<1>2. \A x \in ProfileInvocationFromReference(cache, ref) : x = p
  BY <1>1
<1>3. Choose(ProfileInvocationFromReference(cache, ref)) \in ProfileInvocationFromReference(cache, ref)
  BY DEF Choose
<1> QED BY <1>1, <1>2, <1>3

SeesScanValues(pod) ==
  \A u \in pod.uploaders, s \in pod.scanners : \A q \in DOMAIN u.ref.parameters :
    LET env == ParameterToEnvironmentVariable(q)
        parent == u.ref.parameters[q].valueFrom
    IN parent # Nil /\ env \in DOMAIN u.container.env =>
         /\ ParameterToEnvironmentVariable(parent) \in DOMAIN s.env
         /\ u.container.env[env] = s.env[ParameterToEnvironmentVariable(parent)]

\* The values in a pod that is built from sound objects.
LEMMA PodSeesScanValues ==
  ASSUME TypeOK, SoundInv, NEW pipeline,
         NEW p \in ProfileInvocationFromReference(cache, pipeline.profileRef)
  PROVE  SeesScanValues(populateScanPod(cache, pipeline))
<1> DEFINE pod == populateScanPod(cache, pipeline)
           profile == cache[p]
           parentP == parentParams(profile, pipeline.profileRef)
<1> SUFFICES ASSUME NEW u \in pod.uploaders, NEW s \in pod.scanners, NEW q \in DOMAIN u.ref.parameters,
                    u.ref.parameters[q].valueFrom # Nil,
                    ParameterToEnvironmentVariable(q) \in DOMAIN u.container.env
             PROVE  LET v == ParameterToEnvironmentVariable(u.ref.parameters[q].valueFrom)
                    IN v \in DOMAIN s.env /\ u.container.env[ParameterToEnvironmentVariable(q)] = s.env[v]
  BY DEF SeesScanValues
<1> DEFINE f == u.ref.parameters[q].valueFrom
<1>1. p \in DOMAIN cache /\ p[1] = "Profile" /\ Choose(ProfileInvocationFromReference(cache, pipeline.profileRef)) = p
  BY PodProfile
<1>2. /\ s.env = ParseParameterEnvVars(profile.parameters, pipeline.profileRef.parameters, {})
      /\ u.ref \in profile.uploaderRefs
      /\ \E x : u.container.env = ParseParameterEnvVars(x.parameters, u.ref.parameters, {parentP})
  BY <1>1, PodParts
<1>3. f \in DOMAIN profile.parameters
  BY <1>1, <1>2 DEF SoundInv, AllSound, Sound, ValidateParentParameters
<1>4. PICK x : u.container.env = ParseParameterEnvVars(x.parameters, u.ref.parameters, {parentP})
  BY <1>2
<1>5. parentP = ParseParameters(profile.parameters, pipeline.profileRef.parameters, {})
  BY DEF parentParams
<1>6. f \in DOMAIN parentP
  BY <1>3, <1>5 DEF ParseParameters
<1> HIDE DEF parentP
<1>7. /\ q \in DOMAIN x.parameters
      /\ u.container.env[ParameterToEnvironmentVariable(q)] =
           ParseParameters(x.parameters, u.ref.parameters, {parentP})[q]
  BY <1>4, EnvValue
<1>8. ParseParameters(x.parameters, u.ref.parameters, {parentP})[q] = parentP[f]
  BY <1>6, <1>7, ParentValue
<1>9. /\ ParameterToEnvironmentVariable(f) \in DOMAIN s.env
      /\ s.env[ParameterToEnvironmentVariable(f)] = parentP[f]
  BY <1>2, <1>3, <1>5, EnvValue
<1> QED BY <1>7, <1>8, <1>9

\* An uploader that takes a parameter from its Profile has, in every scan pod
\* built from admitted objects, the value that the scanners see; the check of
\* ValidateParentParameters on the Profile is what makes it so.
THEOREM UploaderValuesCorrect == Spec => []UploadersSeeScanValues
<1>1. Init => UploadersSeeScanValues
  BY DEF Init, UploadersSeeScanValues, ScanPods
<1>2. ASSUME TypeOK, SoundInv, UploadersSeeScanValues, [Next]_vars PROVE UploadersSeeScanValues'
  <2> SUFFICES ASSUME NEW k \in DOMAIN pods', k[1] = "Pipeline" PROVE SeesScanValues(pods'[k])
    BY DEF UploadersSeeScanValues, ScanPods, SeesScanValues
  <2>1. CASE k \notin DOMAIN pods \/ pods'[k] # pods[k]
    <3>1. /\ pods'[k] = populateScanPod(cache, cache[k])
          /\ \E p : p \in ProfileInvocationFromReference(cache, cache[k].profileRef)
      BY <1>2, <2>1, PodSteps
    <3> QED BY <1>2, <3>1, PodSeesScanValues
  <2>2. CASE k \in DOMAIN pods /\ pods'[k] = pods[k]
    BY <1>2, <2>2 DEF UploadersSeeScanValues, ScanPods, SeesScanValues
  <2> QED BY <2>1, <2>2
<1> QED BY <1>1, <1>2, TypeCorrect, SoundCorrect, PTL DEF Spec

\* A parameter counts as set exactly if its value is not empty.
LEMMA SetIsNonEmpty ==
  ASSUME NEW definitions, NEW settings, NEW q
  PROVE  q \in setParams(definitions, settings) <=>
           q \in DOMAIN definitions /\ ParseParameters(definitions, settings, {})[q] # Empty
BY DEF setParams, ParseParameters, Nil, Empty

\* The condition of a container holds exactly if the filter lets it through.
LEMMA ConditionIsFilter ==
  ASSUME NEW profile, NEW ref, NEW c
  PROVE  ConditionHolds(profile, ref, c) <=>
           shouldInclude(c.includeIf, setParams(profile.parameters, ref.parameters))
<1> DEFINE env == ParseParameterEnvVars(profile.parameters, ref.parameters, {})
           v   == ParameterToEnvironmentVariable(c.includeIf)
<1>1. /\ v \in DOMAIN env <=> c.includeIf \in DOMAIN profile.parameters
      /\ v \in DOMAIN env => env[v] = ParseParameters(profile.parameters, ref.parameters, {})[c.includeIf]
  BY EnvValue
<1>2. (v \in DOMAIN env /\ env[v] # Empty) <=> c.includeIf \in setParams(profile.parameters, ref.parameters)
  BY <1>1, SetIsNonEmpty
<1> QED BY <1>2 DEF ConditionHolds, shouldInclude

\* The pod has a scanner made from the container named n.
HasScanner(pod, n) == \E s \in pod.scanners : s.name = <<"scanner-", n>>

\* A container named n passes the filter.
Includes(profile, ref, n) ==
  \E x \in FilterConditionalContainers(profile.containers, profile.parameters,
                                        ref.parameters) : x.name = n

\* The scanners of a pod are those of the filtered containers.
LEMMA PodScanners ==
  ASSUME NEW c, NEW pipeline, NEW p,
         p = Choose(ProfileInvocationFromReference(c, pipeline.profileRef)), NEW n
  PROVE  HasScanner(populateScanPod(c, pipeline), n) <=> Includes(c[p], pipeline.profileRef, n)
<1> DEFINE profile == c[p]
           scanners == scannerContainers(profile, pipeline.profileRef)
           included == FilterConditionalContainers(profile.containers, profile.parameters,
                                                   pipeline.profileRef.parameters)
           scanner(x) == WithNamePrefix("scanner-",
                           WithParameters(profile.parameters, pipeline.profileRef.parameters, {},
                             WrapCommand("scanner", Base(x))))
<1>1. populateScanPod(c, pipeline).scanners = {WithContainerNameEnvVar(s) : s \in scanners}
  BY PodParts
<1>2. scanners = {scanner(x) : x \in included}
  BY DEF scannerContainers
<1>3. \A x : WithContainerNameEnvVar(scanner(x)).name = <<"scanner-", x.name>>
  BY DEF WithContainerNameEnvVar, WithNamePrefix, WithParameters, WrapCommand, Base
<1>4. \A m : <<"scanner-", m>> = <<"scanner-", n>> <=> m = n
  OBVIOUS
<1> HIDE DEF scanner, included, scanners
<1>5. \A t : t \in populateScanPod(c, pipeline).scanners <=>
              \E x \in included : t = WithContainerNameEnvVar(scanner(x))
  BY <1>1, <1>2
<1>6. (\E s \in populateScanPod(c, pipeline).scanners : s.name = <<"scanner-", n>>)
        <=> \E x \in included : x.name = n
  BY <1>3, <1>4, <1>5
<1> QED BY <1>6 DEF included, HasScanner, Includes

\* In every scan pod a conditional scanner is there exactly if the parameter it
\* depends on has a value in the pod's environment: contiditonal.go and
\* parameters.go agree on defaults, on empty settings and on missing ones.
THEOREM ConditionsCorrect == Spec => ConditionsAgree
<1>1. ASSUME TypeOK, [Next]_vars PROVE [FilteredByEnv]_vars
  <2> SUFFICES ASSUME NEW k \in DOMAIN pods' \ DOMAIN pods, k[1] = "Pipeline",
                      NEW p \in ProfileInvocationFromReference(cache, cache[k].profileRef),
                      NEW c \in cache[p].containers
               PROVE  (\E s \in pods'[k].scanners : s.name = <<"scanner-", c.name>>)
                        <=> ConditionHolds(cache[p], cache[k].profileRef, c)
    BY DEF FilteredByEnv
  <2> DEFINE included == FilterConditionalContainers(cache[p].containers, cache[p].parameters,
                                                     cache[k].profileRef.parameters)
  <2>1. pods'[k] = populateScanPod(cache, cache[k])
    BY <1>1, PodSteps
  <2>2. /\ Choose(ProfileInvocationFromReference(cache, cache[k].profileRef)) = p
        /\ p \in DOMAIN cache /\ p[1] = "Profile"
    BY <1>1, PodProfile
  <2>3. (\E s \in pods'[k].scanners : s.name = <<"scanner-", c.name>>)
          <=> \E x \in included : x.name = c.name
    <3>1. HasScanner(populateScanPod(cache, cache[k]), c.name)
            <=> Includes(cache[p], cache[k].profileRef, c.name)
      BY <2>2, PodScanners
    <3> QED BY <2>1, <3>1 DEF HasScanner, Includes
  <2>4. cache[p].containers \in ScannerLists
    <3>1. cache[p] \in ProfileSpec
      BY <1>1, <2>2, SpecOfKinds DEF TypeOK, Objects
    <3> QED BY <3>1 DEF ProfileSpec
  <2>5. \A x \in cache[p].containers : x.name = c.name => x = c
    BY <2>4 DEF ScannerLists
  <2>6. (\E x \in included : x.name = c.name) <=> c \in included
    BY <2>5 DEF FilterConditionalContainers
  <2>7. c \in included <=>
          shouldInclude(c.includeIf, setParams(cache[p].parameters, cache[k].profileRef.parameters))
    BY DEF FilterConditionalContainers
  <2> HIDE DEF included
  <2> QED BY <2>3, <2>6, <2>7, ConditionIsFilter
<1>2. TypeOK /\ [Next]_vars => [FilteredByEnv]_vars
  BY <1>1
<1> QED BY <1>2, TypeCorrect, PTL DEF ConditionsAgree, Spec

=============================================================================
