------------------------------ MODULE Invocation ------------------------------
(***************************************************************************)
(* What it means to run a Crawler, Downloader, Uploader or Profile with     *)
(* parameters: parameter definitions and settings (api/v1beta1/common.go),  *)
(* references to definitions (internal/resources/references.go), the values *)
(* a container receives (internal/resources/parameters.go), conditional     *)
(* containers (internal/containers) and the checks of internal/validators.  *)
(*                                                                          *)
(* A cluster, or a client's cache of it, is a function c from keys          *)
(* <<kind, name>> to specs; its domain is the set of objects that exist.    *)
(* One namespace is modelled, next to the cluster-scoped kinds.  Lists that *)
(* the API keeps unique by name (parameters, settings) are functions from   *)
(* names; error lists are modelled by whether they are empty.               *)
(***************************************************************************)
EXTENDS Integers, FiniteSets

CONSTANTS
  Params,     \* parameter names
  Values,     \* non-empty parameter values
  Names,      \* names of objects, of containers and of volumes
  LengthOf    \* the length of each name

Nil   == "nil"
Empty == ""

ASSUME InvocationAssumption ==
  /\ Nil \notin Params \cup Values /\ Empty \notin Params \cup Values \cup Names
  /\ LengthOf \in [Names -> Nat]

-----------------------------------------------------------------------------
(* The API types. *)

\* A definition maps a parameter to its default; a nil default makes it
\* required.
ParameterDefinitions == UNION {[S -> {Nil, Empty} \cup Values] : S \in SUBSET Params}

ParameterSetting  == [value : {Empty} \cup Values, valueFrom : {Nil} \cup Params]
ParameterSettings == UNION {[S -> ParameterSetting] : S \in SUBSET Params}

References(kinds) ==
  [name : Names, kind : kinds \cup {Empty}, parameters : ParameterSettings]

Containers == [name : Names, command : BOOLEAN]

\* IncludeIf.WhenParamSet, or Nil if the container is always included.
ConditionalContainers == [name : Names, command : BOOLEAN, includeIf : {Nil} \cup Params]

CrawlerKinds    == {"Crawler", "ClusterCrawler"}
DownloaderKinds == {"Downloader", "ClusterDownloader"}
UploaderKinds   == {"Uploader", "ClusterUploader"}

CrawlerSpec    == [container : Containers, parameters : ParameterDefinitions]
DownloaderSpec == [container : Containers, parameters : ParameterDefinitions,
                   volumes : SUBSET Names]
UploaderSpec   == [container : Containers, parameters : ParameterDefinitions,
                   volumes : SUBSET Names]
\* The containers of a Profile are a list with their names as keys.
ScannerLists   == {S \in SUBSET ConditionalContainers :
                     S # {} /\ \A a, b \in S : a.name = b.name => a = b}
ProfileSpec    == [containers : ScannerLists,
                   uploaderRefs : SUBSET References(UploaderKinds),
                   parameters : ParameterDefinitions, volumes : SUBSET Names]

-----------------------------------------------------------------------------
(* References. *)

ReferenceDefaulter(ref, kind) ==
  IF ref.kind = Empty THEN [ref EXCEPT !.kind = kind] ELSE ref

\* The objects (one or none) a reference leads to: a kind outside of kinds is
\* an InvalidObjectReference, a missing object a NotFound.
Resolve(c, ref, default, kinds) ==
  {k \in DOMAIN c : /\ k[1] \in kinds /\ k[2] = ref.name
                    /\ k[1] = ReferenceDefaulter(ref, default).kind}

CrawlerInvocationFromReference(c, ref)    == Resolve(c, ref, "Crawler", CrawlerKinds)
DownloaderInvocationFromReference(c, ref) == Resolve(c, ref, "Downloader", DownloaderKinds)
UploaderInvocationFromReference(c, ref)   == Resolve(c, ref, "Uploader", UploaderKinds)
ProfileInvocationFromReference(c, ref)    == Resolve(c, ref, "Profile", {"Profile"})

-----------------------------------------------------------------------------
(* Parameter values. *)

\* The value of every defined parameter: its setting if there is one, else its
\* default, else the empty string.  parent is the set of the parent's values,
\* {} where the code passes nil; a key the parent lacks reads as empty.
ParseParameters(definitions, settings, parent) ==
  LET FromParent(q) == IF \E m \in parent : q \in DOMAIN m
                         THEN (CHOOSE m \in parent : q \in DOMAIN m)[q] ELSE Empty
      Setting(s)    == IF s.valueFrom # Nil /\ parent # {}
                         THEN FromParent(s.valueFrom) ELSE s.value
  IN [q \in DOMAIN definitions |->
        IF q \in DOMAIN settings THEN Setting(settings[q])
        ELSE IF definitions[q] = Nil THEN Empty ELSE definitions[q]]

\* Mutant: an empty setting leaves the default in place.
setParams_DefaultsWin(definitions, settings) ==
  {q \in DOMAIN definitions : \/ q \in DOMAIN settings /\ settings[q].value # Empty
                              \/ definitions[q] \notin {Nil, Empty}}

\* The parameters FilterConditionalContainers takes to be set.
setParams(definitions, settings) ==
  {q \in DOMAIN definitions : IF q \in DOMAIN settings
                                THEN settings[q].value # Empty
                                ELSE definitions[q] \notin {Nil, Empty}}

shouldInclude(includeIf, set) == includeIf # Nil => includeIf \in set

FilterConditionalContainers(cs, definitions, settings) ==
  {c \in cs : shouldInclude(c.includeIf, setParams(definitions, settings))}

-----------------------------------------------------------------------------
(* Validators. *)

\* The parameters of definitions that a reference leaves out.
ParseSetParameters(ref, definitions) == DOMAIN definitions \ DOMAIN ref.parameters

ValidateParameterReference(ref, definitions) ==
  \A q \in DOMAIN definitions : definitions[q] = Nil => q \in DOMAIN ref.parameters

ValidateNoParentParameters(ref) ==
  \A q \in DOMAIN ref.parameters : ref.parameters[q].valueFrom = Nil

ValidateParentParameters(ref, parentDefs) ==
  \A q \in DOMAIN ref.parameters : LET s == ref.parameters[q] IN
    s.valueFrom # Nil => s.value = Empty /\ s.valueFrom \in DOMAIN parentDefs

\* The parameters required by new and not by old.  The webhooks have a function
\* of their own for this, see Admission.
GetNewRequiredParameters(old, new) ==
  {q \in DOMAIN new : new[q] = Nil /\ ~(q \in DOMAIN old /\ old[q] = Nil)}

DNS1035LabelMaxLength == 63
MaxPipelineNameLength == DNS1035LabelMaxLength - 9

\* The limit is the one of Pipeline names, although MaxContainerNameLength and
\* the message say 51.
ValidateContainerDefinition(container) ==
  LengthOf[container.name] <= MaxPipelineNameLength /\ container.command

\* Volume names of a Profile and of its uploaders are all different.
NoDuplicateVolumes(c, profile) ==
  LET Vols(ref) == UNION {c[k].volumes : k \in UploaderInvocationFromReference(c, ref)}
  IN \A ref \in profile.uploaderRefs :
       /\ Vols(ref) \cap profile.volumes = {}
       /\ \A other \in profile.uploaderRefs \ {ref} : Vols(ref) \cap Vols(other) = {}

ValidateProfile(c, profile) ==
  /\ NoDuplicateVolumes(c, profile)
  /\ \A ref \in profile.uploaderRefs :
       \E k \in UploaderInvocationFromReference(c, ref) :
         /\ ValidateParameterReference(ref, c[k].parameters)
         /\ ValidateParentParameters(ref, profile.parameters)
  /\ \A s \in profile.containers : ValidateContainerDefinition(s)

\* The uploaders' volumes are not compared with the downloader's.
ValidatePipeline(c, name, pipeline) ==
  /\ LengthOf[name] <= MaxPipelineNameLength
  /\ \E p \in ProfileInvocationFromReference(c, pipeline.profileRef),
       d \in DownloaderInvocationFromReference(c, pipeline.downloaderRef) :
       /\ ValidateParameterReference(pipeline.profileRef, c[p].parameters)
       /\ FilterConditionalContainers(c[p].containers, c[p].parameters,
                                      pipeline.profileRef.parameters) # {}
       /\ ValidateParameterReference(pipeline.downloaderRef, c[d].parameters)
       /\ c[p].volumes \cap c[d].volumes = {}
  /\ ValidateNoParentParameters(pipeline.profileRef)
  /\ ValidateNoParentParameters(pipeline.downloaderRef)
  /\ <<"ServiceAccount", pipeline.serviceAccountName>> \in DOMAIN c

=============================================================================
