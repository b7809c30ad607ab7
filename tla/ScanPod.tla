------------------------------- MODULE ScanPod -------------------------------
(***************************************************************************)
(* How the controllers put pods together from invocations: the options of   *)
(* internal/containers/options.go, populateScanPod of the Pipeline           *)
(* controller and populateSearchPod of the Search controller.               *)
(*                                                                          *)
(* A container is reduced to what the sidecar and the user's command depend *)
(* on: its name (a prefixed name is the pair of prefix and name), the entry *)
(* point it is wrapped with, the parameters in its environment, the name it *)
(* is told it has, and the containers it is told to wait for.  Mounts,      *)
(* working directories, images, security contexts, pull secrets, labels and *)
(* the fixed environment variables are left out.                            *)
(***************************************************************************)
EXTENDS Invocation

\* A container as its definition gives it.
Base(container) ==
  [name |-> container.name, entry |-> Nil, env |-> [q \in {} |-> Empty],
   self |-> Nil, awaits |-> {}]

WithNamePrefix(prefix, c) == [c EXCEPT !.name = <<prefix, c.name>>]

WrapCommand(entry, c) == [c EXCEPT !.entry = entry]

\* The variable of parameter q.  Characters outside of [a-zA-Z0-9_] would be
\* replaced, but the API admits no other ones in the name of a parameter, so
\* that different parameters have different variables.
ParameterToEnvironmentVariable(q) == <<"OCULAR_PARAM_", q>>

ParseParameterEnvVars(definitions, settings, parent) ==
  LET params == ParseParameters(definitions, settings, parent)
  IN [v \in {ParameterToEnvironmentVariable(q) : q \in DOMAIN params} |-> params[v[2]]]

WithParameters(definitions, settings, parent, c) ==
  [c EXCEPT !.env = ParseParameterEnvVars(definitions, settings, parent)]

WithScanContainerNames(names, c) == [c EXCEPT !.awaits = names]

\* ApplyStandardOptions: the name is taken last, when the prefix is on it.
WithContainerNameEnvVar(c) == [c EXCEPT !.self = c.name]

-----------------------------------------------------------------------------

downloaderContainer(downloader, ref) ==
  WithContainerNameEnvVar(
    WithNamePrefix("downloader-",
      WithParameters(downloader.parameters, ref.parameters, {},
        Base(downloader.container))))

scannerContainers(profile, ref) ==
  LET scanner(s) == WithNamePrefix("scanner-",
                      WithParameters(profile.parameters, ref.parameters, {},
                        WrapCommand("scanner", Base(s))))
  IN {scanner(s) : s \in FilterConditionalContainers(profile.containers,
                           profile.parameters, ref.parameters)}

\* An uploader gets the values of the Profile's parameters where its reference
\* asks for a parent's.
uploaderContainer(uploader, uploaderRef, parent, names) ==
  WithContainerNameEnvVar(
    WithNamePrefix("uploader-",
      WithScanContainerNames(names,
        WrapCommand("await-scanners",
          WithParameters(uploader.parameters, uploaderRef.parameters, {parent},
            Base(uploader.container))))))

\* Mutant: the names are those of the Profile's scanners, before the filter.
scanContainerNames_Unfiltered(profile, scanners) ==
  {<<"scanner-", s.name>> : s \in profile.containers}

\* The names the uploaders wait for, taken when the prefixes are on them.
scanContainerNames(profile, scanners) == {s.name : s \in scanners}

\* Mutant: the uploaders see the Profile's defaults.
parentParams_Defaults(profile, ref) ==
  ParseParameters(profile.parameters, [q \in {} |-> Nil], {})

parentParams(profile, ref) == ParseParameters(profile.parameters, ref.parameters, {})

\* The scan pod of a Pipeline, from the definitions the cache c holds.
populateScanPod(c, pipeline) ==
  LET profile    == c[CHOOSE k \in ProfileInvocationFromReference(c, pipeline.profileRef) : TRUE]
      downloader == c[CHOOSE k \in DownloaderInvocationFromReference(c, pipeline.downloaderRef) : TRUE]
      uploader(r) == c[CHOOSE k \in UploaderInvocationFromReference(c, r) : TRUE]
      scanners   == scannerContainers(profile, pipeline.profileRef)
  IN [init      |-> downloaderContainer(downloader, pipeline.downloaderRef),
      scanners  |-> {WithContainerNameEnvVar(s) : s \in scanners},
      uploaders |-> {[ref |-> r, container |->
                        uploaderContainer(uploader(r), r,
                          parentParams(profile, pipeline.profileRef),
                          scanContainerNames(profile, scanners))]
                       : r \in profile.uploaderRefs}]

\* The pod of a Search: the crawler, wrapped by the scheduler.
populateSearchPod(c, search) ==
  LET crawler == c[CHOOSE k \in CrawlerInvocationFromReference(c, search.crawlerRef) : TRUE]
  IN WithContainerNameEnvVar(
       WithParameters(crawler.parameters, search.crawlerRef.parameters, {},
         WrapCommand("crawler",
           WithNamePrefix("crawler-", Base(crawler.container)))))

=============================================================================
