----------------------------- MODULE MCAdmission -----------------------------
EXTENDS Admission

MCParams == {"p"}
MCValues == {"x"}
MCNames  == {"a", "b", "default"}
MCLengthOf == [n \in MCNames |-> 1]

MCKeys ==
  {<<kind, "a">> : kind \in Kinds \ {"ServiceAccount"}}
    \cup {<<"Search", "b">>, <<"ServiceAccount", "default">>}

None     == [q \in {} |-> Nil]
Optional == [p |-> "x"]
Required == [p |-> Nil]

Good == [name |-> "a", command |-> TRUE]

SetX      == [p |-> [value |-> "x", valueFrom |-> Nil]]
SetEmpty  == [p |-> [value |-> Empty, valueFrom |-> Nil]]
SetParent == [p |-> [value |-> Empty, valueFrom |-> "p"]]

Ref(kind, settings) == [name |-> "a", kind |-> kind, parameters |-> settings]

Crawler(d) == [container |-> Good, parameters |-> d]
Plain(d)   == [container |-> Good, parameters |-> d, volumes |-> {}]

Crawling(ref, account) == [crawlerRef |-> ref, serviceAccountName |-> account]

CronCrawling(ref) == [crawlerRef |-> ref, scheduleOK |-> TRUE, ttl |-> FALSE]

\* One scanner always runs and one if p is set.
Scanning(ref, d) ==
  [containers |-> {[name |-> "a", command |-> TRUE, includeIf |-> Nil],
                   [name |-> "b", command |-> TRUE, includeIf |-> "p"]},
   uploaderRefs |-> {ref}, parameters |-> d, volumes |-> {}]

Running(s, kind, f, d) ==
  [profileRef |-> Ref(Empty, s), downloaderRef |-> Ref(kind, None),
   serviceAccountName |-> Empty, finalizer |-> f, deleting |-> d]

MCCandidates ==
  [kind \in Kinds |->
     CASE kind \in CrawlerKinds -> {Crawler(d) : d \in {None, Optional, Required}}
       [] kind \in DownloaderKinds \cup UploaderKinds -> {Plain(d) : d \in {None, Required}}
       [] kind = "Profile" -> {Scanning(Ref("Uploader", SetParent), Optional),
                               Scanning(Ref("Uploader", SetParent), Required),
                               Scanning(Ref(Empty, SetX), Optional),
                               Scanning(Ref("ClusterUploader", None), Optional)}
       [] kind = "Search" -> {Crawling(Ref(Empty, None), "default"),
                              Crawling(Ref("ClusterCrawler", None), "default"),
                              Crawling(Ref(Empty, SetX), Empty)}
       [] kind = "CronSearch" -> {CronCrawling(Ref(Empty, None)),
                                  CronCrawling(Ref("ClusterCrawler", SetX))}
       [] kind = "Pipeline" ->
            UNION {{Running(None, Empty, f, d), Running(SetEmpty, "ClusterDownloader", f, d)} :
                     f \in BOOLEAN, d \in BOOLEAN}
       [] OTHER -> {[present |-> TRUE]}]

\* The definitions, which require nothing, and a Pipeline.
MCInstalled ==
  [k \in {x \in MCKeys : x[1] \notin {"Search", "CronSearch"}} |->
     CASE k[1] \in CrawlerKinds   -> Crawler(None)
       [] k[1] = "ServiceAccount" -> [present |-> TRUE]
       [] k[1] = "Profile"  -> Scanning(Ref("Uploader", SetParent), Optional)
       [] k[1] = "Pipeline" -> PipelineDefault(Running(None, Empty, FALSE, FALSE))
       [] OTHER -> Plain(None)]

-----------------------------------------------------------------------------
(* Crawlers and Searches only; no parameter is optional. *)

FirstKeys == {<<"Crawler", "a">>, <<"Search", "a">>, <<"Search", "b">>}

FirstCandidates ==
  [kind \in Kinds |-> IF kind = "Crawler" THEN {Crawler(None), Crawler(Required)}
                      ELSE MCCandidates[kind]]

FirstInstalled == [k \in {<<"Crawler", "a">>} |-> Crawler(None)]

=============================================================================
