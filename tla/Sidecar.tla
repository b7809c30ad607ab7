------------------------------- MODULE Sidecar -------------------------------
(***************************************************************************)
(* The containers of one scan pod, each wrapped by the sidecar binary      *)
(* (cmd/sidecar/main.go, internal/process).  Scanners and uploaders start  *)
(* together; the uploaders hold their user command back until every        *)
(* scanner has left a mark, a file named after it in the process directory *)
(* they share.  Containers are never restarted (restartPolicy Never), and  *)
(* a container that is stopped gets SIGTERM first.                         *)
(***************************************************************************)
EXTENDS Naturals

CONSTANTS
  Scanners,   \* scanner containers of the pod
  Uploaders,  \* uploader containers of the pod
  MaxFaults   \* bound: failed file operations, execs that fail, SIGKILLs

ASSUME ContainersAssumption == Scanners \cap Uploaders = {}
ASSUME FaultsAssumption == MaxFaults \in Nat

Containers == Scanners \cup Uploaders

VARIABLES
  pod,       \* which containers the kubelet runs: init, the downloader, main
  binary,    \* can the copied sidecar be executed?
  dir,       \* is there a process directory?
  stopping,  \* the kubelet is stopping the pod
  wrapper,   \* where each wrapper is
  child,     \* its user command
  exit,      \* exit code of the wrapper
  awaiting,  \* scanners an uploader still polls for
  polled,    \* scanners an uploader stopped polling for because stat failed
  marks,     \* files in the process directory
  term,      \* SIGTERM: not sent, in the channel, or turned into a cancel
  sigCh,     \* the channel of HookCommand's own signal.Notify
  told,      \* who sent the user command SIGTERM before cmd.Wait returned
  faults

files   == <<binary, dir>>
signals == <<term, sigCh, told>>
vars == <<pod, binary, dir, stopping, wrapper, child, exit, awaiting, polled, marks, term,
          sigCh, told, faults>>

At(c, pc) == wrapper[c] = pc
GoTo(c, pc) == wrapper' = [wrapper EXCEPT ![c] = pc]
Fault == faults < MaxFaults /\ faults' = faults + 1

Init ==
  /\ pod = "init" /\ binary = "ok" /\ dir = "ok" /\ stopping = "no"
  /\ wrapper = [c \in Containers |-> "created"]
  /\ child = [c \in Containers |-> "none"]
  /\ exit = [c \in Containers |-> "none"]
  /\ awaiting = [c \in Containers |-> {}] /\ polled = [c \in Containers |-> {}]
  /\ marks = {}
  /\ term = [c \in Containers |-> "no"] /\ sigCh = [c \in Containers |-> "empty"]
  /\ told = [c \in Containers |-> {}]
  /\ faults = 0

-----------------------------------------------------------------------------
(* The init containers: the sidecar copies itself, the downloader runs.     *)

\* A failed copy fails the pod; a failed chmod or mkdir is only logged.
InitCommand ==
  /\ pod = "init"
  /\ \/ pod' = "download" /\ UNCHANGED <<files, faults>>
     \/ Fault /\ pod' = "failed" /\ UNCHANGED files
     \/ Fault /\ pod' = "download" /\ binary' = "noexec" /\ dir' \in {"ok", "missing"}
     \/ Fault /\ pod' = "download" /\ dir' = "missing" /\ UNCHANGED binary
  /\ UNCHANGED <<stopping, wrapper, child, exit, awaiting, polled, marks, signals>>

Download ==
  /\ pod = "download" /\ pod' \in {"main", "failed"}
  /\ UNCHANGED <<files, stopping, wrapper, child, exit, awaiting, polled, marks, signals, faults>>

-----------------------------------------------------------------------------
(* The wrappers. *)

\* The kubelet starts the containers in the order of the pod spec, scanners
\* first, and passes over one whose image cannot be pulled yet.
InOrder(c) == c \in Scanners \/ \A s \in Scanners : ~At(s, "created")

Starts(c) == pod = "main" /\ stopping = "no" /\ At(c, "created")

CannotExec(c) ==
  /\ Starts(c) /\ binary = "noexec"
  /\ GoTo(c, "exited") /\ exit' = [exit EXCEPT ![c] = "failed"]
  /\ UNCHANGED <<pod, files, stopping, child, awaiting, polled, marks, signals, faults>>

\* The commands scanner and await-scanners up to the start of HookCommand.
Boot(c) ==
  /\ Starts(c) /\ binary = "ok"
  /\ (InOrder(c) /\ UNCHANGED faults) \/ (~InOrder(c) /\ Fault)
  /\ GoTo(c, "prestart")
  /\ awaiting' = [awaiting EXCEPT ![c] = IF c \in Uploaders THEN Scanners ELSE {}]
  /\ UNCHANGED <<pod, files, stopping, child, exit, polled, marks, signals>>

\* One goroutine of AwaitScans finds the mark of scanner s.  It looks neither
\* at the context nor at the exit code in the file.
SeesMark(c, s) ==
  /\ At(c, "prestart") /\ s \in awaiting[c] /\ s \in marks
  /\ awaiting' = [awaiting EXCEPT ![c] = @ \ {s}]
  /\ UNCHANGED <<pod, files, stopping, wrapper, child, exit, polled, marks, signals, faults>>

\* It does not find it, sleeps a second and looks again.
NoMarkYet(c, s) ==
  At(c, "prestart") /\ s \in awaiting[c] \ marks /\ UNCHANGED vars

\* Its stat fails: the goroutine gives up, and the others go on.
StatFails(c, s) ==
  /\ At(c, "prestart") /\ s \in awaiting[c] /\ Fault
  /\ awaiting' = [awaiting EXCEPT ![c] = @ \ {s}]
  /\ polled' = [polled EXCEPT ![c] = @ \cup {s}]
  /\ UNCHANGED <<pod, files, stopping, wrapper, child, exit, marks, signals>>

\* Mutant: errgroup's first error, or the first mark, ends the wait.
HookDone_First(c) == At(c, "prestart") /\ (c \in Uploaders => awaiting[c] # Scanners)

\* g.Wait returns when the last goroutine has.
HookDone(c) == At(c, "prestart") /\ awaiting[c] = {}

\* cmd.Start, refused once the context is cancelled.
StartCommand(c) ==
  /\ HookDone(c)
  /\ \/ /\ term[c] # "cancelled" /\ UNCHANGED <<exit, faults>>
        /\ child' = [child EXCEPT ![c] = "running"] /\ GoTo(c, "wait")
     \/ /\ \/ term[c] = "cancelled" /\ UNCHANGED faults
           \/ term[c] # "cancelled" /\ Fault
        /\ exit' = [exit EXCEPT ![c] = "failed"] /\ GoTo(c, "poststop")
        /\ UNCHANGED child
  /\ UNCHANGED <<pod, files, stopping, awaiting, polled, marks, signals>>

\* Mutant: a cancelled context does not show in the exit code.
ExitCode_IgnoresCancel(c) == child[c]

\* cmd.Wait: a command that cmd.Cancel told to stop and that exits with 0 makes
\* Wait return the context's error, and main exits with 1.  A signal that was
\* only forwarded does not show.
ExitCode(c) == IF "cancel" \in told[c] THEN "failed" ELSE child[c]

WaitCommand(c) ==
  /\ At(c, "wait") /\ child[c] \in {"ok", "failed"}
  /\ exit' = [exit EXCEPT ![c] = ExitCode(c)]
  /\ GoTo(c, "poststop")
  /\ UNCHANGED <<pod, files, stopping, child, awaiting, polled, marks, signals, faults>>

\* The deferred ScanCompleteHook runs whether or not the command was started;
\* an error is logged (without the directory there always is one).  Then the
\* channel is closed and the wrapper exits.
Marked_OnlyStarted(c) == c \in Scanners /\ child[c] # "none"  \* mutant: started only
Marked_Everyone(c) == TRUE   \* mutant: the uploaders get the hook, too

Marked(c) == c \in Scanners

PostStop(c) ==
  /\ At(c, "poststop") /\ GoTo(c, "exited")
  /\ \/ marks' = marks \cup {s \in {c} : Marked(s) /\ dir = "ok"} /\ UNCHANGED faults
     \/ c \in Scanners /\ Fault /\ UNCHANGED marks
  /\ sigCh' = [sigCh EXCEPT ![c] = "empty"]
  /\ UNCHANGED <<pod, files, stopping, child, exit, awaiting, polled, term, told>>

\* CancelContextSigterm's goroutine cancels the context; if the user command
\* runs, cmd.Cancel sends it SIGTERM.  A command that has ended can be signalled
\* until Wait has reaped it.
CancelContext(c) ==
  /\ term[c] = "sent" /\ ~At(c, "exited")
  /\ term' = [term EXCEPT ![c] = "cancelled"]
  /\ \/ At(c, "wait") /\ told' = [told EXCEPT ![c] = @ \cup {"cancel"}]
     \/ child[c] # "running" /\ UNCHANGED told
  /\ UNCHANGED <<pod, files, stopping, wrapper, child, exit, awaiting, polled, marks, sigCh,
                 faults>>

\* signal.Notify(sigCh) lists no signals, so SIGTERM arrives there, too.  Once the
\* command is started, a goroutine passes it on, without regard to the context.
ForwardSignal(c) ==
  /\ sigCh[c] = "SIGTERM" /\ child[c] # "none" /\ wrapper[c] \in {"wait", "poststop"}
  /\ sigCh' = [sigCh EXCEPT ![c] = "empty"]
  /\ told' = [told EXCEPT ![c] = IF child[c] = "running" THEN @ \cup {"forward"} ELSE @]
  /\ UNCHANGED <<pod, files, stopping, wrapper, child, exit, awaiting, polled, marks, term,
                 faults>>

\* Mutant: no WaitDelay.
WaitDelay_Never(c) == FALSE /\ UNCHANGED vars

\* cmd.WaitDelay: ten seconds after cmd.Cancel the command is killed.
WaitDelay(c) ==
  /\ "cancel" \in told[c] /\ child[c] = "running"
  /\ child' = [child EXCEPT ![c] = "failed"]
  /\ UNCHANGED <<pod, files, stopping, wrapper, exit, awaiting, polled, marks, signals, faults>>

Wrapper(c) ==
  \/ CannotExec(c) \/ Boot(c) \/ StartCommand(c) \/ WaitCommand(c) \/ PostStop(c)
  \/ CancelContext(c) \/ ForwardSignal(c) \/ WaitDelay(c)
  \/ \E s \in Scanners : SeesMark(c, s)

-----------------------------------------------------------------------------
(* The user commands, and the kubelet. *)

CommandExits(c) ==
  /\ child[c] = "running" /\ ~At(c, "exited")
  /\ \E x \in {"ok", "failed"} : child' = [child EXCEPT ![c] = x]
  /\ UNCHANGED <<pod, files, stopping, wrapper, exit, awaiting, polled, marks, signals, faults>>

\* The pod is being deleted: no container starts any more.
StopPod ==
  /\ pod = "main" /\ stopping = "no" /\ stopping' = "yes"
  /\ UNCHANGED <<pod, files, wrapper, child, exit, awaiting, polled, marks, signals, faults>>

SigTerm(c) ==
  /\ stopping = "yes" /\ term[c] = "no" /\ wrapper[c] \notin {"created", "exited"}
  /\ term' = [term EXCEPT ![c] = "sent"] /\ sigCh' = [sigCh EXCEPT ![c] = "SIGTERM"]
  /\ UNCHANGED <<pod, files, stopping, wrapper, child, exit, awaiting, polled, marks, told, faults>>

\* SIGKILL: out of memory, or the end of the grace period.
SigKill(c) ==
  /\ wrapper[c] \notin {"created", "exited"} /\ Fault
  /\ GoTo(c, "exited")
  /\ exit' = [exit EXCEPT ![c] = "failed"]
  /\ child' = [child EXCEPT ![c] = IF @ = "running" THEN "failed" ELSE @]
  /\ sigCh' = [sigCh EXCEPT ![c] = "empty"]
  /\ UNCHANGED <<pod, files, stopping, awaiting, polled, marks, term, told>>

Finished ==
  /\ pod = "failed" \/ \A c \in Containers : At(c, "exited") \/ (stopping = "yes" /\ At(c, "created"))
  /\ UNCHANGED vars

Next ==
  \/ InitCommand \/ Download \/ StopPod \/ Finished
  \/ \E c \in Containers :
       \/ Wrapper(c) \/ CommandExits(c) \/ SigTerm(c) \/ SigKill(c)
       \/ \E s \in Scanners : StatFails(c, s) \/ NoMarkYet(c, s)

Spec == Init /\ [][Next]_vars

\* Each wrapper runs, polls every second and honours its timers; the kubelet
\* starts what it admitted and delivers SIGTERM.  User commands may run forever.
FairSpec ==
  /\ Spec /\ WF_vars(InitCommand) /\ WF_vars(Download)
  /\ \A c \in Containers : WF_vars(Wrapper(c)) /\ WF_vars(SigTerm(c))

-----------------------------------------------------------------------------
(* Properties. *)

\* Every variable keeps its type; in particular a wrapper exits with its user
\* command's result, or with a failure.
TypeOK ==
  /\ pod \in {"init", "download", "main", "failed"} /\ binary \in {"ok", "noexec"}
  /\ dir \in {"ok", "missing"} /\ stopping \in {"no", "yes"}
  /\ wrapper \in [Containers -> {"created", "prestart", "wait", "poststop", "exited"}]
  /\ child \in [Containers -> {"none", "running", "ok", "failed"}]
  /\ exit \in [Containers -> {"none", "ok", "failed"}]
  /\ awaiting \in [Containers -> SUBSET Scanners] /\ polled \in [Containers -> SUBSET Scanners]
  /\ marks \in SUBSET Scanners
  /\ term \in [Containers -> {"no", "sent", "cancelled"}] /\ sigCh \in [Containers -> {"empty", "SIGTERM"}]
  /\ told \in [Containers -> SUBSET {"cancel", "forward"}]
  /\ faults \in 0..MaxFaults

\* The scanner's user command is over, or will never start.
ScanOver(s) == child[s] # "running" /\ wrapper[s] \in {"poststop", "exited"}

\* No uploader runs its command while a scanner runs or has yet to run, except
\* next to a scanner whose mark it could not look up; whatever is signalled,
\* killed or refused in between.
UploadsAfterScans ==
  \A u \in Uploaders : child[u] # "none" =>
    \A s \in Scanners \ polled[u] : ScanOver(s)

\* A pod in which every container exits with 0 is a complete run: every command
\* ran and exited with 0, and none was told to stop, but for one case.  A command
\* that was stopped before the context was cancelled, by the SIGTERM that
\* HookCommand forwards, and answers it with 0, passes for one that ended by
\* itself.
SuccessIsComplete ==
  (\A c \in Containers : exit[c] = "ok") =>
    \A c \in Containers : child[c] = "ok" /\ told[c] \subseteq {"forward"}

\* Once all scanners are over, no uploader goes on waiting for them (the header
\* of cmd/sidecar/main.go: "the wrapped uploaders wait until all scanners finish
\* before starting"), unless something failed on the way: a wrapper that is
\* killed leaves no mark.  SIGTERM and failing commands are no excuse, whatever
\* their order.
WaitEndsUnlessFault ==
  \A u \in Uploaders :
    (At(u, "prestart") /\ \A s \in Scanners : At(s, "exited")) ~>
      ~At(u, "prestart") \/ faults > 0

\* A pod that is stopped ends without SIGKILL: the scanners stop, and leave the
\* marks on which alone the uploaders stop waiting.
StopEnds ==
  stopping = "yes" ~>
    \/ \A c \in Containers : wrapper[c] \in {"created", "exited"}
    \/ faults > 0

=============================================================================
