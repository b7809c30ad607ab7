---------------------------- MODULE SidecarProofs ----------------------------
(* The hand-over from scanners to uploaders, for any number of each. *)
EXTENDS Sidecar, TLAPS

\* A mark is left only by a scanner that is over; an uploader past its wait has
\* seen every mark it could look up.
HandOver ==
  /\ \A s \in marks : ScanOver(s)
  /\ \A u \in Uploaders :
       /\ wrapper[u] = "prestart" \/ child[u] # "none" =>
            Scanners \subseteq awaiting[u] \cup marks \cup polled[u]
       /\ child[u] # "none" => awaiting[u] = {}
  /\ \A c \in Containers :
       /\ child[c] = "running" => wrapper[c] = "wait"
       /\ wrapper[c] \in {"created", "prestart"} => child[c] = "none"

\* A wrapper that exits with 0 has a command that did, and that cmd.Cancel did
\* not signal.
Honest ==
  \A c \in Containers : exit[c] = "ok" =>
    /\ child[c] = "ok" /\ told[c] \subseteq {"forward"}
    /\ wrapper[c] \in {"poststop", "exited"}

\* The initial state has its types.
LEMMA TypeInit == Init => TypeOK
  BY FaultsAssumption DEF Init, TypeOK

\* Every step keeps the types.
LEMMA TypeStep == TypeOK /\ [Next]_vars => TypeOK'
<1> SUFFICES ASSUME TypeOK, [Next]_vars PROVE TypeOK'
  OBVIOUS
<1> USE FaultsAssumption DEF TypeOK, At, GoTo, Fault, files, signals
<1>1. CASE InitCommand \/ Download \/ StopPod
  BY <1>1 DEF InitCommand, Download, StopPod
<1>2. ASSUME NEW c \in Containers, Wrapper(c) PROVE TypeOK'
  <2>1. CASE CannotExec(c)
    BY <2>1 DEF CannotExec
  <2>2. CASE Boot(c)
    BY <2>2 DEF Boot
  <2>3. CASE StartCommand(c)
    BY <2>3 DEF StartCommand
  <2>4. CASE WaitCommand(c)
    BY <2>4 DEF WaitCommand, ExitCode
  <2>5. CASE PostStop(c)
    BY <2>5 DEF PostStop, Marked
  <2>6. CASE CancelContext(c)
    BY <2>6 DEF CancelContext
  <2>7. CASE WaitDelay(c) \/ ForwardSignal(c)
    BY <2>7 DEF WaitDelay, ForwardSignal
  <2>8. ASSUME NEW s \in Scanners, SeesMark(c, s) PROVE TypeOK'
    BY <2>8 DEF SeesMark
  <2> QED BY <1>2, <2>1, <2>2, <2>3, <2>4, <2>5, <2>6, <2>7, <2>8 DEF Wrapper
<1>3. ASSUME NEW c \in Containers, CommandExits(c) \/ SigTerm(c) PROVE TypeOK'
  BY <1>3 DEF CommandExits, SigTerm
<1>4. ASSUME NEW c \in Containers, SigKill(c) PROVE TypeOK'
  BY <1>4 DEF SigKill
<1>5. ASSUME NEW c \in Containers, NEW s \in Scanners, StatFails(c, s) PROVE TypeOK'
  BY <1>5 DEF StatFails
<1>6. CASE UNCHANGED vars
  BY <1>6 DEF vars
<1> QED BY <1>1, <1>2, <1>3, <1>4, <1>5, <1>6 DEF Next, Finished, NoMarkYet

\* Every step keeps the hand-over in order.
LEMMA HandOverStep == TypeOK /\ HandOver /\ [Next]_vars => HandOver'
<1> SUFFICES ASSUME TypeOK, HandOver, [Next]_vars PROVE HandOver'
  OBVIOUS
<1> USE ContainersAssumption DEF TypeOK, HandOver, ScanOver, At, GoTo, Containers, files, signals
<1>1. CASE InitCommand \/ Download \/ StopPod
  BY <1>1 DEF InitCommand, Download, StopPod
<1>2. ASSUME NEW c \in Containers, Wrapper(c) PROVE HandOver'
  <2>1. CASE CannotExec(c)
    BY <2>1 DEF CannotExec, Starts
  <2>2. CASE Boot(c)
    BY <2>2 DEF Boot, Starts
  <2>3. CASE StartCommand(c)
    BY <2>3 DEF StartCommand, HookDone
  <2>4. CASE WaitCommand(c)
    BY <2>4 DEF WaitCommand
  <2>5. CASE PostStop(c)
    BY <2>5 DEF PostStop, Marked
  <2>6. CASE CancelContext(c)
    BY <2>6 DEF CancelContext
  <2>7. CASE WaitDelay(c) \/ ForwardSignal(c)
    BY <2>7 DEF WaitDelay, ForwardSignal
  <2>8. ASSUME NEW s \in Scanners, SeesMark(c, s) PROVE HandOver'
    BY <2>8 DEF SeesMark
  <2> QED BY <1>2, <2>1, <2>2, <2>3, <2>4, <2>5, <2>6, <2>7, <2>8 DEF Wrapper
<1>3. ASSUME NEW c \in Containers, CommandExits(c) \/ SigTerm(c) PROVE HandOver'
  BY <1>3 DEF CommandExits, SigTerm
<1>4. ASSUME NEW c \in Containers, SigKill(c) PROVE HandOver'
  BY <1>4 DEF SigKill
<1>5. ASSUME NEW c \in Containers, NEW s \in Scanners, StatFails(c, s) PROVE HandOver'
  BY <1>5 DEF StatFails
<1>6. CASE UNCHANGED vars
  BY <1>6 DEF vars
<1> QED BY <1>1, <1>2, <1>3, <1>4, <1>5, <1>6 DEF Next, Finished, NoMarkYet

\* Every step keeps the exit codes honest.
LEMMA HonestStep == TypeOK /\ HandOver /\ Honest /\ [Next]_vars => Honest'
<1> SUFFICES ASSUME TypeOK, HandOver, Honest, [Next]_vars PROVE Honest'
  OBVIOUS
<1> USE DEF TypeOK, Honest, At, GoTo, files, signals
<1>1. CASE InitCommand \/ Download \/ StopPod
  BY <1>1 DEF InitCommand, Download, StopPod
<1>2. ASSUME NEW c \in Containers, Wrapper(c) PROVE Honest'
  <2>1. CASE CannotExec(c) \/ Boot(c)
    BY <2>1 DEF CannotExec, Boot, Starts
  <2>2. CASE StartCommand(c)
    BY <2>2 DEF StartCommand, HookDone
  <2>3. CASE WaitCommand(c)
    BY <2>3 DEF WaitCommand, ExitCode
  <2>4. CASE PostStop(c)
    BY <2>4 DEF PostStop
  <2>5. CASE CancelContext(c) \/ ForwardSignal(c) \/ WaitDelay(c)
    BY <2>5 DEF CancelContext, ForwardSignal, WaitDelay
  <2>6. ASSUME NEW s \in Scanners, SeesMark(c, s) PROVE Honest'
    BY <2>6 DEF SeesMark
  <2> QED BY <1>2, <2>1, <2>2, <2>3, <2>4, <2>5, <2>6 DEF Wrapper
<1>3. ASSUME NEW c \in Containers, CommandExits(c) \/ SigTerm(c) PROVE Honest'
  BY <1>3 DEF CommandExits, SigTerm
<1>4. ASSUME NEW c \in Containers, SigKill(c) PROVE Honest'
  BY <1>4 DEF SigKill
<1>5. ASSUME NEW c \in Containers, NEW s \in Scanners, StatFails(c, s) PROVE Honest'
  BY <1>5 DEF StatFails
<1>6. CASE UNCHANGED vars
  BY <1>6 DEF vars
<1> QED BY <1>1, <1>2, <1>3, <1>4, <1>5, <1>6 DEF Next, Finished, NoMarkYet

\* The inductive invariant holds throughout.
LEMMA SidecarInvariant == Spec => [](TypeOK /\ HandOver /\ Honest)
<1>1. Init => HandOver /\ Honest
  BY DEF Init, HandOver, Honest, ScanOver, Containers
<1> QED BY <1>1, TypeInit, TypeStep, HandOverStep, HonestStep, PTL DEF Spec

\* Every variable keeps its type: a wrapper that has exited has no other result
\* than success or failure, and a mark always names a scanner.
THEOREM TypeCorrect == Spec => []TypeOK
  BY SidecarInvariant, PTL

\* An uploader's command never runs next to a scanner whose end it could look
\* up, for any set of scanners and uploaders and any number of faults.
THEOREM HandOverCorrect == Spec => []UploadsAfterScans
<1>1. TypeOK /\ HandOver => UploadsAfterScans
  BY DEF TypeOK, HandOver, UploadsAfterScans
<1> QED BY <1>1, SidecarInvariant, PTL

\* When every container exits with 0, every command ran and exited with 0, and
\* none of them was interrupted by more than the forwarded SIGTERM: whoever was
\* cancelled through the context shows in the exit code.
THEOREM SuccessCorrect == Spec => []SuccessIsComplete
<1>1. Honest => SuccessIsComplete
  BY DEF Honest, SuccessIsComplete
<1> QED BY <1>1, SidecarInvariant, PTL

=============================================================================
