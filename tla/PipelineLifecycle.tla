-------------------------- MODULE PipelineLifecycle --------------------------
(***************************************************************************)
(* What the API server's Pipeline object promises to the users of the      *)
(* operator, whatever the controller's caches, retries and restarts do:    *)
(* it is created, started, tracked by the metrics finalizer, completed     *)
(* with one outcome, and released, in this order and each at most once.  A *)
(* tracked Pipeline that is deleted stays until its finalizer is removed.  *)
(***************************************************************************)

VARIABLES
  stage,     \* how far the Pipeline has come
  deleting,  \* has it been marked for deletion?
  outcome    \* its result, once completed

lvars == <<stage, deleting, outcome>>

Outcomes == {"Succeeded", "Failed"}
Tracked  == {"Tracked", "Completed"}

Init == stage = "Created" /\ deleting = "no" /\ outcome = "none"

Advance(from, to) ==
  stage = from /\ stage' = to /\ UNCHANGED <<deleting, outcome>>

Start   == deleting = "no" /\ Advance("Created", "Started")
Track   == deleting = "no" /\ Advance("Started", "Tracked")
Release == deleting = "no" /\ Advance("Completed", "Released")

Complete ==
  /\ stage = "Tracked" /\ stage' = "Completed"
  /\ outcome' \in Outcomes
  /\ UNCHANGED deleting

MarkDeleted ==
  /\ stage \in Tracked /\ deleting = "no" /\ deleting' = "yes"
  /\ UNCHANGED <<stage, outcome>>

Disappear ==
  /\ stage # "Gone"
  /\ (stage \in Tracked) <=> (deleting = "yes")
  /\ stage' = "Gone" /\ deleting' = "no" /\ outcome' = "none"

Next == Start \/ Track \/ Complete \/ Release \/ MarkDeleted \/ Disappear

Spec == Init /\ [][Next]_lvars

=============================================================================
