----------------------- MODULE MCCronSearchController -----------------------
(* Instances of CronSearchController for TLC. *)
EXTENDS CronSearchController

\* Every policy, with a starting deadline and without.
SomeSpecs ==
  {[policy |-> "Allow", deadline |-> Nil], [policy |-> "Forbid", deadline |-> Nil],
   [policy |-> "Replace", deadline |-> 1], [policy |-> "Forbid", deadline |-> 3]}

=============================================================================
