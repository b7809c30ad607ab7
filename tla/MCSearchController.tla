------------------------- MODULE MCSearchController -------------------------
(* Instances of SearchController for TLC. *)
EXTENDS SearchController

CONSTANT k1

=============================================================================
