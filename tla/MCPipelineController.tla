------------------------ MODULE MCPipelineController ------------------------
(* Instances of PipelineController for TLC. *)
EXTENDS PipelineController

\* A TTL field that the Pipeline does not set.
NoTTL == Nil

=============================================================================
