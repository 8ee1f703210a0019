-------------------------- MODULE MCPipelineBuilds --------------------------
(* Each request through its build, and what flex answered through lite too. *)
EXTENDS PipelineBuilds, MCPipeline
=============================================================================
