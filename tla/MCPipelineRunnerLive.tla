------------------------ MODULE MCPipelineRunnerLive ------------------------
(***************************************************************************)
(* The instances of MCPipelineRunner for the liveness runs.                *)
(***************************************************************************)
EXTENDS MCPipelineRunner, PipelineRunnerLive
=============================================================================
