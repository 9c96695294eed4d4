-------------------------- MODULE MCPipelineRunner --------------------------
(***************************************************************************)
(* Instances of PipelineRunner for TLC: the end of the shot-preview graph  *)
(* (internal/service/pipeline/shot_preview.go) in miniature.               *)
(***************************************************************************)
EXTENDS PipelineRunner, TLC

CONSTANTS design, assemble, inspect, publish

\* A fork and a join, as DesignShots, AssembleScene and FinalRender have them;
\* two of the nodes may be attempted twice.
DiamondNodes == {design, assemble, inspect, publish}
DiamondDeps == (design :> {}) @@ (assemble :> {design}) @@
               (inspect :> {design}) @@ (publish :> {assemble, inspect})
DiamondAttempts == (design :> 1) @@ (assemble :> 2) @@ (inspect :> 2) @@
                   (publish :> 1)

\* A chain of two, enough for a dependency and for liveness.
ChainNodes == {design, publish}
ChainDeps == (design :> {}) @@ (publish :> {design})
ChainAttempts == (design :> 2) @@ (publish :> 1)

NoNodes == {}
DesignOnly == {design}
InspectAndPublish == {inspect, publish}
=============================================================================
