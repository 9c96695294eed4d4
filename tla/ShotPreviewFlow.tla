--------------------------- MODULE ShotPreviewFlow ---------------------------
(***************************************************************************)
(* The data of one shot-preview task: the graph of                         *)
(* internal/service/pipeline/shot_preview.go, what each node reads of the  *)
(* outputs of others (the projections of runtime.go and asset_fanout.go,   *)
(* then the input contract of the agent it calls), what each output is     *)
(* sure to have (the output contracts of internal/agent/catalog), and the  *)
(* user, who may replace an output.  When a node runs is PipelineRunner's  *)
(* matter: here one runs as soon as its dependencies have succeeded.       *)
(*                                                                         *)
(* An output is the set of the parts that somebody reads.                  *)
(***************************************************************************)
EXTENDS Naturals, FiniteSets

CONSTANTS
    PlanParts,       \* parts that every scene plan of the planner agent has
    MaxAdjustments   \* bound: outputs the user replaces

\* ShotPreviewWorkflow.
DependsOn ==
    [Initialize    |-> {},
     Intent        |-> {"Initialize"},
     ValidateSpec  |-> {"Intent"},
     ScenePlan     |-> {"ValidateSpec"},
     CreateAssets  |-> {"ScenePlan"},
     DesignShots   |-> {"ValidateSpec", "CreateAssets"},
     AssembleScene |-> {"CreateAssets", "DesignShots"},
     PreviewRender |-> {"AssembleScene"},
     Inspect       |-> {"PreviewRender"},
     FinalRender   |-> {"AssembleScene", "Inspect"},
     Encode        |-> {"FinalRender"},
     Verify        |-> {"Encode"},
     Publish       |-> {"Verify"}]

FlowNode == DOMAIN DependsOn

\* The fields the asset-creator's input contract requires of a task, and the
\* ones the planner's output contract requires of it.
AssetTaskFields == {"version", "task_id", "asset_id", "asset_kind", "description",
                    "workspace", "output_path"}
PlannedTaskFields == {"task_id", "asset_id", "asset_kind", "description",
                      "depends_on", "output_path"}

\* The parts of an output somebody reads; "some_task": the plan is not empty.
Parts(n) ==
    CASE n = "Initialize" -> {"prompt"}
      [] n \in {"Intent", "ValidateSpec"} -> {"version_and_scene", "spec_fields"}
      [] n = "ScenePlan" -> {"some_task"} \cup AssetTaskFields
      [] n = "CreateAssets" -> {"asset_manifests"}
      [] n = "DesignShots" -> {"shot_plan"}
      [] n = "AssembleScene" -> {"blend_file"}
      [] n = "Encode" -> {"output_path"}
      [] OTHER -> {}

\* What node n reads of the output of node d, and cannot do without.
ReadBy(n, d) ==
    CASE n = "Intent" /\ d = "Initialize" -> {"prompt"}
      [] n = "ValidateSpec" /\ d = "Intent" -> {"version_and_scene"}
      [] n = "ScenePlan" /\ d = "ValidateSpec" -> {"version_and_scene", "spec_fields"}
      [] n = "CreateAssets" /\ d = "ScenePlan" -> {"some_task"} \cup AssetTaskFields
      [] n \in {"DesignShots", "AssembleScene"} /\ d = "CreateAssets" ->
            {"asset_manifests"}
      [] n = "AssembleScene" /\ d = "DesignShots" -> {"shot_plan"}
      [] n \in {"PreviewRender", "FinalRender"} /\ d = "AssembleScene" -> {"blend_file"}
      [] n = "Verify" /\ d = "Encode" -> {"output_path"}
      [] OTHER -> {}

\* Whose outputs the projection of n looks up, read or not.
Consults(n) ==
    {d \in FlowNode : ReadBy(n, d) # {}} \cup
    CASE n = "DesignShots" -> {"ValidateSpec"}
      [] n = "Inspect" -> {"PreviewRender"}
      [] n = "Publish" -> {"Verify"}
      [] OTHER -> {}

VARIABLES
    nodeState,  \* what has become of each node
    output,     \* the parts of its output
    replaced    \* the nodes whose output the user has replaced

flowVars == <<nodeState, output, replaced>>

FlowTypeOK ==
    /\ nodeState \in [FlowNode -> {"pending", "succeeded", "failed"}]
    /\ output \in [FlowNode -> SUBSET UNION {Parts(n) : n \in FlowNode}]
    /\ \A n \in FlowNode : output[n] \subseteq Parts(n)
    /\ replaced \subseteq FlowNode

FlowInit ==
    /\ nodeState = [n \in FlowNode |-> "pending"]
    /\ output = [n \in FlowNode |-> {}]
    /\ replaced = {}

-----------------------------------------------------------------------------
\* Mutant of Produced: ValidateSpec keeps only the fields it checks.
ProducedBare(n) ==
    CASE n = "ValidateSpec" -> {output["Intent"] \cap {"version_and_scene"}}
      [] n = "ScenePlan" -> {PlanParts \cap Parts(n), Parts(n)}
      [] OTHER -> {Parts(n)}

\* What an invocation of n produces: ValidateSpec passes on what it has read,
\* a planner may leave out what its contract does not ask for, and the others
\* keep to theirs.
Produced(n) ==
    CASE n = "ValidateSpec" -> {output["Intent"]}
      [] n = "ScenePlan" -> {PlanParts \cap Parts(n), Parts(n)}
      [] OTHER -> {Parts(n)}

Fits(n) ==
    /\ Consults(n) \subseteq DependsOn[n]
    /\ \A d \in Consults(n) : ReadBy(n, d) \subseteq output[d]

\* The node is invoked: its input is built from the outputs of its
\* dependencies, or it fails on it.
InvokeNode(n) ==
    /\ nodeState[n] = "pending"
    /\ \A d \in DependsOn[n] : nodeState[d] = "succeeded"
    /\ IF Fits(n)
       THEN /\ nodeState' = [nodeState EXCEPT ![n] = "succeeded"]
            /\ \E p \in Produced(n) : output' = [output EXCEPT ![n] = p]
       ELSE /\ nodeState' = [nodeState EXCEPT ![n] = "failed"]
            /\ UNCHANGED output
    /\ UNCHANGED replaced

\* ConfirmNode with an output, or AdjustNodeOutput: any JSON is accepted; it
\* lacks nothing, one part, or all.
ReplaceOutput(n) ==
    /\ nodeState[n] = "succeeded"
    /\ Cardinality(replaced \ {n}) < MaxAdjustments
    /\ \E lost \in {{}, Parts(n)} \cup {{p} : p \in Parts(n)} :
          output' = [output EXCEPT ![n] = Parts(n) \ lost]
    /\ replaced' = replaced \cup {n}
    /\ UNCHANGED nodeState

FlowNext == \E n \in FlowNode : InvokeNode(n) \/ ReplaceOutput(n)

FlowSpec == FlowInit /\ [][FlowNext]_flowVars

-----------------------------------------------------------------------------
\* A node that failed reads an output the user has replaced, here or upstream
\* in the specification that ValidateSpec passes on.
FailsOnReplaced(n) ==
    nodeState[n] = "failed" =>
        \E d \in Consults(n) :
            d \in replaced \/ (d = "ValidateSpec" /\ "Intent" \in replaced)

\* "Runtime adapters project only the fields required by each agent or tool"
\* (docs/pipeline): each projection finds what it needs.  A node fails on its
\* input only when the user has replaced an output it was made from.
InputsFit == \A n \in FlowNode : FailsOnReplaced(n)

\* What the proof of InputsFit carries from step to step: an output that no
\* replacement has reached has every part the agent's contract promises.
OutputsAreWhole ==
    \A n \in FlowNode :
        /\ nodeState[n] = "succeeded"
        /\ n \notin replaced
        /\ ~(n = "ValidateSpec" /\ "Intent" \in replaced)
        => (IF n = "ScenePlan" THEN PlanParts \cap Parts(n) ELSE Parts(n))
               \subseteq output[n]
=============================================================================
