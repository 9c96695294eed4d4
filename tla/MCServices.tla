----------------------------- MODULE MCServices -----------------------------
(***************************************************************************)
(* Instances for TLC of the components that share no state: each behaviour *)
(* is one of a single component, chosen at the start, and the others stay  *)
(* in an initial state of theirs.                                          *)
(***************************************************************************)
EXTENDS WorkflowGraph, FanOut, ShotPreviewFlow, Credentials, AssetStore, AssetUpload,
        RpcCodec

VARIABLE component

\* Every graph of three nodes with up to two dependencies each, and graphs with
\* unknown dependencies, two nodes of one ID, a malformed node or no node.
Ids == {"a", "b", "c", "ghost"}
DepLists(ids) == UNION {[1 .. k -> ids] : k \in 0 .. 2}
GraphNode(id, deps) == [id |-> id, wellFormed |-> TRUE, dependsOn |-> deps]
AllWorkflows ==
    LET Three == DepLists({"a", "b", "c"})
        Ghosts == DepLists({"a", "b", "ghost"})
    IN  {<<GraphNode("a", x), GraphNode("b", y), GraphNode("c", z)>> : x, y, z \in Three}
        \cup {<<GraphNode("a", x), GraphNode(id, y)>> : x, y \in Ghosts, id \in {"a", "b"}}
        \cup {<<[GraphNode("a", x) EXCEPT !.wellFormed = FALSE]>> : x \in Ghosts}
        \cup {<<>>}

\* A planner that gives each asset task all the fields its reader asks for.
FullPlan == {"some_task"} \cup AssetTaskFields

\* Three uploads of one name, and one of another.
FileNames == <<"a", "a", "a", "b">>

\* Two versions of the IDL that differ in at most one field, or in the elements of
\* the lists of one name and perhaps in the type of the lists themselves or of what
\* they are in; all of the optional fields filled in, or none.
ListName == {"tags", "assets", "nodes", "artifacts"}
OneFieldVersions ==
    {[SameVersion EXCEPT !.missing = n] : n \in {{}} \cup {{f} : f \in FieldName}}
    \cup {[SameVersion EXCEPT !.retyped = {f}] : f \in FieldName}
    \cup {[SameVersion EXCEPT !.elements = {l}, !.retyped = n] :
              l \in ListName, n \in {{}} \cup {{f} : f \in {"task", "tags", "nodes"}}}
    \cup {[SameVersion EXCEPT !.more = TRUE]}
AllOrNone == {{}, FieldName}

mcVars == <<component, graphVars, fanOutVars, flowVars, credVars, storeVars, uploadVars,
            rpcVars>>

MCInit ==
    /\ component \in {"graph", "fan-out", "flow", "keys", "store", "upload", "rpc"}
    /\ GraphInit
    /\ component # "graph" => nodes = <<>>
    /\ RpcInit
    /\ component # "rpc" => method = "ManageLLMKey"
    /\ FanOutInit
    /\ FlowInit
    /\ CredInit
    /\ StoreInit
    /\ UploadInit

GraphStep == /\ component = "graph"
             /\ GraphNext
             /\ UNCHANGED <<component, fanOutVars, flowVars, credVars, storeVars,
                            uploadVars, rpcVars>>

FanOutAlone(step) == /\ component = "fan-out"
                     /\ step
                     /\ UNCHANGED <<component, graphVars, flowVars, credVars, storeVars,
                                    uploadVars, rpcVars>>

MCNext ==
    \/ GraphStep
    \/ FanOutAlone(FanOutNext)
    \/ /\ component = "flow"
       /\ FlowNext
       /\ UNCHANGED <<component, graphVars, fanOutVars, credVars, storeVars, uploadVars,
                      rpcVars>>
    \/ /\ component = "keys"
       /\ CredNext
       /\ UNCHANGED <<component, graphVars, fanOutVars, flowVars, storeVars, uploadVars,
                      rpcVars>>
    \/ /\ component = "store"
       /\ StoreNext
       /\ UNCHANGED <<component, graphVars, fanOutVars, flowVars, credVars, uploadVars,
                      rpcVars>>
    \/ /\ component = "upload"
       /\ UploadNext
       /\ UNCHANGED <<component, graphVars, fanOutVars, flowVars, credVars, storeVars,
                      rpcVars>>
    \/ /\ component = "rpc"
       /\ RpcNext
       /\ UNCHANGED <<component, graphVars, fanOutVars, flowVars, credVars, storeVars,
                      uploadVars>>

\* Validate runs on, the goroutine of InvokeStep and its workers run, and every
\* agent run returns.
MCFairness ==
    /\ component = "graph" => WF_mcVars(GraphStep)
    /\ component = "fan-out" =>
          /\ WF_mcVars(FanOutAlone(Coordinate))
          /\ \A w \in Pool : WF_mcVars(FanOutAlone(PoolStep(w)))

MCSpec == MCInit /\ [][MCNext]_mcVars /\ MCFairness

\* Each variable of the seven components has its type.
MCTypeOK ==
    /\ GraphTypeOK /\ FanOutTypeOK /\ FlowTypeOK
    /\ CredTypeOK /\ StoreTypeOK /\ UploadTypeOK
    /\ RpcTypeOK
=============================================================================
