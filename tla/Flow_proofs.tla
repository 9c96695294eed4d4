----------------------------- MODULE Flow_proofs -----------------------------
(***************************************************************************)
(* What TLAPS proves of the data of a shot-preview task (ShotPreviewFlow), *)
(* for every planner and every number of replaced outputs, and of the step *)
(* that fans its assets out (FanOut), for every plan and every size of the *)
(* pool.                                                                   *)
(***************************************************************************)
EXTENDS ShotPreviewFlow, FanOut, TLAPS

LEMMA PoolIsFinite == Parallel \in Nat \ {0} /\ Parallel <= NumAssets
  BY FanOutAssumption DEF Parallel

\* Every variable holds a value of its type in every state.
THEOREM FanOutTypeCorrect == FanOutSpec => []FanOutTypeOK
<1> USE FanOutAssumption DEF Asset
<1>1. FanOutInit => FanOutTypeOK
  <2> SUFFICES ASSUME FanOutInit PROVE FanOutTypeOK
    OBVIOUS
  <2>1. parentDone \in BOOLEAN /\ cancelled \in BOOLEAN
    BY DEF FanOutInit
  <2>2. 0 \in 0 .. NumAssets /\ 1 \in 1 .. NumAssets + 1
    OBVIOUS
  <2> QED
    BY <2>1, <2>2 DEF FanOutInit, FanOutTypeOK
<1>2. FanOutTypeOK /\ [FanOutNext]_fanOutVars => FanOutTypeOK'
  <2> SUFFICES ASSUME FanOutTypeOK, [FanOutNext]_fanOutVars PROVE FanOutTypeOK'
    OBVIOUS
  <2> USE DEF FanOutTypeOK
  <2>1. ASSUME NEW w \in Pool, Dispatch(w) PROVE FanOutTypeOK'
    BY <2>1 DEF Dispatch
  <2>2. CASE LeaveDispatch \/ Join \/ ParentEnds
    BY <2>2 DEF LeaveDispatch, Join, ParentEnds
  <2>3. ASSUME NEW w \in Pool, AgentReturns(w) PROVE FanOutTypeOK'
    BY <2>3 DEF AgentReturns, AgentSucceeds, AgentErrs
  <2>4. ASSUME NEW w \in Pool, Report(w) \/ WorkerLeaves(w)
        PROVE  FanOutTypeOK'
    BY <2>4 DEF Report, WorkerLeaves
  <2>5. ASSUME NEW w \in Pool, CancelOthers(w)
        PROVE  FanOutTypeOK'
    BY <2>5 DEF CancelOthers
  <2>6. CASE UNCHANGED fanOutVars
    BY <2>6 DEF fanOutVars
  <2> QED
    BY <2>1, <2>2, <2>3, <2>4, <2>5, <2>6 DEF FanOutNext, Coordinate, PoolStep
<1> QED
  BY <1>1, <1>2, PTL DEF FanOutSpec

\* No step loses an item that has been handed out, or the error it ended in.
LEMMA StepsKeepItems ==
  ASSUME FanOutTypeOK, FanOutInv, FanOutNext
  PROVE  ItemsAccounted'
<1> SUFFICES ASSUME NEW a \in Asset, a < nextAsset'
             PROVE  \/ manifests'[a] = a
                    \/ \E w \in Pool : item'[w] = a /\ worker'[w] \in {"invoke", "report"}
                    \/ errCh' # 0
  BY DEF ItemsAccounted
<1> USE FanOutAssumption DEF FanOutTypeOK, Asset, FanOutInv, ItemsAccounted,
        WorkersConsistent
<1>1. ASSUME NEW w \in Pool, Dispatch(w)
      PROVE  \/ manifests'[a] = a
             \/ \E v \in Pool : item'[v] = a /\ worker'[v] \in {"invoke", "report"}
             \/ errCh' # 0
  <2>1. CASE a = nextAsset
    BY <1>1, <2>1 DEF Dispatch
  <2>2. CASE a # nextAsset
    <3>1. a < nextAsset
      BY <1>1, <2>2 DEF Dispatch
    <3>2. \A v \in Pool : worker[v] \in {"invoke", "report"}
                             => v # w /\ item'[v] = item[v] /\ worker'[v] = worker[v]
      BY <1>1 DEF Dispatch
    <3>3. manifests' = manifests /\ errCh' = errCh
      BY <1>1 DEF Dispatch
    <3> QED
      BY <3>1, <3>2, <3>3
  <2> QED
    BY <2>1, <2>2
<1>2. CASE LeaveDispatch \/ Join \/ ParentEnds
  BY <1>2 DEF LeaveDispatch, Join, ParentEnds
<1>3. ASSUME NEW w \in Pool, AgentSucceeds(w)
      PROVE  \/ manifests'[a] = a
             \/ \E v \in Pool : item'[v] = a /\ worker'[v] \in {"invoke", "report"}
             \/ errCh' # 0
  <2>1. CASE item[w] = a
    BY <1>3, <2>1 DEF AgentSucceeds
  <2>2. CASE item[w] # a
    BY <1>3, <2>2 DEF AgentSucceeds
  <2> QED
    BY <2>1, <2>2
<1>4. ASSUME NEW w \in Pool, AgentErrs(w)
      PROVE  \/ manifests'[a] = a
             \/ \E v \in Pool : item'[v] = a /\ worker'[v] \in {"invoke", "report"}
             \/ errCh' # 0
  <2>1. \A v \in Pool : worker[v] \in {"invoke", "report"}
                           => worker'[v] \in {"invoke", "report"}
    BY <1>4 DEF AgentErrs
  <2> QED
    BY <1>4, <2>1 DEF AgentErrs
<1>5. ASSUME NEW w \in Pool, Report(w)
      PROVE  errCh' # 0
  BY <1>5 DEF Report
<1>6. ASSUME NEW w \in Pool, CancelOthers(w) \/ WorkerLeaves(w)
      PROVE  \/ manifests'[a] = a
             \/ \E v \in Pool : item'[v] = a /\ worker'[v] \in {"invoke", "report"}
             \/ errCh' # 0
  BY <1>6 DEF CancelOthers, WorkerLeaves
<1> QED
  BY <1>1, <1>2, <1>3, <1>4, <1>5, <1>6
  DEF FanOutNext, Coordinate, PoolStep, AgentReturns

\* Workers leave only when the channel is closed or an error is recorded.
LEMMA StepsKeepWorkers ==
  ASSUME FanOutTypeOK, FanOutInv, FanOutNext
  PROVE  WorkersConsistent'
<1> USE FanOutAssumption DEF FanOutTypeOK, Asset, FanOutInv, WorkersConsistent,
        WorkClosed
<1>1. ASSUME NEW w \in Pool, Dispatch(w) PROVE WorkersConsistent'
  BY <1>1 DEF Dispatch
<1>2. CASE LeaveDispatch \/ Join \/ ParentEnds
  BY <1>2 DEF LeaveDispatch, Join, ParentEnds, StepDone
<1>3. ASSUME NEW w \in Pool, AgentReturns(w) PROVE WorkersConsistent'
  BY <1>3 DEF AgentReturns, AgentSucceeds, AgentErrs
<1>4. ASSUME NEW w \in Pool, Report(w) PROVE WorkersConsistent'
  BY <1>4 DEF Report
<1>5. ASSUME NEW w \in Pool, CancelOthers(w) \/ WorkerLeaves(w)
      PROVE  WorkersConsistent'
  BY <1>5 DEF CancelOthers, WorkerLeaves
<1> QED
  BY <1>1, <1>2, <1>3, <1>4, <1>5 DEF FanOutNext, Coordinate, PoolStep

\* The inductive invariant holds in every reachable state.
THEOREM FanOutInvHolds == FanOutSpec => []FanOutInv
<1>1. FanOutInit => FanOutInv
  BY FanOutAssumption DEF FanOutInit, FanOutInv, ItemsAccounted,
     WorkersConsistent, WorkClosed, Asset
<1>2. FanOutTypeOK /\ FanOutInv /\ [FanOutNext]_fanOutVars => FanOutInv'
  <2> SUFFICES ASSUME FanOutTypeOK, FanOutInv, [FanOutNext]_fanOutVars
               PROVE  FanOutInv'
    OBVIOUS
  <2>1. CASE FanOutNext
    BY <2>1, StepsKeepItems, StepsKeepWorkers DEF FanOutInv
  <2>2. CASE UNCHANGED fanOutVars
    BY <2>2 DEF fanOutVars, FanOutInv, ItemsAccounted, WorkersConsistent, WorkClosed
  <2> QED
    BY <2>1, <2>2
<1> QED
  BY <1>1, <1>2, FanOutTypeCorrect, PTL DEF FanOutSpec

\* A join that reports success under a live context has every manifest, in the
\* order of the plan.
THEOREM FanOutCompleteHolds == FanOutSpec => []FanOutComplete
<1>1. FanOutTypeOK /\ FanOutInv => FanOutComplete
  <2> SUFFICES ASSUME FanOutTypeOK, FanOutInv, joiner = "joined", ~parentDone,
                      NEW a \in Asset
               PROVE  manifests[a] = a
    BY DEF FanOutComplete, FanOutInv, WorkersConsistent
  <2>1. errCh = 0 /\ \A w \in Pool : worker[w] = "done"
    BY DEF FanOutInv, WorkersConsistent
  <2>2. ~cancelled
    BY <2>1 DEF FanOutInv, WorkersConsistent
  <2>3. a < nextAsset
    BY <2>2, FanOutAssumption
    DEF FanOutInv, WorkersConsistent, WorkClosed, Asset, FanOutTypeOK
  <2> QED
    BY <2>1, <2>3 DEF FanOutInv, ItemsAccounted
<1> QED
  BY <1>1, FanOutTypeCorrect, FanOutInvHolds, PTL

\* A worker that has recorded an error cancels the others before it leaves.
THEOREM CancelFollowsHolds == FanOutSpec => []CancelFollows
<1>1. FanOutInit => CancelFollows
  BY DEF FanOutInit, CancelFollows
<1>2. FanOutTypeOK /\ CancelFollows /\ [FanOutNext]_fanOutVars => CancelFollows'
  <2> SUFFICES ASSUME FanOutTypeOK, CancelFollows, [FanOutNext]_fanOutVars
               PROVE  CancelFollows'
    OBVIOUS
  <2> USE DEF CancelFollows, FanOutTypeOK
  <2>1. ASSUME NEW w \in Pool, Dispatch(w) PROVE CancelFollows'
    BY <2>1 DEF Dispatch
  <2>2. CASE LeaveDispatch \/ Join \/ ParentEnds
    BY <2>2 DEF LeaveDispatch, Join, ParentEnds
  <2>3. ASSUME NEW w \in Pool, AgentReturns(w) PROVE CancelFollows'
    BY <2>3 DEF AgentReturns, AgentSucceeds, AgentErrs
  <2>4. ASSUME NEW w \in Pool, Report(w) PROVE CancelFollows'
    BY <2>4 DEF Report
  <2>5. ASSUME NEW w \in Pool, CancelOthers(w) \/ WorkerLeaves(w) PROVE CancelFollows'
    BY <2>5 DEF CancelOthers, WorkerLeaves
  <2>6. CASE UNCHANGED fanOutVars
    BY <2>6 DEF fanOutVars
  <2> QED
    BY <2>1, <2>2, <2>3, <2>4, <2>5, <2>6 DEF FanOutNext, Coordinate, PoolStep
<1> QED
  BY <1>1, <1>2, FanOutTypeCorrect, PTL DEF FanOutSpec

\* The dispatch loop of InvokeStep does not wait for workers that have all
\* gone: a pool that has left on an error has cancelled the loop's context.
THEOREM DispatchMeetsPoolHolds == FanOutSpec => []DispatchMeetsPool
<1>1. FanOutInv /\ CancelFollows => DispatchMeetsPool
  <2> SUFFICES ASSUME FanOutInv, CancelFollows, joiner = "dispatch", ~StepDone,
                      \A w \in Pool : worker[w] = "done"
               PROVE  FALSE
    BY DEF DispatchMeetsPool
  <2>1. 1 \in Pool
    BY PoolIsFinite DEF Pool
  <2>2. errCh # 0
    BY <2>1 DEF FanOutInv, WorkersConsistent, WorkClosed
  <2> QED
    BY <2>2 DEF CancelFollows, StepDone
<1> QED
  BY <1>1, FanOutInvHolds, CancelFollowsHolds, PTL

-----------------------------------------------------------------------------
\* The nodes of the shot-preview graph.
LEMMA FlowNodes ==
    FlowNode = {"Initialize", "Intent", "ValidateSpec", "ScenePlan", "CreateAssets",
                "DesignShots", "AssembleScene", "PreviewRender", "Inspect",
                "FinalRender", "Encode", "Verify", "Publish"}
BY DEF FlowNode, DependsOn

\* The graph of shot_preview.go is one the theorems about the runner are for
\* (GraphAssumption, AcyclicAssumption): its dependencies are its own nodes, and
\* every nonempty set of them has one that depends on none of the others.
THEOREM ShippedGraphRuns ==
    /\ DependsOn \in [FlowNode -> SUBSET FlowNode]
    /\ \A S \in SUBSET FlowNode : S # {} => \E n \in S : DependsOn[n] \cap S = {}
<1>1. DependsOn \in [FlowNode -> SUBSET FlowNode]
  BY FlowNodes DEF DependsOn
<1>2. ASSUME NEW S \in SUBSET FlowNode, \A n \in S : DependsOn[n] \cap S # {}
      PROVE  S = {}
  <2>1. {"Initialize", "Intent", "ValidateSpec", "ScenePlan"} \cap S = {}
    BY <1>2 DEF DependsOn
  <2>2. {"CreateAssets", "DesignShots", "AssembleScene"} \cap S = {}
    BY <1>2, <2>1 DEF DependsOn
  <2>3. {"PreviewRender", "Inspect", "FinalRender"} \cap S = {}
    BY <1>2, <2>2 DEF DependsOn
  <2>4. {"Encode", "Verify", "Publish"} \cap S = {}
    BY <1>2, <2>3 DEF DependsOn
  <2> QED
    BY <2>1, <2>2, <2>3, <2>4, FlowNodes
<1> QED
  BY <1>1, <1>2

\* A projection looks up the outputs of the node's own dependencies only.
LEMMA ConsultsDependencies ==
    ASSUME NEW n \in FlowNode
    PROVE  Consults(n) \subseteq DependsOn[n] /\ DependsOn[n] \subseteq FlowNode
BY FlowNodes DEF Consults, ReadBy, DependsOn

\* What it reads of one is among the parts that output has.
LEMMA ReadsAreParts ==
    ASSUME NEW n \in FlowNode, NEW d \in FlowNode
    PROVE  ReadBy(n, d) \subseteq Parts(d)
BY FlowNodes DEF ReadBy, Parts

\* Only CreateAssets reads the scene plan.
LEMMA ScenePlanReader ==
    ASSUME NEW n \in FlowNode, n # "CreateAssets"
    PROVE  ReadBy(n, "ScenePlan") = {}
BY FlowNodes DEF ReadBy

\* Whatever a node produces has parts of its output only.
LEMMA ProducedLemma ==
    ASSUME FlowTypeOK, NEW n \in FlowNode, NEW p \in Produced(n)
    PROVE  p \subseteq Parts(n)
<1>1. CASE n = "ValidateSpec"
  <2>1. "Intent" \in FlowNode /\ Parts("Intent") = Parts("ValidateSpec")
    BY FlowNodes DEF Parts
  <2>2. p = output["Intent"]
    BY <1>1 DEF Produced
  <2> QED
    BY <1>1, <2>1, <2>2 DEF FlowTypeOK
<1>2. CASE n = "ScenePlan"
  BY <1>2 DEF Produced
<1>3. CASE n # "ValidateSpec" /\ n # "ScenePlan"
  BY <1>3 DEF Produced
<1> QED
  BY <1>1, <1>2, <1>3

\* Every variable of the data flow holds a value of its type in every state.
THEOREM FlowTypeCorrect == FlowSpec => []FlowTypeOK
<1>1. FlowInit => FlowTypeOK
  BY DEF FlowInit, FlowTypeOK
<1>2. FlowTypeOK /\ [FlowNext]_flowVars => FlowTypeOK'
  <2> SUFFICES ASSUME FlowTypeOK, [FlowNext]_flowVars PROVE FlowTypeOK'
    OBVIOUS
  <2>1. ASSUME NEW n \in FlowNode, NEW p, p \subseteq Parts(n),
               output' = [output EXCEPT ![n] = p]
        PROVE  /\ output' \in [FlowNode -> SUBSET UNION {Parts(m) : m \in FlowNode}]
               /\ \A m \in FlowNode : output'[m] \subseteq Parts(m)
    BY <2>1 DEF FlowTypeOK
  <2>2. ASSUME NEW n \in FlowNode, InvokeNode(n) PROVE FlowTypeOK'
    <3>1. CASE Fits(n)
      <4>1. PICK p \in Produced(n) : output' = [output EXCEPT ![n] = p]
        BY <2>2, <3>1 DEF InvokeNode
      <4>2. p \subseteq Parts(n)
        BY <4>1, ProducedLemma
      <4> QED
        BY <2>1, <2>2, <3>1, <4>1, <4>2 DEF InvokeNode, FlowTypeOK
    <3>2. CASE ~Fits(n)
      BY <2>2, <3>2 DEF InvokeNode, FlowTypeOK
    <3> QED
      BY <3>1, <3>2
  <2>3. ASSUME NEW n \in FlowNode, ReplaceOutput(n) PROVE FlowTypeOK'
    <3>1. PICK lost : output' = [output EXCEPT ![n] = Parts(n) \ lost]
      BY <2>3 DEF ReplaceOutput
    <3> QED
      BY <2>1, <2>3, <3>1 DEF ReplaceOutput, FlowTypeOK
  <2>4. CASE UNCHANGED flowVars
    BY <2>4 DEF flowVars, FlowTypeOK
  <2> QED
    BY <2>2, <2>3, <2>4 DEF FlowNext
<1> QED
  BY <1>1, <1>2, PTL DEF FlowSpec

\* A node that succeeds on outputs nobody replaced has a whole output itself.
LEMMA OutputsAreWholeStep ==
    ASSUME FlowTypeOK, OutputsAreWhole, [FlowNext]_flowVars
    PROVE  OutputsAreWhole'
<1> DEFINE Sure(m) == IF m = "ScenePlan" THEN PlanParts \cap Parts(m) ELSE Parts(m)
           Reached(m) == m \in replaced \/ (m = "ValidateSpec" /\ "Intent" \in replaced)
<1>1. \A m \in FlowNode : nodeState[m] = "succeeded" /\ ~Reached(m)
                             => Sure(m) \subseteq output[m]
  BY DEF OutputsAreWhole
<1>2. SUFFICES ASSUME NEW m \in FlowNode, nodeState'[m] = "succeeded", ~Reached(m)'
               PROVE  Sure(m) \subseteq output'[m]
  BY DEF OutputsAreWhole
<1>3. ASSUME NEW n \in FlowNode, InvokeNode(n) PROVE Sure(m) \subseteq output'[m]
  <2>1. ~Reached(m)
    BY <1>2, <1>3 DEF InvokeNode
  <2>2. CASE m # n
    <3>1. nodeState[m] = "succeeded" /\ output'[m] = output[m]
      BY <1>2, <1>3, <2>2 DEF InvokeNode, FlowTypeOK
    <3> QED
      BY <1>1, <2>1, <3>1
  <2>3. CASE m = n
    <3>1. PICK p \in Produced(n) : output' = [output EXCEPT ![n] = p]
      BY <1>2, <1>3, <2>3 DEF InvokeNode, FlowTypeOK
    <3>2. output'[m] = p
      BY <2>3, <3>1 DEF FlowTypeOK
    <3>3. CASE n = "ValidateSpec"
      <4>1. "Intent" \in FlowNode /\ nodeState["Intent"] = "succeeded"
        BY <1>3, <3>3, FlowNodes DEF InvokeNode, DependsOn
      <4>2. ~Reached("Intent")
        BY <2>1, <2>3, <3>3
      <4>3. Parts("ValidateSpec") = Parts("Intent")
        BY DEF Parts
      <4>4. p = output["Intent"]
        BY <3>1, <3>3 DEF Produced
      <4>5. Sure("Intent") \subseteq output["Intent"]
        BY <1>1, <4>1, <4>2
      <4> QED
        BY <2>3, <3>2, <3>3, <4>3, <4>4, <4>5
    <3>4. CASE n = "ScenePlan"
      BY <2>3, <3>1, <3>2, <3>4 DEF Produced
    <3>5. CASE n # "ValidateSpec" /\ n # "ScenePlan"
      BY <2>3, <3>1, <3>2, <3>5 DEF Produced
    <3> QED
      BY <3>3, <3>4, <3>5
  <2> QED
    BY <2>2, <2>3
<1>4. ASSUME NEW n \in FlowNode, ReplaceOutput(n) PROVE Sure(m) \subseteq output'[m]
  <2>1. m # n /\ ~Reached(m) /\ nodeState[m] = "succeeded"
    BY <1>2, <1>4 DEF ReplaceOutput
  <2>2. output'[m] = output[m]
    BY <1>4, <2>1 DEF ReplaceOutput, FlowTypeOK
  <2> QED
    BY <1>1, <2>1, <2>2
<1>5. CASE UNCHANGED flowVars
  <2>1. ~Reached(m) /\ nodeState[m] = "succeeded" /\ output'[m] = output[m]
    BY <1>2, <1>5 DEF flowVars
  <2> QED
    BY <1>1, <2>1
<1> QED
  BY <1>3, <1>4, <1>5 DEF FlowNext

\* An output that no replacement has reached has every part that the contract
\* of its agent promises.
THEOREM OutputsAreWholeHolds == FlowSpec => []OutputsAreWhole
<1>1. FlowInit => OutputsAreWhole
  BY DEF FlowInit, OutputsAreWhole
<1>2. FlowTypeOK /\ OutputsAreWhole /\ [FlowNext]_flowVars => OutputsAreWhole'
  BY OutputsAreWholeStep
<1> QED
  BY <1>1, <1>2, FlowTypeCorrect, PTL DEF FlowSpec

\* A node that fails reads a replaced output; CreateAssets does when the
\* planner promises every field it reads.
LEMMA FailsOnReplacedStep ==
    ASSUME FlowTypeOK, OutputsAreWhole, [FlowNext]_flowVars, NEW n \in FlowNode,
           n # "CreateAssets" \/ {"some_task"} \cup AssetTaskFields \subseteq PlanParts,
           FailsOnReplaced(n)
    PROVE  FailsOnReplaced(n)'
<1> SUFFICES ASSUME nodeState'[n] = "failed"
             PROVE  \E d \in Consults(n) :
                       d \in replaced' \/ (d = "ValidateSpec" /\ "Intent" \in replaced')
  BY DEF FailsOnReplaced
<1>1. replaced \subseteq replaced'
  BY DEF FlowNext, InvokeNode, ReplaceOutput, flowVars
<1>2. CASE nodeState[n] = "failed"
  BY <1>1, <1>2 DEF FailsOnReplaced
<1>3. CASE nodeState[n] # "failed"
  <2>1. InvokeNode(n)
    <3>1. ASSUME NEW m \in FlowNode, InvokeNode(m) PROVE m = n
      BY <1>3, <3>1 DEF InvokeNode, FlowTypeOK
    <3> QED
      BY <1>3, <3>1 DEF FlowNext, ReplaceOutput, flowVars
  <2>2. ~Fits(n)
    BY <2>1 DEF InvokeNode, FlowTypeOK
  <2>3. PICK d \in Consults(n) : ~(ReadBy(n, d) \subseteq output[d])
    BY <2>2, ConsultsDependencies DEF Fits
  <2>4. d \in FlowNode /\ nodeState[d] = "succeeded"
    BY <2>1, ConsultsDependencies DEF InvokeNode
  <2>5. ReadBy(n, d) \subseteq Parts(d)
    BY <2>4, ReadsAreParts
  <2>6. CASE d = "ScenePlan"
    <3>1. n = "CreateAssets"
      BY <2>3, <2>6, ScenePlanReader
    <3>2. ReadBy(n, d) \subseteq PlanParts
      BY <2>6, <3>1 DEF ReadBy
    <3>3. d \in replaced
      BY <2>3, <2>4, <2>5, <2>6, <3>2 DEF OutputsAreWhole
    <3> QED
      BY <1>1, <3>3
  <2>7. CASE d # "ScenePlan"
    <3>1. d \in replaced \/ (d = "ValidateSpec" /\ "Intent" \in replaced)
      BY <2>3, <2>4, <2>5, <2>7 DEF OutputsAreWhole
    <3> QED
      BY <1>1, <3>1
  <2> QED
    BY <2>6, <2>7
<1> QED
  BY <1>2, <1>3

\* When every scene plan has what the asset creator reads, each projection of
\* runtime.go and asset_fanout.go finds what it needs: a node fails on its
\* input only after the user has replaced an output it was made from.
THEOREM InputsFitHolds ==
    ASSUME {"some_task"} \cup AssetTaskFields \subseteq PlanParts
    PROVE  FlowSpec => []InputsFit
<1>1. FlowInit => InputsFit
  BY DEF FlowInit, InputsFit, FailsOnReplaced
<1>2. FlowTypeOK /\ OutputsAreWhole /\ InputsFit /\ [FlowNext]_flowVars => InputsFit'
  <2> SUFFICES ASSUME FlowTypeOK, OutputsAreWhole, InputsFit, [FlowNext]_flowVars,
                      NEW n \in FlowNode
               PROVE  FailsOnReplaced(n)'
    BY DEF InputsFit
  <2> QED
    BY FailsOnReplacedStep DEF InputsFit
<1> QED
  BY <1>1, <1>2, FlowTypeCorrect, OutputsAreWholeHolds, PTL DEF FlowSpec

\* Whatever the planner leaves out, it is CreateAssets alone that fails for it.
THEOREM OnlyCreateAssetsMisfits ==
    FlowSpec => [](\A n \in FlowNode \ {"CreateAssets"} : FailsOnReplaced(n))
<1> DEFINE I == \A n \in FlowNode \ {"CreateAssets"} : FailsOnReplaced(n)
<1>1. FlowInit => I
  BY DEF FlowInit, FailsOnReplaced
<1>2. FlowTypeOK /\ OutputsAreWhole /\ I /\ [FlowNext]_flowVars => I'
  <2> SUFFICES ASSUME FlowTypeOK, OutputsAreWhole, I, [FlowNext]_flowVars,
                      NEW n \in FlowNode \ {"CreateAssets"}
               PROVE  FailsOnReplaced(n)'
    OBVIOUS
  <2> QED
    BY FailsOnReplacedStep
<1> QED
  BY <1>1, <1>2, FlowTypeCorrect, OutputsAreWholeHolds, PTL DEF FlowSpec
=============================================================================
