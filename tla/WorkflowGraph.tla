---------------------------- MODULE WorkflowGraph ----------------------------
(***************************************************************************)
(* Workflow.Validate (internal/service/pipeline/types.go): the checks on   *)
(* the node list, and the depth-first search for a dependency cycle, as    *)
(* the machine its recursion runs on.  What it accepts is what             *)
(* PipelineRunner assumes of a graph (GraphAssumption, AcyclicAssumption). *)
(***************************************************************************)
EXTENDS Naturals, Sequences

CONSTANTS
    NodeId,     \* names that a node list may use
    NoNode,     \* no caller: the loop over all nodes called visit
    Workflows   \* the node lists that may be submitted

\* A node list as Submit receives it.  Kind, target, attempts and input JSON of
\* a node are checked one by one in the code; "wellFormed" says that all pass.
NodeSpec == [id: NodeId, wellFormed: BOOLEAN, dependsOn: Seq(NodeId)]

ASSUME WorkflowAssumption == /\ Workflows \subseteq Seq(NodeSpec)
                             /\ NoNode \notin NodeId

VARIABLES
    nodes,     \* Workflow.Nodes
    verdict,   \* how far Validate has come, and what it has returned
    root,      \* the index of the loop that calls visit for every node
    visiting,  \* the nodes whose visit has not returned
    visited,   \* the nodes whose visit has
    current,   \* the node of the innermost visit
    caller,    \* caller[n]: the node whose visit has called visit(n)
    nextDep    \* nextDep[n]: the dependency the visit of n is at

graphVars == <<nodes, verdict, root, visiting, visited, current, caller, nextDep>>
searchVars == <<root, visiting, visited, current, caller, nextDep>>

Known == {nodes[i].id : i \in DOMAIN nodes}
Deps(n) == nodes[CHOOSE i \in DOMAIN nodes : nodes[i].id = n].dependsOn
DepSet(n) == {Deps(n)[k] : k \in DOMAIN Deps(n)}

GraphTypeOK ==
    /\ nodes \in Workflows
    /\ verdict \in {"check", "search", "accepted", "invalid", "cycle"}
    /\ root \in Nat \ {0}
    /\ visiting \in SUBSET Known
    /\ visited \in SUBSET Known
    /\ current \in Known \cup {NoNode}
    /\ caller \in [NodeId -> Known \cup {NoNode}]
    /\ nextDep \in [NodeId -> Nat]

GraphInit ==
    /\ nodes \in Workflows
    /\ verdict = "check"
    /\ root = 1
    /\ visiting = {}
    /\ visited = {}
    /\ current = NoNode
    /\ caller = [n \in NodeId |-> NoNode]
    /\ nextDep = [n \in NodeId |-> 0]

-----------------------------------------------------------------------------
\* Two nodes have one ID.
Duplicate == \E i, j \in DOMAIN nodes : i # j /\ nodes[i].id = nodes[j].id

\* A dependency is unknown, the node itself, or listed twice.
BadDependency ==
    \E i \in DOMAIN nodes : \E k \in DOMAIN nodes[i].dependsOn :
        LET d == nodes[i].dependsOn[k]
        IN  \/ d \notin Known
            \/ d = nodes[i].id
            \/ \E l \in DOMAIN nodes[i].dependsOn : l # k /\ nodes[i].dependsOn[l] = d

CheckNodes ==
    /\ verdict = "check"
    /\ verdict' = IF \/ nodes = <<>>
                     \/ \E i \in DOMAIN nodes : ~nodes[i].wellFormed
                     \/ Duplicate
                     \/ BadDependency
                  THEN "invalid" ELSE "search"
    /\ UNCHANGED <<nodes, searchVars>>

\* The caller of a visit goes on: the loop over all nodes, or another visit.
Continue(c) ==
    IF c = NoNode
    THEN root' = root + 1 /\ UNCHANGED nextDep
    ELSE nextDep' = [nextDep EXCEPT ![c] = @ + 1] /\ UNCHANGED root

Enter(n, c) ==
    /\ visiting' = visiting \cup {n}
    /\ current' = n
    /\ caller' = [caller EXCEPT ![n] = c]
    /\ nextDep' = [nextDep EXCEPT ![n] = 1]
    /\ UNCHANGED <<verdict, root, visited>>

\* Mutant of Visit: a node that is being visited is visited again.
VisitAgain(n, c) ==
    IF n \in visited
    THEN Continue(c) /\ UNCHANGED <<verdict, visiting, visited, current, caller>>
    ELSE Enter(n, c)

\* The beginning of visit(n), called by c: a cycle, a node already visited, or
\* a new one.
Visit(n, c) ==
    IF n \in visiting
    THEN verdict' = "cycle" /\ UNCHANGED searchVars
    ELSE IF n \in visited
    THEN Continue(c) /\ UNCHANGED <<verdict, visiting, visited, current, caller>>
    ELSE Enter(n, c)

\* The loop over all nodes calls visit.
VisitRoot ==
    /\ verdict = "search"
    /\ current = NoNode
    /\ root \in DOMAIN nodes
    /\ Visit(nodes[root].id, NoNode)
    /\ UNCHANGED nodes

\* The innermost visit calls visit for its next dependency.
VisitDependency ==
    /\ verdict = "search"
    /\ current # NoNode
    /\ nextDep[current] \in DOMAIN Deps(current)
    /\ Visit(Deps(current)[nextDep[current]], current)
    /\ UNCHANGED nodes

\* Mutant of Return: the visit that returns is still taken for one under way.
ReturnVisiting ==
    /\ verdict = "search"
    /\ current # NoNode
    /\ nextDep[current] \notin DOMAIN Deps(current)
    /\ visited' = visited \cup {current}
    /\ current' = caller[current]
    /\ Continue(caller[current])
    /\ UNCHANGED <<nodes, verdict, visiting, caller>>

\* The innermost visit returns.
Return ==
    /\ verdict = "search"
    /\ current # NoNode
    /\ nextDep[current] \notin DOMAIN Deps(current)
    /\ visiting' = visiting \ {current}
    /\ visited' = visited \cup {current}
    /\ current' = caller[current]
    /\ Continue(caller[current])
    /\ UNCHANGED <<nodes, verdict, caller>>

Accept ==
    /\ verdict = "search"
    /\ current = NoNode
    /\ root \notin DOMAIN nodes
    /\ verdict' = "accepted"
    /\ UNCHANGED <<nodes, searchVars>>

GraphNext == CheckNodes \/ VisitRoot \/ VisitDependency \/ Return \/ Accept

GraphSpec == GraphInit /\ [][GraphNext]_graphVars

-----------------------------------------------------------------------------
\* Every nonempty set of nodes has one that depends on none of them.
Acyclic ==
    \A S \in SUBSET Known : S # {} => \E n \in S : DepSet(n) \cap S = {}

\* Validate accepts a well-formed graph exactly when it has no cycle: what
\* Submit lets through is what the runner needs to come to an end, and a graph
\* with two paths to one node is not taken for a cycle.
ValidateDecides ==
    /\ verdict = "accepted" =>
          /\ \A n \in Known : DepSet(n) \subseteq Known
          /\ Acyclic
    /\ verdict = "cycle" => ~Acyclic

\* The recursion ends on every graph, cyclic ones included.
ValidateEnds == verdict = "search" ~> verdict \in {"accepted", "cycle"}

\* How far the innermost loop is, over the nodes or over a node's dependencies.
Place == IF current = NoNode THEN root ELSE nextDep[current]
LastPlace == IF current = NoNode THEN Len(nodes) ELSE Len(Deps(current))

\* Why the recursion ends, step by step: a step of the search decides, or has one
\* more node visited, or has one more being visited and none less visited, or
\* moves the innermost loop on within its list.  No order of dependencies lets
\* the search go round.
Advances ==
    \/ verdict' # "search"
    \/ \E n \in Known \ visited : visited' = visited \cup {n}
    \/ \E n \in Known \ visiting : UNCHANGED visited /\ visiting' = visiting \cup {n}
    \/ /\ UNCHANGED <<visited, visiting, current>>
       /\ Place <= LastPlace
       /\ Place' = Place + 1

ValidateAdvances == [][(verdict = "search") => Advances]_graphVars

\* What CheckNodes leaves to the search.
SearchStarts ==
    verdict # "check" /\ verdict # "invalid" =>
        \A n \in Known : DepSet(n) \subseteq Known \ {n}

\* The nodes being visited are the chain of calls: each is at the dependency
\* whose visit it has called, and has seen all those before it visited.
ChainOfCalls ==
    /\ visiting \cap visited = {}
    /\ current # NoNode => current \in visiting
    /\ \A n \in visiting :
          /\ nextDep[n] > 0
          /\ \A k \in DOMAIN Deps(n) : k < nextDep[n] => Deps(n)[k] \in visited
          /\ caller[n] # NoNode => caller[n] \in visiting
          /\ n # current =>
                /\ nextDep[n] \in DOMAIN Deps(n)
                /\ Deps(n)[nextDep[n]] \in visiting
                /\ caller[Deps(n)[nextDep[n]]] = n
          /\ caller[n] # NoNode =>
                /\ caller[n] # current
                /\ nextDep[caller[n]] \in DOMAIN Deps(caller[n])
                /\ Deps(caller[n])[nextDep[caller[n]]] = n

\* What has been visited is closed under dependencies and has no cycle.
VisitedAcyclic ==
    /\ \A n \in visited : DepSet(n) \subseteq visited
    /\ \A S \in SUBSET visited : S # {} => \E n \in S : DepSet(n) \cap S = {}
    /\ \A i \in DOMAIN nodes : i < root => nodes[i].id \in visited
    /\ verdict = "accepted" => root \notin DOMAIN nodes
    /\ verdict = "cycle" => ~Acyclic

\* A visit called by the loop is the visit of the node the loop is at.
RootCalled == \A n \in visiting : caller[n] = NoNode => n = nodes[root].id

\* The inductive invariant behind ValidateDecides.
GraphInv == SearchStarts /\ ChainOfCalls /\ RootCalled /\ VisitedAcyclic
=============================================================================
