------------------------ MODULE WorkflowGraph_proofs ------------------------
(***************************************************************************)
(* What TLAPS proves of WorkflowGraph, for every node list.                *)
(***************************************************************************)
EXTENDS WorkflowGraph, TLAPS

\* Deps is the dependency list of some node of that name.
LEMMA DepsOfKnown ==
  ASSUME NEW n \in Known
  PROVE  \E i \in DOMAIN nodes : nodes[i].id = n /\ Deps(n) = nodes[i].dependsOn
<1> DEFINE i == CHOOSE j \in DOMAIN nodes : nodes[j].id = n
<1>1. \E j \in DOMAIN nodes : nodes[j].id = n
  BY DEF Known
<1>2. i \in DOMAIN nodes /\ nodes[i].id = n
  BY <1>1
<1> QED
  BY <1>2 DEF Deps

\* The names of a submitted list are names, and so are its dependencies.
LEMMA NodesTyped ==
  ASSUME nodes \in Workflows
  PROVE  /\ Known \subseteq NodeId
         /\ DOMAIN nodes = 1 .. Len(nodes) /\ Len(nodes) \in Nat
         /\ \A i \in DOMAIN nodes : nodes[i].id \in Known
         /\ \A n \in Known : /\ DOMAIN Deps(n) = 1 .. Len(Deps(n))
                             /\ Len(Deps(n)) \in Nat
                             /\ DepSet(n) \subseteq NodeId
<1>1. nodes \in Seq(NodeSpec)
  BY WorkflowAssumption
<1>2. DOMAIN nodes = 1 .. Len(nodes) /\ Len(nodes) \in Nat
  BY <1>1
<1>3. \A i \in DOMAIN nodes : nodes[i] \in NodeSpec
  BY <1>1, <1>2
<1>4. \A i \in DOMAIN nodes : nodes[i].id \in NodeId /\ nodes[i].dependsOn \in Seq(NodeId)
  BY <1>3 DEF NodeSpec
<1>5. \A n \in Known : Deps(n) \in Seq(NodeId)
  BY <1>4, DepsOfKnown
<1>6. \A n \in Known : /\ DOMAIN Deps(n) = 1 .. Len(Deps(n))
                       /\ Len(Deps(n)) \in Nat
                       /\ DepSet(n) \subseteq NodeId
  BY <1>5 DEF DepSet
<1> QED
  BY <1>2, <1>4, <1>6 DEF Known

\* Enter and the other writes of the search keep its variables typed.
LEMMA DependencyKnown ==
  ASSUME GraphTypeOK, SearchStarts, verdict = "search",
         NEW n \in Known, NEW k \in DOMAIN Deps(n)
  PROVE  Deps(n)[k] \in Known \ {n}
  BY DEF SearchStarts, DepSet

\* What the check of the node list lets through.
LEMMA CheckGivesDependencies ==
  ASSUME ~BadDependency, NEW n \in Known
  PROVE  DepSet(n) \subseteq Known \ {n}
  BY DepsOfKnown DEF BadDependency, DepSet

\* Constant while the search runs.
LEMMA GraphConstant ==
  ASSUME nodes' = nodes
  PROVE  /\ Known' = Known
         /\ \A n : Deps(n)' = Deps(n) /\ DepSet(n)' = DepSet(n)
         /\ Acyclic' = Acyclic
  BY DEF Known, Deps, DepSet, Acyclic

-----------------------------------------------------------------------------
\* A step keeps the types, given what the search knows of the graph.
LEMMA StepsKeepGraphType ==
  ASSUME GraphTypeOK, GraphInv, GraphNext
  PROVE  GraphTypeOK'
<1> USE NodesTyped DEF GraphTypeOK
<1>1. nodes' = nodes
  BY DEF GraphNext, CheckNodes, VisitRoot, VisitDependency, Return, Accept
<1>2. Known' = Known
  BY <1>1, GraphConstant
<1>3. CASE CheckNodes \/ Accept
  BY <1>1, <1>2, <1>3 DEF CheckNodes, Accept, searchVars
<1>4. ASSUME NEW c \in Known \cup {NoNode}, Continue(c)
      PROVE  root' \in Nat \ {0} /\ nextDep' \in [NodeId -> Nat]
  BY <1>4 DEF Continue
<1>5. ASSUME NEW n \in Known, NEW c \in Known \cup {NoNode}, Visit(n, c),
             verdict = "search"
      PROVE  GraphTypeOK'
  <2>1. CASE n \in visiting
    BY <1>1, <1>2, <1>5, <2>1 DEF Visit, searchVars
  <2>2. CASE n \notin visiting /\ n \in visited
    BY <1>1, <1>2, <1>4, <1>5, <2>2 DEF Visit
  <2>3. CASE n \notin visiting /\ n \notin visited
    <3>1. Enter(n, c)
      BY <1>5, <2>3 DEF Visit
    <3>2. visiting' \in SUBSET Known /\ current' \in Known \cup {NoNode}
      BY <3>1 DEF Enter
    <3>3. /\ caller' \in [NodeId -> Known \cup {NoNode}]
          /\ nextDep' \in [NodeId -> Nat]
      BY <3>1 DEF Enter
    <3>4. root' = root /\ visited' = visited /\ verdict' = verdict
      BY <3>1 DEF Enter
    <3> QED
      BY <1>1, <1>2, <3>2, <3>3, <3>4
  <2> QED
    BY <2>1, <2>2, <2>3
<1>6. CASE VisitRoot
  BY <1>5, <1>6 DEF VisitRoot
<1>7. CASE VisitDependency
  BY <1>5, <1>7, DependencyKnown DEF VisitDependency, GraphInv
<1>8. CASE Return
  <2>1. current \in Known /\ caller[current] \in Known \cup {NoNode}
    BY <1>8 DEF Return
  <2>2. root' \in Nat \ {0} /\ nextDep' \in [NodeId -> Nat]
    BY <1>4, <1>8, <2>1 DEF Return
  <2> QED
    BY <1>1, <1>2, <1>8, <2>1, <2>2 DEF Return
<1> QED
  BY <1>3, <1>6, <1>7, <1>8 DEF GraphNext

-----------------------------------------------------------------------------
(* The inductive invariant. *)

LEMMA StepsKeepSearchStarts ==
  ASSUME GraphTypeOK, GraphInv, GraphNext
  PROVE  SearchStarts'
<1>1. nodes' = nodes
  BY DEF GraphNext, CheckNodes, VisitRoot, VisitDependency, Return, Accept
<1>2. CASE CheckNodes
  BY <1>1, <1>2, GraphConstant, CheckGivesDependencies DEF CheckNodes, SearchStarts
<1>3. CASE VisitRoot \/ VisitDependency \/ Return \/ Accept
  <2>1. verdict = "search"
    BY <1>3 DEF VisitRoot, VisitDependency, Return, Accept
  <2> QED
    BY <1>1, <2>1, GraphConstant DEF SearchStarts, GraphInv
<1> QED
  BY <1>2, <1>3 DEF GraphNext

\* A new visit extends the chain of calls.
LEMMA EnterKeepsChain ==
  ASSUME GraphTypeOK, GraphInv, verdict = "search", nodes' = nodes,
         NEW n \in Known, n \notin visiting, n \notin visited,
         NEW c \in Known \cup {NoNode}, Enter(n, c), c = current,
         c # NoNode => /\ nextDep[c] \in DOMAIN Deps(c)
                       /\ Deps(c)[nextDep[c]] = n
  PROVE  ChainOfCalls'
<1> USE NodesTyped, WorkflowAssumption DEF GraphTypeOK, GraphInv
<1>1. \A m : Deps(m)' = Deps(m)
  BY GraphConstant
<1>2. /\ visiting' = visiting \cup {n} /\ visited' = visited /\ current' = n
      /\ caller' = [caller EXCEPT ![n] = c]
      /\ nextDep' = [nextDep EXCEPT ![n] = 1]
  BY DEF Enter
<1>3. n \in NodeId /\ n # NoNode /\ caller'[n] = c /\ nextDep'[n] = 1
  BY <1>2
<1>4. \A m \in visiting : m # n /\ caller'[m] = caller[m] /\ nextDep'[m] = nextDep[m]
  BY <1>2
<1>5. ASSUME NEW m \in visiting
      PROVE  /\ nextDep'[m] > 0
             /\ \A k \in DOMAIN Deps(m) : k < nextDep'[m] => Deps(m)[k] \in visited'
             /\ caller'[m] # NoNode => caller'[m] \in visiting'
             /\ nextDep'[m] \in DOMAIN Deps(m)
             /\ Deps(m)[nextDep'[m]] \in visiting'
             /\ caller'[Deps(m)[nextDep'[m]]] = m
             /\ caller'[m] # NoNode =>
                   /\ caller'[m] # n
                   /\ nextDep'[caller'[m]] \in DOMAIN Deps(caller'[m])
                   /\ Deps(caller'[m])[nextDep'[caller'[m]]] = m
  <2>1. CASE m = c
    BY <1>2, <1>3, <1>4, <2>1 DEF ChainOfCalls
  <2>2. CASE m # c
    BY <1>2, <1>3, <1>4, <2>2 DEF ChainOfCalls
  <2> QED
    BY <2>1, <2>2
<1>6. /\ \A k \in DOMAIN Deps(n) : k < nextDep'[n] => Deps(n)[k] \in visited'
      /\ c # NoNode => /\ c \in visiting
                       /\ nextDep'[c] = nextDep[c]
                       /\ c # n
  BY <1>2, <1>3, <1>4 DEF ChainOfCalls
<1>7. visiting' \cap visited' = {}
  BY <1>2 DEF ChainOfCalls
<1> QED
  BY <1>1, <1>2, <1>3, <1>5, <1>6, <1>7 DEF ChainOfCalls

\* A dependency already visited leaves the chain as it is.
LEMMA ContinueKeepsChain ==
  ASSUME GraphTypeOK, GraphInv, verdict = "search", nodes' = nodes,
         NEW c \in Known \cup {NoNode}, Continue(c), c = current,
         UNCHANGED <<visiting, visited, current, caller>>,
         c # NoNode => /\ nextDep[c] \in DOMAIN Deps(c)
                       /\ Deps(c)[nextDep[c]] \in visited
  PROVE  ChainOfCalls'
<1> USE NodesTyped, WorkflowAssumption DEF GraphTypeOK, GraphInv
<1>1. \A m : Deps(m)' = Deps(m)
  BY GraphConstant
<1>2. CASE c = NoNode
  BY <1>1, <1>2 DEF Continue, ChainOfCalls
<1>3. CASE c # NoNode
  <2>1. c \in visiting /\ c \in Known /\ nextDep' = [nextDep EXCEPT ![c] = @ + 1]
    BY <1>3 DEF Continue, ChainOfCalls
  <2>2. \A m \in visiting : m # c => nextDep'[m] = nextDep[m]
    BY <2>1
  <2>3. nextDep'[c] > 0 /\ \A k \in DOMAIN Deps(c) : k < nextDep'[c] => Deps(c)[k] \in visited
    <3>1. nextDep[c] \in Nat /\ nextDep'[c] = nextDep[c] + 1
      BY <2>1
    <3>2. \A k \in DOMAIN Deps(c) : k < nextDep'[c] => k = nextDep[c] \/ k < nextDep[c]
      BY <2>1, <3>1
    <3> QED
      BY <1>3, <2>1, <3>1, <3>2 DEF ChainOfCalls
  <2>4. \A m \in visiting : caller[m] # c
    BY <1>3 DEF ChainOfCalls
  <2> QED
    BY <1>1, <2>1, <2>2, <2>3, <2>4 DEF ChainOfCalls
<1> QED
  BY <1>2, <1>3

\* The visit that returns leaves the chain at its end.
LEMMA ReturnKeepsChain ==
  ASSUME GraphTypeOK, GraphInv, Return
  PROVE  ChainOfCalls'
<1> USE NodesTyped, WorkflowAssumption DEF GraphTypeOK, GraphInv
<1> DEFINE c == current
           p == caller[current]
<1>1. /\ nodes' = nodes /\ c # NoNode /\ c \in visiting /\ c \in Known /\ c \in NodeId
      /\ visiting' = visiting \ {c} /\ visited' = visited \cup {c}
      /\ current' = p /\ caller' = caller
  BY DEF Return, ChainOfCalls
<1>2. \A m : Deps(m)' = Deps(m)
  BY <1>1, GraphConstant
<1>3. p # NoNode => /\ p \in visiting /\ p # c /\ p \in NodeId
                    /\ nextDep[p] \in DOMAIN Deps(p) /\ Deps(p)[nextDep[p]] = c
                    /\ nextDep' = [nextDep EXCEPT ![p] = @ + 1]
  BY <1>1 DEF ChainOfCalls, Return, Continue
<1>4. p = NoNode => nextDep' = nextDep
  BY <1>1 DEF Return, Continue
<1>5. \A m \in visiting : m # p => nextDep'[m] = nextDep[m]
  BY <1>3, <1>4
<1>6. ASSUME NEW m \in visiting, m # c, m # p
      PROVE  /\ nextDep[m] \in DOMAIN Deps(m)
             /\ Deps(m)[nextDep[m]] \in visiting \ {c}
             /\ caller[Deps(m)[nextDep[m]]] = m
  BY <1>1, <1>6 DEF ChainOfCalls
<1>7. p # NoNode =>
        /\ nextDep'[p] > 0
        /\ \A k \in DOMAIN Deps(p) : k < nextDep'[p] => Deps(p)[k] \in visited'
  <2> SUFFICES ASSUME p # NoNode
               PROVE  /\ nextDep'[p] > 0
                      /\ \A k \in DOMAIN Deps(p) :
                            k < nextDep'[p] => Deps(p)[k] \in visited'
    OBVIOUS
  <2>1. p \in Known /\ nextDep[p] \in Nat /\ nextDep'[p] = nextDep[p] + 1
    BY <1>3
  <2>2. \A k \in DOMAIN Deps(p) : k < nextDep'[p] => k = nextDep[p] \/ k < nextDep[p]
    BY <2>1
  <2> QED
    BY <1>1, <1>3, <2>1, <2>2 DEF ChainOfCalls
<1>8. visiting' \cap visited' = {}
  BY <1>1 DEF ChainOfCalls
<1>9. \A m \in visiting : caller[m] # c
  BY <1>1 DEF ChainOfCalls
<1>10. ASSUME NEW m \in visiting, m # c, caller[m] # NoNode
       PROVE  /\ caller[m] \in visiting \ {c}
              /\ caller[m] # p
              /\ nextDep[caller[m]] \in DOMAIN Deps(caller[m])
              /\ Deps(caller[m])[nextDep[caller[m]]] = m
  BY <1>1, <1>3, <1>9, <1>10 DEF ChainOfCalls
<1>11. ASSUME NEW m \in visiting'
       PROVE  /\ nextDep'[m] > 0
              /\ \A k \in DOMAIN Deps(m) : k < nextDep'[m] => Deps(m)[k] \in visited'
              /\ m # p => /\ nextDep'[m] \in DOMAIN Deps(m)
                          /\ Deps(m)[nextDep'[m]] \in visiting'
                          /\ caller[Deps(m)[nextDep'[m]]] = m
              /\ caller[m] # NoNode =>
                    /\ caller[m] \in visiting'
                    /\ caller[m] # p
                    /\ nextDep'[caller[m]] \in DOMAIN Deps(caller[m])
                    /\ Deps(caller[m])[nextDep'[caller[m]]] = m
  <2>1. m \in visiting /\ m # c
    BY <1>1
  <2>2. caller[m] # NoNode => /\ caller[m] \in visiting'
                              /\ caller[m] # p
                              /\ nextDep'[caller[m]] \in DOMAIN Deps(caller[m])
                              /\ Deps(caller[m])[nextDep'[caller[m]]] = m
    BY <1>1, <1>5, <1>10, <2>1
  <2>3. CASE m = p
    <3>1. p # NoNode
      BY <2>1, <2>3
    <3> QED
      BY <1>7, <2>2, <2>3, <3>1
  <2>4. CASE m # p
    <3>1. nextDep'[m] = nextDep[m]
      BY <1>5, <2>1, <2>4
    <3>2. nextDep[m] > 0 /\ \A k \in DOMAIN Deps(m) : k < nextDep[m] => Deps(m)[k] \in visited
      BY <2>1 DEF ChainOfCalls
    <3> QED
      BY <1>1, <1>6, <2>1, <2>2, <2>4, <3>1, <3>2
  <2> QED
    BY <2>3, <2>4
<1> QED
  BY <1>1, <1>2, <1>3, <1>8, <1>11 DEF ChainOfCalls

\* Where a visit finds a node that is being visited there is a cycle: each of
\* the nodes being visited depends on another of them.
LEMMA CycleFound ==
  ASSUME GraphTypeOK, GraphInv, NEW n \in visiting,
         \/ current = NoNode
         \/ /\ nextDep[current] \in DOMAIN Deps(current)
            /\ Deps(current)[nextDep[current]] = n
  PROVE  ~Acyclic
<1>1. \A m \in visiting : DepSet(m) \cap visiting # {}
  <2> SUFFICES ASSUME NEW m \in visiting PROVE DepSet(m) \cap visiting # {}
    OBVIOUS
  <2>1. CASE m = current
    <3>1. current # NoNode
      BY <2>1, NodesTyped, WorkflowAssumption DEF GraphTypeOK
    <3> QED
      BY <2>1, <3>1 DEF DepSet
  <2>2. CASE m # current
    BY <2>2 DEF GraphInv, ChainOfCalls, DepSet
  <2> QED
    BY <2>1, <2>2
<1>2. visiting \in SUBSET Known /\ visiting # {}
  BY DEF GraphTypeOK
<1> QED
  BY <1>1, <1>2 DEF Acyclic

\* A node whose dependencies are all visited may join the visited ones.
LEMMA ReturnKeepsVisited ==
  ASSUME GraphTypeOK, GraphInv, Return
  PROVE  VisitedAcyclic'
<1> USE NodesTyped DEF GraphTypeOK
<1> DEFINE c == current
<1>1. /\ nodes' = nodes /\ verdict = "search" /\ verdict' = verdict
      /\ c # NoNode /\ c \in visiting /\ c \in Known
      /\ visiting' = visiting \ {c} /\ visited' = visited \cup {c}
  BY DEF Return, GraphInv, ChainOfCalls
<1>2. \A n : DepSet(n)' = DepSet(n)
  BY <1>1, GraphConstant
<1>3. DepSet(c) \subseteq visited /\ c \notin DepSet(c) /\ c \notin visited
  <2>1. nextDep[c] \in Nat /\ nextDep[c] > 0 /\ nextDep[c] \notin DOMAIN Deps(c)
    BY <1>1 DEF Return, GraphInv, ChainOfCalls
  <2>2. \A k \in DOMAIN Deps(c) : k < nextDep[c]
    BY <1>1, <2>1
  <2>3. \A k \in DOMAIN Deps(c) : Deps(c)[k] \in visited
    BY <1>1, <2>2 DEF GraphInv, ChainOfCalls
  <2>4. DepSet(c) \subseteq visited
    BY <2>3 DEF DepSet
  <2> QED
    BY <1>1, <2>4 DEF GraphInv, ChainOfCalls
<1>4. \A n \in visited' : DepSet(n) \subseteq visited'
  BY <1>1, <1>3 DEF GraphInv, VisitedAcyclic
<1>5. ASSUME NEW S \in SUBSET visited', S # {}
      PROVE  \E n \in S : DepSet(n) \cap S = {}
  <2>1. CASE S \ {c} = {}
    BY <1>3, <1>5, <2>1
  <2>2. CASE S \ {c} # {}
    <3>1. S \ {c} \in SUBSET visited
      BY <1>1
    <3>2. PICK n \in S \ {c} : DepSet(n) \cap (S \ {c}) = {}
      BY <2>2, <3>1 DEF GraphInv, VisitedAcyclic
    <3>3. c \notin DepSet(n)
      BY <1>3, <3>1, <3>2 DEF GraphInv, VisitedAcyclic
    <3> QED
      BY <3>2, <3>3
  <2> QED
    BY <2>1, <2>2
<1>6. \A i \in DOMAIN nodes : i < root' => nodes[i].id \in visited'
  <2>1. CASE caller[c] # NoNode
    BY <1>1, <2>1 DEF Return, Continue, GraphInv, VisitedAcyclic
  <2>2. CASE caller[c] = NoNode
    <3>1. root' = root + 1
      BY <2>2 DEF Return, Continue
    <3>2. root \in DOMAIN nodes => nodes[root].id \in visited'
      BY <1>1, <2>2 DEF GraphInv, RootCalled
    <3>3. \A i \in DOMAIN nodes : i < root' => i = root \/ i < root
      BY <3>1
    <3> QED
      BY <1>1, <3>2, <3>3 DEF GraphInv, VisitedAcyclic
  <2> QED
    BY <2>1, <2>2
<1> QED
  BY <1>1, <1>2, <1>4, <1>5, <1>6 DEF VisitedAcyclic

\* The other steps of the search leave the visited nodes as they are.
LEMMA StepsKeepVisited ==
  ASSUME GraphTypeOK, GraphInv, GraphNext
  PROVE  VisitedAcyclic'
<1> USE NodesTyped DEF GraphTypeOK
<1>1. nodes' = nodes
  BY DEF GraphNext, CheckNodes, VisitRoot, VisitDependency, Return, Accept
<1>2. \A n : DepSet(n)' = DepSet(n)
  BY <1>1, GraphConstant
<1>3. Acyclic' = Acyclic
  BY <1>1, GraphConstant
<1>4. CASE CheckNodes
  BY <1>1, <1>2, <1>3, <1>4 DEF CheckNodes, searchVars, GraphInv, VisitedAcyclic
<1>5. CASE Accept
  BY <1>1, <1>2, <1>3, <1>5 DEF Accept, searchVars, GraphInv, VisitedAcyclic
<1>6. ASSUME NEW n \in Known, NEW c \in Known \cup {NoNode}, Visit(n, c),
             verdict = "search", c = current,
             c = NoNode => root \in DOMAIN nodes /\ n = nodes[root].id,
             c # NoNode => /\ nextDep[c] \in DOMAIN Deps(c)
                           /\ Deps(c)[nextDep[c]] = n
      PROVE  VisitedAcyclic'
  <2>1. CASE n \in visiting
    <3>1. ~Acyclic
      BY <1>6, <2>1, CycleFound
    <3> QED
      BY <1>1, <1>2, <1>3, <1>6, <2>1, <3>1
      DEF Visit, searchVars, GraphInv, VisitedAcyclic
  <2>2. CASE n \notin visiting /\ n \in visited
    <3>1. visited' = visited /\ verdict' = "search"
      BY <1>6, <2>2 DEF Visit
    <3>2. root' = root \/ (root' = root + 1 /\ nodes[root].id \in visited)
      BY <1>6, <2>2 DEF Visit, Continue
    <3>3. \A i \in DOMAIN nodes : i < root' => nodes[i].id \in visited
      BY <3>2 DEF GraphInv, VisitedAcyclic
    <3> QED
      BY <1>1, <1>2, <3>1, <3>3 DEF GraphInv, VisitedAcyclic
  <2>3. CASE n \notin visiting /\ n \notin visited
    <3>1. root' = root /\ visited' = visited /\ verdict' = "search"
      BY <1>6, <2>3 DEF Visit, Enter
    <3> QED
      BY <1>1, <1>2, <3>1 DEF GraphInv, VisitedAcyclic
  <2> QED
    BY <2>1, <2>2, <2>3
<1>7. CASE VisitRoot
  BY <1>6, <1>7 DEF VisitRoot
<1>8. CASE VisitDependency
  BY <1>6, <1>8, DependencyKnown DEF VisitDependency, GraphInv
<1> QED
  BY <1>4, <1>5, <1>7, <1>8, ReturnKeepsVisited DEF GraphNext

\* Every step keeps the chain of calls, and its root.
LEMMA StepsKeepChain ==
  ASSUME GraphTypeOK, GraphInv, GraphNext
  PROVE  ChainOfCalls' /\ RootCalled'
<1> USE NodesTyped DEF GraphTypeOK
<1>1. nodes' = nodes
  BY DEF GraphNext, CheckNodes, VisitRoot, VisitDependency, Return, Accept
<1>2. \A n : Deps(n)' = Deps(n)
  BY <1>1, GraphConstant
<1>3. CASE CheckNodes \/ Accept
  BY <1>1, <1>2, <1>3 DEF CheckNodes, Accept, searchVars, GraphInv, ChainOfCalls, RootCalled
<1>4. ASSUME NEW n \in Known, NEW c \in Known \cup {NoNode}, Visit(n, c),
             verdict = "search", c = current,
             c = NoNode => root \in DOMAIN nodes /\ n = nodes[root].id,
             c # NoNode => /\ nextDep[c] \in DOMAIN Deps(c)
                           /\ Deps(c)[nextDep[c]] = n
      PROVE  ChainOfCalls' /\ RootCalled'
  <2>1. CASE n \in visiting
    BY <1>1, <1>2, <1>4, <2>1 DEF Visit, searchVars, GraphInv, ChainOfCalls, RootCalled
  <2>2. CASE n \notin visiting /\ n \in visited
    <3>1. Continue(c) /\ UNCHANGED <<visiting, visited, current, caller>>
      BY <1>4, <2>2 DEF Visit
    <3>2. ChainOfCalls'
      BY <1>1, <1>4, <2>2, <3>1, ContinueKeepsChain
    <3>3. RootCalled'
      <4>1. CASE c = NoNode
        BY <1>1, <1>4, <2>2, <3>1, <4>1 DEF GraphInv, RootCalled, ChainOfCalls
      <4>2. CASE c # NoNode
        BY <1>1, <3>1, <4>2 DEF Continue, GraphInv, RootCalled
      <4> QED
        BY <4>1, <4>2
    <3> QED
      BY <3>2, <3>3
  <2>3. CASE n \notin visiting /\ n \notin visited
    <3>1. Enter(n, c)
      BY <1>4, <2>3 DEF Visit
    <3>2. ChainOfCalls'
      BY <1>1, <1>4, <2>3, <3>1, EnterKeepsChain
    <3>3. /\ visiting' = visiting \cup {n} /\ root' = root
          /\ caller' = [caller EXCEPT ![n] = c] /\ n \in NodeId
      BY <3>1 DEF Enter
    <3>4. \A m \in visiting : caller'[m] = caller[m]
      BY <2>3, <3>3
    <3>5. RootCalled'
      BY <1>1, <1>4, <3>3, <3>4 DEF GraphInv, RootCalled
    <3> QED
      BY <3>2, <3>5
  <2> QED
    BY <2>1, <2>2, <2>3
<1>5. CASE VisitRoot
  BY <1>4, <1>5 DEF VisitRoot
<1>6. CASE VisitDependency
  BY <1>4, <1>6, DependencyKnown DEF VisitDependency, GraphInv
<1>7. CASE Return
  <2>1. visiting' = visiting \ {current} /\ caller' = caller
    BY <1>7 DEF Return
  <2>2. current \in visiting
    BY <1>7 DEF Return, GraphInv, ChainOfCalls
  <2>3. CASE caller[current] = NoNode
    <3>1. \A m \in visiting' : caller'[m] # NoNode
      BY <2>1, <2>2, <2>3 DEF GraphInv, RootCalled
    <3> QED
      BY <1>7, <3>1, ReturnKeepsChain DEF RootCalled
  <2>4. CASE caller[current] # NoNode
    <3>1. root' = root
      BY <1>7, <2>4 DEF Return, Continue
    <3>2. RootCalled'
      BY <1>1, <2>1, <3>1 DEF GraphInv, RootCalled
    <3> QED
      BY <1>7, <3>2, ReturnKeepsChain
  <2> QED
    BY <2>3, <2>4
<1> QED
  BY <1>3, <1>5, <1>6, <1>7 DEF GraphNext

\* The search keeps its types and its invariant in every reachable state.
THEOREM GraphInvHolds == GraphSpec => [](GraphTypeOK /\ GraphInv)
<1>1. GraphInit => GraphTypeOK /\ GraphInv
  <2> SUFFICES ASSUME GraphInit PROVE GraphTypeOK /\ GraphInv
    OBVIOUS
  <2>1. GraphTypeOK
    BY DEF GraphInit, GraphTypeOK
  <2>2. SearchStarts /\ ChainOfCalls /\ RootCalled
    BY DEF GraphInit, SearchStarts, ChainOfCalls, RootCalled
  <2>3. VisitedAcyclic
    BY <2>1, NodesTyped DEF GraphInit, VisitedAcyclic
  <2> QED
    BY <2>1, <2>2, <2>3 DEF GraphInv
<1>2. GraphTypeOK /\ GraphInv /\ [GraphNext]_graphVars => (GraphTypeOK /\ GraphInv)'
  <2> SUFFICES ASSUME GraphTypeOK, GraphInv, [GraphNext]_graphVars
               PROVE  GraphTypeOK' /\ GraphInv'
    OBVIOUS
  <2>1. CASE GraphNext
    BY <2>1, StepsKeepGraphType, StepsKeepSearchStarts, StepsKeepChain, StepsKeepVisited
    DEF GraphInv
  <2>2. CASE UNCHANGED graphVars
    <3>1. /\ Known' = Known /\ Acyclic' = Acyclic
          /\ \A n : Deps(n)' = Deps(n) /\ DepSet(n)' = DepSet(n)
      BY <2>2, GraphConstant DEF graphVars
    <3>2. GraphTypeOK'
      BY <2>2, <3>1 DEF graphVars, GraphTypeOK
    <3>3. SearchStarts' /\ RootCalled'
      BY <2>2, <3>1 DEF graphVars, GraphInv, SearchStarts, RootCalled
    <3>4. ChainOfCalls'
      BY <2>2, <3>1 DEF graphVars, GraphInv, ChainOfCalls
    <3>5. VisitedAcyclic'
      BY <2>2, <3>1 DEF graphVars, GraphInv, VisitedAcyclic
    <3> QED
      BY <3>2, <3>3, <3>4, <3>5 DEF GraphInv
  <2> QED
    BY <2>1, <2>2
<1> QED
  BY <1>1, <1>2, PTL DEF GraphSpec

\* A graph that Validate accepts is acyclic and closed under dependencies, and
\* one that it rejects for a cycle has one.
THEOREM ValidateDecidesHolds == GraphSpec => []ValidateDecides
<1>1. GraphTypeOK /\ GraphInv => ValidateDecides
  <2> SUFFICES ASSUME GraphTypeOK, GraphInv PROVE ValidateDecides
    OBVIOUS
  <2>1. ASSUME verdict = "accepted"
        PROVE  Acyclic /\ \A n \in Known : DepSet(n) \subseteq Known
    <3>1. root \notin DOMAIN nodes
      BY <2>1 DEF GraphInv, VisitedAcyclic
    <3>2. \A i \in DOMAIN nodes : i < root
      BY <3>1, NodesTyped DEF GraphTypeOK
    <3>3. \A i \in DOMAIN nodes : nodes[i].id \in visited
      BY <3>2 DEF GraphInv, VisitedAcyclic
    <3>4. visited = Known
      BY <3>3 DEF GraphTypeOK, Known
    <3> QED
      BY <2>1, <3>4 DEF GraphInv, VisitedAcyclic, Acyclic
  <2>2. verdict = "cycle" => ~Acyclic
    BY DEF GraphInv, VisitedAcyclic
  <2> QED
    BY <2>1, <2>2 DEF ValidateDecides
<1> QED
  BY <1>1, GraphInvHolds, PTL
-----------------------------------------------------------------------------
\* The call of visit that finds a new node, one already visited, or a cycle.
LEMMA VisitAdvances ==
  ASSUME GraphTypeOK, GraphInv, NEW n \in Known, Visit(n, current), nodes' = nodes,
         Place <= LastPlace, current # NoNode => current \in visiting
  PROVE  Advances
<1> USE NodesTyped, WorkflowAssumption DEF GraphTypeOK
<1>1. CASE n \in visiting
  BY <1>1 DEF Visit, Advances
<1>2. CASE n \notin visiting /\ n \in visited
  <2>1. Continue(current) /\ UNCHANGED <<visited, visiting, current>>
    BY <1>2 DEF Visit
  <2>2. Place' = Place + 1
    <3>1. CASE current = NoNode
      BY <2>1, <3>1 DEF Continue, Place
    <3>2. CASE current # NoNode
      BY <2>1, <3>2 DEF Continue, Place
    <3> QED
      BY <3>1, <3>2
  <2> QED
    BY <2>1, <2>2 DEF Advances
<1>3. CASE n \notin visiting /\ n \notin visited
  BY <1>3 DEF Visit, Enter, Advances
<1> QED
  BY <1>1, <1>2, <1>3

\* No graph makes the search of Validate go round: each of its steps is one of
\* finitely many towards its end, on cyclic graphs too.  With the fairness of the
\* goroutine that runs it this is ValidateEnds.
THEOREM ValidateAdvancesHolds == GraphSpec => ValidateAdvances
<1>1. GraphTypeOK /\ GraphInv /\ [GraphNext]_graphVars =>
         [(verdict = "search") => Advances]_graphVars
  <2> SUFFICES ASSUME GraphTypeOK, GraphInv, GraphNext, verdict = "search" PROVE Advances
    OBVIOUS
  <2> USE NodesTyped, WorkflowAssumption DEF GraphTypeOK
  <2>1. nodes' = nodes
    BY DEF GraphNext, CheckNodes, VisitRoot, VisitDependency, Return, Accept
  <2>2. current # NoNode => current \in visiting \ visited
    BY DEF GraphInv, ChainOfCalls
  <2>3. CASE CheckNodes \/ Accept
    BY <2>3 DEF CheckNodes, Accept, Advances
  <2>4. CASE VisitRoot
    <3>1. nodes[root].id \in Known /\ Place <= LastPlace
      BY <2>4 DEF VisitRoot, Place, LastPlace
    <3> QED
      BY <2>1, <2>4, <3>1, VisitAdvances DEF VisitRoot
  <2>5. CASE VisitDependency
    <3>1. current \in Known /\ nextDep[current] \in DOMAIN Deps(current)
      BY <2>5 DEF VisitDependency
    <3>2. Place <= LastPlace
      BY <2>5, <3>1 DEF VisitDependency, Place, LastPlace
    <3>3. Deps(current)[nextDep[current]] \in Known
      BY <3>1, DependencyKnown DEF GraphInv
    <3> QED
      BY <2>1, <2>2, <2>5, <3>2, <3>3, VisitAdvances DEF VisitDependency
  <2>6. CASE Return
    BY <2>2, <2>6 DEF Return, Advances
  <2> QED
    BY <2>3, <2>4, <2>5, <2>6 DEF GraphNext
<1> QED
  BY <1>1, GraphInvHolds, PTL DEF GraphSpec, ValidateAdvances
=============================================================================
