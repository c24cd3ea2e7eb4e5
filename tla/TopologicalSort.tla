-------------------------- MODULE TopologicalSort --------------------------
(***************************************************************************)
(* DependencyGraph.topological_sort (src/deps.py) on a graph made by       *)
(* build_graph_from_recipes: the closure of the requested components, then *)
(* Kahn's algorithm on it.                                                 *)
(*                                                                         *)
(* Python iterates over sets of strings in an order that changes from one  *)
(* process to the next (hash randomisation), and the code iterates over    *)
(* sets when it walks the prerequisites, seeds the queue and releases the  *)
(* dependents of a node.  Each such iteration is a series of steps that    *)
(* take the elements in any order, so the result is any order Python can   *)
(* produce.                                                                *)
(***************************************************************************)
EXTENDS DependencyGraph

CONSTANTS
    Node,   \* component names
    Graph   \* the dependency graphs considered: functions Node -> SUBSET Node

ASSUME NodeAssumption  == IsFiniteSet(Node)
ASSUME GraphAssumption == Graph \subseteq [Node -> SUBSET Node]

VARIABLES
    deps,       \* DependencyGraph._deps
    request,    \* the subset parameter (all registered nodes when it is None)
    pc,         \* the part of topological_sort being run
    targets,    \* target_nodes
    frontier,   \* targets whose prerequisites are still to be visited
    inDegree,   \* in_degree (0 outside target_nodes)
    queue,      \* queue
    result,     \* result
    releasing,  \* dependents of the last popped node still to be decremented
    verdict     \* "none", "order" (returned) or "cycle" (raised)

inputs == <<deps, request>>
vars == <<deps, request, pc, targets, frontier, inDegree, queue, result,
          releasing, verdict>>

Init ==
    /\ deps \in Graph
    /\ request \in SUBSET Node
    /\ pc = "closing"
    /\ targets = request
    /\ frontier = request
    /\ inDegree = [n \in Node |-> 0]
    /\ queue = <<>>
    /\ result = <<>>
    /\ releasing = {}
    /\ verdict = "none"

-----------------------------------------------------------------------------
(***************************************************************************)
(* The closure.                                                            *)
(***************************************************************************)

\* Mutant: only the direct prerequisites of the request are collected.
VisitDirectOnly(n) ==
    /\ pc = "closing"
    /\ n \in frontier
    /\ targets' = targets \cup deps[n]
    /\ frontier' = frontier \ {n}
    /\ UNCHANGED <<inputs, pc, inDegree, queue, result, releasing, verdict>>

\* Mutant: the recursion does not look at what was visited before.
VisitForgetful(n) ==
    /\ pc = "closing"
    /\ n \in frontier
    /\ targets' = targets \cup deps[n]
    /\ frontier' = (frontier \ {n}) \cup deps[n]
    /\ UNCHANGED <<inputs, pc, inDegree, queue, result, releasing, verdict>>

\* all_dependencies_of visits the prerequisites of one node: those not yet
\* visited are added and will be visited in turn.
Visit(n) ==
    /\ pc = "closing"
    /\ n \in frontier
    /\ targets' = targets \cup deps[n]
    /\ frontier' = (frontier \ {n}) \cup (deps[n] \ targets)
    /\ UNCHANGED <<inputs, pc, inDegree, queue, result, releasing, verdict>>

-----------------------------------------------------------------------------
(***************************************************************************)
(* Kahn's algorithm.                                                       *)
(***************************************************************************)

\* The number of prerequisites a target waits for at the start.
InitialDegree(n) == Cardinality(deps[n] \cap targets)

\* Mutant: adjacency is not restricted to target_nodes.
AllDependents(n) == {m \in Node : n \in deps[m]}

\* adjacency[n]: the targets that list n as a prerequisite.
Dependents(n) == {m \in targets : n \in deps[m]}

CountInDegrees ==
    /\ pc = "closing"
    /\ frontier = {}
    /\ inDegree' = [n \in Node |-> IF n \in targets THEN InitialDegree(n) ELSE 0]
    /\ pc' = "seeding"
    /\ UNCHANGED <<inputs, targets, frontier, queue, result, releasing, verdict>>

\* Mutant: the queue is seeded without looking at the in-degrees.
UnseededAny == targets \ Members(queue)

\* The targets with nothing to wait for that are not in the queue yet.
Unseeded == {n \in targets : inDegree[n] = 0} \ Members(queue)

Seed(n) ==
    /\ pc = "seeding"
    /\ n \in Unseeded
    /\ queue' = Append(queue, n)
    /\ UNCHANGED <<inputs, pc, targets, frontier, inDegree, result, releasing, verdict>>

StartDraining ==
    /\ pc = "seeding"
    /\ Unseeded = {}
    /\ pc' = "draining"
    /\ UNCHANGED <<inputs, targets, frontier, inDegree, queue, result, releasing, verdict>>

Pop ==
    /\ pc = "draining"
    /\ releasing = {}
    /\ queue # <<>>
    /\ queue' = Tail(queue)
    /\ result' = Append(result, Head(queue))
    /\ releasing' = Dependents(Head(queue))
    /\ UNCHANGED <<inputs, pc, targets, frontier, inDegree, verdict>>

\* Mutant: a dependent is queued at its first decrement, not at zero.
ReleaseEagerly(m) ==
    /\ pc = "draining"
    /\ m \in releasing
    /\ inDegree' = [inDegree EXCEPT ![m] = @ - 1]
    /\ queue' = Append(queue, m)
    /\ releasing' = releasing \ {m}
    /\ UNCHANGED <<inputs, pc, targets, frontier, result, verdict>>

\* Mutant: the decrement is forgotten.
ReleaseUncounted(m) ==
    /\ pc = "draining"
    /\ m \in releasing
    /\ queue' = IF inDegree[m] = 1 THEN Append(queue, m) ELSE queue
    /\ releasing' = releasing \ {m}
    /\ UNCHANGED <<inputs, pc, targets, frontier, inDegree, result, verdict>>

Release(m) ==
    /\ pc = "draining"
    /\ m \in releasing
    /\ inDegree' = [inDegree EXCEPT ![m] = @ - 1]
    /\ queue' = IF inDegree[m] = 1 THEN Append(queue, m) ELSE queue
    /\ releasing' = releasing \ {m}
    /\ UNCHANGED <<inputs, pc, targets, frontier, result, verdict>>

\* Mutant: the length of the result is not compared with the targets.
FinishUnchecked ==
    /\ pc = "draining"
    /\ releasing = {}
    /\ queue = <<>>
    /\ verdict' = "order"
    /\ pc' = "done"
    /\ UNCHANGED <<inputs, targets, frontier, inDegree, queue, result, releasing>>

Finish ==
    /\ pc = "draining"
    /\ releasing = {}
    /\ queue = <<>>
    /\ verdict' = IF Len(result) = Cardinality(targets) THEN "order" ELSE "cycle"
    /\ pc' = "done"
    /\ UNCHANGED <<inputs, targets, frontier, inDegree, queue, result, releasing>>

\* The components named in the message of CyclicDependencyError.
CycleNodes == {n \in targets : inDegree[n] > 0}

-----------------------------------------------------------------------------

\* topological_sort has returned or raised.
Returned == pc = "done" /\ UNCHANGED vars

Next ==
    \/ \E n \in Node : Visit(n) \/ Seed(n) \/ Release(n)
    \/ CountInDegrees
    \/ StartDraining
    \/ Pop
    \/ Finish
    \/ Returned

Spec == Init /\ [][Next]_vars

\* The sort is a plain function call: it runs until it returns or raises.
FairSpec == Spec /\ WF_vars(Next)

-----------------------------------------------------------------------------
(***************************************************************************)
(* Properties.                                                             *)
(***************************************************************************)

\* The type of every variable of topological_sort.
TypeOK ==
    /\ deps \in Graph
    /\ request \in SUBSET Node
    /\ pc \in {"closing", "seeding", "draining", "done"}
    /\ targets \in SUBSET Node
    /\ frontier \in SUBSET targets
    /\ inDegree \in [Node -> Nat]
    /\ queue \in Seq(Node)
    /\ result \in Seq(Node)
    /\ releasing \in SUBSET targets
    /\ verdict \in {"none", "order", "cycle"}

\* At every moment the result list puts prerequisites before dependents, so
\* that the build stage may process it from left to right.
ResultRespectsDependencies == PrerequisitesFirst(deps, result)

\* Once counted, the in-degree of a target is the number of its prerequisites
\* that are not in the result, plus the one just emitted if its decrement is
\* still to come.  This is what makes "in_degree == 0" mean "can be built".
InDegreeCountsWaiting ==
    pc \in {"seeding", "draining", "done"} =>
        \A n \in targets :
            inDegree[n] = Cardinality(deps[n] \ Members(result))
                            + (IF n \in releasing THEN 1 ELSE 0)

\* What was visited is what a caller may rely on: the request and all its
\* transitive prerequisites, no more and no less.
TargetsAreClosure ==
    pc \in {"seeding", "draining", "done"} => targets = Closure(deps, request)

\* The error is raised exactly for requests whose closure cannot be ordered,
\* and its message names every component that is on a cycle.
CycleErrorIsExact ==
    /\ verdict = "order" => ~ HasCycle(deps, targets)
    /\ verdict = "cycle" =>
           /\ Deadlocked(deps, CycleNodes)
           /\ \A T \in SUBSET targets : Deadlocked(deps, T) => T \subseteq CycleNodes

\* The resolver neither loops nor stops half-way, whatever the graph.
Terminates == <>(pc = "done")

\* Kahn's algorithm implements the abstract promise: emitting a component is
\* popping it off the queue, the verdict is reached when the loop ends.
Abstract == INSTANCE BuildOrder WITH order <- result

ImplementsBuildOrder == Abstract!Spec

-----------------------------------------------------------------------------
(***************************************************************************)
(* The inductive invariant behind the safety properties.                   *)
(***************************************************************************)

Waiting(n) == deps[n] \ Members(result)

\* What each part of the function has already computed.
PhaseInv ==
    /\ pc # "closing" => frontier = {}
    /\ pc \in {"closing", "seeding"} => result = <<>> /\ releasing = {}
    /\ pc = "closing" => queue = <<>>
    /\ pc # "done" <=> verdict = "none"
    /\ pc = "done" => queue = <<>> /\ releasing = {}

\* The visited set grows from the request, only along prerequisites, and
\* everything already expanded has its prerequisites inside.
ClosureInv ==
    /\ request \subseteq targets
    /\ \A n \in targets \ frontier : deps[n] \subseteq targets
    /\ \A S \in SUBSET Node :
           request \subseteq S /\ Closed(deps, S) => targets \subseteq S

\* The queue holds targets that wait for nothing and are not emitted yet;
\* from the end of the seeding on, it holds all of them.
QueueInv ==
    /\ NoRepeats(queue)
    /\ Members(queue) \subseteq targets \ Members(result)
    /\ \A n \in Members(queue) : inDegree[n] = 0
    /\ pc \in {"draining", "done"} =>
           \A n \in targets : inDegree[n] = 0 => n \in Members(queue) \cup Members(result)

\* The result lists targets once, none of them still to be released, and
\* never a component that is on a cycle or waits for one.
ResultInv ==
    /\ Len(result) = Cardinality(Members(result))
    /\ Members(result) \subseteq targets \ releasing
    /\ PrerequisitesFirst(deps, result)
    /\ \A n \in Members(result) : deps[n] \subseteq Members(result)
    /\ \A T \in SUBSET Node : Deadlocked(deps, T) => T \cap Members(result) = {}

VerdictInv ==
    pc = "done" => (verdict = "order" <=> Members(result) = targets)

IInv ==
    /\ TypeOK
    /\ PhaseInv
    /\ ClosureInv
    /\ InDegreeCountsWaiting
    /\ QueueInv
    /\ ResultInv
    /\ VerdictInv
=============================================================================
