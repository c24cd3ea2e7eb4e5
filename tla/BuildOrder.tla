----------------------------- MODULE BuildOrder -----------------------------
(***************************************************************************)
(* What DependencyGraph.topological_sort promises the build stage, without *)
(* saying how: components of the requested closure are emitted one at a    *)
(* time, each only after all its prerequisites, until the closure is       *)
(* exhausted ("order") or nothing that is left can be emitted ("cycle").   *)
(* TopologicalSort is shown to implement this specification.               *)
(***************************************************************************)
EXTENDS DependencyGraph

CONSTANTS Node,    \* component names
          Graph    \* the dependency graphs considered

VARIABLES deps,    \* the graph handed to the resolver
          request, \* the components asked for
          order,   \* the sequence emitted so far
          verdict  \* "none" while undecided, then "order" or "cycle"

vars == <<deps, request, order, verdict>>

Init ==
    /\ deps \in Graph
    /\ request \in SUBSET Node
    /\ order = <<>>
    /\ verdict = "none"

Remaining == Closure(deps, request) \ Members(order)

Emit(n) ==
    /\ verdict = "none"
    /\ n \in Remaining
    /\ deps[n] \subseteq Members(order)
    /\ order' = Append(order, n)
    /\ UNCHANGED <<deps, request, verdict>>

Accept ==
    /\ verdict = "none"
    /\ Remaining = {}
    /\ verdict' = "order"
    /\ UNCHANGED <<deps, request, order>>

Reject ==
    /\ verdict = "none"
    /\ Deadlocked(deps, Remaining)
    /\ verdict' = "cycle"
    /\ UNCHANGED <<deps, request, order>>

Next == (\E n \in Node : Emit(n)) \/ Accept \/ Reject

Spec == Init /\ [][Next]_vars

FairSpec == Spec /\ WF_vars(Next)
=============================================================================
