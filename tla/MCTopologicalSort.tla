------------------------- MODULE MCTopologicalSort -------------------------
(***************************************************************************)
(* TLC instance of TopologicalSort: every graph with at most MaxEdges      *)
(* declared prerequisites.                                                 *)
(***************************************************************************)
EXTENDS TopologicalSort

CONSTANT MaxEdges

Edges(g) == {e \in Node \X Node : e[2] \in g[e[1]]}

SmallGraphs == {g \in [Node -> SUBSET Node] : Cardinality(Edges(g)) <= MaxEdges}
=============================================================================
