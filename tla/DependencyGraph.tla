-------------------------- MODULE DependencyGraph --------------------------
(***************************************************************************)
(* Pure notions about a component dependency graph (src/deps.py).  A graph *)
(* is a function from component names to the set of their prerequisites,   *)
(* DependencyGraph._deps with the default "no prerequisites" filled in.    *)
(*                                                                         *)
(* The transitive closure is defined as the least closed superset and not  *)
(* by recursion, so that the modules that use it can be reasoned about.    *)
(***************************************************************************)
EXTENDS Integers, Sequences, FiniteSets

\* A set of components that contains every prerequisite of its members.
Closed(deps, S) == \A n \in S : deps[n] \subseteq S

\* The request together with all its transitive prerequisites.
Closure(deps, request) ==
    {n \in DOMAIN deps :
        \A S \in SUBSET DOMAIN deps :
            request \subseteq S /\ Closed(deps, S) => n \in S}

\* The members of a sequence.
Members(s) == {s[i] : i \in 1 .. Len(s)}

\* Every element of the sequence comes after all its prerequisites.
PrerequisitesFirst(deps, s) ==
    \A i \in 1 .. Len(s) : \A d \in deps[s[i]] :
        \E j \in 1 .. i - 1 : s[j] = d

\* No element occurs at two places.
NoRepeats(s) == \A i, j \in 1 .. Len(s) : s[i] = s[j] => i = j

\* A non-empty set each of whose members waits for another member: its
\* members cannot be put in any order, so S holds (or leads to) a cycle.
Deadlocked(deps, S) == S # {} /\ \A n \in S : deps[n] \cap S # {}

HasCycle(deps, S) == \E T \in SUBSET S : Deadlocked(deps, T)

\* All the orders of a set S that put prerequisites first.
Linearizations(deps, S) ==
    {s \in [1 .. Cardinality(S) -> S] : NoRepeats(s) /\ PrerequisitesFirst(deps, s)}
=============================================================================
