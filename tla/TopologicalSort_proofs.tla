----------------------- MODULE TopologicalSort_proofs -----------------------
(***************************************************************************)
(* Proofs about TopologicalSort, for every finite set of components, every *)
(* dependency graph on it and every request.                               *)
(***************************************************************************)
EXTENDS TopologicalSort, FiniteSetTheorems, WellFoundedInduction, TLAPS

-----------------------------------------------------------------------------
(***************************************************************************)
(* Lemmas about the sequences of the algorithm.                            *)
(***************************************************************************)

\* Appending adds exactly the new element.
LEMMA MembersAppend ==
    ASSUME NEW S, NEW s \in Seq(S), NEW e \in S
    PROVE  Members(Append(s, e)) = Members(s) \cup {e}
<1>1. Len(Append(s, e)) = Len(s) + 1 /\ Len(s) \in Nat
    OBVIOUS
<1>2. \A i \in 1 .. Len(s) : Append(s, e)[i] = s[i]
    OBVIOUS
<1>3. Append(s, e)[Len(s) + 1] = e
    OBVIOUS
<1>4. 1 .. (Len(s) + 1) = (1 .. Len(s)) \cup {Len(s) + 1}
    BY <1>1
<1>5. Members(Append(s, e)) \subseteq Members(s) \cup {e}
    BY <1>1, <1>2, <1>3, <1>4 DEF Members
<1>6. Members(s) \cup {e} \subseteq Members(Append(s, e))
  <2>1. \A x \in Members(s) : x \in Members(Append(s, e))
    <3>. SUFFICES ASSUME NEW i \in 1 .. Len(s)
                  PROVE  s[i] \in Members(Append(s, e))
        BY DEF Members
    <3>1. i \in 1 .. Len(Append(s, e))
        BY <1>1
    <3>. QED
        BY <3>1, <1>2 DEF Members
  <2>2. e \in Members(Append(s, e))
    <3>1. Len(s) + 1 \in 1 .. Len(Append(s, e))
        BY <1>1
    <3>. QED
        BY <3>1, <1>3 DEF Members
  <2>. QED
    BY <2>1, <2>2
<1>. QED
    BY <1>5, <1>6

\* A sequence without repetitions loses exactly its head.
LEMMA MembersTail ==
    ASSUME NEW S, NEW s \in Seq(S), s # <<>>, NoRepeats(s)
    PROVE  /\ Head(s) \in Members(s)
           /\ Members(Tail(s)) = Members(s) \ {Head(s)}
           /\ NoRepeats(Tail(s))
<1>1. /\ Len(s) \in Nat \ {0}
      /\ Head(s) = s[1]
      /\ Len(Tail(s)) = Len(s) - 1
      /\ \A i \in 1 .. Len(s) - 1 : Tail(s)[i] = s[i + 1]
    OBVIOUS
<1>2. Head(s) \in Members(s)
    BY <1>1 DEF Members
<1>3. \A i \in 1 .. Len(Tail(s)) : i + 1 \in 1 .. Len(s) /\ i + 1 # 1
    BY <1>1
<1>4. Members(Tail(s)) \subseteq Members(s) \ {Head(s)}
    BY <1>1, <1>3 DEF Members, NoRepeats
<1>5. \A i \in 1 .. Len(s) : i # 1 => i - 1 \in 1 .. Len(s) - 1 /\ (i - 1) + 1 = i
    BY <1>1
<1>6. Members(s) \ {Head(s)} \subseteq Members(Tail(s))
    BY <1>1, <1>5 DEF Members
<1>7. NoRepeats(Tail(s))
  <2>. SUFFICES ASSUME NEW i \in 1 .. Len(Tail(s)), NEW j \in 1 .. Len(Tail(s)),
                       Tail(s)[i] = Tail(s)[j]
                PROVE  i = j
    BY DEF NoRepeats
  <2>1. s[i + 1] = s[j + 1]
    BY <1>1
  <2>2. i + 1 = j + 1
    BY <2>1, <1>3 DEF NoRepeats
  <2>. QED
    BY <2>2, <1>1
<1>. QED
    BY <1>2, <1>4, <1>6, <1>7

\* A sequence without repetitions stays so when a new element is appended.
LEMMA NoRepeatsAppend ==
    ASSUME NEW S, NEW s \in Seq(S), NEW e \in S,
           NoRepeats(s), e \notin Members(s)
    PROVE  NoRepeats(Append(s, e))
<1>1. Len(Append(s, e)) = Len(s) + 1 /\ Len(s) \in Nat
    OBVIOUS
<1>2. \A i \in 1 .. Len(s) : Append(s, e)[i] = s[i] /\ s[i] # e
    BY DEF Members
<1>3. Append(s, e)[Len(s) + 1] = e
    OBVIOUS
<1>4. \A i \in 1 .. Len(Append(s, e)) : i \in 1 .. Len(s) \/ i = Len(s) + 1
    BY <1>1
<1>. QED
    BY <1>1, <1>2, <1>3, <1>4 DEF NoRepeats

\* An element may be appended once all its prerequisites are there.
LEMMA PrerequisitesFirstAppend ==
    ASSUME NEW S, NEW g, NEW s \in Seq(S), NEW e \in S,
           PrerequisitesFirst(g, s), g[e] \subseteq Members(s)
    PROVE  PrerequisitesFirst(g, Append(s, e))
<1>. SUFFICES ASSUME NEW i \in 1 .. Len(Append(s, e)), NEW d \in g[Append(s, e)[i]]
              PROVE  \E j \in 1 .. i - 1 : Append(s, e)[j] = d
    BY DEF PrerequisitesFirst
<1>1. Len(Append(s, e)) = Len(s) + 1 /\ Len(s) \in Nat
    OBVIOUS
<1>2. \A k \in 1 .. Len(s) : Append(s, e)[k] = s[k]
    OBVIOUS
<1>3. CASE i \in 1 .. Len(s)
  <2>1. PICK j \in 1 .. i - 1 : s[j] = d
    BY <1>2, <1>3 DEF PrerequisitesFirst
  <2>2. j \in 1 .. Len(s)
    BY <1>1, <1>3
  <2>. QED
    BY <1>2, <2>1, <2>2
<1>4. CASE i = Len(s) + 1
  <2>1. Append(s, e)[i] = e
    BY <1>4
  <2>2. PICK j \in 1 .. Len(s) : s[j] = d
    BY <2>1 DEF Members
  <2>3. j \in 1 .. i - 1
    BY <1>1, <1>4
  <2>. QED
    BY <1>2, <2>2, <2>3
<1>. QED
    BY <1>1, <1>3, <1>4

\* The number of prerequisites still missing is a natural number, zero only
\* when none is missing, and it drops by one when one of them is emitted.
LEMMA WaitingCount ==
    ASSUME NEW S \in SUBSET Node
    PROVE  /\ Cardinality(S) \in Nat
           /\ Cardinality(S) = 0 <=> S = {}
           /\ \A x \in S : Cardinality(S \ {x}) = Cardinality(S) - 1
<1>1. IsFiniteSet(S)
    BY NodeAssumption, FS_Subset
<1>. QED
    BY <1>1, FS_EmptySet, FS_CardinalityType, FS_RemoveElement

-----------------------------------------------------------------------------
(***************************************************************************)
(* The invariant holds at the start.                                       *)
(***************************************************************************)

LEMMA InitIInv == Init => IInv
<1>. SUFFICES ASSUME Init PROVE IInv
    OBVIOUS
<1>. USE GraphAssumption DEF Init
<1>1. Members(<<>>) = {}
    BY DEF Members
<1>2. TypeOK
    BY DEF TypeOK
<1>3. PhaseInv
    BY DEF PhaseInv
<1>4. ClosureInv
    BY DEF ClosureInv
<1>5. InDegreeCountsWaiting
    BY DEF InDegreeCountsWaiting
<1>6. QueueInv
    BY <1>1 DEF QueueInv, NoRepeats
<1>7. ResultInv
    BY <1>1, FS_EmptySet DEF ResultInv, PrerequisitesFirst
<1>8. VerdictInv
    BY DEF VerdictInv
<1>. QED
    BY <1>2, <1>3, <1>4, <1>5, <1>6, <1>7, <1>8 DEF IInv

-----------------------------------------------------------------------------
(***************************************************************************)
(* Each action preserves it.                                               *)
(***************************************************************************)

LEMMA VisitIInv ==
    ASSUME IInv, NEW n \in Node, Visit(n)
    PROVE  IInv'
<1>. USE DEF IInv, Visit, inputs
<1>0. deps \in [Node -> SUBSET Node] /\ targets \in SUBSET Node /\ n \in targets
    BY GraphAssumption DEF TypeOK
<1>1. TypeOK'
    BY <1>0 DEF TypeOK
<1>2. PhaseInv'
    BY DEF PhaseInv
<1>3. ClosureInv'
  <2>1. (request \subseteq targets)'
    BY DEF ClosureInv
  <2>2. (\A m \in targets \ frontier : deps[m] \subseteq targets)'
    BY <1>0 DEF ClosureInv, TypeOK
  <2>3. (\A S \in SUBSET Node : request \subseteq S /\ Closed(deps, S) => targets \subseteq S)'
    BY <1>0 DEF ClosureInv, Closed
  <2>. QED
    BY <2>1, <2>2, <2>3 DEF ClosureInv
<1>4. InDegreeCountsWaiting'
    BY DEF InDegreeCountsWaiting
<1>5. result = <<>> /\ queue = <<>> /\ Members(<<>>) = {}
    BY DEF PhaseInv, Members
<1>6. QueueInv'
    BY <1>5 DEF QueueInv, NoRepeats
<1>7. ResultInv'
    BY <1>5, <1>2 DEF ResultInv, PrerequisitesFirst, PhaseInv
<1>8. VerdictInv'
    BY DEF VerdictInv
<1>. QED
    BY <1>1, <1>2, <1>3, <1>4, <1>6, <1>7, <1>8

LEMMA CountInDegreesIInv ==
    ASSUME IInv, CountInDegrees
    PROVE  IInv'
<1>. USE DEF IInv, CountInDegrees, inputs
<1>0. /\ deps \in [Node -> SUBSET Node] /\ targets \in SUBSET Node
      /\ result = <<>> /\ queue = <<>> /\ releasing = {} /\ Members(<<>>) = {}
    BY GraphAssumption DEF TypeOK, PhaseInv, Members
<1>1. TypeOK'
  <2>1. \A m \in Node : InitialDegree(m) \in Nat
    BY <1>0, WaitingCount DEF InitialDegree
  <2>. QED
    BY <2>1 DEF TypeOK
<1>2. PhaseInv'
    BY DEF PhaseInv
<1>3. ClosureInv'
    BY DEF ClosureInv
<1>4. InDegreeCountsWaiting'
  <2>. SUFFICES ASSUME NEW m \in targets
                PROVE  inDegree'[m] = Cardinality(deps[m] \ Members(result)) + 0
    BY <1>0 DEF InDegreeCountsWaiting
  <2>1. deps[m] \cap targets = deps[m] \ Members(result)
    BY <1>0 DEF ClosureInv
  <2>2. Cardinality(deps[m] \ Members(result)) \in Nat
    BY <1>0, WaitingCount
  <2>. QED
    BY <1>0, <2>1, <2>2 DEF InitialDegree
<1>5. QueueInv'
    BY <1>0 DEF QueueInv, NoRepeats
<1>6. ResultInv'
    BY DEF ResultInv
<1>7. VerdictInv'
    BY DEF VerdictInv
<1>. QED
    BY <1>1, <1>2, <1>3, <1>4, <1>5, <1>6, <1>7

LEMMA SeedIInv ==
    ASSUME IInv, NEW n \in Node, Seed(n)
    PROVE  IInv'
<1>. USE DEF IInv, Seed, inputs
<1>0. /\ queue \in Seq(Node) /\ n \in targets /\ inDegree[n] = 0 /\ n \notin Members(queue)
      /\ result = <<>> /\ Members(<<>>) = {}
    BY DEF TypeOK, PhaseInv, Members, Unseeded
<1>1. Members(queue') = Members(queue) \cup {n}
    BY <1>0, MembersAppend
<1>2. TypeOK'
    BY <1>0 DEF TypeOK
<1>3. PhaseInv'
    BY DEF PhaseInv
<1>4. ClosureInv'
    BY DEF ClosureInv
<1>5. InDegreeCountsWaiting'
    BY DEF InDegreeCountsWaiting
<1>6. QueueInv'
  <2>1. NoRepeats(queue')
    BY <1>0, NoRepeatsAppend DEF QueueInv
  <2>. QED
    BY <1>0, <1>1, <2>1 DEF QueueInv
<1>7. ResultInv'
    BY DEF ResultInv
<1>8. VerdictInv'
    BY DEF VerdictInv
<1>. QED
    BY <1>2, <1>3, <1>4, <1>5, <1>6, <1>7, <1>8

LEMMA StartDrainingIInv ==
    ASSUME IInv, StartDraining
    PROVE  IInv'
<1>. USE DEF IInv, StartDraining, inputs
<1>1. TypeOK' /\ PhaseInv' /\ ClosureInv' /\ ResultInv' /\ VerdictInv'
    BY DEF TypeOK, PhaseInv, ClosureInv, ResultInv, VerdictInv
<1>2. InDegreeCountsWaiting'
    BY DEF InDegreeCountsWaiting
<1>3. QueueInv'
    BY DEF QueueInv, Unseeded
<1>. QED
    BY <1>1, <1>2, <1>3

\* The head of the queue waits for nothing: popping it is legal.
LEMMA HeadIsReady ==
    ASSUME IInv, Pop
    PROVE  /\ Head(queue) \in targets \ Members(result)
           /\ deps[Head(queue)] \subseteq Members(result)
<1>. USE DEF IInv, Pop
<1>1. /\ deps \in [Node -> SUBSET Node] /\ targets \in SUBSET Node
      /\ queue \in Seq(Node) /\ queue # <<>> /\ NoRepeats(queue)
    BY GraphAssumption DEF TypeOK, QueueInv
<1>2. Head(queue) \in Members(queue)
    BY <1>1, MembersTail
<1>3. Head(queue) \in targets \ Members(result) /\ inDegree[Head(queue)] = 0
    BY <1>2 DEF QueueInv
<1>4. deps[Head(queue)] \ Members(result) \in SUBSET Node
    BY <1>1, <1>3
<1>5. inDegree[Head(queue)] = Cardinality(deps[Head(queue)] \ Members(result)) + 0
    BY <1>3 DEF InDegreeCountsWaiting
<1>6. Cardinality(deps[Head(queue)] \ Members(result)) = 0
    BY <1>3, <1>4, <1>5, WaitingCount
<1>7. deps[Head(queue)] \ Members(result) = {}
    BY <1>4, <1>6, WaitingCount
<1>. QED
    BY <1>3, <1>7

LEMMA PopIInv ==
    ASSUME IInv, Pop
    PROVE  IInv'
<1>. DEFINE h == Head(queue)
<1>. USE DEF IInv
<1>0. /\ deps \in [Node -> SUBSET Node] /\ targets \in SUBSET Node /\ targets' = targets
      /\ deps' = deps /\ request' = request /\ inDegree' = inDegree /\ pc' = pc
      /\ queue \in Seq(Node) /\ result \in Seq(Node) /\ queue # <<>>
      /\ releasing = {} /\ releasing' = Dependents(h)
      /\ result' = Append(result, h) /\ queue' = Tail(queue)
    BY GraphAssumption DEF TypeOK, Pop, inputs
<1>1. h \in targets \ Members(result) /\ deps[h] \subseteq Members(result)
    BY HeadIsReady
<1>2. Members(result') = Members(result) \cup {h}
    BY <1>0, <1>1, MembersAppend
<1>3. /\ Members(queue') = Members(queue) \ {h}
      /\ NoRepeats(queue')
    BY <1>0, MembersTail DEF QueueInv
<1>4. releasing' = {m \in targets : h \in deps[m]}
    BY <1>0 DEF Dependents
<1>. HIDE DEF h
<1>5. TypeOK'
    BY <1>0, <1>1, <1>4 DEF TypeOK, Pop, inputs
<1>6. PhaseInv'
    BY DEF PhaseInv, Pop
<1>7. ClosureInv'
    BY <1>0 DEF ClosureInv, Pop
<1>8. InDegreeCountsWaiting'
  <2>. SUFFICES ASSUME NEW n \in targets
                PROVE  inDegree[n] = Cardinality(deps[n] \ Members(result'))
                                        + (IF n \in releasing' THEN 1 ELSE 0)
    BY <1>0 DEF InDegreeCountsWaiting
  <2>1. /\ deps[n] \ Members(result) \in SUBSET Node
        /\ inDegree[n] = Cardinality(deps[n] \ Members(result)) + 0
    BY <1>0 DEF InDegreeCountsWaiting, Pop
  <2>2. CASE h \in deps[n]
    <3>1. deps[n] \ Members(result') = (deps[n] \ Members(result)) \ {h}
        BY <1>2
    <3>2. h \in deps[n] \ Members(result)
        BY <1>1, <2>2
    <3>3. Cardinality(deps[n] \ Members(result')) = Cardinality(deps[n] \ Members(result)) - 1
        BY <2>1, <3>1, <3>2, WaitingCount
    <3>4. Cardinality(deps[n] \ Members(result)) \in Nat
        BY <2>1, WaitingCount
    <3>5. n \in releasing'
        BY <1>4, <2>2
    <3>. QED
        BY <2>1, <3>3, <3>4, <3>5
  <2>3. CASE h \notin deps[n]
    <3>1. deps[n] \ Members(result') = deps[n] \ Members(result)
        BY <1>2, <2>3
    <3>2. n \notin releasing'
        BY <1>4, <2>3
    <3>. QED
        BY <2>1, <3>1, <3>2
  <2>. QED
    BY <2>2, <2>3
<1>9. QueueInv'
    BY <1>0, <1>2, <1>3 DEF QueueInv
<1>10. ResultInv'
  <2>1. (Len(result) = Cardinality(Members(result)))'
    <3>1. IsFiniteSet(Members(result))
        BY <1>0, NodeAssumption, FS_Subset DEF ResultInv
    <3>2. Cardinality(Members(result) \cup {h}) = Cardinality(Members(result)) + 1
        BY <1>1, <3>1, FS_AddElement
    <3>3. Len(result') = Len(result) + 1
        BY <1>0
    <3>. QED
        BY <1>2, <3>2, <3>3 DEF ResultInv
  <2>2. (Members(result) \subseteq targets \ releasing)'
    BY <1>0, <1>1, <1>2, <1>4 DEF ResultInv
  <2>3. PrerequisitesFirst(deps, result)'
    BY <1>0, <1>1, PrerequisitesFirstAppend DEF ResultInv
  <2>4. (\A n \in Members(result) : deps[n] \subseteq Members(result))'
    BY <1>0, <1>1, <1>2 DEF ResultInv
  <2>5. (\A T \in SUBSET Node : Deadlocked(deps, T) => T \cap Members(result) = {})'
    BY <1>0, <1>1, <1>2 DEF ResultInv, Deadlocked
  <2>. QED
    BY <2>1, <2>2, <2>3, <2>4, <2>5 DEF ResultInv
<1>11. VerdictInv'
    BY DEF VerdictInv, Pop
<1>. QED
    BY <1>5, <1>6, <1>7, <1>8, <1>9, <1>10, <1>11

LEMMA ReleaseIInv ==
    ASSUME IInv, NEW n \in Node, Release(n)
    PROVE  IInv'
<1>. USE DEF IInv
<1>0. /\ deps \in [Node -> SUBSET Node] /\ targets \in SUBSET Node /\ targets' = targets
      /\ deps' = deps /\ request' = request /\ pc' = pc /\ pc = "draining"
      /\ queue \in Seq(Node) /\ result \in Seq(Node) /\ result' = result
      /\ n \in releasing /\ n \in targets /\ releasing' = releasing \ {n}
      /\ inDegree \in [Node -> Nat] /\ inDegree' = [inDegree EXCEPT ![n] = @ - 1]
      /\ queue' = IF inDegree[n] = 1 THEN Append(queue, n) ELSE queue
    BY GraphAssumption DEF TypeOK, Release, inputs
<1>1. \A m \in targets : Cardinality(deps[m] \ Members(result)) \in Nat
    BY <1>0, WaitingCount
<1>2. inDegree[n] = Cardinality(deps[n] \ Members(result)) + 1
    BY <1>0 DEF InDegreeCountsWaiting
<1>3. /\ inDegree[n] \in Nat /\ inDegree[n] # 0
      /\ inDegree'[n] \in Nat /\ inDegree'[n] = inDegree[n] - 1
      /\ \A m \in Node \ {n} : inDegree'[m] = inDegree[m]
  <2>1. Cardinality(deps[n] \ Members(result)) \in Nat
    BY <1>0, <1>1
  <2>. QED
    BY <1>0, <1>2, <2>1
<1>4. n \notin Members(queue) /\ n \notin Members(result)
    BY <1>0, <1>3 DEF QueueInv, ResultInv
<1>5. Members(queue') = IF inDegree[n] = 1 THEN Members(queue) \cup {n} ELSE Members(queue)
  <2>1. Members(Append(queue, n)) = Members(queue) \cup {n}
    BY <1>0, MembersAppend
  <2>. QED
    BY <1>0, <2>1
<1>6. TypeOK'
    BY <1>0, <1>3 DEF TypeOK, Release, inputs
<1>7. PhaseInv'
    BY <1>0 DEF PhaseInv, Release
<1>8. ClosureInv'
    BY <1>0 DEF ClosureInv, Release
<1>9. InDegreeCountsWaiting'
  <2>. SUFFICES ASSUME NEW m \in targets
                PROVE  inDegree'[m] = Cardinality(deps[m] \ Members(result))
                                        + (IF m \in releasing' THEN 1 ELSE 0)
    BY <1>0 DEF InDegreeCountsWaiting
  <2>1. CASE m = n
    <3>1. Cardinality(deps[n] \ Members(result)) \in Nat
        BY <1>0, <1>1
    <3>2. inDegree'[n] = Cardinality(deps[n] \ Members(result))
        BY <1>2, <1>3, <3>1
    <3>3. n \notin releasing'
        BY <1>0
    <3>. QED
        BY <2>1, <3>1, <3>2, <3>3
  <2>2. CASE m # n
    BY <1>0, <1>3, <2>2 DEF InDegreeCountsWaiting
  <2>. QED
    BY <2>1, <2>2
<1>10. QueueInv'
  <2>1. NoRepeats(queue')
    BY <1>0, <1>4, NoRepeatsAppend DEF QueueInv
  <2>2. (Members(queue) \subseteq targets \ Members(result))'
    BY <1>0, <1>4, <1>5 DEF QueueInv
  <2>3. (\A m \in Members(queue) : inDegree[m] = 0)'
    BY <1>0, <1>3, <1>4, <1>5, <2>2 DEF QueueInv
  <2>4. (\A m \in targets : inDegree[m] = 0 => m \in Members(queue) \cup Members(result))'
    BY <1>0, <1>3, <1>5 DEF QueueInv
  <2>. QED
    BY <2>1, <2>2, <2>3, <2>4 DEF QueueInv
<1>11. ResultInv'
    BY <1>0 DEF ResultInv
<1>12. VerdictInv'
    BY <1>0 DEF VerdictInv
<1>. QED
    BY <1>6, <1>7, <1>8, <1>9, <1>10, <1>11, <1>12

LEMMA FinishIInv ==
    ASSUME IInv, Finish
    PROVE  IInv'
<1>. USE DEF IInv, Finish, inputs
<1>1. TypeOK' /\ ClosureInv' /\ ResultInv'
    BY DEF TypeOK, ClosureInv, ResultInv
<1>2. PhaseInv'
    BY DEF PhaseInv
<1>3. InDegreeCountsWaiting'
    BY DEF InDegreeCountsWaiting
<1>4. QueueInv'
    BY DEF QueueInv
<1>5. VerdictInv'
  <2>1. IsFiniteSet(targets) /\ Members(result) \in SUBSET targets
    BY NodeAssumption, FS_Subset DEF TypeOK, ResultInv
  <2>2. Cardinality(Members(result)) = Cardinality(targets) <=> Members(result) = targets
    BY <2>1, FS_Subset
  <2>. QED
    BY <2>2 DEF VerdictInv, ResultInv
<1>. QED
    BY <1>1, <1>2, <1>3, <1>4, <1>5

LEMMA StutterIInv ==
    ASSUME IInv, UNCHANGED vars
    PROVE  IInv'
<1>. USE DEF vars, inputs
<1>1. TypeOK' /\ PhaseInv' /\ ClosureInv' /\ QueueInv' /\ ResultInv' /\ VerdictInv'
    BY DEF IInv, TypeOK, PhaseInv, ClosureInv, QueueInv, ResultInv, VerdictInv
<1>2. InDegreeCountsWaiting'
    BY DEF IInv, InDegreeCountsWaiting
<1>. QED
    BY <1>1, <1>2 DEF IInv

-----------------------------------------------------------------------------
(***************************************************************************)
(* The theorems.                                                           *)
(***************************************************************************)

\* The strengthened invariant holds in every reachable state.
THEOREM InductiveInvariant == Spec => []IInv
<1>1. Init => IInv
    BY InitIInv
<1>2. IInv /\ [Next]_vars => IInv'
  <2>. SUFFICES ASSUME IInv, [Next]_vars PROVE IInv'
    OBVIOUS
  <2>1. ASSUME NEW n \in Node, Visit(n) PROVE IInv'
    BY <2>1, VisitIInv
  <2>2. ASSUME NEW n \in Node, Seed(n) PROVE IInv'
    BY <2>2, SeedIInv
  <2>3. ASSUME NEW n \in Node, Release(n) PROVE IInv'
    BY <2>3, ReleaseIInv
  <2>4. CASE CountInDegrees
    BY <2>4, CountInDegreesIInv
  <2>5. CASE StartDraining
    BY <2>5, StartDrainingIInv
  <2>6. CASE Pop
    BY <2>6, PopIInv
  <2>7. CASE Finish
    BY <2>7, FinishIInv
  <2>8. CASE Returned
    BY <2>8, StutterIInv DEF Returned
  <2>9. CASE UNCHANGED vars
    BY <2>9, StutterIInv
  <2>. QED
    BY <2>1, <2>2, <2>3, <2>4, <2>5, <2>6, <2>7, <2>8, <2>9 DEF Next
<1>. QED
    BY <1>1, <1>2, PTL DEF Spec

\* Every variable of topological_sort keeps its type.
THEOREM TypeCorrect == Spec => []TypeOK
<1>1. IInv => TypeOK
    BY DEF IInv
<1>. QED
    BY <1>1, InductiveInvariant, PTL

\* The build order lists every component after all its prerequisites.
THEOREM OrderIsSafe == Spec => []ResultRespectsDependencies
<1>1. IInv => ResultRespectsDependencies
    BY DEF IInv, ResultInv, ResultRespectsDependencies
<1>. QED
    BY <1>1, InductiveInvariant, PTL

\* in_degree counts what a component still waits for.
THEOREM DegreesAreExact == Spec => []InDegreeCountsWaiting
<1>1. IInv => InDegreeCountsWaiting
    BY DEF IInv
<1>. QED
    BY <1>1, InductiveInvariant, PTL

\* Once visited, the targets are the least closed superset of the request.
LEMMA TargetsClosure == IInv /\ frontier = {} => targets = Closure(deps, request)
<1>. SUFFICES ASSUME IInv, frontier = {} PROVE targets = Closure(deps, request)
    OBVIOUS
<1>1. /\ deps \in [Node -> SUBSET Node] /\ targets \in SUBSET Node /\ DOMAIN deps = Node
    BY GraphAssumption DEF IInv, TypeOK
<1>2. targets \subseteq Closure(deps, request)
    BY <1>1 DEF IInv, ClosureInv, Closure
<1>3. request \subseteq targets /\ Closed(deps, targets)
    BY DEF IInv, ClosureInv, Closed
<1>4. Closure(deps, request) \subseteq targets
    BY <1>1, <1>3 DEF Closure
<1>. QED
    BY <1>2, <1>4

\* The components sorted are the request and its transitive prerequisites.
THEOREM ClosureIsExact == Spec => []TargetsAreClosure
<1>1. IInv => TargetsAreClosure
    BY TargetsClosure DEF IInv, PhaseInv, TargetsAreClosure
<1>. QED
    BY <1>1, InductiveInvariant, PTL

\* When the loop has ended, what was not emitted is what still waits, and
\* each of these components waits for another one of them.
LEMMA StuckNodes ==
    ASSUME IInv, pc = "draining" \/ pc = "done", queue = <<>>, releasing = {}
    PROVE  /\ CycleNodes = targets \ Members(result)
           /\ targets # Members(result) => Deadlocked(deps, CycleNodes)
<1>. USE DEF IInv
<1>1. /\ deps \in [Node -> SUBSET Node] /\ targets \in SUBSET Node
      /\ Members(queue) = {} /\ frontier = {} /\ inDegree \in [Node -> Nat]
    BY GraphAssumption DEF TypeOK, PhaseInv, Members
<1>2. \A n \in targets : deps[n] \subseteq targets
    BY <1>1 DEF ClosureInv
<1>3. ASSUME NEW n \in targets PROVE inDegree[n] = 0 <=> n \in Members(result)
  <2>1. /\ deps[n] \ Members(result) \in SUBSET Node
        /\ inDegree[n] = Cardinality(deps[n] \ Members(result)) + 0
    BY <1>1 DEF InDegreeCountsWaiting
  <2>2. ASSUME n \in Members(result) PROVE inDegree[n] = 0
    <3>1. deps[n] \ Members(result) = {}
        BY <2>2 DEF ResultInv
    <3>. QED
        BY <2>1, <3>1, WaitingCount
  <2>3. ASSUME inDegree[n] = 0 PROVE n \in Members(result)
    BY <1>1, <2>3 DEF QueueInv
  <2>. QED
    BY <2>2, <2>3
<1>4. CycleNodes = targets \ Members(result)
    BY <1>1, <1>3 DEF CycleNodes
<1>5. ASSUME NEW n \in CycleNodes PROVE deps[n] \cap CycleNodes # {}
  <2>1. n \in targets /\ inDegree[n] # 0
    BY <1>1, <1>5 DEF CycleNodes
  <2>2. /\ deps[n] \ Members(result) \in SUBSET Node
        /\ inDegree[n] = Cardinality(deps[n] \ Members(result)) + 0
    BY <1>1, <2>1 DEF InDegreeCountsWaiting
  <2>3. deps[n] \ Members(result) # {}
    BY <2>1, <2>2, WaitingCount
  <2>. QED
    BY <1>2, <1>4, <2>1, <2>3
<1>6. Members(result) \subseteq targets
    BY DEF ResultInv
<1>. QED
    BY <1>4, <1>5, <1>6 DEF Deadlocked

\* CyclicDependencyError is raised exactly when the closure cannot be
\* ordered, and names every component that is on a cycle.
THEOREM CycleErrorsAreExact == Spec => []CycleErrorIsExact
<1>1. IInv => CycleErrorIsExact
  <2>. SUFFICES ASSUME IInv PROVE CycleErrorIsExact
    OBVIOUS
  <2>. USE DEF IInv
  <2>1. targets \in SUBSET Node
    BY DEF TypeOK
  <2>2. \A T \in SUBSET targets : Deadlocked(deps, T) => T \cap Members(result) = {}
    BY <2>1 DEF ResultInv
  <2>3. ASSUME verdict = "order" PROVE ~ HasCycle(deps, targets)
    <3>1. Members(result) = targets
        BY <2>3 DEF PhaseInv, VerdictInv
    <3>. QED
        BY <2>2, <3>1 DEF HasCycle, Deadlocked
  <2>4. ASSUME verdict = "cycle"
        PROVE  /\ Deadlocked(deps, CycleNodes)
               /\ \A T \in SUBSET targets : Deadlocked(deps, T) => T \subseteq CycleNodes
    <3>1. pc = "done" /\ queue = <<>> /\ releasing = {} /\ Members(result) # targets
        BY <2>4 DEF PhaseInv, VerdictInv
    <3>. QED
        BY <2>2, <3>1, StuckNodes
  <2>. QED
    BY <2>3, <2>4 DEF CycleErrorIsExact
<1>. QED
    BY <1>1, InductiveInvariant, PTL

-----------------------------------------------------------------------------
(***************************************************************************)
(* The refinement.                                                         *)
(***************************************************************************)

\* Popping the head of the queue emits a component that may be emitted.
LEMMA PopRefines ==
    ASSUME IInv, Pop
    PROVE  Abstract!Next
<1>. DEFINE h == Head(queue)
<1>1. pc = "draining" /\ verdict = "none" /\ frontier = {}
    BY DEF IInv, PhaseInv, Pop
<1>2. h \in targets \ Members(result) /\ deps[h] \subseteq Members(result)
    BY HeadIsReady
<1>3. targets = Closure(deps, request) /\ targets \in SUBSET Node
    BY <1>1, TargetsClosure DEF IInv, TypeOK
<1>4. result' = Append(result, h) /\ UNCHANGED <<deps, request, verdict>>
    BY DEF Pop, inputs
<1>5. h \in Node
    BY <1>2, <1>3
<1>. HIDE DEF h
<1>6. Abstract!Emit(h)
    BY <1>1, <1>2, <1>3, <1>4 DEF Abstract!Emit, Abstract!Remaining, Abstract!Closure,
       Abstract!Closed, Abstract!Members, Closure, Closed, Members
<1>. QED
    BY <1>5, <1>6 DEF Abstract!Next

\* The loop ends with the verdict the specification asks for.
LEMMA FinishRefines ==
    ASSUME IInv, Finish
    PROVE  Abstract!Next
<1>1. /\ pc = "draining" /\ verdict = "none" /\ frontier = {} /\ queue = <<>> /\ releasing = {}
      /\ UNCHANGED <<deps, request, result>>
    BY DEF IInv, PhaseInv, Finish, inputs
<1>2. targets = Closure(deps, request) /\ targets \in SUBSET Node
    BY <1>1, TargetsClosure DEF IInv, TypeOK
<1>3. Abstract!Remaining = targets \ Members(result)
    BY <1>2 DEF Abstract!Remaining, Abstract!Closure, Abstract!Closed, Abstract!Members,
       Closure, Closed, Members
<1>4. /\ Members(result) \subseteq targets
      /\ Members(result) = targets => verdict' = "order"
      /\ Members(result) # targets => verdict' = "cycle"
  <2>1. Members(result) \subseteq targets /\ Len(result) = Cardinality(Members(result))
    BY DEF IInv, ResultInv
  <2>2. Cardinality(Members(result)) = Cardinality(targets) => Members(result) = targets
    BY <1>2, <2>1, NodeAssumption, FS_Subset
  <2>. QED
    BY <2>1, <2>2 DEF Finish
<1>5. CASE Members(result) = targets
  <2>1. Abstract!Accept
    BY <1>1, <1>3, <1>4, <1>5 DEF Abstract!Accept
  <2>. QED
    BY <2>1 DEF Abstract!Next
<1>6. CASE Members(result) # targets
  <2>1. CycleNodes = targets \ Members(result) /\ Deadlocked(deps, CycleNodes)
    BY <1>1, <1>6, StuckNodes
  <2>2. Abstract!Reject
    BY <1>1, <1>3, <1>4, <1>6, <2>1 DEF Abstract!Reject, Abstract!Deadlocked, Deadlocked
  <2>. QED
    BY <2>2 DEF Abstract!Next
<1>. QED
    BY <1>5, <1>6

\* Kahn's algorithm, with every iteration order Python may choose, emits only
\* what the abstract resolver may emit and reaches only its verdicts.
THEOREM SortImplementsBuildOrder == Spec => ImplementsBuildOrder
<1>1. Init => Abstract!Init
    BY DEF Init, Abstract!Init
<1>2. IInv /\ [Next]_vars => [Abstract!Next]_(Abstract!vars)
  <2>. SUFFICES ASSUME IInv, [Next]_vars PROVE [Abstract!Next]_(Abstract!vars)
    OBVIOUS
  <2>1. ASSUME NEW n \in Node, Visit(n) \/ Seed(n) \/ Release(n) PROVE UNCHANGED Abstract!vars
    BY <2>1 DEF Visit, Seed, Release, inputs, Abstract!vars
  <2>2. CASE CountInDegrees \/ StartDraining \/ Returned \/ UNCHANGED vars
    BY <2>2 DEF CountInDegrees, StartDraining, Returned, vars, inputs, Abstract!vars
  <2>3. CASE Pop
    BY <2>3, PopRefines
  <2>4. CASE Finish
    BY <2>4, FinishRefines
  <2>. QED
    BY <2>1, <2>2, <2>3, <2>4 DEF Next
<1>. QED
    BY <1>1, <1>2, InductiveInvariant, PTL DEF Spec, Abstract!Spec, ImplementsBuildOrder

-----------------------------------------------------------------------------
(***************************************************************************)
(* What the build stage relies on: it takes the resolver for a choice of   *)
(* one of the linearizations of the closure.                               *)
(***************************************************************************)

\* A sequence with as many members as places has no repetitions.
LEMMA CountedNoRepeats ==
    ASSUME NEW S, NEW s \in Seq(S), Len(s) = Cardinality(Members(s))
    PROVE  NoRepeats(s)
<1>1. Len(s) \in Nat /\ s \in Surjection(1 .. Len(s), Members(s))
  <2>1. Len(s) \in Nat /\ s = [i \in 1 .. Len(s) |-> s[i]]
    OBVIOUS
  <2>2. s \in [1 .. Len(s) -> Members(s)]
    BY <2>1 DEF Members
  <2>. QED
    BY <2>1, <2>2 DEF Surjection, Members
<1>2. IsFiniteSet(1 .. Len(s)) /\ Cardinality(1 .. Len(s)) = Len(s)
  BY <1>1, FS_Interval
<1>3. s \in Injection(1 .. Len(s), Members(s))
  BY <1>1, <1>2, FS_Surjection
<1>. QED
    BY <1>3 DEF Injection, IsInjective, NoRepeats

\* A linearization leaves nothing out.
LEMMA LinearizationIsOnto ==
    ASSUME NEW g, NEW S, IsFiniteSet(S), NEW s \in Linearizations(g, S)
    PROVE  /\ Cardinality(S) \in Nat /\ Len(s) = Cardinality(S)
           /\ \A n \in S : \E i \in 1 .. Cardinality(S) : s[i] = n
<1>. DEFINE k == Cardinality(S)
<1>1. k \in Nat
  BY FS_CardinalityType
<1>. HIDE DEF k
<1>2. s \in [1 .. k -> S] /\ NoRepeats(s) /\ Len(s) = k
  BY <1>1 DEF Linearizations, k
<1>3. s \in Injection(1 .. k, S)
  BY <1>2 DEF Injection, IsInjective, NoRepeats
<1>4. Cardinality(1 .. k) = k
  BY <1>1, FS_Interval
<1>5. s \in Surjection(1 .. k, S)
  BY <1>3, <1>4, FS_Injection DEF k
<1>6. \A n \in S : \E i \in 1 .. k : s[i] = n
  BY <1>5 DEF Surjection
<1>. QED
    BY <1>1, <1>2, <1>6 DEF k

\* What waits for itself cannot be put in order: its first member would have
\* a prerequisite before it.
LEMMA DeadlockedHasNoOrder ==
    ASSUME NEW g, NEW S, IsFiniteSet(S),
           NEW T \in SUBSET S, Deadlocked(g, T)
    PROVE  Linearizations(g, S) = {}
<1>. SUFFICES ASSUME NEW s \in Linearizations(g, S) PROVE FALSE
    OBVIOUS
<1>. DEFINE k == Cardinality(S)
            places == {i \in 1 .. k : s[i] \in T}
<1>1. k \in Nat /\ Len(s) = k /\ \A n \in S : \E i \in 1 .. k : s[i] = n
  BY LinearizationIsOnto
<1>2. PrerequisitesFirst(g, s)
  BY DEF Linearizations
<1>. HIDE DEF k
<1>3. places # {} /\ places \subseteq Nat
  BY <1>1 DEF Deadlocked
<1>4. PICK i \in places : \A j \in places : ~(<<j, i>> \in OpToRel(<, Nat))
  <2>. HIDE DEF places
  <2>. QED
    BY <1>3, NatLessThanWellFounded, WFMin
<1>5. i \in 1 .. k /\ s[i] \in T
  OBVIOUS
<1>6. PICK d \in g[s[i]] : d \in T
  BY <1>5 DEF Deadlocked
<1>7. PICK j \in 1 .. i - 1 : s[j] = d
  BY <1>1, <1>2, <1>5, <1>6 DEF PrerequisitesFirst
<1>8. j \in places /\ j < i /\ j \in Nat /\ i \in Nat
  BY <1>1, <1>5, <1>6, <1>7
<1>. QED
    BY <1>4, <1>8 DEF OpToRel

\* The resolver returns a linearization of the closure of what is asked for,
\* or there is none and it raises an error.
YieldsLinearization ==
    /\ verdict = "order" => result \in Linearizations(deps, Closure(deps, request))
    /\ verdict = "cycle" => Linearizations(deps, Closure(deps, request)) = {}

\* What BuildStage takes resolve_build_order to be is what the sort does, for
\* every iteration order of Python's sets.
THEOREM SortYieldsLinearization == Spec => []YieldsLinearization
<1>1. IInv => YieldsLinearization
  <2>. SUFFICES ASSUME IInv PROVE YieldsLinearization
    OBVIOUS
  <2>. DEFINE C == Closure(deps, request)
  <2>1. /\ deps \in [Node -> SUBSET Node] /\ result \in Seq(Node)
        /\ Members(result) \subseteq targets /\ targets \in SUBSET Node
        /\ Len(result) = Cardinality(Members(result)) /\ PrerequisitesFirst(deps, result)
    BY GraphAssumption DEF IInv, TypeOK, ResultInv
  <2>2. IsFiniteSet(targets)
    BY <2>1, NodeAssumption, FS_Subset
  <2>3. ASSUME verdict # "none"
        PROVE  /\ targets = C
               /\ verdict = "order" => Members(result) = targets
               /\ verdict = "cycle" => Deadlocked(deps, CycleNodes) /\ CycleNodes \subseteq targets
    <3>1. pc = "done" /\ queue = <<>> /\ releasing = {} /\ frontier = {}
      BY <2>3 DEF IInv, PhaseInv
    <3>2. targets = C
      BY <3>1, TargetsClosure
    <3>3. verdict = "order" <=> Members(result) = targets
      BY <3>1 DEF IInv, VerdictInv
    <3>4. verdict = "cycle" => Deadlocked(deps, CycleNodes) /\ CycleNodes \subseteq targets
      BY <3>1, <3>3, StuckNodes
    <3>. QED
        BY <3>2, <3>3, <3>4
  <2>4. ASSUME verdict = "order" PROVE result \in Linearizations(deps, targets)
    <3>1. Members(result) = targets /\ Len(result) = Cardinality(targets)
      BY <2>1, <2>3, <2>4
    <3>2. result \in [1 .. Cardinality(targets) -> targets]
      <4>1. result = [i \in 1 .. Len(result) |-> result[i]]
        BY <2>1
      <4>2. \A i \in 1 .. Len(result) : result[i] \in targets
        BY <3>1 DEF Members
      <4>. QED
          BY <3>1, <4>1, <4>2
    <3>3. NoRepeats(result)
      BY <2>1, CountedNoRepeats
    <3>. QED
        BY <2>1, <3>2, <3>3 DEF Linearizations
  <2>5. ASSUME verdict = "cycle" PROVE Linearizations(deps, targets) = {}
    BY <2>1, <2>2, <2>3, <2>5, DeadlockedHasNoOrder
  <2>. QED
    BY <2>3, <2>4, <2>5 DEF YieldsLinearization
<1>. QED
    BY <1>1, InductiveInvariant, PTL
=============================================================================
