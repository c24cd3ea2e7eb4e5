-------------------------- MODULE BuildStage_proofs --------------------------
(***************************************************************************)
(* Proofs that a build is coherent, honest and takes up only what is       *)
(* wanted, for every set of components, places they install to, graph,     *)
(* configuration and number of builds, whatever steps fail and wherever a  *)
(* build is killed.                                                        *)
(***************************************************************************)
EXTENDS BuildStage, FiniteSetTheorems, SequenceTheorems, TLAPS

-----------------------------------------------------------------------------
(***************************************************************************)
(* Build orders.                                                           *)
(***************************************************************************)

\* The last step is the only one that is called install (build.py:91-103).
LEMMA StepFacts ==
    /\ Len(Steps) = 4
    /\ \A i \in 1 .. 4 : Steps[i] = "install" <=> i = 4
BY DEF Steps

\* What a run orders are components of the closure of the request, which
\* contains the request (all_dependencies_of).
LEMMA ResolvedFacts ==
    ASSUME deps \in [Component -> SUBSET Component], NEW t \in Component \cup {NoTarget}
    PROVE  /\ Resolved(t) \subseteq Component
           /\ t # NoTarget => t \in Resolved(t)
BY DEF Resolved, Closure, Asked

\* A build order lists components of the closure, none twice, and nothing
\* that an earlier one depends on comes later; a lone target is alone.
LEMMA OrderFacts ==
    ASSUME deps \in [Component -> SUBSET Component], NEW t \in Component \cup {NoTarget},
           NEW w \in BOOLEAN, NEW s \in BuildOrders(t, w)
    PROVE  /\ s \in Seq(Component)
           /\ Len(s) \in Nat
           /\ \A i \in 1 .. Len(s) : s[i] \in Resolved(t) /\ s[i] \in Component
           /\ \A i, j \in 1 .. Len(s) : s[i] = s[j] => i = j
           /\ \A i, j \in 1 .. Len(s) : i < j => s[j] \notin deps[s[i]]
           /\ t # NoTarget /\ ~w => \A i \in 1 .. Len(s) : s[i] = t
<1>1. Resolved(t) \subseteq Component /\ (t # NoTarget => t \in Resolved(t))
  BY ResolvedFacts
<1>2. CASE t # NoTarget /\ ~w
  <2>1. s = <<t>> /\ t \in Component
    BY <1>2 DEF BuildOrders
  <2> QED BY <1>1, <1>2, <2>1
<1>3. CASE ~(t # NoTarget /\ ~w)
  <2> DEFINE R == Resolved(t)
  <2>1. /\ s \in [1 .. Cardinality(R) -> R]
        /\ NoRepeats(s) /\ PrerequisitesFirst(deps, s)
    BY <1>3 DEF BuildOrders, Linearizations
  <2>2. Cardinality(R) \in Nat
    BY <1>1, RecipeAssumption, FS_Subset, FS_CardinalityType
  <2>3. s \in Seq(R) /\ Len(s) = Cardinality(R)
    BY <2>1, <2>2
  <2>4. s \in Seq(Component)
    BY <1>1, <2>1, <2>2
  <2>5. \A i, j \in 1 .. Len(s) : s[i] = s[j] => i = j
    BY <2>1 DEF NoRepeats
  <2>6. ASSUME NEW i \in 1 .. Len(s), NEW j \in 1 .. Len(s), i < j, s[j] \in deps[s[i]]
        PROVE  FALSE
    <3>1. PICK k \in 1 .. i - 1 : s[k] = s[j]
      BY <2>1, <2>6 DEF PrerequisitesFirst
    <3> QED BY <2>2, <2>3, <2>5, <2>6, <3>1
  <2> QED BY <1>1, <1>3, <2>1, <2>2, <2>3, <2>4, <2>5, <2>6
<1> QED BY <1>2, <1>3

\* An order of a resolved request lists all of the closure, and the
\* prerequisites of each component before it.
LEMMA OrderIsComplete ==
    ASSUME deps \in [Component -> SUBSET Component], NEW t \in Component \cup {NoTarget},
           NEW w \in BOOLEAN, NEW s \in BuildOrders(t, w), ~(t # NoTarget /\ ~w)
    PROVE  /\ \A x \in Resolved(t) : \E j \in 1 .. Len(s) : s[j] = x
           /\ \A j \in 1 .. Len(s) : \A d \in deps[s[j]] : \E k \in 1 .. j - 1 : s[k] = d
<1> DEFINE R == Resolved(t)
           n == Cardinality(R)
           Listed == {s[i] : i \in 1 .. n}
<1>1. s \in [1 .. n -> R] /\ NoRepeats(s) /\ PrerequisitesFirst(deps, s)
  BY DEF BuildOrders, Linearizations
<1>2. IsFiniteSet(R) /\ n \in Nat
  BY ResolvedFacts, RecipeAssumption, FS_Subset, FS_CardinalityType
<1>3. Len(s) = n
  BY <1>1, <1>2
<1>4. IsFiniteSet(Listed) /\ Listed \subseteq R
  BY <1>1, <1>2, FS_Subset
<1>5. Cardinality(Listed) = n
  <2>1. s \in Bijection(1 .. n, Listed)
    BY <1>1, <1>3 DEF NoRepeats, Bijection, Injection, Surjection, IsInjective
  <2>2. IsFiniteSet(1 .. n) /\ Cardinality(1 .. n) = n
    BY <1>2, FS_Interval
  <2>3. ExistsBijection(1 .. n, Listed)
    BY <2>1 DEF ExistsBijection
  <2> QED BY <2>2, <2>3, FS_Bijection
<1>6. Listed = R
  BY <1>2, <1>4, <1>5, FS_Subset
<1> QED BY <1>1, <1>3, <1>6 DEF PrerequisitesFirst

-----------------------------------------------------------------------------
(***************************************************************************)
(* The inductive invariant.                                                *)
(***************************************************************************)

\* The components whose turn is over.
Handled == {order[i] : i \in 1 .. pos - 1}

\* An order is one that the request allows; before the loop nothing is done.
OrderInv ==
    /\ order # <<>> => order \in BuildOrders(target, withDeps)
    /\ pc # "idle" =>
          /\ order \in BuildOrders(target, withDeps) /\ outcome = "none"
          /\ Asked(target) \subseteq EnabledNames
    /\ pc = "refreshing" =>
          /\ target # NoTarget /\ step = 1
          /\ delivered = {} /\ failed = {}
          /\ progress = [c \in Component |-> 0]
    /\ delivered \subseteq Handled

\* While the loop runs, what it has handled has failed, or is complete and
\* delivered if it has to be; the others have not been begun.
LoopInv ==
    pc = "building" =>
        /\ failed \subseteq Handled
        /\ \A i \in 1 .. Len(order) :
              order[i] \in Recipe =>
                  /\ i < pos => \/ order[i] \in failed /\ progress[order[i]] < 4
                                \/ /\ order[i] \notin failed /\ progress[order[i]] = 4
                                   /\ Own(order[i]) # {} => order[i] \in delivered \cup MaySkip
                  /\ i = pos => progress[order[i]] = step - 1
                  /\ i > pos => progress[order[i]] = 0

\* A component whose turn came after that of c has disturbed part p.
Harmed(p, c) ==
    \E i, j \in 1 .. Len(order) :
        /\ i < j /\ order[i] = c
        /\ pc = "building" => j < pos
        /\ \/ p \in Cleared(order[j]) /\ progress[order[j]] >= 3
           \/ p \in Edited(order[j]) /\ progress[order[j]] = 3

\* While a component is being installed, it has not disturbed anything yet.
CoherentInv ==
    \A c \in delivered :
        /\ \A p \in Own(c) : sysroot[p] = "whole" \/ Harmed(p, c)
        /\ \A d \in deps[c] : <<c, d>> \notin stale

IInv == TypeOK /\ OrderInv /\ LoopInv /\ CoherentInv /\ VerdictIsHonest

\* The current component is one of the order and was not handled before, and
\* nothing that was handled depends on it.
LEMMA CurrentFacts ==
    ASSUME IInv, Building
    PROVE  /\ order \in Seq(Component) /\ Len(order) \in Nat
           /\ pos \in 1 .. Len(order) /\ Current = order[pos] /\ Current \in Component
           /\ Current \in Members(order) /\ Current \in Resolved(target)
           /\ target # NoTarget /\ ~withDeps => Current = target
           /\ Current \notin Handled
           /\ \A e \in Handled : Current \notin deps[e]
           /\ \A i \in 1 .. Len(order) : order[i] = Current => i = pos
           /\ \A i \in 1 .. Len(order) : order[i] \in Component
<1>1. /\ deps \in [Component -> SUBSET Component]
      /\ target \in Component \cup {NoTarget} /\ withDeps \in BOOLEAN
      /\ order \in BuildOrders(target, withDeps)
      /\ pos \in 1 .. Len(order)
  <2>1. order \in Seq(Component) /\ pos \in 1 .. Len(order) + 1 /\ pos <= Len(order)
    BY DEF IInv, TypeOK, Building
  <2>2. Len(order) \in Nat
    BY <2>1
  <2> QED BY <2>1, <2>2, GraphAssumption DEF IInv, TypeOK, OrderInv, Building
<1> QED BY <1>1, OrderFacts DEF Current, Members, Handled

\* What is in the closure of a request and was not asked for is a
\* prerequisite of something in the closure (all_dependencies_of).
LEMMA ClosureIsNeeded ==
    ASSUME deps \in [Component -> SUBSET Component], NEW t \in Component \cup {NoTarget},
           NEW c \in Resolved(t), c \notin Asked(t), Asked(t) \subseteq Component
    PROVE  \E x \in Resolved(t) : c \in deps[x]
<1> SUFFICES ASSUME \A x \in Resolved(t) : c \notin deps[x] PROVE FALSE
  OBVIOUS
<1> DEFINE Rest == Resolved(t) \ {c}
<1>1. Asked(t) \subseteq Rest /\ Rest \in SUBSET DOMAIN deps
  BY DEF Resolved, Closure
<1>2. Closed(deps, Rest)
  BY DEF Resolved, Closure, Closed
<1> QED BY <1>1, <1>2 DEF Resolved, Closure

\* Every component of an order is wanted.
LEMMA OrderedIsWanted ==
    ASSUME IInv, pc # "idle", pos <= Len(order)
    PROVE  Wanted(Current)
<1>1. /\ deps \in [Component -> SUBSET Component]
      /\ target \in Component \cup {NoTarget} /\ withDeps \in BOOLEAN
      /\ order \in BuildOrders(target, withDeps)
      /\ Asked(target) \subseteq EnabledNames /\ EnabledNames \subseteq Component
      /\ order \in Seq(Component) /\ Len(order) \in Nat /\ pos \in 1 .. Len(order)
  <2>1. /\ order \in Seq(Component) /\ pos \in 1 .. Len(order) + 1
        /\ config \in [enabled : SUBSET Component, exclude : SUBSET Component]
    BY ConfigAssumption DEF IInv, TypeOK
  <2>2. Len(order) \in Nat /\ EnabledNames \subseteq Component
    BY <2>1 DEF EnabledNames
  <2> QED BY <2>1, <2>2, GraphAssumption DEF IInv, TypeOK, OrderInv
<1>2. /\ Current = order[pos] /\ Current \in Resolved(target)
      /\ \A i \in 1 .. Len(order) : order[i] \in Resolved(target)
      /\ \A i, j \in 1 .. Len(order) : order[i] = order[j] => i = j
      /\ \A i, j \in 1 .. Len(order) : i < j => order[j] \notin deps[order[i]]
      /\ target # NoTarget /\ ~withDeps => Current = target
  BY <1>1, OrderFacts DEF Current
<1>3. CASE Current \in Asked(target)
  BY <1>1, <1>3 DEF Wanted
<1>4. CASE Current \notin Asked(target)
  <2>1. PICK x \in Resolved(target) : Current \in deps[x]
    BY <1>1, <1>2, <1>4, ClosureIsNeeded
  <2>2. PICK j \in 1 .. Len(order) : order[j] = x
    BY <1>1, <1>2, <1>4, OrderIsComplete DEF Asked
  <2>3. \A d \in deps[order[j]] : \E k \in 1 .. j - 1 : order[k] = d
    BY <1>1, <1>2, <1>4, OrderIsComplete DEF Asked
  <2>4. PICK k \in 1 .. j - 1 : order[k] = Current
    BY <2>1, <2>2, <2>3
  <2> QED BY <1>1, <2>1, <2>2, <2>4 DEF Wanted
<1> QED BY <1>3, <1>4

-----------------------------------------------------------------------------
(***************************************************************************)
(* Each action keeps the invariant.                                        *)
(***************************************************************************)

\* The invariant holds before the first run.
LEMMA InitInv == ASSUME Init PROVE IInv
<1> USE DEF Init
<1>1. TypeOK
  <2>1. order \in Seq(Component) /\ pos \in 1 .. Len(order) + 1 /\ step \in 1 .. Len(Steps)
    BY StepFacts, EmptySeq
  <2>2. progress \in [Component -> 0 .. Len(Steps)]
    BY StepFacts
  <2>3. /\ runs \in 0 .. MaxRuns /\ checkout \in [Component -> CheckoutState]
        /\ sysroot \in [Part -> {"absent", "whole", "torn"}]
    BY RecipeAssumption, ConfigAssumption
  <2> QED BY <2>1, <2>2, <2>3 DEF TypeOK
<1>2. OrderInv /\ LoopInv /\ CoherentInv /\ VerdictIsHonest
  BY DEF OrderInv, LoopInv, CoherentInv, VerdictIsHonest, Handled
<1> QED BY <1>1, <1>2 DEF IInv

\* A run begins (build.py:27-68): earlier ones are forgotten.
LEMMA StartKeepsInv ==
    ASSUME IInv, NEW t \in Component \cup {NoTarget}, NEW w \in BOOLEAN,
           NothingEnabled(t, w) \/ Refuse(t, w) \/ Begin(t, w)
    PROVE  IInv'
<1> USE DEF Start, inputs, disk
<1>1. CASE NothingEnabled(t, w) \/ Refuse(t, w)
  <2> USE <1>1 DEF NothingEnabled, Refuse
  <2>1. TypeOK'
    <3>1. order' \in Seq(Component) /\ pos' \in 1 .. Len(order') + 1 /\ step' \in 1 .. Len(Steps)
      <4>1. order' = <<>> /\ pos' = 1 /\ step' = 1
        OBVIOUS
      <4> QED BY <4>1, StepFacts, EmptySeq
    <3>2. progress' \in [Component -> 0 .. Len(Steps)] /\ runs' \in 0 .. MaxRuns
      BY StepFacts, RecipeAssumption DEF IInv, TypeOK
    <3> QED BY <3>1, <3>2 DEF IInv, TypeOK
  <2>2. OrderInv' /\ LoopInv' /\ CoherentInv'
    BY DEF IInv, OrderInv, LoopInv, CoherentInv, Handled
  <2>3. VerdictIsHonest'
    BY DEF VerdictIsHonest, Members
  <2> QED BY <2>1, <2>2, <2>3 DEF IInv
<1>2. CASE Begin(t, w)
  <2> USE <1>2 DEF Begin
  <2>1. /\ deps' = deps /\ deps \in [Component -> SUBSET Component]
        /\ order' \in BuildOrders(t, w)
    BY GraphAssumption DEF IInv, TypeOK
  <2>2. order' \in BuildOrders(target, withDeps)'
    BY <2>1 DEF BuildOrders, Resolved, Asked, EnabledNames
  <2>3. order' \in Seq(Component) /\ Len(order') \in Nat
    BY <2>1, OrderFacts
  <2>4. TypeOK'
    <3>1. pos' \in 1 .. Len(order') + 1 /\ step' \in 1 .. Len(Steps)
      BY <2>3, StepFacts
    <3>2. progress' \in [Component -> 0 .. Len(Steps)] /\ runs' \in 0 .. MaxRuns
      BY StepFacts, RecipeAssumption DEF IInv, TypeOK
    <3> QED BY <2>3, <3>1, <3>2 DEF IInv, TypeOK
  <2>5. (Asked(target) \subseteq EnabledNames)'
    BY DEF Refused, Asked, EnabledNames
  <2>6. OrderInv'
    <3>1. delivered' = {} /\ failed' = {} /\ progress' = [c \in Component |-> 0] /\ step' = 1
          /\ target' = t /\ outcome' = "none" /\ (pc' = "refreshing" => t # NoTarget)
      OBVIOUS
    <3> QED BY <2>2, <2>5, <3>1 DEF OrderInv
  <2>7. CoherentInv'
    BY DEF CoherentInv
  <2>8. \A i \in 1 .. Len(order') : order'[i] \in Component
    BY <2>1, OrderFacts
  <2>9. LoopInv'
    BY <2>3, <2>8 DEF LoopInv
  <2>10. VerdictIsHonest'
    BY DEF VerdictIsHonest
  <2> QED BY <2>4, <2>6, <2>7, <2>9, <2>10 DEF IInv
<1> QED BY <1>1, <1>2

\* The update check and the turn to the loop change nothing the invariant is
\* about (build.py:70-76, 115-150).
LEMMA RefreshKeepsInv ==
    ASSUME IInv, Refresh \/ StartBuilding
    PROVE  IInv'
<1> USE DEF inputs, request
<1>1. /\ order \in Seq(Component) /\ Len(order) \in Nat
      /\ \A i \in 1 .. Len(order) : order[i] \in Component
  BY DEF IInv, TypeOK
<1>2. CASE Refresh
  <2> USE <1>2 DEF Refresh
  <2>1. TypeOK'
    <3>1. checkout' \in [Component -> CheckoutState]
      BY DEF IInv, TypeOK, CheckoutState
    <3>2. pos' \in 1 .. Len(order') + 1
      BY <1>1 DEF IInv, TypeOK
    <3> QED BY <3>1, <3>2 DEF IInv, TypeOK
  <2>2. OrderInv'
    <3>1. delivered' = {} /\ delivered' \subseteq Handled'
      BY DEF IInv, OrderInv
    <3> QED BY <3>1 DEF IInv, OrderInv, BuildOrders, Resolved, Asked, EnabledNames
  <2>3. LoopInv' /\ CoherentInv'
    BY DEF IInv, OrderInv, LoopInv, CoherentInv
  <2>4. VerdictIsHonest'
    BY DEF IInv, OrderInv, VerdictIsHonest
  <2> QED BY <2>1, <2>2, <2>3, <2>4 DEF IInv
<1>3. CASE StartBuilding
  <2> USE <1>3 DEF StartBuilding, disk
  <2>1. TypeOK'
    <3>1. pos' \in 1 .. Len(order') + 1
      BY <1>1
    <3> QED BY <3>1 DEF IInv, TypeOK
  <2>2. OrderInv'
    BY DEF IInv, OrderInv, Handled, BuildOrders, Resolved, Asked, EnabledNames
  <2>3. LoopInv'
    BY <1>1 DEF IInv, OrderInv, LoopInv, Handled
  <2>4. CoherentInv' /\ VerdictIsHonest'
    BY DEF IInv, OrderInv, CoherentInv, VerdictIsHonest
  <2> QED BY <2>1, <2>2, <2>3, <2>4 DEF IInv
<1> QED BY <1>2, <1>3

\* As long as nothing is changed in the sysroot, it stays coherent.
LEMMA UntouchedIsCoherent ==
    ASSUME CoherentInv, UNCHANGED <<deps, order, sysroot, stale, delivered>>,
           \A i \in 1 .. Len(order) :
              (pc = "building" => i < pos) =>
                  /\ progress'[order[i]] = progress[order[i]]
                  /\ pc' = "building" => i < pos'
    PROVE  CoherentInv'
<1>1. ASSUME NEW p, NEW c, Harmed(p, c) PROVE Harmed(p, c)'
  <2>1. PICK i, j \in 1 .. Len(order) :
            /\ i < j /\ order[i] = c
            /\ pc = "building" => j < pos
            /\ \/ p \in Cleared(order[j]) /\ progress[order[j]] >= 3
               \/ p \in Edited(order[j]) /\ progress[order[j]] = 3
    BY <1>1 DEF Harmed
  <2>2. progress'[order[j]] = progress[order[j]] /\ (pc' = "building" => j < pos')
    BY <2>1
  <2> QED BY <2>1, <2>2 DEF Harmed, Cleared, Edited
<1> QED BY <1>1 DEF CoherentInv, Own

\* What becomes of the sysroot when the current component's turn ends, or the
\* process dies in it.
Changes ==
    /\ UNCHANGED <<deps, order>>
    /\ \/ pc' = "building" /\ pos' = pos + 1
       \/ pc' = "idle"
    /\ \A c \in Component \ {Current} : progress'[c] = progress[c]
    /\ \/ UNCHANGED <<sysroot, stale>> /\ delivered' = delivered
       \/ /\ Tear(Current) /\ progress'[Current] = 3
          /\ delivered' = delivered
       \/ /\ Replace(Current) /\ progress'[Current] = 4
          /\ delivered' = delivered \cup {Current}
          /\ Own(Current) # {}

\* An install changes files of its own and those that it disturbs, and what
\* it makes stale is not anything that was handled before.
LEMMA InstallFacts ==
    ASSUME IInv, Building, Tear(Current) \/ (Replace(Current) /\ Own(Current) # {})
    PROVE  /\ sysroot' \in [Part -> {"absent", "whole", "torn"}]
           /\ stale' \in SUBSET (Component \X Component)
           /\ \A p \in Part : \/ sysroot'[p] = sysroot[p]
                              \/ p \in Own(Current) \cup Cleared(Current)
                              \/ p \in Edited(Current) /\ Tear(Current)
           /\ \A e \in Handled : \A d \in deps[e] : <<e, d>> \in stale' => <<e, d>> \in stale
<1>1. /\ Current \in Component /\ sysroot \in [Part -> {"absent", "whole", "torn"}]
      /\ stale \in SUBSET (Component \X Component)
      /\ \A e \in Handled : Current \notin deps[e]
  BY CurrentFacts DEF IInv, TypeOK
<1>2. Copied(Current) \in [Part -> {"absent", "whole", "torn"}]
  BY <1>1 DEF Copied
<1>3. /\ Outdated(Current) \subseteq Component \X Component
      /\ \A e \in Handled : \A d \in deps[e] : <<e, d>> \notin Outdated(Current)
  BY <1>1 DEF Outdated
<1>4. \A p \in Part \ (Own(Current) \cup Cleared(Current)) : Copied(Current)[p] = sysroot[p]
  BY DEF Copied
<1>5. CASE Replace(Current) /\ Own(Current) # {}
  BY <1>1, <1>2, <1>3, <1>4, <1>5 DEF Replace
<1>6. CASE TearCopy(Current)
  <2>1. PICK hit \in SUBSET (Own(Current) \cup {p \in Cleared(Current) : sysroot[p] # "absent"}) :
            /\ sysroot' = [p \in Part |-> IF p \in hit THEN "torn" ELSE sysroot[p]]
            /\ stale' = IF hit \cap Own(Current) = {} THEN stale ELSE stale \cup Outdated(Current)
    BY <1>6 DEF TearCopy
  <2> QED BY <1>1, <1>3, <2>1
<1>7. CASE TearEdit(Current)
  <2>1. PICK q \in Edited(Current) :
            /\ sysroot' = [Copied(Current) EXCEPT ![q] = "torn"]
            /\ stale' = {r \in stale : r[1] # Current} \cup Outdated(Current)
    BY <1>7 DEF TearEdit
  <2> QED BY <1>1, <1>2, <1>3, <1>4, <1>7, <2>1 DEF Tear
<1> QED BY <1>5, <1>6, <1>7 DEF Tear

\* What the loop changes in the sysroot leaves what was delivered coherent:
\* nothing that was handled depends on the current component.
LEMMA ChangesAreCoherent ==
    ASSUME IInv, Building, Changes
    PROVE  /\ CoherentInv'
           /\ sysroot' \in [Part -> {"absent", "whole", "torn"}]
           /\ stale' \in SUBSET (Component \X Component)
<1> USE DEF Changes
<1>1. /\ Current \in Component /\ Current = order[pos]
      /\ order \in Seq(Component) /\ Len(order) \in Nat /\ pos \in 1 .. Len(order)
      /\ \A i \in 1 .. Len(order) : order[i] \in Component /\ (order[i] = Current => i = pos)
      /\ delivered \subseteq Handled /\ Current \notin Handled
      /\ \A c \in Component : Own(c) \subseteq Part
      /\ pc = "building"
  BY CurrentFacts, InstallAssumption DEF IInv, OrderInv, Own, Part, Building
<1>2. /\ sysroot' \in [Part -> {"absent", "whole", "torn"}]
      /\ stale' \in SUBSET (Component \X Component)
  BY InstallFacts DEF IInv, TypeOK
<1>3. ASSUME NEW c \in delivered, NEW p \in Own(c)
      PROVE  sysroot'[p] = "whole" \/ Harmed(p, c)'
  <2>1. PICK i \in 1 .. pos - 1 : order[i] = c
    BY <1>1 DEF Handled
  <2>2. c \in Component /\ c # Current /\ p \in Part /\ p \notin Own(Current)
    BY <1>1, <2>1 DEF Own
  <2>3. CASE Harmed(p, c)
    <3>1. PICK k, j \in 1 .. Len(order) :
              /\ k < j /\ order[k] = c /\ j < pos
              /\ \/ p \in Cleared(order[j]) /\ progress[order[j]] >= 3
                 \/ p \in Edited(order[j]) /\ progress[order[j]] = 3
      BY <1>1, <2>3 DEF Harmed
    <3>2. order[j] \in Component \ {Current}
      BY <1>1, <3>1
    <3>3. progress'[order[j]] = progress[order[j]] /\ (pc' = "building" => j < pos')
      BY <1>1, <3>1, <3>2
    <3> QED BY <3>1, <3>3 DEF Harmed, Cleared, Edited
  <2>4. CASE sysroot[p] = "whole" /\ sysroot'[p] # "whole"
    <3>1. \/ p \in Cleared(Current) /\ progress'[Current] >= 3
          \/ p \in Edited(Current) /\ progress'[Current] = 3
      BY <2>2, <2>4, InstallFacts DEF Replace, Copied
    <3>2. i < pos /\ (pc' = "building" => pos < pos') /\ i \in 1 .. Len(order)
      BY <1>1, <2>1
    <3> QED BY <1>1, <2>1, <3>1, <3>2 DEF Harmed, Cleared, Edited
  <2> QED BY <2>3, <2>4 DEF IInv, CoherentInv
<1>4. \A c \in delivered : \A d \in deps[c] : <<c, d>> \notin stale'
  BY <1>1, InstallFacts DEF IInv, CoherentInv
<1>5. ASSUME Replace(Current), Own(Current) # {}
      PROVE  /\ \A p \in Own(Current) : sysroot'[p] = "whole"
             /\ \A d \in deps[Current] : <<Current, d>> \notin stale'
  <2>1. \A p \in Own(Current) : sysroot'[p] = "whole"
    BY <1>1, <1>5 DEF Replace, Copied
  <2>2. \A d : <<Current, d>> \notin Outdated(Current)
    BY DEF Outdated
  <2> QED BY <1>5, <2>1, <2>2 DEF Replace
<1>6. CoherentInv'
  BY <1>3, <1>4, <1>5 DEF CoherentInv, Own
<1> QED BY <1>2, <1>6

\* A turn that is over leaves the current component failed, or complete and
\* delivered if it has to be; the others are as they were.
TurnEnds ==
    /\ NextComponent
    /\ \A c \in Component \ {Current} : progress'[c] = progress[c] /\ (c \in failed' <=> c \in failed)
    /\ failed' \subseteq failed \cup {Current}
    /\ delivered \subseteq delivered' /\ delivered' \subseteq delivered \cup {Current}
    /\ Current \in Recipe =>
           \/ Current \in failed' /\ progress'[Current] < 4
           \/ /\ Current \notin failed' /\ progress'[Current] = 4
              /\ Own(Current) # {} => Current \in delivered' \cup MaySkip
    /\ UNCHANGED <<inputs, request, pc, order, outcome>>

\* The end of a turn keeps what is known of the loop (build.py:79-108).
LEMMA TurnKeepsLoop ==
    ASSUME IInv, Building, TurnEnds
    PROVE  /\ OrderInv' /\ LoopInv' /\ VerdictIsHonest'
           /\ pos' \in 1 .. Len(order') + 1 /\ step' \in 1 .. Len(Steps)
<1> USE DEF TurnEnds, NextComponent, inputs, request, Building
<1>1. /\ order \in Seq(Component) /\ Len(order) \in Nat
      /\ pos \in 1 .. Len(order) /\ Current = order[pos]
      /\ \A i \in 1 .. Len(order) : order[i] = Current => i = pos
      /\ \A i \in 1 .. Len(order) : order[i] \in Component
  BY CurrentFacts
<1>2. Handled' = Handled \cup {Current}
  BY <1>1 DEF Handled
<1>3. OrderInv'
  BY <1>2 DEF IInv, OrderInv, BuildOrders, Resolved, Asked, EnabledNames
<1>4. LoopInv'
  <2>1. failed' \subseteq Handled'
    BY <1>2 DEF IInv, LoopInv
  <2>2. ASSUME NEW i \in 1 .. Len(order), order[i] \in Recipe
        PROVE  /\ i < pos' => \/ order[i] \in failed' /\ progress'[order[i]] < 4
                              \/ /\ order[i] \notin failed' /\ progress'[order[i]] = 4
                                 /\ Own(order[i]) # {} => order[i] \in delivered' \cup MaySkip
               /\ i = pos' => progress'[order[i]] = step' - 1
               /\ i > pos' => progress'[order[i]] = 0
    <3>1. CASE i = pos
      BY <1>1, <2>2, <3>1
    <3>2. CASE i # pos
      <4>1. order[i] \in Component \ {Current}
        BY <1>1, <3>2
      <4> QED BY <1>1, <2>2, <3>2, <4>1 DEF IInv, LoopInv
    <3> QED BY <3>1, <3>2
  <2> QED BY <2>1, <2>2 DEF LoopInv
<1>5. VerdictIsHonest'
  BY DEF IInv, OrderInv, VerdictIsHonest
<1> QED BY <1>1, <1>3, <1>4, <1>5, StepFacts

\* The turn of one component (build.py:79-108).
LEMMA TurnKeepsInv ==
    ASSUME IInv, SkipUnknown \/ Install \/ Raise
    PROVE  IInv'
<1> USE DEF inputs, request, disk
<1>1. Building
  BY DEF SkipUnknown, Install, Raise
<1>2. /\ progress \in [Component -> 0 .. 4] /\ step \in 1 .. 4
      /\ Current \in Component /\ Len(order) \in Nat
      /\ Current \notin failed
      /\ pos \in 1 .. Len(order) /\ Current = order[pos]
      /\ Current \in Recipe => progress[Current] = step - 1
  <2>1. /\ Current \in Component /\ Len(order) \in Nat /\ pos \in 1 .. Len(order)
        /\ Current = order[pos] /\ Current \notin Handled
    BY <1>1, CurrentFacts
  <2> QED BY <1>1, <2>1, StepFacts DEF IInv, TypeOK, LoopInv, Building
<1>3. CASE SkipUnknown
  <2> USE <1>3 DEF SkipUnknown
  <2>1. TurnEnds
    BY <1>2 DEF TurnEnds
  <2>2. CoherentInv'
    BY <1>1, <1>2, UntouchedIsCoherent DEF NextComponent, Building, IInv
  <2> QED BY <1>1, <2>1, <2>2, TurnKeepsLoop DEF IInv, TypeOK
<1>4. CASE Install
  <2> USE <1>4 DEF Install
  <2>1. TurnEnds
    BY <1>1, <1>2, StepFacts DEF TurnEnds
  <2>2. /\ CoherentInv'
        /\ sysroot' \in [Part -> {"absent", "whole", "torn"}]
        /\ stale' \in SUBSET (Component \X Component)
    BY <1>1, <1>2, StepFacts, ChangesAreCoherent DEF Changes, NextComponent, Building
  <2>3. progress' \in [Component -> 0 .. Len(Steps)]
    BY <1>2, StepFacts DEF IInv, TypeOK
  <2>4. delivered' \in SUBSET {c \in Recipe : InstallsTo[c] # {}}
    BY DEF IInv, TypeOK, Own
  <2> QED BY <1>1, <2>1, <2>2, <2>3, <2>4, TurnKeepsLoop DEF IInv, TypeOK
<1>5. CASE Raise
  <2> USE <1>5 DEF Raise
  <2>1. TurnEnds
    BY <1>1, <1>2 DEF TurnEnds
  <2>2. /\ CoherentInv'
        /\ sysroot' \in [Part -> {"absent", "whole", "torn"}]
        /\ stale' \in SUBSET (Component \X Component)
    BY <1>1, <1>2, StepFacts, ChangesAreCoherent DEF Changes, NextComponent, Building
  <2>3. failed' \in SUBSET Recipe
    BY DEF IInv, TypeOK
  <2> QED BY <1>1, <2>1, <2>2, <2>3, TurnKeepsLoop DEF IInv, TypeOK
<1> QED BY <1>3, <1>4, <1>5

\* fetch, configure or build returns (build.py:91-103).
LEMMA AdvanceKeepsInv == ASSUME IInv, Advance PROVE IInv'
<1> USE DEF Advance, inputs, request, disk
<1>1. /\ progress \in [Component -> 0 .. 4] /\ step \in 1 .. 3 /\ Len(Steps) = 4
      /\ Current \in Component /\ Building
      /\ \A i \in 1 .. Len(order) : order[i] = Current <=> i = pos
      /\ \A i \in 1 .. Len(order) : order[i] \in Component
      /\ Len(order) \in Nat /\ pos \in 1 .. Len(order)
  BY CurrentFacts, StepFacts DEF IInv, TypeOK
<1>2. TypeOK'
  <2>1. progress' \in [Component -> 0 .. Len(Steps)] /\ step' \in 1 .. Len(Steps)
    BY <1>1
  <2> QED BY <2>1 DEF IInv, TypeOK
<1>3. OrderInv'
  BY <1>1 DEF IInv, OrderInv, Handled, Building, BuildOrders, Resolved, Asked, EnabledNames
<1>4. LoopInv'
  <2>1. ASSUME NEW i \in 1 .. Len(order), order[i] \in Recipe
        PROVE  /\ i < pos => progress'[order[i]] = progress[order[i]]
               /\ i = pos => progress'[order[i]] = step' - 1
               /\ i > pos => progress'[order[i]] = progress[order[i]]
    <3>1. CASE i = pos
      BY <1>1, <3>1
    <3>2. CASE i # pos
      <4>1. order[i] \in Component \ {Current}
        BY <1>1, <3>2
      <4> QED BY <1>1, <3>2, <4>1
    <3> QED BY <3>1, <3>2
  <2> QED BY <2>1 DEF IInv, LoopInv, Handled, Building
<1>5. CoherentInv'
  <2>1. \A i \in 1 .. Len(order) : i < pos => progress'[order[i]] = progress[order[i]]
    <3> SUFFICES ASSUME NEW i \in 1 .. Len(order), i < pos
                 PROVE  progress'[order[i]] = progress[order[i]]
      OBVIOUS
    <3>1. order[i] \in Component \ {Current}
      BY <1>1
    <3> QED BY <1>1, <3>1
  <2> QED BY <1>1, <2>1, UntouchedIsCoherent DEF Building, IInv
<1>6. VerdictIsHonest'
  BY <1>1 DEF IInv, OrderInv, VerdictIsHonest, Building
<1> QED BY <1>2, <1>3, <1>4, <1>5, <1>6 DEF IInv

\* The verdict is given when every component has had its turn
\* (build.py:110-113); a killed run gives none.
LEMMA EndKeepsInv == ASSUME IInv, Finish \/ Kill PROVE IInv'
<1> USE DEF inputs, request, disk
<1>1. /\ order \in Seq(Component) /\ Len(order) \in Nat /\ pos \in 1 .. Len(order) + 1
      /\ pc # "idle" /\ outcome = "none"
  BY DEF IInv, TypeOK, OrderInv, Finish, Kill
<1>2. OrderInv' /\ LoopInv'
  <2>1. UNCHANGED <<inputs, request, order, pos, delivered>> /\ pc' = "idle"
    BY DEF Finish, Kill
  <2> QED BY <1>1, <2>1 DEF IInv, OrderInv, LoopInv, Handled, BuildOrders, Resolved, Asked, EnabledNames
<1>3. CASE Finish
  <2> USE <1>3 DEF Finish
  <2>1. TypeOK' /\ CoherentInv'
    BY UntouchedIsCoherent DEF IInv, TypeOK
  <2>2. /\ failed \subseteq Members(order) \cap Recipe
        /\ \A c \in Members(order) \cap Recipe :
              \/ c \in failed /\ progress[c] < 4
              \/ c \notin failed /\ progress[c] = 4 /\ (Own(c) # {} => c \in delivered \cup MaySkip)
    <3>1. /\ failed \subseteq Recipe /\ failed \subseteq Handled /\ pos > Len(order)
          /\ \A i \in 1 .. Len(order) :
                order[i] \in Recipe =>
                    \/ order[i] \in failed /\ progress[order[i]] < 4
                    \/ /\ order[i] \notin failed /\ progress[order[i]] = 4
                       /\ Own(order[i]) # {} => order[i] \in delivered \cup MaySkip
      <4>1. \A i \in 1 .. Len(order) : i < pos
        BY <1>1
      <4> QED BY <4>1 DEF IInv, TypeOK, LoopInv
    <3> QED BY <1>1, <3>1 DEF Members, Handled
  <2>3. ASSUME NEW c \in Component, InstallsTo[c] # {} PROVE Own(c) # {}
    <3>1. PICK place : place \in InstallsTo[c]
      BY <2>3
    <3>2. <<c, place>> \in Own(c)
      BY <3>1 DEF Own
    <3> QED BY <3>2
  <2>4. VerdictIsHonest'
    <3>1. UNCHANGED <<order, progress, delivered>> /\ Recipe \subseteq Component
      BY RecipeAssumption
    <3>2. CASE failed = {}
      BY <2>2, <2>3, <3>1, <3>2, StepFacts DEF VerdictIsHonest, Members
    <3>3. CASE failed # {}
      BY <2>2, <3>1, <3>3, StepFacts DEF VerdictIsHonest, Members
    <3> QED BY <3>2, <3>3
  <2> QED BY <1>2, <2>1, <2>4 DEF IInv
<1>4. CASE Kill
  <2> USE <1>4 DEF Kill
  <2>1. CASE UNCHANGED <<sysroot, stale>>
    BY <1>2, <2>1, UntouchedIsCoherent DEF IInv, TypeOK, VerdictIsHonest
  <2>2. CASE Building /\ Current \in Recipe /\ Steps[step] = "install" /\ Tear(Current)
    <3>1. /\ CoherentInv'
          /\ sysroot' \in [Part -> {"absent", "whole", "torn"}]
          /\ stale' \in SUBSET (Component \X Component)
      <4>1. progress[Current] = 3
        <5>1. step = 4 /\ pos \in 1 .. Len(order) /\ Current = order[pos]
          BY <2>2, CurrentFacts, StepFacts DEF IInv, TypeOK
        <5> QED BY <2>2, <5>1 DEF IInv, LoopInv, Building
      <4> QED BY <2>2, <4>1, ChangesAreCoherent DEF Changes
    <3> QED BY <1>2, <3>1 DEF IInv, TypeOK, VerdictIsHonest
  <2> QED BY <2>1, <2>2
<1> QED BY <1>3, <1>4

-----------------------------------------------------------------------------
(***************************************************************************)
(* Theorems.                                                               *)
(***************************************************************************)

\* The invariant holds in every reachable state of BuildStage.run.
THEOREM InductiveInvariant == Spec => []IInv
<1>1. Init => IInv
  BY InitInv
<1>2. IInv /\ [Next]_vars => IInv'
  <2> SUFFICES ASSUME IInv, [Next]_vars PROVE IInv'
    OBVIOUS
  <2>1. CASE UNCHANGED vars
    <3>1. UNCHANGED <<deps, config, target, withDeps, runs, pc, order, pos, step, failed, outcome,
                      progress, delivered, checkout, sysroot, stale>>
      BY <2>1 DEF vars, inputs, request, disk
    <3>2. TypeOK' /\ VerdictIsHonest'
      BY <3>1 DEF IInv, TypeOK, VerdictIsHonest
    <3>3. OrderInv'
      <4>1. /\ BuildOrders(target, withDeps)' = BuildOrders(target, withDeps)
            /\ EnabledNames' = EnabledNames /\ Asked(target)' = Asked(target) /\ Handled' = Handled
        BY <3>1 DEF BuildOrders, Resolved, Asked, EnabledNames, Handled
      <4> QED BY <3>1, <4>1 DEF IInv, OrderInv
    <3>4. LoopInv'
      BY <3>1 DEF IInv, LoopInv, Handled
    <3>5. CoherentInv'
      BY <3>1 DEF IInv, CoherentInv, Harmed, Own, Cleared, Edited
    <3> QED BY <3>2, <3>3, <3>4, <3>5 DEF IInv
  <2>2. ASSUME NEW t \in Component \cup {NoTarget}, NEW w \in BOOLEAN,
               NothingEnabled(t, w) \/ Refuse(t, w) \/ Begin(t, w)
        PROVE  IInv'
    BY <2>2, StartKeepsInv
  <2>3. CASE Run
    BY <2>3, RefreshKeepsInv, TurnKeepsInv, AdvanceKeepsInv, EndKeepsInv DEF Run
  <2>4. CASE Kill
    BY <2>4, EndKeepsInv
  <2> QED BY <2>1, <2>2, <2>3, <2>4 DEF Next
<1> QED BY <1>1, <1>2, PTL DEF Spec

\* The variables of the build stage keep their types.
THEOREM TypeCorrect == Spec => []TypeOK
<1>1. IInv => TypeOK
  BY DEF IInv
<1> QED BY <1>1, InductiveInvariant, PTL

\* What a run delivered stays whole, but for what a later component replaced
\* with a directory or left half rewritten, and fits the prerequisites in the
\* sysroot, although later ones fail or are torn (build.py:79-108).
THEOREM DeliveredStayCoherent == Spec => []DeliveredAreCoherent
<1>1. IInv => DeliveredAreCoherent
  BY DEF IInv, CoherentInv, DeliveredAreCoherent, Harmed, Disturbed
<1> QED BY <1>1, InductiveInvariant, PTL

\* The verdict of a build says what happened to its components (build.py:110-113).
THEOREM VerdictsAreHonest == Spec => []VerdictIsHonest
<1>1. IInv => VerdictIsHonest
  BY DEF IInv
<1> QED BY <1>1, InductiveInvariant, PTL

\* A component that was not asked for is taken up only as the prerequisite of
\* one that comes later in the order (build.py:27-68).
THEOREM OnlyTheWantedIsTouched == Spec => OnlyWantedAreTouched
<1> DEFINE Touches ==
       \A c \in Component :
          \/ progress'[c] > progress[c]
          \/ c \in (failed' \ failed) \cup (delivered' \ delivered)
          \/ checkout'[c] # checkout[c]
          => Wanted(c)
<1>1. ASSUME IInv, Next PROVE Touches
  <2>1. CASE Refresh
    <3>1. pos <= Len(order) /\ pc = "refreshing"
      BY <2>1 DEF Refresh
    <3>2. Wanted(Current)
      BY <1>1, <3>1, OrderedIsWanted
    <3>3. /\ progress' = progress /\ failed' = failed /\ delivered' = delivered
          /\ \A c \in Component : checkout'[c] # checkout[c] => c = Current
      BY <1>1, <2>1 DEF IInv, TypeOK, Refresh
    <3>4. \A c \in Component : ~(progress'[c] > progress[c])
      BY <1>1, <3>3, StepFacts DEF IInv, TypeOK
    <3> QED BY <3>2, <3>3, <3>4
  <2>2. CASE Advance \/ Install \/ Raise
    <3>1. pos <= Len(order) /\ pc = "building"
      BY <2>2 DEF Advance, Install, Raise, Building
    <3>2. Wanted(Current)
      BY <1>1, <3>1, OrderedIsWanted
    <3>3. progress \in [Component -> Nat]
      BY <1>1, StepFacts DEF IInv, TypeOK
    <3>4. \A c \in Component \ {Current} : progress'[c] = progress[c]
      BY <2>2, <3>3 DEF Advance, Install, Raise
    <3>5. failed' \subseteq failed \cup {Current} /\ delivered' \subseteq delivered \cup {Current}
          /\ checkout' = checkout
      BY <2>2 DEF Advance, Install, Raise, disk
    <3>6. ASSUME NEW c \in Component \ {Current} PROVE ~(progress'[c] > progress[c])
      <4>1. progress'[c] = progress[c] /\ progress[c] \in Nat
        BY <3>3, <3>4
      <4> QED BY <4>1
    <3> QED BY <3>2, <3>5, <3>6
  <2>3. CASE UNCHANGED <<progress, failed, delivered, checkout>>
    <3>1. \A c \in Component : ~(progress[c] > progress[c])
      BY <1>1, StepFacts DEF IInv, TypeOK
    <3> QED BY <2>3, <3>1
  <2>4. CASE \E t \in Component \cup {NoTarget}, w \in BOOLEAN : Start(t, w)
    <3>1. /\ failed' = {} /\ delivered' = {} /\ checkout' = checkout
          /\ progress' = [c \in Component |-> 0]
      BY <2>4 DEF Start, disk
    <3>2. progress \in [Component -> 0 .. 4]
      BY <1>1, StepFacts DEF IInv, TypeOK
    <3>3. \A c \in Component : progress[c] \in 0 .. 4 /\ progress'[c] = 0
      BY <3>1, <3>2
    <3>4. \A c \in Component : ~(progress'[c] > progress[c])
      BY <3>3
    <3> QED BY <3>1, <3>4
  <2> QED BY <1>1, <2>1, <2>2, <2>3, <2>4
          DEF Next, Run, NothingEnabled, Refuse, Begin, StartBuilding, SkipUnknown, Finish, Kill, disk
<1>2. IInv /\ [Next]_vars => [Touches]_vars
  BY <1>1
<1>3. Spec => [][Touches]_vars
  BY <1>2, InductiveInvariant, PTL DEF Spec
<1> QED BY <1>3 DEF OnlyWantedAreTouched
=============================================================================
