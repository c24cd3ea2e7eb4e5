----------------------------- MODULE BuildStage -----------------------------
(***************************************************************************)
(* BuildStage.run (src/stages/build.py), one `baker build` or `baker all`  *)
(* after another, and what it does to the sysroot.                         *)
(*                                                                         *)
(* A run resolves a build order and takes every component of it through    *)
(* fetch, configure, build and install.  A step of a recipe may raise, and *)
(* the process may be killed between or in the middle of any two steps.    *)
(*                                                                         *)
(* An install is not confined to the component's own files: glibc-blueyos  *)
(* puts its own directory in the place of sysroot/lib, and the shell and   *)
(* service recipes rewrite files that other recipes have installed.        *)
(*                                                                         *)
(* The resolver is used through what TopologicalSort is shown to           *)
(* guarantee: any order of the closure that puts prerequisites first, or   *)
(* an error when there is a cycle.                                         *)
(***************************************************************************)
EXTENDS DependencyGraph

CONSTANTS
    Component,    \* component names
    Recipe,       \* the components that have a registered recipe
    Graph,        \* the dependency graphs considered
    Config,       \* the component lists of baker.yaml considered
    Checkout,     \* the state of the source checkouts before the first run
    Place,        \* lib, and the other directories that are told apart
    InstallsTo,   \* the places a component's install() copies files to
    Clears,       \* the places it first removes with all they hold
    Edits,        \* the files of others that it rewrites afterwards
    MaySkip,      \* recipes whose install() returns when it finds no binary
    NoTarget,     \* BuildStage.target_component is None
    MaxRuns       \* bound: how many times the stage is run

ASSUME RecipeAssumption ==
    /\ IsFiniteSet(Component)
    /\ Recipe \subseteq Component
    /\ MaySkip \subseteq Recipe
    /\ NoTarget \notin Component
    /\ MaxRuns \in Nat

\* Only a recipe can declare prerequisites (build_graph_from_recipes).
ASSUME GraphAssumption ==
    /\ Graph \subseteq [Component -> SUBSET Component]
    /\ \A g \in Graph : \A c \in Component \ Recipe : g[c] = {}

\* <<c, place>>: the files of c in that place.
Part == Component \X Place

ASSUME InstallAssumption ==
    /\ InstallsTo \in [Component -> SUBSET Place]
    /\ Clears \in [Component -> SUBSET Place]
    /\ \A c \in Component : Clears[c] \subseteq InstallsTo[c]
    /\ Edits \in [Component -> SUBSET Part]
    /\ \A c \in Component : \A p \in Edits[c] : p[1] # c

\* No git checkout, a branch other than main, main behind or at origin/main.
CheckoutState == {"none", "side", "behind", "current"}

ASSUME ConfigAssumption ==
    /\ Config \subseteq [enabled : SUBSET Component, exclude : SUBSET Component]
    /\ Checkout \in [Component -> CheckoutState]

VARIABLES
    deps,       \* the declared dependencies of the recipes
    config,     \* cfg.components that are enabled, and cfg.exclude
    target,     \* BuildStage.target_component
    withDeps,   \* BuildStage.include_dependencies
    runs,       \* number of runs started
    pc,         \* where BuildStage.run is
    order,      \* build_order
    pos,        \* the component of build_order being handled
    step,       \* its next step
    failed,     \* the failed list
    outcome,    \* how the last run ended
    progress,   \* steps completed by each component in this run
    delivered,  \* components whose install() wrote the sysroot in this run
    checkout,   \* state of each component's source checkout
    sysroot,    \* what it holds of each part: nothing, all of it, or "torn",
                \* when any file may be missing, cut short or an older one
    stale       \* <<c, d>>: c was built against a d that was replaced since

inputs == <<deps, config>>
request == <<target, withDeps>>
disk == <<checkout, sysroot, stale>>
vars == <<inputs, request, runs, pc, order, pos, step, failed, outcome,
          progress, delivered, disk>>

Steps == <<"fetch", "configure", "build", "install">>

Init ==
    /\ deps \in Graph
    /\ config \in Config
    /\ target = NoTarget /\ withDeps = FALSE
    /\ runs = 0
    /\ pc = "idle"
    /\ order = <<>> /\ pos = 1 /\ step = 1
    /\ failed = {}
    /\ outcome = "none"
    /\ progress = [c \in Component |-> 0]
    /\ delivered = {}
    /\ checkout = Checkout
    /\ sysroot = [p \in Part |-> "absent"]
    /\ stale = {}

-----------------------------------------------------------------------------
(***************************************************************************)
(* Choosing what to build.                                                 *)
(***************************************************************************)

EnabledNames == config.enabled \ config.exclude

\* What is given to resolve_build_order.
Asked(t) == IF t = NoTarget THEN EnabledNames ELSE {t}

Resolved(t) == Closure(deps, Asked(t))

\* Mutant: the names of the closure, as they come.
BuildOrdersUnsorted(t, w) ==
    IF t # NoTarget /\ ~ w THEN {<<t>>}
    ELSE LET R == Resolved(t) IN {s \in [1 .. Cardinality(R) -> R] : NoRepeats(s)}

\* The values build_order can have; a lone target is not resolved at all.
BuildOrders(t, w) ==
    IF t # NoTarget /\ ~ w THEN {<<t>>} ELSE Linearizations(deps, Resolved(t))

\* Mutant: a target is not looked up in the list of enabled components.
RefusedWithoutRecipe(t, w) ==
    \/ t # NoTarget /\ t \notin Recipe
    \/ BuildOrders(t, w) = {}

Refused(t, w) ==
    \/ t # NoTarget /\ t \notin EnabledNames
    \/ t # NoTarget /\ t \notin Recipe
    \/ BuildOrders(t, w) = {}

\* What every run does first: main sets the class attributes, run() forgets
\* what an earlier run left in its locals.
Start(t, w) ==
    /\ pc = "idle"
    /\ runs < MaxRuns
    /\ w => t # NoTarget
    /\ runs' = runs + 1
    /\ target' = t
    /\ withDeps' = w
    /\ failed' = {}
    /\ delivered' = {}
    /\ progress' = [c \in Component |-> 0]
    /\ pos' = 1
    /\ step' = 1
    /\ UNCHANGED <<inputs, disk>>

\* No component is enabled: a warning, and the stage has succeeded.
NothingEnabled(t, w) ==
    /\ Start(t, w)
    /\ EnabledNames = {}
    /\ order' = <<>>
    /\ outcome' = "success"
    /\ UNCHANGED pc

\* The target is not enabled or has no recipe, or there is a cycle.
Refuse(t, w) ==
    /\ Start(t, w)
    /\ EnabledNames # {}
    /\ Refused(t, w)
    /\ order' = <<>>
    /\ outcome' = "failure"
    /\ UNCHANGED pc

Begin(t, w) ==
    /\ Start(t, w)
    /\ EnabledNames # {}
    /\ ~ Refused(t, w)
    /\ order' \in BuildOrders(t, w)
    /\ outcome' = "none"
    /\ pc' = IF t = NoTarget THEN "building" ELSE "refreshing"

-----------------------------------------------------------------------------
(***************************************************************************)
(* The update check that precedes a targeted build.                        *)
(***************************************************************************)

Current == order[pos]

\* _refresh_repo_main: only a checkout that is on main and behind can move,
\* and any git command may fail, which is only logged.
Refresh ==
    /\ pc = "refreshing"
    /\ pos <= Len(order)
    /\ \/ UNCHANGED checkout
       \/ /\ Current \in Recipe
          /\ checkout[Current] = "behind"
          /\ checkout' = [checkout EXCEPT ![Current] = "current"]
    /\ pos' = pos + 1
    /\ UNCHANGED <<inputs, request, runs, pc, order, step, failed, outcome,
                   progress, delivered, sysroot, stale>>

StartBuilding ==
    /\ pc = "refreshing"
    /\ pos > Len(order)
    /\ pc' = "building"
    /\ pos' = 1
    /\ UNCHANGED <<inputs, request, runs, order, step, failed, outcome,
                   progress, delivered, disk>>

-----------------------------------------------------------------------------
(***************************************************************************)
(* The build loop.                                                         *)
(***************************************************************************)

Building == pc = "building" /\ pos <= Len(order)

NextComponent == pos' = pos + 1 /\ step' = 1

\* A component without a recipe is skipped with a warning.
SkipUnknown ==
    /\ Building
    /\ Current \notin Recipe
    /\ NextComponent
    /\ UNCHANGED <<inputs, request, runs, pc, order, failed, outcome,
                   progress, delivered, disk>>

\* The files install() copies into the sysroot, ...
Own(c) == {c} \X InstallsTo[c]

\* ... those that go because it replaces the directory they are in, ...
Cleared(c) == {p \in Part : p[1] # c /\ p[2] \in Clears[c]}

\* ... and those that it reads, changes and writes back.
Edited(c) == Edits[c]

\* What was built against the old files of c is stale once they change.
Outdated(c) ==
    {<<e, c>> : e \in {e \in Component \ {c} :
                        c \in deps[e] /\ \E p \in Own(e) : sysroot[p] # "absent"}}

Copied(c) ==
    [p \in Part |-> IF p \in Own(c) THEN "whole"
                    ELSE IF p \in Cleared(c) THEN "absent" ELSE sysroot[p]]

\* install() has copied all its files.
Replace(c) ==
    /\ sysroot' = Copied(c)
    /\ stale' = IF Own(c) = {} THEN stale
                ELSE {p \in stale : p[1] # c} \cup Outdated(c)

\* install() stops while it removes and copies files, ...
TearCopy(c) ==
    \E hit \in SUBSET (Own(c) \cup {p \in Cleared(c) : sysroot[p] # "absent"}) :
        /\ sysroot' = [p \in Part |-> IF p \in hit THEN "torn" ELSE sysroot[p]]
        /\ stale' = IF hit \cap Own(c) = {} THEN stale ELSE stale \cup Outdated(c)

\* ... or while it rewrites a file of another component.
TearEdit(c) ==
    \E p \in Edited(c) :
        /\ sysroot[p] # "absent"
        /\ sysroot' = [Copied(c) EXCEPT ![p] = "torn"]
        /\ stale' = {q \in stale : q[1] # c} \cup Outdated(c)

Tear(c) == TearCopy(c) \/ TearEdit(c)

\* fetch(), configure() or build() returns: on to the next step.
Advance ==
    /\ Building
    /\ Current \in Recipe
    /\ Steps[step] # "install"
    /\ progress' = [progress EXCEPT ![Current] = step]
    /\ step' = step + 1
    /\ UNCHANGED <<inputs, request, runs, pc, order, pos, failed, outcome,
                   delivered, disk>>

\* Mutant: a component that is built elsewhere counts as delivered.
InstallAny ==
    /\ Building
    /\ Current \in Recipe
    /\ Steps[step] = "install"
    /\ progress' = [progress EXCEPT ![Current] = step]
    /\ Replace(Current)
    /\ delivered' = delivered \cup {Current}
    /\ NextComponent
    /\ UNCHANGED <<inputs, request, runs, pc, order, failed, outcome, checkout>>

\* install() returns.  That of musl-blueyos is empty and those of most ports
\* only fill a staging directory; a package recipe that does not find what it
\* built returns without a trace.
Install ==
    /\ Building
    /\ Current \in Recipe
    /\ Steps[step] = "install"
    /\ progress' = [progress EXCEPT ![Current] = step]
    /\ \/ /\ Own(Current) # {}
          /\ Replace(Current)
          /\ delivered' = delivered \cup {Current}
       \/ /\ Own(Current) = {} \/ Current \in MaySkip
          /\ UNCHANGED <<sysroot, stale, delivered>>
    /\ NextComponent
    /\ UNCHANGED <<inputs, request, runs, pc, order, failed, outcome, checkout>>

\* Mutant: the exception is logged and nothing else.
RaiseUnnoted ==
    /\ Building
    /\ Current \in Recipe
    /\ UNCHANGED <<failed, sysroot, stale>>
    /\ NextComponent
    /\ UNCHANGED <<inputs, request, runs, pc, order, outcome, progress,
                   delivered, checkout>>

\* Any step raises: the component is noted as failed and the loop goes on.
Raise ==
    /\ Building
    /\ Current \in Recipe
    /\ failed' = failed \cup {Current}
    /\ \/ UNCHANGED <<sysroot, stale>>
       \/ /\ Steps[step] = "install"
          /\ Tear(Current)
    /\ NextComponent
    /\ UNCHANGED <<inputs, request, runs, pc, order, outcome, progress,
                   delivered, checkout>>

Finish ==
    /\ pc = "building"
    /\ pos > Len(order)
    /\ pc' = "idle"
    /\ outcome' = IF failed = {} THEN "success" ELSE "failure"
    /\ UNCHANGED <<inputs, request, runs, order, pos, step, failed,
                   progress, delivered, disk>>

\* The process dies; what is on disk stays.
Kill ==
    /\ pc # "idle"
    /\ pc' = "idle"
    /\ outcome' = "killed"
    /\ \/ UNCHANGED <<sysroot, stale>>
       \/ /\ Building /\ Current \in Recipe
          /\ Steps[step] = "install"
          /\ Tear(Current)
    /\ UNCHANGED <<inputs, request, runs, order, pos, step, failed,
                   progress, delivered, checkout>>

-----------------------------------------------------------------------------

Run == Refresh \/ StartBuilding \/ SkipUnknown \/ Advance \/ Install \/ Raise \/ Finish

Next ==
    \/ \E t \in Component \cup {NoTarget}, w \in BOOLEAN :
           NothingEnabled(t, w) \/ Refuse(t, w) \/ Begin(t, w)
    \/ Run
    \/ Kill

Spec == Init /\ [][Next]_vars

-----------------------------------------------------------------------------
(***************************************************************************)
(* Properties.                                                             *)
(***************************************************************************)

\* The type of the stage's variables and of what it leaves on disk.
TypeOK ==
    /\ deps \in Graph /\ config \in Config
    /\ target \in Component \cup {NoTarget} /\ withDeps \in BOOLEAN
    /\ runs \in 0 .. MaxRuns
    /\ pc \in {"idle", "refreshing", "building"}
    /\ order \in Seq(Component)
    /\ pos \in 1 .. Len(order) + 1
    /\ step \in 1 .. Len(Steps)
    /\ failed \in SUBSET Recipe
    /\ outcome \in {"none", "success", "failure", "killed"}
    /\ progress \in [Component -> 0 .. Len(Steps)]
    /\ delivered \in SUBSET {c \in Recipe : InstallsTo[c] # {}}
    /\ checkout \in [Component -> CheckoutState]
    /\ sysroot \in [Part -> {"absent", "whole", "torn"}]
    /\ stale \in SUBSET (Component \X Component)

\* A component that comes after c in the order has replaced the directory of
\* part p, or was cut short when all that was left to do was to rewrite p.
Disturbed(p, c) ==
    \E i, j \in 1 .. Len(order) :
        /\ i < j /\ order[i] = c
        /\ \/ p \in Cleared(order[j]) /\ progress[order[j]] >= 3
           \/ p \in Edited(order[j]) /\ progress[order[j]] = 3

\* Whatever an earlier run that failed or was killed left in the sysroot, all
\* the files of a component delivered by this run are there, except for what a
\* later one has removed with a whole directory or left half rewritten, and
\* none of its prerequisites was installed anew since it was built.
DeliveredAreCoherent ==
    \A c \in delivered :
        /\ \A p \in Own(c) : sysroot[p] = "whole" \/ Disturbed(p, c)
        /\ \A d \in deps[c] : <<c, d>> \notin stale

\* The stage reports success only if every component it ordered went through
\* all its steps, and each that has files for the sysroot and did not pass its
\* install over was delivered; it reports failure of a build only if some
\* component did not go through.
VerdictIsHonest ==
    LET ordered == Members(order) \cap Recipe IN
    /\ outcome = "success" =>
           /\ \A c \in ordered : progress[c] = Len(Steps)
           /\ {c \in ordered : InstallsTo[c] # {}} \ MaySkip \subseteq delivered
    /\ outcome = "failure" /\ order # <<>> =>
           \E c \in ordered : progress[c] < Len(Steps)

\* c is what was asked for, which is enabled and not excluded, or something
\* later in the order declares it as a prerequisite.
Wanted(c) ==
    /\ Asked(target) \subseteq EnabledNames
    /\ \/ c \in Asked(target)
       \/ \E i, j \in 1 .. Len(order) : i < j /\ order[i] = c /\ c \in deps[order[j]]

\* A component that is disabled or excluded is pulled, built, installed or
\* reported as failed only because one that was asked for needs it.
OnlyWantedAreTouched ==
    [][\A c \in Component :
          \/ progress'[c] > progress[c]
          \/ c \in (failed' \ failed) \cup (delivered' \ delivered)
          \/ checkout'[c] # checkout[c]
          => Wanted(c)]_vars
=============================================================================
