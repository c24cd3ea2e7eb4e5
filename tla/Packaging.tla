----------------------------- MODULE Packaging -----------------------------
(***************************************************************************)
(* From a tarball to core/: what the port recipes keep on disk between     *)
(* runs (downloaded tarball, extracted source, staging directory), how     *)
(* package() turns a staging directory or a checkout into a .dpk file, how *)
(* it finds the file it has just made, and what PackageStage copies to     *)
(* core/.                                                                  *)
(*                                                                         *)
(* `baker build --component`, `baker package` and `baker clean` are run in *)
(* any order; versions change between them.  Any step may raise, and the   *)
(* process may die in any of them.                                         *)
(***************************************************************************)
EXTENDS Integers, FiniteSets

CONSTANTS
    Component,   \* what can be packaged
    Configs,     \* the sets of components that a configuration may enable
    Port,        \* ports: from a tarball, packaged from a staging directory
    Cleared,     \* recipes that empty staging and dist directory first
    Picks,       \* how the file made is found: "any", "newest" or "own"
    Pinned,      \* the version the recipe looks for if it picks its "own"
    File,        \* files in a package
    FilesOf,     \* the files that each version installs
    None,        \* the absence of a version, of a file or of a package
    MaxVersion,  \* bound: how often versions change
    MaxStops     \* bound: how often a run is cut short

Version == 1 .. MaxVersion

ASSUME ComponentAssumption ==
    /\ IsFiniteSet(Component)
    /\ Port \subseteq Component
    /\ Configs \subseteq SUBSET Component
    /\ Cleared \subseteq Component \ Port
    /\ Picks \in [Component -> {"any", "newest", "own"}]
    /\ Pinned \in [Component -> Version \cup {None}]

ASSUME FileAssumption ==
    /\ IsFiniteSet(File)
    /\ MaxVersion \in Nat \ {0} /\ MaxStops \in Nat
    /\ FilesOf \in [Version -> SUBSET File]
    /\ None \notin Version \cup [File -> Version \cup {None}]

\* The recipes that are packaged from a directory that install() fills; the
\* others are made anew from their checkout by `make package`.
Staged == Port \cup Cleared

\* A tree of files: the version each one is of.
Tree == [File -> Version \cup {None}]

VARIABLES
    enabled,    \* the components of the configuration that are not excluded
    version,    \* of each component, in its recipe or its checkout
    tarball,    \* build/tarballs, of each port and version
    source,     \* the extracted source, of each port and version
    staged,     \* the files in each staging directory
    dirs,       \* the components that have a staging directory
    artifacts,  \* the .dpk files of each component where it looks for them
    core        \* the .dpk files in core/

VARIABLES
    pc,         \* what is running
    who,        \* the component being built
    todo,       \* what is left of the loop: files, components or packages
    packages,   \* the paths that package() returned
    installed,  \* history: the version of the last install, if it was finished
    stops       \* number of runs cut short

disk == <<tarball, source, staged, dirs, artifacts, core>>
history == <<installed, stops>>
config == <<enabled, version>>
vars == <<config, disk, pc, who, todo, packages, history>>

Empty == [f \in File |-> None]

Init ==
    /\ enabled \in Configs
    /\ version = [c \in Component |-> 1]
    /\ tarball = [c \in Port |-> [v \in Version |-> "absent"]]
    /\ source = [c \in Port |-> [v \in Version |-> "absent"]]
    /\ staged = [c \in Staged |-> Empty] /\ dirs = {}
    /\ artifacts = [c \in Component |-> [v \in Version |-> None]]
    /\ core = [c \in Component |-> [v \in Version |-> None]]
    /\ pc = "idle" /\ who \in Staged /\ todo = {}
    /\ packages = {}
    /\ installed = [c \in Staged |-> None]
    /\ stops = 0

-----------------------------------------------------------------------------
(***************************************************************************)
(* fetch and build.                                                        *)
(***************************************************************************)

Tarball(c) == tarball[c][version[c]]
Source(c) == source[c][version[c]]

\* `baker build` of one component after the other, or with --component c
StartBuild(c) ==
    /\ pc = "idle"
    /\ c \in enabled
    /\ who' = c
    /\ pc' = IF c \in Port THEN "fetching" ELSE "building"
    /\ UNCHANGED <<config, disk, todo, packages, history>>

Download ==
    /\ pc = "fetching"
    /\ Tarball(who) = "absent"
    /\ tarball' = [tarball EXCEPT ![who][version[who]] = "whole"]
    /\ UNCHANGED <<config, source, staged, dirs, artifacts, core, pc, who, todo,
                   packages, history>>

\* urlretrieve raises before it opens the file, or in the middle of it.
DownloadFails ==
    /\ pc = "fetching"
    /\ Tarball(who) = "absent"
    /\ \E t \in {"absent", "torn"} : tarball' = [tarball EXCEPT ![who][version[who]] = t]
    /\ pc' = "idle"
    /\ UNCHANGED <<config, source, staged, dirs, artifacts, core, who, todo,
                   packages, history>>

\* Mutant: members are written as they are read.
ExtractAnything ==
    /\ pc = "fetching"
    /\ Tarball(who) # "absent" /\ Source(who) = "absent"
    /\ source' = [source EXCEPT ![who][version[who]] = Tarball(who)]
    /\ pc' = "building"
    /\ UNCHANGED <<config, tarball, staged, dirs, artifacts, core, who, todo, packages, history>>

\* safe_extract reads the list of members, to its end, before it writes.
Extract ==
    /\ pc = "fetching"
    /\ Tarball(who) = "whole" /\ Source(who) = "absent"
    /\ source' = [source EXCEPT ![who][version[who]] = "whole"]
    /\ pc' = "building"
    /\ UNCHANGED <<config, tarball, staged, dirs, artifacts, core, who, todo,
                   packages, history>>

ExtractFails ==
    /\ pc = "fetching"
    /\ Tarball(who) = "torn" /\ Source(who) = "absent"
    /\ pc' = "idle"
    /\ UNCHANGED <<config, disk, who, todo, packages, history>>

\* A source directory that is there is taken as it is.
SkipExtract ==
    /\ pc = "fetching"
    /\ Tarball(who) # "absent" /\ Source(who) # "absent"
    /\ pc' = "building"
    /\ UNCHANGED <<config, disk, who, todo, packages, history>>

\* What install() may find to install: everything, but of a source whose
\* extraction was cut short only what could be built, or copied, from it.
Installable(c) ==
    IF c \in Port /\ Source(c) = "partial" THEN SUBSET FilesOf[version[c]]
                                        ELSE {FilesOf[version[c]]}

\* Mutant: install() of a recipe that should clear first installs over what is there.
BuildOver ==
    /\ pc = "building"
    /\ pc' = "installing"
    /\ dirs' = dirs \cup {who}
    /\ installed' = [installed EXCEPT ![who] = None]
    /\ todo' \in Installable(who)
    /\ UNCHANGED <<config, tarball, source, staged, artifacts, core, who, packages, stops>>

\* Mutant: install() does not make the staging directory.
BuildNoStaging ==
    /\ pc = "building"
    /\ pc' = "installing"
    /\ staged' = IF who \in Cleared THEN [staged EXCEPT ![who] = Empty] ELSE staged
    /\ installed' = [installed EXCEPT ![who] = None]
    /\ todo' \in Installable(who)
    /\ UNCHANGED <<config, tarball, source, dirs, artifacts, core, who, packages, stops>>

\* configure() and build() return, as they may for a partial source if what
\* they need is there, and install() begins.
Build ==
    /\ pc = "building"
    /\ pc' = "installing"
    /\ dirs' = dirs \cup {who}
    /\ staged' = IF who \in Cleared THEN [staged EXCEPT ![who] = Empty] ELSE staged
    /\ installed' = [installed EXCEPT ![who] = None]
    /\ todo' \in Installable(who)
    /\ UNCHANGED <<config, tarball, source, artifacts, core, who, packages, stops>>

BuildFails ==
    /\ pc = "building"
    /\ pc' = "idle"
    /\ UNCHANGED <<config, disk, who, todo, packages, history>>

-----------------------------------------------------------------------------
(***************************************************************************)
(* install: make install DESTDIR=staging writes one file after the other   *)
(* over what is there.                                                     *)
(***************************************************************************)

\* Mutant: files that are there already are kept.
InstallMissing(f) ==
    /\ pc = "installing"
    /\ f \in todo
    /\ todo' = todo \ {f}
    /\ staged' = IF staged[who][f] = None
                 THEN [staged EXCEPT ![who][f] = version[who]] ELSE staged
    /\ UNCHANGED <<config, tarball, source, dirs, artifacts, core, pc, who, packages, history>>

InstallFile(f) ==
    /\ pc = "installing"
    /\ f \in todo
    /\ todo' = todo \ {f}
    /\ staged' = [staged EXCEPT ![who][f] = version[who]]
    /\ UNCHANGED <<config, tarball, source, dirs, artifacts, core, pc, who, packages, history>>

EndInstall ==
    /\ pc = "installing"
    /\ todo = {}
    /\ pc' = "idle"
    /\ installed' = [installed EXCEPT ![who] = version[who]]
    /\ UNCHANGED <<config, disk, who, todo, packages, stops>>

-----------------------------------------------------------------------------
(***************************************************************************)
(* `baker package`                                                         *)
(***************************************************************************)

StartPackaging ==
    /\ pc = "idle"
    /\ pc' = "packaging"
    /\ todo' = enabled
    /\ UNCHANGED <<config, disk, who, packages, history>>

\* The tree of a version that `make package` makes from the checkout.
Whole(v) == [f \in File |-> IF f \in FilesOf[v] THEN v ELSE None]

Content(c) == IF c \in Staged THEN staged[c] ELSE Whole(version[c])

\* Mutant: artifacts of earlier runs are left where they are.
KeepArtifacts(c) == artifacts[c]

\* Stale artifacts that package() removes: all of them, those of its version, or none.
ClearArtifacts(c) ==
    [v \in Version |->
        IF c \in Cleared \/ (Picks[c] = "own" /\ v = Pinned[c]) THEN None ELSE artifacts[c][v]]

AfterMaking(c) == [ClearArtifacts(c) EXCEPT ![version[c]] = Content(c)]

\* The versions of the files among which package() finds the one it returns.
\* The recipe that looks for its own version refuses to choose among others.
Found(c) ==
    LET there == {v \in Version : AfterMaking(c)[v] # None}
    IN  CASE Picks[c] = "newest" -> {version[c]}
          [] Picks[c] = "own" /\ Pinned[c] \in there -> {Pinned[c]}
          [] Picks[c] = "own" /\ Pinned[c] \notin there /\ Cardinality(there) > 1 -> {}
          [] OTHER -> there

Package(c) ==
    /\ pc = "packaging"
    /\ c \in todo
    /\ c \in Staged => c \in dirs
    /\ \E v \in Found(c) : packages' = packages \cup {<<c, v>>}
    /\ artifacts' = [artifacts EXCEPT ![c] = AfterMaking(c)]
    /\ todo' = todo \ {c}
    /\ UNCHANGED <<config, tarball, source, staged, dirs, core, pc, who, history>>

\* package() raises, which is logged: before, in or after the making.
PackageFails(c) ==
    /\ pc = "packaging"
    /\ c \in todo
    /\ \/ UNCHANGED artifacts
       \/ artifacts' = [artifacts EXCEPT ![c] = ClearArtifacts(c)]
       \/ /\ c \in Staged => c \in dirs
          /\ Found(c) = {}
          /\ artifacts' = [artifacts EXCEPT ![c] = AfterMaking(c)]
    /\ todo' = todo \ {c}
    /\ UNCHANGED <<config, tarball, source, staged, dirs, core, pc, who, packages, history>>

StartCopying ==
    /\ pc = "packaging"
    /\ todo = {}
    /\ pc' = "copying"
    /\ todo' = packages
    /\ UNCHANGED <<config, disk, who, packages, history>>

\* _copy_to_core; a package may replace one of the same name.
Copy(p) ==
    /\ pc = "copying"
    /\ p \in todo
    /\ core' = [core EXCEPT ![p[1]][p[2]] = artifacts[p[1]][p[2]]]
    /\ todo' = todo \ {p}
    /\ UNCHANGED <<config, tarball, source, staged, dirs, artifacts, pc, who, packages, history>>

EndPackaging ==
    /\ pc = "copying"
    /\ todo = {}
    /\ pc' = "idle"
    /\ packages' = {}
    /\ UNCHANGED <<config, disk, who, todo, history>>

-----------------------------------------------------------------------------
(***************************************************************************)
(* Everything else that happens to the disk.                               *)
(***************************************************************************)

\* What a run that is cut short leaves of the file it was writing.
Torn ==
    \/ UNCHANGED disk
    \/ /\ pc = "fetching" /\ Tarball(who) = "absent"
       /\ tarball' = [tarball EXCEPT ![who][version[who]] = "torn"]
       /\ UNCHANGED <<source, staged, dirs, artifacts, core>>
    \/ /\ pc = "fetching" /\ Tarball(who) = "whole" /\ Source(who) = "absent"
       /\ source' = [source EXCEPT ![who][version[who]] = "partial"]
       /\ UNCHANGED <<tarball, staged, dirs, artifacts, core>>
    \/ /\ pc = "installing"
       /\ \E f \in todo : staged' = [staged EXCEPT ![who][f] = None]
       /\ UNCHANGED <<tarball, source, dirs, artifacts, core>>
    \/ /\ pc = "packaging"
       /\ \E c \in todo : artifacts' = [artifacts EXCEPT ![c][version[c]] = Empty]
       /\ UNCHANGED <<tarball, source, staged, dirs, core>>
    \/ /\ pc = "copying"
       /\ \E p \in todo : core' = [core EXCEPT ![p[1]][p[2]] = Empty]
       /\ UNCHANGED <<tarball, source, staged, dirs, artifacts>>

\* A step raises or the process dies.
Stop ==
    /\ pc # "idle"
    /\ stops < MaxStops
    /\ Torn
    /\ pc' = "idle"
    /\ todo' = {} /\ packages' = {}
    /\ stops' = stops + 1
    /\ UNCHANGED <<config, who, installed>>

\* `baker clean` removes build/, where Cleared recipes keep their .dpk files,
\* and with --output also output/, where those of ports are.
Clean ==
    /\ pc = "idle"
    /\ tarball' = [c \in Port |-> [v \in Version |-> "absent"]]
    /\ source' = [c \in Port |-> [v \in Version |-> "absent"]]
    /\ staged' = [c \in Staged |-> Empty] /\ dirs' = {}
    /\ installed' = [c \in Staged |-> None]
    /\ \E gone \in {Cleared, Cleared \cup Port} :
          artifacts' = [c \in Component |->
                          IF c \in gone THEN [v \in Version |-> None] ELSE artifacts[c]]
    /\ UNCHANGED <<config, core, pc, who, todo, packages, stops>>

\* The recipe of a port is edited, or a checkout moves.
Bump(c) ==
    /\ pc = "idle"
    /\ c \in enabled
    /\ version[c] < MaxVersion
    /\ version' = [version EXCEPT ![c] = @ + 1]
    /\ UNCHANGED <<enabled, disk, pc, who, todo, packages, history>>

-----------------------------------------------------------------------------

BuildStep ==
    \/ Download \/ DownloadFails \/ Extract \/ ExtractFails \/ SkipExtract
    \/ Build \/ BuildFails
    \/ \E f \in File : InstallFile(f)
    \/ EndInstall

PackageStep ==
    \/ \E c \in Component : Package(c) \/ PackageFails(c)
    \/ StartCopying
    \/ \E p \in packages : Copy(p)
    \/ EndPackaging

Next ==
    \/ \E c \in Staged : StartBuild(c)
    \/ StartPackaging
    \/ BuildStep
    \/ PackageStep
    \/ Stop
    \/ Clean
    \/ \E c \in Component : Bump(c)

Spec == Init /\ [][Next]_vars

\* A step of the build that a damaged tarball or source does not stand against.
Succeeds ==
    \/ Download
    \/ Extract
    \/ Build /\ (who \in Port => Source(who) = "whole")

\* A run goes on until it ends; somebody builds and packages again and again,
\* and no download, build or packaging fails every time.
Fairness ==
    /\ WF_vars(BuildStep \/ PackageStep)
    /\ \A c \in Staged : SF_vars(StartBuild(c)) /\ SF_vars(Succeeds /\ who = c)
    /\ SF_vars(StartPackaging)
    /\ \A c \in Component : SF_vars(Package(c))

FairSpec == Spec /\ Fairness

-----------------------------------------------------------------------------
(***************************************************************************)
(* Properties.                                                             *)
(***************************************************************************)

PackageFile == Tree \cup {None}

\* The types of what is on disk and of the variables of a run.
TypeOK ==
    /\ enabled \in Configs
    /\ version \in [Component -> Version]
    /\ tarball \in [Port -> [Version -> {"absent", "torn", "whole"}]]
    /\ source \in [Port -> [Version -> {"absent", "partial", "whole"}]]
    /\ staged \in [Staged -> Tree] /\ dirs \in SUBSET Staged
    /\ artifacts \in [Component -> [Version -> PackageFile]]
    /\ core \in [Component -> [Version -> PackageFile]]
    /\ pc \in {"idle", "fetching", "building", "installing", "packaging", "copying"}
    /\ who \in Staged
    /\ packages \in SUBSET (Component \X Version)
    /\ todo \in (SUBSET File) \cup (SUBSET Component) \cup (SUBSET (Component \X Version))
    /\ installed \in [Staged -> Version \cup {None}]
    /\ stops \in 0 .. MaxStops

HasAllOf(tree, v) == \A f \in FilesOf[v] : tree[f] = v

Packaged == {p[1] : p \in packages}

\* When the package stage ends, core/ has the package just made of each
\* component whose package() returned, whatever files of other versions and
\* runs lie around (for recipes that do not pick any file that matches).
PackagedReachesCore ==
    [][EndPackaging => \A c \in Packaged :
          Picks[c] # "any" \/ c \in Cleared =>
              core[c][version[c]] = Content(c)]_vars

\* After an install that finished, from a source that is whole, the package has
\* every file of the version, over whatever interrupted installs and older
\* versions left in the staging directory.  (From a source whose extraction was
\* cut short an install may end, and a package be made, with files missing.)
PackagesAreComplete ==
    [][\A c \in Component :
          /\ Package(c)
          /\ c \in Staged => installed[c] = version[c]
          /\ c \in Port => Source(c) = "whole"
          => HasAllOf(artifacts'[c][version[c]], version[c])]_vars

\* And the packages of recipes that clear first have no other file.
ClearedAreExact ==
    \A c \in Cleared : installed[c] # None => staged[c] = Whole(installed[c])

Healthy(c) ==
    c \in Port => Tarball(c) \in {"absent", "whole"} /\ Source(c) \in {"absent", "whole"}

Current(c) == artifacts[c][version[c]] # None /\ HasAllOf(artifacts[c][version[c]], version[c])

\* Once nobody cleans any more, every component is packaged whole in its
\* current version again and again, unless its tarball or source is damaged.
\* (A recipe that looks for its own version and finds two others raises for
\* ever.)
HealthyIsPackaged ==
    <>[][~ Clean]_vars =>
        \A c \in Component : []<>(c \in enabled /\ Picks[c] # "own" => Current(c) \/ ~ Healthy(c))

\* "All produced packages are copied to core/" (README.md:212-213): when the
\* stage ends, core/ has the package just made of every component for which
\* package() returned.
AllReachCore ==
    [][EndPackaging => \A c \in Packaged : core[c][version[c]] = Content(c)]_vars
=============================================================================
